--------------------------- MODULE XPilot4ListProofs --------------------------
(***************************************************************************)
(* While the pipe and the processes last, a complete list is accurate. The *)
(* list is built from entries and events that two threads number and queue *)
(* separately, so the invariant keeps an account of what each number did.  *)
(* The lemmas that end in Accurate are about any companion, any Brain and  *)
(* any account; those that end in List apply them to the actions.          *)
(***************************************************************************)
EXTENDS XPilot4BridgeProofs

-----------------------------------------------------------------------------
(* An account of the controllers, number by number                         *)

\* What holds when a number has been taken: the controllers xPilot shows, the
\* last list whose start has a number, what is left of it, the request it
\* answers, and the number of the last change of connection.
Accounts == [controllers : SUBSET Controllers, listed : SUBSET Controllers,
             left : SUBSET Controllers, request : Nat, cut : Nat]
Accounting == [Nat -> Accounts]

Starts(o) == o.kind = "SnapshotStarted"

\* Outside R the two lists are the same.
Agree(S, T, R) == \A x \in Controllers \ R : x \in S <=> x \in T

\* What the observation o makes of the account p; what makes the Brain ask for a
\* list in any case need not be accounted for.
Accounted(o, p, q) ==
    /\ o.kind \in LiveKinds =>
         /\ q.controllers = (p.controllers \ Remove(o)) \cup Add(o)
         /\ q.listed = p.listed /\ q.left = p.left
         /\ q.request = p.request /\ q.cut = p.cut
    /\ o.kind \in {"SourceAvailable", "IncomingPrivateMessage"} => q = p
    /\ o.kind = "ConnectionStateChanged" => q.cut = o.sequence
    /\ Starts(o) =>
         /\ q.controllers = p.controllers /\ q.cut = p.cut
         /\ q.listed = o.listed /\ q.left = o.listed
         /\ q.request = o.request /\ p.request < o.request
    /\ o.kind = "SnapshotEntry" =>
         /\ q.controllers = p.controllers /\ q.listed = p.listed
         /\ q.left = p.left \ {o.controller} /\ o.controller \in p.listed
         /\ q.request = p.request /\ q.cut = p.cut /\ o.request = p.request
    /\ Completes(o) => q = p /\ p.left = {} /\ o.request = p.request

\* The account says of o what it did; only the Brain's side and greetings have
\* no number.
Recorded(h, o) ==
    /\ o.sequence = 0 => o.kind \in LocalKinds \cup {"Hello", "None"}
    /\ o.sequence # 0 => Accounted(o, h[o.sequence - 1], h[o.sequence])

\* The account is of the companion c, whose xPilot shows the controllers X.
Kept(h, c, X) ==
    /\ h \in Accounting /\ h[c.sequence].controllers = X
    /\ \A n \in 0 .. c.sequence : h[n].cut <= n /\ h[n].request <= h[c.sequence].request

\* The answer in progress is accounted for as far as it is numbered.
Answering(e, c) ==
    /\ Starts(c.taken) => c.answer.phase = "Started"
    /\ c.answer.left \subseteq c.answer.listed
    /\ c.answer.phase = "Started" => c.answer.left = c.answer.listed
    /\ c.answer.phase = "Completed" => c.answer.left = {}
    /\ (\/ c.answer.phase \in {"Entry", "Completed"}
        \/ c.answer.phase = "Started" /\ c.taken # Nothing)
           => /\ e.request = c.answer.request /\ e.listed = c.answer.listed
              /\ e.left = c.answer.left
    /\ (\/ c.answer.phase = "Failed"
        \/ c.answer.phase = "Started" /\ c.taken = Nothing)
           => e.request < c.answer.request

\* Requests are read in the order in which they are made, each once.
Rising(s) == \A i, j \in DOMAIN s : i < j => s[i] < s[j]

Pending(p, l) == Items(p.toCompanion) \cup Items(l.outgoing)

InTurn(e, b, c, p, l) ==
    /\ Rising(p.toCompanion) /\ Rising(l.outgoing)
    /\ \A r \in Items(p.toCompanion), s \in Items(l.outgoing) : r < s
    /\ \A r \in Pending(p, l) : /\ e.request < r
                                /\ c.answer.phase # "None" => c.answer.request < r
    /\ e.request < b.nextRequest

\* What the Brain knows when the account of its last number is e: a list in
\* transfer, or one that needs no other, is right except for the controllers in
\* `raced`. When it asked for a list the last number was a.
Informed(e, a, b, raced) ==
    /\ b.source \/ b.pending \/ ~b.recovery => b.last # 0
    /\ b.pending => b.request = b.nextRequest - 1 /\ e.cut <= a
    /\ b.build.active =>
         /\ b.pending /\ e.request = b.nextRequest - 1
         /\ b.build.entries = e.listed \ e.left
         /\ Agree((e.listed \ b.build.removed) \cup b.build.added, e.controllers, raced)
    /\ ~b.recovery =>
         /\ ~b.pending /\ e.request = b.nextRequest - 1
         /\ Agree(b.list, e.controllers, raced)

\* The controller of the event with number n, if the UI thread still has it.
InHand(c, n) == IF c.held.sequence = n THEN {c.held.controller} ELSE {}

\* The list that starts with number n differs from what xPilot showed then in
\* the controllers R at most, or the connection has changed since it was asked for.
Fresh(h, a, listed, n, R) == h[n].cut > a \/ Agree(listed, h[n].controllers, R)

\* The start of the list that was asked for last is right, or the number before
\* it was overtaken by it: these numbers are Z, and the Brain will miss them.
Starting(h, a, Z, b, c, F) ==
    /\ Z \subseteq Nat \ {0} /\ \A n \in Z : n < c.sequence
    /\ \A y \in F : Starts(y) /\ y.request = b.nextRequest - 1 =>
           y.sequence - 1 \in Z \/ Fresh(h, a, y.listed, y.sequence, c.raced)
    /\ \A y \in F : Starts(y) /\ y.sequence - 1 \in Z => b.last # y.sequence - 1
    /\ Starts(c.taken) =>
         /\ c.taken.sequence - 1 \notin Z
         /\ c.taken.request = b.nextRequest - 1 =>
                Fresh(h, a, c.taken.listed, c.taken.sequence,
                      c.raced \cup InHand(c, c.taken.sequence - 1))
    /\ c.answer.phase = "Started" /\ c.taken = Nothing
         /\ c.answer.request = b.nextRequest - 1 =>
                Fresh(h, a, c.answer.listed, c.sequence,
                      c.raced \cup InHand(c, c.sequence))

\* No other has the number the UI thread has in hand, which starts no list.
Singular(b, c, F) ==
    c.held # Nothing =>
        /\ ~Starts(c.held)
        /\ c.held.sequence # 0 /\ c.held.sequence # b.last
        /\ c.held.sequence # c.taken.sequence
        /\ \A o \in F : o.sequence # c.held.sequence

\* The start of a list does not come behind a number it has overtaken.
Behind(x, y, Z) == Starts(y) /\ x.sequence \in Z => x.sequence + 1 # y.sequence

Trailing(s, Z)    == \A i, j \in DOMAIN s : i < j => Behind(s[i], s[j], Z)
Clear(X, Y, Z)    == \A x \in X, y \in Y : Behind(x, y, Z)
Trail(a, p, q, Z) ==
    /\ Trailing(a, Z) /\ Trailing(p, Z) /\ Trailing(q, Z)
    /\ Clear(Items(a), Items(p), Z) /\ Clear(Items(a), Items(q), Z)
    /\ Clear(Items(p), Items(q), Z)

\* All of the account that does not speak of requests and order.
Accurate(h, a, Z, b, c, X, F) ==
    /\ Kept(h, c, X) /\ Answering(h[c.sequence], c)
    /\ \A o \in F \cup {c.held, c.taken} : Recorded(h, o)
    /\ a \in Nat /\ a <= c.sequence
    /\ Informed(h[b.last], a, b, c.raced)
    /\ Starting(h, a, Z, b, c, F) /\ Singular(b, c, F)

\* There is an account that all agree with.
ListBody ==
    \E h \in Accounting, a \in Nat, Z \in SUBSET Nat :
        /\ Accurate(h, a, Z, brain, companion, xpilot.controllers, OnWay)
        /\ InTurn(h[companion.sequence], brain, companion, pipe, client)
        /\ Trail(client.incoming.items, pipe.toBrain, companion.queue.items, Z)

ListInv == companion.runner # "Stopped" => ListBody

-----------------------------------------------------------------------------
(* The order of numbers that were overtaken                                *)

\* What may come after all that is in a sequence may join it.
LEMMA TrailingAppend ==
    ASSUME NEW S, NEW Z, NEW s \in Seq(S), NEW o \in S, Trailing(s, Z), Clear(Items(s), {o}, Z)
    PROVE  Trailing(Append(s, o), Z)
<1> DEFINE t == Append(s, o)
<1>1. /\ Len(s) \in Nat /\ DOMAIN s = 1 .. Len(s) /\ DOMAIN t = 1 .. Len(s) + 1
      /\ t[Len(s) + 1] = o /\ \A i \in 1 .. Len(s) : t[i] = s[i]
  BY AppendProperties, LenProperties
<1> HIDE DEF t
<1>2. ASSUME NEW i \in DOMAIN t, NEW j \in DOMAIN t, i < j PROVE Behind(t[i], t[j], Z)
  <2>1. i \in 1 .. Len(s) /\ t[i] = s[i]
    BY <1>1, <1>2
  <2>2. s[i] \in Items(s)
    BY <1>1, <2>1 DEF Items
  <2>3. CASE j = Len(s) + 1
    BY <1>1, <2>1, <2>2, <2>3 DEF Clear
  <2>4. CASE j # Len(s) + 1
    <3>1. j \in 1 .. Len(s) /\ t[j] = s[j]
      BY <1>1, <2>4
    <3> QED BY <1>1, <1>2, <2>1, <3>1 DEF Trailing
  <2> QED BY <2>3, <2>4
<1> QED BY <1>2 DEF Trailing, t

\* The first of an orderly sequence may come before the others.
LEMMA TrailingTake ==
    ASSUME NEW S, NEW Z, NEW s \in Seq(S), s # <<>>, Trailing(s, Z)
    PROVE  Trailing(Tail(s), Z) /\ Clear({Head(s)}, Items(Tail(s)), Z)
<1> DEFINE h == Head(s)
           t == Tail(s)
<1>1. /\ Len(s) \in Nat \ {0} /\ DOMAIN s = 1 .. Len(s)
      /\ DOMAIN t = 1 .. Len(s) - 1 /\ h = s[1]
      /\ \A i \in 1 .. Len(s) - 1 : t[i] = s[i + 1]
  <2>1. /\ h \in S /\ t \in Seq(S) /\ Len(t) = Len(s) - 1
        /\ \A i \in 1 .. Len(t) : t[i] = s[i + 1]
    BY HeadTailProperties
  <2>2. Len(s) \in Nat \ {0} /\ DOMAIN s = 1 .. Len(s) /\ DOMAIN t = 1 .. Len(t)
    BY <2>1, LenProperties, EmptySeq
  <2>3. h = s[1]
    OBVIOUS
  <2> QED BY <2>1, <2>2, <2>3
<1> HIDE DEF h, t
<1>2. ASSUME NEW i \in DOMAIN t, NEW j \in DOMAIN t, i < j PROVE Behind(t[i], t[j], Z)
  <2>1. /\ i + 1 \in DOMAIN s /\ j + 1 \in DOMAIN s /\ i + 1 < j + 1
        /\ t[i] = s[i + 1] /\ t[j] = s[j + 1]
    BY <1>1, <1>2
  <2> QED BY <2>1 DEF Trailing
<1>3. ASSUME NEW x \in Items(t) PROVE Behind(h, x, Z)
  <2>1. PICK i \in DOMAIN t : x = t[i]
    BY DEF Items
  <2>2. 1 \in DOMAIN s /\ i + 1 \in DOMAIN s /\ 1 < i + 1 /\ x = s[i + 1]
    BY <1>1, <2>1
  <2> QED BY <1>1, <2>2 DEF Trailing
<1> QED BY <1>2, <1>3 DEF Trailing, Clear, h, t

\* An observation may join the companion's queue when all may come before it.
LEMMA TrailAppend ==
    ASSUME NEW S, NEW Z, NEW a \in Seq(S), NEW p \in Seq(S), NEW q \in Seq(S), NEW o \in S,
           Trail(a, p, q, Z), Clear((Items(a) \cup Items(p)) \cup Items(q), {o}, Z)
    PROVE  Trail(a, p, Append(q, o), Z)
<1>1. Clear(Items(a), {o}, Z) /\ Clear(Items(p), {o}, Z) /\ Clear(Items(q), {o}, Z)
  BY DEF Clear
<1>2. Trailing(Append(q, o), Z)
  BY <1>1, TrailingAppend DEF Trail
<1>3. Items(Append(q, o)) = Items(q) \cup {o}
  BY ItemsAppend
<1> QED BY <1>1, <1>2, <1>3 DEF Trail, Clear

\* What moves from one queue to the one before it stays in line.
LEMMA TrailMoves ==
    ASSUME NEW S, NEW Z, NEW s \in Seq(S), NEW t \in Seq(S), t # <<>>,
           Trailing(s, Z), Trailing(t, Z), Clear(Items(s), Items(t), Z)
    PROVE  LET u == Append(s, Head(t))
               v == Tail(t)
           IN  /\ Trailing(u, Z) /\ Trailing(v, Z) /\ Clear(Items(u), Items(v), Z)
               /\ Items(u) = Items(s) \cup {Head(t)}
               /\ Items(t) = {Head(t)} \cup Items(v)
<1> DEFINE h == Head(t)
           u == Append(s, h)
           v == Tail(t)
<1>1. h \in S /\ v \in Seq(S) /\ Items(t) = {h} \cup Items(v)
  BY ItemsTake
<1>2. Trailing(v, Z) /\ Clear({h}, Items(v), Z)
  BY TrailingTake
<1> HIDE DEF h, v
<1>3. Clear(Items(s), {h}, Z) /\ Clear(Items(s), Items(v), Z)
  BY <1>1 DEF Clear
<1>4. Trailing(u, Z) /\ Items(u) = Items(s) \cup {h}
  BY <1>1, <1>3, TrailingAppend, ItemsAppend
<1>5. Clear(Items(u), Items(v), Z)
  BY <1>2, <1>3, <1>4 DEF Clear
<1> QED BY <1>1, <1>2, <1>4, <1>5 DEF h, v

\* The companion writes to the pipe.
LEMMA TrailWrites ==
    ASSUME NEW S, NEW Z, NEW a \in Seq(S), NEW p \in Seq(S), NEW q \in Seq(S), q # <<>>,
           Trail(a, p, q, Z)
    PROVE  Trail(a, Append(p, Head(q)), Tail(q), Z)
<1> DEFINE h == Head(q)
           u == Append(p, h)
           v == Tail(q)
<1>1. /\ Trailing(u, Z) /\ Trailing(v, Z) /\ Clear(Items(u), Items(v), Z)
      /\ Items(u) = Items(p) \cup {h} /\ Items(q) = {h} \cup Items(v)
  BY TrailMoves DEF Trail
<1> HIDE DEF h, u, v
<1>2. Clear(Items(a), Items(u), Z) /\ Clear(Items(a), Items(v), Z)
  BY <1>1 DEF Trail, Clear
<1>3. Trail(a, u, v, Z)
  BY <1>1, <1>2 DEF Trail
<1> QED BY <1>3 DEF h, u, v

\* The client reads from the pipe.
LEMMA TrailReads ==
    ASSUME NEW S, NEW Z, NEW a \in Seq(S), NEW p \in Seq(S), NEW q \in Seq(S), p # <<>>,
           Trail(a, p, q, Z)
    PROVE  Trail(Append(a, Head(p)), Tail(p), q, Z) /\ Trail(a, Tail(p), q, Z)
<1> DEFINE h == Head(p)
           u == Append(a, h)
           v == Tail(p)
<1>1. /\ Trailing(u, Z) /\ Trailing(v, Z) /\ Clear(Items(u), Items(v), Z)
      /\ Items(u) = Items(a) \cup {h} /\ Items(p) = {h} \cup Items(v)
  BY TrailMoves DEF Trail
<1> HIDE DEF h, u, v
<1>2. /\ Clear(Items(u), Items(q), Z) /\ Clear(Items(v), Items(q), Z)
      /\ Clear(Items(a), Items(v), Z)
  BY <1>1 DEF Trail, Clear
<1>3. Trail(u, v, q, Z) /\ Trail(a, v, q, Z)
  BY <1>1, <1>2 DEF Trail
<1> QED BY <1>3 DEF h, u, v

\* The Brain takes the first.
LEMMA TrailTakes ==
    ASSUME NEW S, NEW Z, NEW a \in Seq(S), NEW p \in Seq(S), NEW q \in Seq(S), a # <<>>,
           Trail(a, p, q, Z)
    PROVE  /\ Trail(Tail(a), p, q, Z)
           /\ Clear({Head(a)}, (Items(Tail(a)) \cup Items(p)) \cup Items(q), Z)
<1> DEFINE h == Head(a)
           v == Tail(a)
<1>1. Items(a) = {h} \cup Items(v)
  BY ItemsTake
<1>2. Trailing(v, Z) /\ Clear({h}, Items(v), Z)
  BY TrailingTake DEF Trail
<1> HIDE DEF h, v
<1>3. /\ Clear(Items(v), Items(p), Z) /\ Clear(Items(v), Items(q), Z)
      /\ Clear({h}, Items(p), Z) /\ Clear({h}, Items(q), Z)
  BY <1>1 DEF Trail, Clear
<1>4. Trail(v, p, q, Z) /\ Clear({h}, (Items(v) \cup Items(p)) \cup Items(q), Z)
  BY <1>2, <1>3 DEF Trail, Clear
<1> QED BY <1>4 DEF h, v

-----------------------------------------------------------------------------
(* What an observation does to the Brain's list                            *)

\* c is b as far as the list is concerned.
SameList(b, c) ==
    /\ c.list = b.list /\ c.build = b.build /\ c.source = b.source /\ c.last = b.last
    /\ c.recovery = b.recovery /\ c.pending = b.pending
    /\ c.request = b.request /\ c.nextRequest = b.nextRequest

\* A Brain that will ask for a list and has none in transfer.
Wants(b) ==
    /\ b.recovery /\ ~b.pending /\ ~b.build.active
    /\ b.source => b.last # 0

\* Such a Brain claims nothing, whatever the account.
LEMMA WantsInformed ==
    ASSUME NEW b, Wants(b)
    PROVE  \A e, a, R : Informed(e, a, b, R)
  BY DEF Wants, Informed

\* What is the same is as well informed.
LEMMA SameInformed ==
    ASSUME NEW b, NEW c, SameList(b, c), NEW e, NEW a, NEW R, Informed(e, a, b, R)
    PROVE  Informed(e, a, c, R)
  BY DEF SameList, Informed

\* A list that is right is right if more controllers are excepted.
LEMMA InformedLess ==
    ASSUME NEW b, NEW e, NEW a, NEW R, NEW Q, Informed(e, a, b, R), R \subseteq Q
    PROVE  Informed(e, a, b, Q)
<1>1. \A S, T : Agree(S, T, R) => Agree(S, T, Q)
  BY DEF Agree
<1> QED BY <1>1 DEF Informed

\* Marking makes the Brain want a list.
LEMMA MarkWants ==
    ASSUME NEW b, Sound(b), b.source => b.last # 0
    PROVE  LET m == MarkRecoveryRequired(b)
           IN  Wants(m) /\ m \in Brains /\ m.source = b.source /\ m.last = b.last
<1>1. b \in Brains /\ MarkRecoveryRequired(b) \in Brains
  BY MarkSound DEF Sound
<1>2. LET m == MarkRecoveryRequired(b)
      IN  /\ m.recovery /\ ~m.pending /\ m.build = NoBuild
          /\ m.source = b.source /\ m.last = b.last
  BY <1>1 DEF MarkRecoveryRequired, Brains
<1> QED BY <1>1, <1>2, NoBuildType DEF Wants

\* So does losing the list.
LEMMA UnavailableWants ==
    ASSUME NEW b, Sound(b), b.source => b.last # 0
    PROVE  Wants(Unavailable(b))
<1> DEFINE m == MarkRecoveryRequired(b)
           u == [m EXCEPT !.complete = FALSE]
<1>1. Wants(m) /\ m \in Brains
  BY MarkWants
<1> HIDE DEF m
<1>2. /\ u.recovery = m.recovery /\ u.pending = m.pending /\ u.build = m.build
      /\ u.source = m.source /\ u.last = m.last
  BY <1>1 DEF Brains
<1>3. Unavailable(b) = u
  BY DEF Unavailable, u, m
<1> HIDE DEF u
<1> QED BY <1>1, <1>2, <1>3 DEF Wants

\* So does losing the transport, which is losing the source.
LEMMA LoseTransportWants ==
    ASSUME NEW b, Sound(b), b.source => b.last # 0
    PROVE  Wants(LoseTransport(b))
<1> DEFINE m == Unavailable(b)
           c == [m EXCEPT !.transport = FALSE, !.source = FALSE,
                          !.network = FALSE, !.deferred = <<>>]
<1>1. m \in Brains /\ Wants(m)
  BY UnavailableSound, UnavailableWants DEF Sound
<1> HIDE DEF m
<1>2. c.recovery = m.recovery /\ c.pending = m.pending /\ c.build = m.build /\ ~c.source
  BY <1>1 DEF Brains
<1>3. LoseTransport(b) = c
  BY DEF LoseTransport, m, c
<1> HIDE DEF c
<1> QED BY <1>1, <1>2, <1>3 DEF Wants

\* So does a change of connection.
LEMMA ConnectionWants ==
    ASSUME NEW b, Sound(b), NEW o \in Observation, b.source => b.last # 0
    PROVE  Wants(ChangeConnection(b, o))
<1> DEFINE connected == o.callsign # NoCallsign
           kept == IF ~connected \/ (b.epoch # 0 /\ b.epoch # o.epoch)
                   THEN <<>> ELSE b.deferred
           m == MarkRecoveryRequired(b)
           now == [m EXCEPT !.epoch = o.epoch, !.network = connected,
                            !.callsign = o.callsign, !.deferred = kept]
<1>1. /\ o.epoch \in Nat /\ o.callsign \in Callsigns \cup {NoCallsign}
      /\ connected \in BOOLEAN /\ kept \in {b.deferred, <<>>}
  BY ObservationFields
<1>2. kept \in Seq([message : Observation, expired : BOOLEAN])
  <2>1. <<>> \in Seq([message : Observation, expired : BOOLEAN])
    OBVIOUS
  <2>2. b.deferred \in Seq([message : Observation, expired : BOOLEAN])
    BY BrainFields DEF Sound, Entries
  <2> HIDE DEF kept
  <2> QED BY <1>1, <2>1, <2>2
<1>3. Sound(m) /\ Wants(m)
  BY MarkSound, MarkWants
<1> HIDE DEF kept, connected, m
<1>4. Sound(now)
  BY <1>1, <1>2, <1>3, ZenonT(60) DEF Sound, Brains
<1>5. /\ now.recovery = m.recovery /\ now.pending = m.pending /\ now.build = m.build
      /\ now.source = m.source /\ now.last = m.last
  BY <1>3 DEF Sound, Brains
<1> HIDE DEF now
<1>6. Wants(now)
  BY <1>3, <1>5 DEF Wants
<1>7. Wants(Unavailable(now))
  BY <1>4, <1>6, UnavailableWants DEF Wants
<1>8. ChangeConnection(b, o) = IF connected THEN now ELSE Unavailable(now)
  BY DEF ChangeConnection, connected, kept, m, now
<1> QED BY <1>6, <1>7, <1>8

\* The kinds that make the Brain want a list in any case.
Upsets(o) ==
    o.kind \notin {"TransportConnected", "Hello", "SourceAvailable", "SnapshotStarted",
                   "SnapshotEntry", "SnapshotCompleted"} \cup LiveKinds

\* They do.
LEMMA UpsetWants ==
    ASSUME NEW b, Sound(b), NEW o \in Observation, b.source => b.last # 0, Upsets(o)
    PROVE  Wants(Observe(b, o))
<1>1. CASE o.kind \in {"TransportDisconnected", "SessionEnded"}
  <2>1. Observe(b, o) = LoseTransport(b)
    BY <1>1 DEF Observe, LiveKinds
  <2> QED BY <2>1, LoseTransportWants
<1>2. CASE o.kind = "ConnectionStateChanged"
  <2>1. Observe(b, o) = ChangeConnection(b, o)
    BY <1>2 DEF Observe, LiveKinds
  <2> QED BY <2>1, ConnectionWants
<1>3. CASE o.kind \notin {"TransportDisconnected", "SessionEnded", "ConnectionStateChanged"}
  <2>1. Observe(b, o) = MarkRecoveryRequired(b)
    BY <1>3 DEF Observe, Upsets
  <2> QED BY <2>1, MarkWants
<1> QED BY <1>1, <1>2, <1>3

\* An event changes neither the needs of the Brain nor its last number.
LEMMA EventFields ==
    ASSUME NEW b \in Brains, NEW o
    PROVE  LET c == ApplyControllerEvent(b, o)
           IN  /\ c.list = (b.list \ Remove(o)) \cup Add(o)
               /\ c.build.active = b.build.active
               /\ b.build.active =>
                    /\ c.build.entries = b.build.entries
                    /\ c.build.added = (b.build.added \ Remove(o)) \cup Add(o)
                    /\ c.build.removed = (b.build.removed \ Add(o)) \cup Remove(o)
               /\ c.source = b.source /\ c.last = b.last /\ c.recovery = b.recovery
               /\ c.pending = b.pending /\ c.request = b.request
               /\ c.nextRequest = b.nextRequest
<1> DEFINE list  == (b.list \ Remove(o)) \cup Add(o)
           added == (b.build.added \ Remove(o)) \cup Add(o)
           removed == (b.build.removed \ Add(o)) \cup Remove(o)
           later == [b.build EXCEPT !.added = added, !.removed = removed]
           build == IF ~b.build.active THEN b.build ELSE later
           c == [b EXCEPT !.list = list, !.build = build]
<1>1. b.build \in Builds
  BY BrainFields
<1> HIDE DEF list, added, removed
<1>2. /\ later.active = b.build.active /\ later.entries = b.build.entries
      /\ later.added = added /\ later.removed = removed
  BY <1>1 DEF Builds
<1>3. /\ build.active = b.build.active
      /\ b.build.active => build = later
  BY <1>2
<1> HIDE DEF later, build
<1>4. /\ c.list = list /\ c.build = build
      /\ c.source = b.source /\ c.last = b.last /\ c.recovery = b.recovery
      /\ c.pending = b.pending /\ c.request = b.request /\ c.nextRequest = b.nextRequest
  BY DEF Brains
<1>5. ApplyControllerEvent(b, o) = c
  BY DEF ApplyControllerEvent, c, list, build, later, added, removed
<1> HIDE DEF c
<1> QED BY <1>2, <1>3, <1>4, <1>5 DEF list, added, removed

\* A list that was right is right after an event, also one that is put together.
LEMMA EventInformed ==
    ASSUME NEW b \in Brains, NEW o \in Proper, NEW p, NEW q, NEW a, NEW R,
           Informed(p, a, b, R), o.kind \in LiveKinds, Accounted(o, p, q)
    PROVE  Informed(q, a, ApplyControllerEvent(b, o), R)
<1> DEFINE c == ApplyControllerEvent(b, o)
<1>1. /\ c.list = (b.list \ Remove(o)) \cup Add(o)
      /\ c.build.active = b.build.active
      /\ b.build.active =>
           /\ c.build.entries = b.build.entries
           /\ c.build.added = (b.build.added \ Remove(o)) \cup Add(o)
           /\ c.build.removed = (b.build.removed \ Add(o)) \cup Remove(o)
      /\ c.source = b.source /\ c.last = b.last /\ c.recovery = b.recovery
      /\ c.pending = b.pending /\ c.request = b.request
      /\ c.nextRequest = b.nextRequest
  BY EventFields
<1> HIDE DEF c
<1>2. /\ q.controllers = (p.controllers \ Remove(o)) \cup Add(o)
      /\ q.listed = p.listed /\ q.left = p.left
      /\ q.request = p.request /\ q.cut = p.cut
  BY DEF Accounted
<1>3. Remove(o) \cap Add(o) = {}
  BY DEF Remove, Add
<1>4. ~b.recovery => Agree(c.list, q.controllers, R)
  <2>1. ~b.recovery => Agree(b.list, p.controllers, R)
    BY DEF Informed
  <2> QED BY <1>1, <1>2, <2>1 DEF Agree
<1>5. b.build.active =>
          Agree((q.listed \ c.build.removed) \cup c.build.added, q.controllers, R)
  <2> SUFFICES ASSUME b.build.active, NEW x \in Controllers \ R
               PROVE  x \in (q.listed \ c.build.removed) \cup c.build.added
                          <=> x \in q.controllers
    BY DEF Agree
  <2>1. x \in (p.listed \ b.build.removed) \cup b.build.added <=> x \in p.controllers
    BY DEF Informed, Agree
  <2>2. CASE x \in Add(o)
    BY <1>1, <1>2, <2>2
  <2>3. CASE x \in Remove(o)
    BY <1>1, <1>2, <1>3, <2>3
  <2>4. CASE x \notin Add(o) /\ x \notin Remove(o)
    BY <1>1, <1>2, <2>1, <2>4
  <2> QED BY <2>2, <2>3, <2>4
<1> QED BY <1>1, <1>2, <1>4, <1>5 DEF Informed, c

\* A list that starts is right so far.
LEMMA BeginInformed ==
    ASSUME NEW b, Sound(b), NEW o \in Observation, NEW p, NEW q, NEW a, NEW R,
           Informed(p, a, b, R), Starts(o), Accounted(o, p, q),
           o.request < b.nextRequest,
           b.pending /\ o.request = b.request => Agree(o.listed, q.controllers, R)
    PROVE  Informed(q, a, BeginSnapshot(b, o), R)
<1> DEFINE build == [NoBuild EXCEPT !.active = TRUE, !.request = o.request,
                                    !.expected = Cardinality(o.listed)]
           c == [b EXCEPT !.build = build]
<1>1. b \in Brains /\ b.nextRequest \in Nat /\ o.request \in Nat
  BY BrainFields, ObservationFields DEF Sound
<1>2. /\ q.controllers = p.controllers /\ q.cut = p.cut /\ q.listed = o.listed
      /\ q.left = o.listed /\ q.request = o.request /\ p.request < o.request
  BY DEF Accounted
<1>3. p.request # b.nextRequest - 1
  BY <1>1, <1>2
<1>4. ~b.build.active /\ b.recovery
  BY <1>3 DEF Informed
<1>5. CASE b.pending /\ o.request = b.request
  <2>1. /\ build.active /\ build.entries = {} /\ build.added = {} /\ build.removed = {}
    BY DEF NoBuild
  <2> HIDE DEF build
  <2>2. /\ c.build = build /\ c.source = b.source /\ c.last = b.last
        /\ c.recovery = b.recovery /\ c.pending = b.pending /\ c.request = b.request
        /\ c.nextRequest = b.nextRequest
    BY <1>1 DEF Brains
  <2>3. BeginSnapshot(b, o) = c
    BY <1>5 DEF BeginSnapshot, c, build
  <2> HIDE DEF c
  <2>4. (q.listed \ c.build.removed) \cup c.build.added = o.listed
    BY <1>2, <2>1, <2>2
  <2>5. c.build.entries = q.listed \ q.left
    BY <1>2, <2>1, <2>2
  <2>6. c.last # 0 /\ c.request = c.nextRequest - 1 /\ q.cut <= a
    BY <1>2, <1>5, <2>2 DEF Informed
  <2>7. q.request = c.nextRequest - 1
    BY <1>2, <1>5, <2>2, <2>6
  <2> QED BY <1>4, <1>5, <2>2, <2>3, <2>4, <2>5, <2>6, <2>7 DEF Informed
<1>6. CASE ~(b.pending /\ o.request = b.request)
  <2>1. BeginSnapshot(b, o) = b
    BY <1>6 DEF BeginSnapshot
  <2> QED BY <1>2, <1>4, <2>1 DEF Informed
<1> QED BY <1>5, <1>6

\* Each entry is one that was left.
LEMMA EntryInformed ==
    ASSUME NEW b, Sound(b), NEW o \in Observation, NEW p, NEW q, NEW a, NEW R,
           Informed(p, a, b, R), o.kind = "SnapshotEntry", Accounted(o, p, q)
    PROVE  Informed(q, a, AddSnapshotEntry(b, o), R)
<1> DEFINE entries == b.build.entries \cup {o.controller}
           count == b.build.count + 1
           build == [b.build EXCEPT !.entries = entries, !.count = count]
           c == [b EXCEPT !.build = build]
<1>1. b \in Brains /\ b.build \in Builds
  BY BrainFields DEF Sound
<1>2. /\ q.controllers = p.controllers /\ q.listed = p.listed
      /\ q.left = p.left \ {o.controller} /\ o.controller \in p.listed
      /\ q.request = p.request /\ q.cut = p.cut /\ o.request = p.request
  BY DEF Accounted, Starts, Completes, LiveKinds
<1>3. CASE b.build.active
  <2>1. b.build.request = b.request /\ b.request = b.nextRequest - 1 /\ b.pending
    BY <1>3 DEF Sound, Informed
  <2>2. o.request = b.build.request
    BY <1>2, <1>3, <2>1 DEF Informed
  <2>3. AddSnapshotEntry(b, o) = c
    BY <1>3, <2>2 DEF AddSnapshotEntry, c, build, entries, count
  <2>4. entries = q.listed \ q.left
    BY <1>2, <1>3 DEF Informed
  <2> HIDE DEF entries, count
  <2>5. /\ build.active = b.build.active /\ build.entries = entries
        /\ build.added = b.build.added /\ build.removed = b.build.removed
    BY <1>1 DEF Builds
  <2> HIDE DEF build
  <2>6. /\ c.build = build /\ c.source = b.source /\ c.last = b.last /\ c.list = b.list
        /\ c.recovery = b.recovery /\ c.pending = b.pending /\ c.request = b.request
        /\ c.nextRequest = b.nextRequest
    BY <1>1 DEF Brains
  <2> HIDE DEF c
  <2> QED BY <1>2, <2>3, <2>4, <2>5, <2>6 DEF Informed
<1>4. CASE ~b.build.active
  <2>1. AddSnapshotEntry(b, o) = b
    BY <1>4 DEF AddSnapshotEntry
  <2> QED BY <1>2, <1>4, <2>1 DEF Informed
<1> QED BY <1>3, <1>4

\* A list that is completed is right, or wanted anew.
LEMMA CompleteInformed ==
    ASSUME NEW b, Sound(b), NEW o \in Observation, NEW p, NEW q, NEW a, NEW R,
           Informed(p, a, b, R), Completes(o), Accounted(o, p, q)
    PROVE  Informed(q, a, CompleteSnapshot(b, o), R)
<1> DEFINE idle == [b EXCEPT !.build = NoBuild, !.pending = FALSE, !.request = 0]
           final == FinalList(b.build)
           done == [idle EXCEPT !.list = final, !.complete = TRUE, !.recovery = FALSE]
<1>1. b \in Brains /\ (b.source => b.last # 0)
  BY DEF Sound, Informed
<1>2. q = p /\ p.left = {}
  BY DEF Accounted
<1>3. CASE ~(/\ b.build.active /\ o.request = b.build.request
             /\ Cardinality(o.listed) = b.build.expected)
  <2>1. CompleteSnapshot(b, o) = MarkRecoveryRequired(b)
    BY <1>3 DEF CompleteSnapshot
  <2> QED BY <1>1, <2>1, MarkWants, WantsInformed
<1>4. CASE /\ b.build.active /\ o.request = b.build.request
           /\ Cardinality(o.listed) = b.build.expected
  <2>1. /\ idle.build = NoBuild /\ ~idle.pending /\ idle.source = b.source
        /\ idle.last = b.last /\ idle.recovery = b.recovery
        /\ idle.nextRequest = b.nextRequest
    BY <1>1 DEF Brains
  <2>2. /\ p.request = b.nextRequest - 1 /\ b.pending /\ b.last # 0 /\ b.recovery
        /\ b.build.entries = p.listed
        /\ Agree((p.listed \ b.build.removed) \cup b.build.added, p.controllers, R)
    BY <1>2, <1>4 DEF Informed
  <2>3. Agree(final, p.controllers, R)
    BY <2>2 DEF FinalList
  <2> HIDE DEF final
  <2>4. /\ done.build = NoBuild /\ ~done.pending /\ done.source = b.source
        /\ done.last = b.last /\ ~done.recovery /\ done.list = final
        /\ done.nextRequest = b.nextRequest
    BY <1>1 DEF Brains
  <2>5. CompleteSnapshot(b, o) \in {idle, done}
    BY <1>4 DEF CompleteSnapshot, idle, done, final
  <2> HIDE DEF idle, done
  <2>6. Informed(q, a, idle, R)
    BY <1>1, <2>1, <2>2, NoBuildType, WantsInformed DEF Wants
  <2>7. Informed(q, a, done, R)
    BY <1>2, <2>2, <2>3, <2>4, NoBuildType DEF Informed
  <2> QED BY <2>5, <2>6, <2>7
<1> QED BY <1>3, <1>4

\* A Brain that has taken the number of o is as well informed as the account of
\* that number; o is the next in the account, or was lost on the Brain.
LEMMA ObserveInformed ==
    ASSUME NEW b, Sound(b), NEW o \in Proper, NEW p, NEW q, NEW a, NEW R,
           Informed(p, a, b, R), Accounted(o, p, q), o.kind # "Hello",
           o.kind = "TransportConnected" => q = p,
           o.kind = "SourceAvailable" => b.last # 0,
           Starts(o) => o.request < b.nextRequest,
           Starts(o) /\ b.pending /\ o.request = b.request
               => Agree(o.listed, q.controllers, R)
    PROVE  Informed(q, a, Observe(b, o), R)
<1>0. o \in Observation /\ b \in Brains /\ (b.source => b.last # 0)
  BY ProperObservation DEF Sound, Informed
<1>1. CASE Upsets(o)
  BY <1>0, <1>1, UpsetWants, WantsInformed
<1>2. CASE o.kind = "TransportConnected"
  <2>1. SameList(b, [b EXCEPT !.transport = TRUE])
    BY <1>0 DEF Brains, SameList
  <2>2. Observe(b, o) = [b EXCEPT !.transport = TRUE]
    BY <1>2 DEF Observe, LiveKinds
  <2> QED BY <1>2, <2>1, <2>2, SameInformed
<1>3. CASE o.kind = "SourceAvailable"
  <2> DEFINE c == [b EXCEPT !.source = b.compatible]
  <2>1. /\ c.build = b.build /\ c.last = b.last /\ c.list = b.list
        /\ c.recovery = b.recovery /\ c.pending = b.pending /\ c.request = b.request
        /\ c.nextRequest = b.nextRequest
    BY <1>0 DEF Brains
  <2>2. Observe(b, o) = c
    BY <1>3 DEF Observe, LiveKinds
  <2> HIDE DEF c
  <2>3. q = p
    BY <1>3 DEF Accounted
  <2> QED BY <1>3, <2>1, <2>2, <2>3 DEF Informed
<1>4. CASE Starts(o)
  <2>1. Observe(b, o) = BeginSnapshot(b, o)
    BY <1>4 DEF Observe, LiveKinds, Starts
  <2> QED BY <1>0, <1>4, <2>1, BeginInformed
<1>5. CASE o.kind = "SnapshotEntry"
  <2>1. Observe(b, o) = AddSnapshotEntry(b, o)
    BY <1>5 DEF Observe, LiveKinds
  <2> QED BY <1>0, <1>5, <2>1, EntryInformed
<1>6. CASE Completes(o)
  <2>1. Observe(b, o) = CompleteSnapshot(b, o)
    BY <1>6 DEF Observe, LiveKinds, Completes
  <2> QED BY <1>0, <1>6, <2>1, CompleteInformed
<1>7. CASE o.kind \in LiveKinds
  <2>1. Observe(b, o) = ApplyControllerEvent(b, o)
    BY <1>7 DEF Observe, LiveKinds
  <2> QED BY <1>0, <1>7, <2>1, EventInformed
<1> QED BY <1>1, <1>2, <1>3, <1>4, <1>5, <1>6, <1>7 DEF Upsets, Starts, Completes

\* A Brain that wants a list wants it still, whatever it observes.
LEMMA ObserveWants ==
    ASSUME NEW b, Sound(b), NEW o \in Proper, Wants(b), o.kind # "Hello",
           o.kind = "SourceAvailable" => b.last # 0
    PROVE  Wants(Observe(b, o))
<1>0. o \in Observation /\ b \in Brains /\ (b.source => b.last # 0)
  BY ProperObservation DEF Sound, Wants
<1>1. CASE Upsets(o)
  BY <1>0, <1>1, UpsetWants
<1>2. CASE o.kind = "TransportConnected"
  <2>1. SameList(b, [b EXCEPT !.transport = TRUE])
    BY <1>0 DEF Brains, SameList
  <2>2. Observe(b, o) = [b EXCEPT !.transport = TRUE]
    BY <1>2 DEF Observe, LiveKinds
  <2> QED BY <2>1, <2>2 DEF SameList, Wants
<1>3. CASE o.kind = "SourceAvailable"
  <2> DEFINE c == [b EXCEPT !.source = b.compatible]
  <2>1. /\ c.build = b.build /\ c.last = b.last
        /\ c.recovery = b.recovery /\ c.pending = b.pending
    BY <1>0 DEF Brains
  <2>2. Observe(b, o) = c
    BY <1>3 DEF Observe, LiveKinds
  <2> HIDE DEF c
  <2> QED BY <1>3, <2>1, <2>2 DEF Wants
<1>4. CASE Starts(o)
  <2>1. Observe(b, o) = BeginSnapshot(b, o)
    BY <1>4 DEF Observe, LiveKinds, Starts
  <2> QED BY <2>1 DEF BeginSnapshot, Wants
<1>5. CASE o.kind = "SnapshotEntry"
  <2>1. Observe(b, o) = AddSnapshotEntry(b, o)
    BY <1>5 DEF Observe, LiveKinds
  <2> QED BY <2>1 DEF AddSnapshotEntry, Wants
<1>6. CASE Completes(o)
  <2>1. Observe(b, o) = CompleteSnapshot(b, o)
    BY <1>6 DEF Observe, LiveKinds, Completes
  <2>2. CompleteSnapshot(b, o) = MarkRecoveryRequired(b)
    BY DEF CompleteSnapshot, Wants
  <2> QED BY <1>0, <2>1, <2>2, MarkWants
<1>7. CASE o.kind \in LiveKinds
  <2>1. Observe(b, o) = ApplyControllerEvent(b, o)
    BY <1>7 DEF Observe, LiveKinds
  <2> QED BY <1>0, <2>1, EventFields DEF Wants
<1> QED BY <1>1, <1>2, <1>3, <1>4, <1>5, <1>6, <1>7 DEF Upsets, Starts, Completes

\* Deferred messages, their flight and the share of a call are not about the list.
LEMMA OthersSame ==
    ASSUME NEW b \in Brains
    PROVE  /\ \A d : SameList(b, [b EXCEPT !.deferred = d])
           /\ \A n : SameList(b, [b EXCEPT !.served = n])
           /\ \A f : SameList(b, [b EXCEPT !.bound = f])
           /\ SameList(b, b)
           /\ \A c, d : SameList(b, c) /\ SameList(c, d) => SameList(b, d)
<1>1. ASSUME NEW d PROVE SameList(b, [b EXCEPT !.deferred = d])
  BY DEF Brains, SameList
<1>2. ASSUME NEW n PROVE SameList(b, [b EXCEPT !.served = n])
  BY DEF Brains, SameList
<1>3. ASSUME NEW f PROVE SameList(b, [b EXCEPT !.bound = f])
  BY DEF Brains, SameList
<1>4. SameList(b, b) /\ \A c, d : SameList(b, c) /\ SameList(c, d) => SameList(b, d)
  BY DEF SameList
<1> QED BY <1>1, <1>2, <1>3, <1>4

\* A message is not about the list.
LEMMA EvaluateSame ==
    ASSUME NEW b, Sound(b), NEW o, EvaluateMessage(b, o)
    PROVE  SameList(b, brain')
<1>1. b \in Brains
  BY DEF Sound
<1>2. brain' \in {b, [b EXCEPT !.bound = flight], Defer(b, o)}
  BY DEF EvaluateMessage, Admit
<1>3. SameList(b, Defer(b, o))
  BY <1>1, OthersSame DEF Defer
<1> QED BY <1>1, <1>2, <1>3, OthersSame

\* Nor are the deferred ones.
LEMMA ReevaluateSame ==
    ASSUME NEW b, Sound(b), ReevaluateDeferred(b)
    PROVE  SameList(b, brain')
<1>1. b \in Brains
  BY DEF Sound
<1> DEFINE none == NoneDeferred(b)
           alive == AliveDeferred(b)
<1>2. SameList(b, none) /\ none \in Brains
  <2>1. <<>> \in Seq(Entries)
    OBVIOUS
  <2> QED BY <1>1, <2>1, OthersSame, WithDeferredSound DEF NoneDeferred, Sound
<1>3. brain' \in {[none EXCEPT !.bound = flight], [b EXCEPT !.deferred = alive]}
  BY DEF ReevaluateDeferred, Admit
<1> HIDE DEF none, alive
<1>4. SameList(none, [none EXCEPT !.bound = flight]) /\ SameList(b, [b EXCEPT !.deferred = alive])
  BY <1>1, <1>2, OthersSame
<1> QED BY <1>1, <1>2, <1>3, <1>4, OthersSame

\* A Brain that knows no process learns of one and wants a list.
LEMMA HelloWants ==
    ASSUME NEW b, Sound(b), NEW o \in Observation, Wants(b), b.process = 0, b.last = 0
    PROVE  Wants(Hello(b, o))
<1> DEFINE n == LastAfterHello(b, o)
           g == [b EXCEPT !.process = o.process, !.epoch = o.epoch,
                          !.compatible = TRUE, !.last = n]
<1>1. b \in Brains
  BY DEF Sound
<1>2. n = 0
  BY DEF LastAfterHello
<1> HIDE DEF n
<1>3. /\ g.recovery = b.recovery /\ g.pending = b.pending /\ g.build = b.build
      /\ g.source = b.source /\ g.last = n
  BY <1>1 DEF Brains
<1>4. Hello(b, o) = g
  BY DEF Hello, g, n
<1> HIDE DEF g
<1> QED BY <1>2, <1>3, <1>4 DEF Wants

\* The next number leaves the list alone; when numbers are missing the Brain
\* wants a list.
LEMMA SequenceInformed ==
    ASSUME NEW b, Sound(b), NEW o \in Observation, NEW p, NEW a, NEW R,
           Informed(p, a, b, R), o.sequence # 0, o.kind \notin LocalKinds \cup {"Hello"},
           o.sequence > b.last
    PROVE  LET c == ObserveSequence(b, o)
           IN  /\ c.last = o.sequence
               /\ \/ Wants(c)
                  \/ /\ b.last = o.sequence - 1 /\ Informed(p, a, c, R)
                     /\ c.pending = b.pending /\ c.request = b.request
               /\ c.nextRequest = b.nextRequest
<1> DEFINE m == MarkRecoveryRequired(b)
           n == o.sequence
           c == [b EXCEPT !.last = n]
           d == [m EXCEPT !.last = n]
<1>1. /\ b \in Brains /\ b.last \in Nat /\ n \in Nat /\ n # 0
      /\ (b.source => b.last # 0)
  BY BrainFields, ObservationFields DEF Sound, Informed
<1>2. m \in Brains /\ Wants(m) /\ m.nextRequest = b.nextRequest
  BY <1>1, MarkWants, MarkFrame
<1>3. ObserveSequence(b, o) = IF b.last # 0 /\ n > b.last + 1 THEN d ELSE c
  BY DEF ObserveSequence, m
<1> HIDE DEF m, n
<1>4. /\ c.list = b.list /\ c.build = b.build /\ c.source = b.source /\ c.last = n
      /\ c.recovery = b.recovery /\ c.pending = b.pending
      /\ c.request = b.request /\ c.nextRequest = b.nextRequest
  BY <1>1 DEF Brains
<1>5. /\ d.build = m.build /\ d.last = n /\ d.recovery = m.recovery
      /\ d.pending = m.pending /\ d.nextRequest = m.nextRequest
  BY <1>2 DEF Brains
<1> HIDE DEF c, d
<1>6. Wants(d)
  BY <1>1, <1>2, <1>5 DEF Wants
<1>7. CASE b.last = 0
  <2>1. Wants(c)
    BY <1>1, <1>4, <1>7 DEF Informed, Wants, Sound
  <2> QED BY <1>3, <1>4, <1>7, <2>1 DEF n
<1>8. CASE b.last # 0 /\ n > b.last + 1
  BY <1>2, <1>3, <1>5, <1>6, <1>8 DEF n
<1>9. CASE b.last # 0 /\ ~(n > b.last + 1)
  <2>1. b.last = n - 1
    BY <1>1, <1>9 DEF n
  <2>2. Informed(p, a, c, R)
    BY <1>1, <1>4 DEF Informed
  <2> QED BY <1>3, <1>4, <1>9, <2>1, <2>2 DEF n
<1> QED BY <1>7, <1>8, <1>9

\* What the Brain consumes leaves it as well informed as the account of its last
\* number.
LEMMA ConsumeInformed ==
    ASSUME BrainInv, NEW o \in Proper, Consume(o), NEW h \in Accounting, NEW a, NEW R,
           Informed(h[brain.last], a, brain, R), Recorded(h, o),
           o.sequence # 0 => o.kind \notin LocalKinds \cup {"Hello"},
           o.kind = "Hello" => brain.process = 0,
           brain.process = 0 => brain.recovery /\ ~brain.pending /\ brain.last = 0,
           Starts(o) => o.request < brain.nextRequest,
           Starts(o) /\ o.request = brain.nextRequest - 1 /\ brain.pending
                     /\ brain.last = o.sequence - 1
               => Agree(o.listed, h[o.sequence].controllers, R)
    PROVE  Informed(h[brain'.last], a, brain', R)
<1> DEFINE n == brain.served + 1
           b == [brain EXCEPT !.served = n]
           seen == ObserveSequence(b, o)
<1>1. /\ brain.served \in 0 .. MaximumObservations /\ brain.served < MaximumObservations
      /\ brain \in Brains
  BY BrainFields DEF BrainInv, Sound, Consume, HasShare
<1>2. n \in 0 .. MaximumObservations
  BY <1>1, BrainAssumption
<1> HIDE DEF n
<1>3. Sound(b) /\ SameList(brain, b) /\ Alike(brain, b)
  BY <1>1, <1>2, WithServedSound, OthersSame, OthersAlike DEF BrainInv
<1>4. b = [brain EXCEPT !.served = @ + 1]
  BY DEF n
<1> HIDE DEF b
<1>5. o \in Observation /\ o.sequence \in Nat /\ b.last \in Nat /\ b \in Brains
  BY <1>3, ProperObservation, ObservationFields, BrainFields DEF Sound
<1>6. IF ~Belongs(b, o) \/ IsStale(b, o) THEN brain' = b
      ELSE IF o.kind = "IncomingPrivateMessage" THEN EvaluateMessage(seen, o)
      ELSE brain' = Observe(seen, o)
  BY <1>4 DEF Consume, seen
<1>7. Sound(seen)
  BY <1>3, <1>5, SequenceSound
<1>8. Informed(h[b.last], a, b, R) /\ b.last = brain.last
  BY <1>3, SameInformed DEF SameList
<1>9. CASE ~Belongs(b, o) \/ IsStale(b, o)
  BY <1>6, <1>8, <1>9
<1>10. CASE Belongs(b, o) /\ ~IsStale(b, o) /\ o.sequence = 0
  <2>1. seen = b /\ o.kind \in LocalKinds \cup {"Hello", "None"}
    BY <1>10 DEF Recorded, ObserveSequence, seen
  <2>2. brain' = Observe(b, o)
    BY <1>6, <1>10, <2>1 DEF LocalKinds
  <2>3. CASE o.kind = "Hello"
    <3>1. Wants(b) /\ b.process = 0 /\ b.last = 0
      BY <1>3, <1>8, <2>3 DEF Alike, Informed, Wants, Sound, SameList
    <3>2. Observe(b, o) = Hello(b, o)
      BY <2>3 DEF Observe, LiveKinds
    <3> QED BY <1>3, <1>5, <2>2, <3>1, <3>2, HelloWants, WantsInformed
  <2>4. CASE o.kind # "Hello"
    <3>1. Accounted(o, h[b.last], h[b.last])
      BY <2>1, <2>4 DEF Accounted, LiveKinds, LocalKinds, Starts, Completes
    <3>2. o.kind # "SourceAvailable" /\ ~Starts(o)
      BY <2>1, <2>4 DEF LocalKinds, Starts
    <3>3. Informed(h[b.last], a, Observe(b, o), R)
      BY <1>3, <1>8, <2>4, <3>1, <3>2, ObserveInformed
    <3>4. Effect(b, o, Observe(b, o))
      BY <1>3, <1>5, ObserveEffect
    <3>5. Observe(b, o).last = b.last
      BY <2>4, <3>4 DEF Effect
    <3> QED BY <2>2, <3>3, <3>5
  <2> QED BY <2>3, <2>4
<1>11. CASE Belongs(b, o) /\ ~IsStale(b, o) /\ o.sequence # 0
  <2>1. o.kind \notin LocalKinds \cup {"Hello"} /\ o.sequence > b.last
    BY <1>5, <1>11 DEF IsStale
  <2>2. /\ seen.last = o.sequence
        /\ \/ Wants(seen)
           \/ /\ b.last = o.sequence - 1 /\ Informed(h[b.last], a, seen, R)
              /\ seen.pending = b.pending /\ seen.request = b.request
        /\ seen.nextRequest = b.nextRequest
    BY <1>3, <1>5, <1>8, <1>11, <2>1, SequenceInformed
  <2> HIDE DEF seen
  <2>3. Accounted(o, h[o.sequence - 1], h[o.sequence])
    BY <1>11 DEF Recorded
  <2>4. CASE o.kind = "IncomingPrivateMessage"
    <3>1. SameList(seen, brain')
      BY <1>6, <1>7, <1>11, <2>4, EvaluateSame
    <3>2. h[o.sequence - 1] = h[o.sequence]
      BY <2>3, <2>4 DEF Accounted
    <3>3. Informed(h[o.sequence], a, seen, R)
      BY <2>2, <3>2, WantsInformed
    <3> QED BY <2>2, <3>1, <3>3, SameInformed DEF SameList
  <2>5. CASE o.kind # "IncomingPrivateMessage"
    <3>1. brain' = Observe(seen, o)
      BY <1>6, <1>11, <2>5
    <3>2. Effect(seen, o, brain')
      BY <1>5, <1>7, <3>1, ObserveEffect
    <3>3. brain'.last = o.sequence
      BY <2>1, <2>2, <3>2 DEF Effect
    <3>4. CASE Wants(seen)
      <4>1. Wants(brain')
        BY <1>7, <1>11, <2>1, <2>2, <3>1, <3>4, ObserveWants
      <4> QED BY <4>1, WantsInformed
    <3>5. CASE ~Wants(seen)
      <4>1. /\ b.last = o.sequence - 1 /\ Informed(h[o.sequence - 1], a, seen, R)
            /\ seen.pending = b.pending /\ seen.request = b.request
        BY <2>2, <3>5
      <4>2. Starts(o) => o.request < seen.nextRequest
        BY <1>3, <2>2 DEF SameList
      <4>3. Starts(o) /\ seen.pending /\ o.request = seen.request
                => Agree(o.listed, h[o.sequence].controllers, R)
        BY <1>3, <4>1 DEF SameList, Informed
      <4>4. o.kind # "TransportConnected" /\ o.kind # "Hello"
        BY <2>1 DEF LocalKinds
      <4>5. Informed(h[o.sequence], a, Observe(seen, o), R)
        BY <1>7, <1>11, <2>2, <2>3, <4>1, <4>2, <4>3, <4>4, ObserveInformed
      <4> QED BY <3>1, <3>3, <4>5
    <3> QED BY <3>4, <3>5
  <2> QED BY <2>4, <2>5
<1> QED BY <1>9, <1>10, <1>11

-----------------------------------------------------------------------------
(* The account goes on                                                     *)

\* The account h with e for the number after n.
Grown(h, n, e) == [h EXCEPT ![n + 1] = e]

\* Numbers that were taken keep their account.
LEMMA GrownAccount ==
    ASSUME NEW h \in Accounting, NEW n \in Nat, NEW e \in Accounts
    PROVE  LET g == Grown(h, n, e)
           IN  g \in Accounting /\ g[n + 1] = e /\ \A m \in 0 .. n : g[m] = h[m]
<1>1. n + 1 \in Nat /\ \A m \in 0 .. n : m \in Nat /\ m # n + 1
  OBVIOUS
<1> HIDE DEF Accounts
<1> QED BY <1>1 DEF Accounting, Grown

\* What an account consists of.
LEMMA AccountFields ==
    ASSUME NEW h \in Accounting, NEW n \in Nat
    PROVE  /\ h[n] \in Accounts /\ h[n].request \in Nat /\ h[n].cut \in Nat
           /\ h[n].controllers \in SUBSET Controllers
           /\ h[n].listed \in SUBSET Controllers /\ h[n].left \in SUBSET Controllers
<1>1. h[n] \in Accounts
  BY DEF Accounting
<1> QED BY <1>1 DEF Accounts

\* So do the observations that have these numbers.
LEMMA RecordedStays ==
    ASSUME NEW h \in Accounting, NEW n \in Nat, NEW e \in Accounts, NEW o \in Proper,
           o.sequence <= n, Recorded(h, o)
    PROVE  Recorded(Grown(h, n, e), o)
<1> DEFINE g == Grown(h, n, e)
<1>1. o.sequence \in Nat
  BY Numbers
<1>2. \A m \in 0 .. n : g[m] = h[m]
  BY GrownAccount
<1>3. CASE o.sequence = 0
  BY <1>3 DEF Recorded
<1>4. CASE o.sequence # 0
  <2>1. o.sequence \in 0 .. n /\ o.sequence - 1 \in 0 .. n
    BY <1>1, <1>4
  <2>2. g[o.sequence] = h[o.sequence] /\ g[o.sequence - 1] = h[o.sequence - 1]
    BY <1>2, <2>1
  <2> HIDE DEF g
  <2> QED BY <1>4, <2>2 DEF Recorded, g
<1> QED BY <1>3, <1>4

\* A controller is none of the controllers a hand without an observation holds.
LEMMA EmptyHand ==
    ASSUME NEW c, c.held = Nothing, NEW n, NEW S, NEW T, NEW R,
           Agree(S, T, R \cup InHand(c, n))
    PROVE  Agree(S, T, R)
<1>1. InHand(c, n) \subseteq {NoController}
  BY DEF InHand, Nothing, Local
<1>2. NoController \notin Controllers
  BY ProtocolAssumption
<1> QED BY <1>1, <1>2 DEF Agree

\* The mark of an empty hand has no part in the account.
LEMMA NothingRecorded == \A h : Recorded(h, Nothing)
  BY DEF Recorded, Nothing, Local

\* It takes no part in a list either.
LEMMA NothingStarts == ~Starts(Nothing) /\ Nothing.sequence = 0
  BY DEF Starts, Nothing, Local

\* What is on its way is in its place, and so is the Brain's last number.
LEMMA SurePlaces ==
    ASSUME NEW b \in Brains, NEW c \in Companions, NEW n, NEW F \in SUBSET Proper,
           Sure(b, c, n, F)
    PROVE  /\ c.sequence \in Nat /\ b.last \in 0 .. c.sequence
           /\ \A o \in F \cup {c.held, c.taken} :
                  o \in Proper /\ o.sequence \in 0 .. c.sequence
           /\ b.nextRequest \in Nat
<1>1. c.held \in Proper /\ c.taken \in Proper /\ c.sequence \in Nat
  BY CompanionFields
<1>2. b.last <= c.sequence /\ \A o \in F \cup {c.held, c.taken} : o.sequence <= c.sequence
  BY DEF Sure, Counting, Placed
<1>3. \A o \in F \cup {c.held, c.taken} : o \in Proper
  BY <1>1
<1>4. \A o \in F \cup {c.held, c.taken} : o.sequence \in 0 .. c.sequence
  BY <1>1, <1>2, <1>3, Numbers
<1> QED BY <1>1, <1>2, <1>3, <1>4, Numbers

\* What is true of the numbers that were taken stays true when the next is.
LEMMA AccurateGrows ==
    ASSUME NEW b \in Brains, NEW c \in Companions, NEW d \in Companions, NEW n,
           NEW F \in SUBSET Proper, Sure(b, c, n, F), NEW h, NEW a, NEW Z, NEW X,
           Accurate(h, a, Z, b, c, X, F), NEW e \in Accounts,
           h[c.sequence].request <= e.request, e.cut <= c.sequence + 1,
           d.sequence = c.sequence + 1
    PROVE  LET g == Grown(h, c.sequence, e)
           IN  /\ Kept(g, d, e.controllers) /\ g[d.sequence] = e
               /\ g[d.sequence - 1] = h[c.sequence]
               /\ \A o \in F \cup {c.held, c.taken} : Recorded(g, o)
               /\ a \in Nat /\ a <= d.sequence
               /\ Informed(g[b.last], a, b, c.raced)
               /\ \A o \in F \cup {c.taken} : g[o.sequence] = h[o.sequence]
               /\ \A m \in Z : m < d.sequence /\ m # c.sequence
<1> DEFINE g == Grown(h, c.sequence, e)
<1>1. /\ c.sequence \in Nat /\ b.last \in 0 .. c.sequence
      /\ \A o \in F \cup {c.held, c.taken} :
             o \in Proper /\ o.sequence \in 0 .. c.sequence
  BY SurePlaces
<1>2. h \in Accounting /\ \A m \in 0 .. c.sequence : h[m].cut <= m /\ h[m].request <= h[c.sequence].request
  BY DEF Accurate, Kept
<1>3. /\ g \in Accounting /\ g[c.sequence + 1] = e /\ \A m \in 0 .. c.sequence : g[m] = h[m]
  BY <1>1, <1>2, GrownAccount
<1>4. \A o \in F \cup {c.held, c.taken} : Recorded(g, o)
  <2>1. \A o \in F \cup {c.held, c.taken} : o.sequence <= c.sequence /\ o \in Proper
    BY <1>1
  <2>2. \A o \in F \cup {c.held, c.taken} : Recorded(h, o)
    BY DEF Accurate
  <2> QED BY <1>1, <1>2, <2>1, <2>2, RecordedStays
<1> HIDE DEF g
<1>5. e.request \in Nat /\ e.cut \in Nat
  BY DEF Accounts
<1>6. ASSUME NEW m \in 0 .. d.sequence PROVE g[m].cut <= m /\ g[m].request <= e.request
  <2>1. CASE m = c.sequence + 1
    BY <1>1, <1>3, <1>5, <2>1
  <2>2. CASE m \in 0 .. c.sequence
    <3>1. h[m].cut <= m /\ h[m].request <= h[c.sequence].request /\ g[m] = h[m]
      BY <1>2, <1>3, <2>2
    <3>2. h[m].request \in Nat /\ h[c.sequence].request \in Nat
      BY <1>1, <1>2, <2>2, AccountFields
    <3> QED BY <1>5, <3>1, <3>2
  <2> QED BY <1>1, <2>1, <2>2
<1>7. Kept(g, d, e.controllers)
  BY <1>3, <1>6 DEF Kept
<1>8. g[b.last] = h[b.last] /\ \A o \in F \cup {c.taken} : g[o.sequence] = h[o.sequence]
  BY <1>1, <1>3
<1>9. Informed(g[b.last], a, b, c.raced)
  BY <1>8 DEF Accurate
<1>10. a \in Nat /\ a <= c.sequence /\ \A m \in Z : m < c.sequence /\ m \in Nat
  BY DEF Accurate, Starting
<1>11. /\ a <= d.sequence /\ \A m \in Z : m < d.sequence /\ m # c.sequence
       /\ c.sequence \in 0 .. c.sequence /\ d.sequence - 1 = c.sequence
  BY <1>1, <1>10
<1> QED BY <1>3, <1>4, <1>7, <1>8, <1>9, <1>10, <1>11 DEF g

\* A handler raises an observation o, and e accounts for it.
LEMMA RaiseAccurate ==
    ASSUME NEW b \in Brains, NEW c \in Companions, NEW d \in Companions, NEW n,
           NEW F \in SUBSET Proper, Sure(b, c, n, F), NEW h, NEW a, NEW Z, NEW X,
           Accurate(h, a, Z, b, c, X, F), NEW e \in Accounts,
           e.listed = h[c.sequence].listed, e.left = h[c.sequence].left,
           e.request = h[c.sequence].request,
           \/ e.cut = c.sequence + 1
           \/ /\ e.cut = h[c.sequence].cut
              /\ Agree(h[c.sequence].controllers, e.controllers, {d.held.controller}),
           Accounted(d.held, h[c.sequence], e), ~Starts(d.held),
           c.held = Nothing, d.sequence = c.sequence + 1, d.held.sequence = d.sequence,
           d.taken = c.taken, d.answer = c.answer, d.raced = c.raced
    PROVE  Accurate(Grown(h, c.sequence, e), a, Z, b, d, e.controllers, F)
<1> DEFINE g == Grown(h, c.sequence, e)
<1>1. /\ c.sequence \in Nat /\ b.last \in 0 .. c.sequence
      /\ \A o \in F \cup {c.held, c.taken} :
             o \in Proper /\ o.sequence \in 0 .. c.sequence
  BY SurePlaces
<1>2. h[c.sequence].cut <= c.sequence
  BY <1>1 DEF Accurate, Kept
<1>3. h[c.sequence].request \in Nat /\ h[c.sequence].cut \in Nat
  BY <1>1, AccountFields DEF Accurate, Kept
<1>4. h[c.sequence].request <= e.request /\ e.cut <= c.sequence + 1
  BY <1>1, <1>2, <1>3
<1>5. /\ Kept(g, d, e.controllers) /\ g[d.sequence] = e
      /\ g[d.sequence - 1] = h[c.sequence]
      /\ \A o \in F \cup {c.held, c.taken} : Recorded(g, o)
      /\ a \in Nat /\ a <= d.sequence
      /\ Informed(g[b.last], a, b, c.raced)
      /\ \A o \in F \cup {c.taken} : g[o.sequence] = h[o.sequence]
      /\ \A m \in Z : m < d.sequence /\ m # c.sequence
  BY <1>4, AccurateGrows
<1> HIDE DEF g
<1>6. Answering(g[d.sequence], d)
  BY <1>5 DEF Accurate, Answering
<1>7. Recorded(g, d.held)
  BY <1>1, <1>5 DEF Recorded
<1>8. a <= c.sequence /\ Starting(h, a, Z, b, c, F)
  BY DEF Accurate
<1>9. Starting(g, a, Z, b, d, F)
  <2>1. \A m \in Z : m < d.sequence
    BY <1>5
  <2>2. ASSUME NEW y \in F, Starts(y), y.request = b.nextRequest - 1
        PROVE  y.sequence - 1 \in Z \/ Fresh(g, a, y.listed, y.sequence, d.raced)
    BY <1>5, <1>8, <2>2 DEF Starting, Fresh
  <2>3. Starts(d.taken) => d.taken.sequence - 1 \notin Z
    BY <1>8 DEF Starting
  <2>4. ASSUME Starts(d.taken), d.taken.request = b.nextRequest - 1
        PROVE  Fresh(g, a, d.taken.listed, d.taken.sequence,
                     d.raced \cup InHand(d, d.taken.sequence - 1))
    <3>1. Fresh(h, a, c.taken.listed, c.taken.sequence,
                c.raced \cup InHand(c, c.taken.sequence - 1))
      BY <1>8, <2>4 DEF Starting
    <3>2. g[c.taken.sequence] = h[c.taken.sequence]
      BY <1>5
    <3>3. Fresh(g, a, d.taken.listed, d.taken.sequence, d.raced)
      BY <3>1, <3>2, EmptyHand DEF Fresh
    <3> QED BY <3>3 DEF Fresh, Agree
  <2>5. ASSUME d.answer.phase = "Started", d.taken = Nothing,
               d.answer.request = b.nextRequest - 1
        PROVE  Fresh(g, a, d.answer.listed, d.sequence, d.raced \cup InHand(d, d.sequence))
    <3>1. Fresh(h, a, c.answer.listed, c.sequence, c.raced \cup InHand(c, c.sequence))
      BY <1>8, <2>5 DEF Starting
    <3>2. \/ h[c.sequence].cut > a
          \/ Agree(c.answer.listed, h[c.sequence].controllers, c.raced)
      BY <3>1, EmptyHand DEF Fresh
    <3>3. CASE e.cut = c.sequence + 1
      <4>1. e.cut > a
        BY <1>1, <1>5, <1>8, <3>3
      <4> QED BY <1>5, <4>1 DEF Fresh
    <3>4. CASE /\ e.cut = h[c.sequence].cut
               /\ Agree(h[c.sequence].controllers, e.controllers, {d.held.controller})
      <4>1. InHand(d, d.sequence) = {d.held.controller}
        BY DEF InHand
      <4>2. e.cut > a \/ Agree(c.answer.listed, e.controllers, d.raced \cup {d.held.controller})
        BY <3>2, <3>4 DEF Agree
      <4> QED BY <1>5, <4>1, <4>2 DEF Fresh
    <3> QED BY <3>3, <3>4
  <2>6. /\ Z \subseteq Nat \ {0}
        /\ \A y \in F : Starts(y) /\ y.sequence - 1 \in Z => b.last # y.sequence - 1
    BY <1>8 DEF Starting
  <2> QED BY <2>1, <2>2, <2>3, <2>4, <2>5, <2>6 DEF Starting
<1>10. Singular(b, d, F)
  <2>1. d.held.sequence # 0 /\ d.held.sequence # b.last /\ d.held.sequence # c.taken.sequence
    BY <1>1
  <2>2. \A o \in F : o.sequence # d.held.sequence
    BY <1>1
  <2> QED BY <2>1, <2>2 DEF Singular
<1> QED BY <1>5, <1>6, <1>7, <1>9, <1>10 DEF Accurate, g

\* The UI thread queues what it has in hand: a list that is about to start may
\* be wrong about it.
LEMMA CaptureHeldAccurate ==
    ASSUME NEW b \in Brains, NEW c \in Companions, NEW d \in Companions,
           NEW F \in SUBSET Proper, NEW G, NEW h, NEW a, NEW Z, NEW X,
           Accurate(h, a, Z, b, c, X, F), c.held # Nothing, G \subseteq F \cup {c.held},
           d.sequence = c.sequence, d.held = Nothing, d.taken = c.taken,
           d.answer = c.answer,
           d.raced = IF c.answer.phase = "Started"
                     THEN c.raced \cup {c.held.controller} ELSE c.raced
    PROVE  Accurate(h, a, Z, b, d, X, G)
<1>1. c.raced \subseteq d.raced
  OBVIOUS
<1>2. Kept(h, d, X) /\ Answering(h[d.sequence], d) /\ a \in Nat /\ a <= d.sequence
  BY DEF Accurate, Kept, Answering
<1>3. \A o \in G \cup {d.held, d.taken} : Recorded(h, o)
  BY NothingRecorded DEF Accurate
<1>4. Informed(h[b.last], a, b, d.raced)
  BY <1>1, InformedLess DEF Accurate
<1>5. Singular(b, d, G)
  BY DEF Singular
<1>6. \A y \in G : Starts(y) => y \in F
  BY DEF Accurate, Singular
<1>7. ASSUME NEW S, NEW m, NEW R, Fresh(h, a, S, m, R), NEW Q, R \subseteq Q
      PROVE  Fresh(h, a, S, m, Q)
  BY <1>7 DEF Fresh, Agree
<1>8. Starting(h, a, Z, b, c, F)
  BY DEF Accurate
<1>9. c.answer.phase = "Started" => \A m : c.raced \cup InHand(c, m) \subseteq d.raced
  BY DEF InHand
<1>10. Starts(c.taken) => c.answer.phase = "Started"
  BY DEF Accurate, Answering
<1>11. Starting(h, a, Z, b, d, G)
  <2>1. ASSUME NEW y \in G, Starts(y), y.request = b.nextRequest - 1
        PROVE  y.sequence - 1 \in Z \/ Fresh(h, a, y.listed, y.sequence, d.raced)
    <3>1. y.sequence - 1 \in Z \/ Fresh(h, a, y.listed, y.sequence, c.raced)
      BY <1>6, <1>8, <2>1 DEF Starting
    <3> QED BY <1>1, <1>7, <3>1
  <2>2. ASSUME Starts(d.taken), d.taken.request = b.nextRequest - 1
        PROVE  Fresh(h, a, d.taken.listed, d.taken.sequence,
                     d.raced \cup InHand(d, d.taken.sequence - 1))
    <3>1. Fresh(h, a, c.taken.listed, c.taken.sequence,
                c.raced \cup InHand(c, c.taken.sequence - 1))
      BY <1>8, <2>2 DEF Starting
    <3>2. c.raced \cup InHand(c, c.taken.sequence - 1)
              \subseteq d.raced \cup InHand(d, d.taken.sequence - 1)
      BY <1>9, <1>10, <2>2
    <3> QED BY <1>7, <3>1, <3>2
  <2>3. ASSUME d.answer.phase = "Started", d.taken = Nothing,
               d.answer.request = b.nextRequest - 1
        PROVE  Fresh(h, a, d.answer.listed, d.sequence, d.raced \cup InHand(d, d.sequence))
    <3>1. Fresh(h, a, c.answer.listed, c.sequence, c.raced \cup InHand(c, c.sequence))
      BY <1>8, <2>3 DEF Starting
    <3>2. c.raced \cup InHand(c, c.sequence) \subseteq d.raced \cup InHand(d, d.sequence)
      BY <1>9, <2>3
    <3> QED BY <1>7, <3>1, <3>2
  <2>4. /\ Z \subseteq Nat \ {0} /\ \A m \in Z : m < d.sequence
        /\ \A y \in G : Starts(y) /\ y.sequence - 1 \in Z => b.last # y.sequence - 1
        /\ Starts(d.taken) => d.taken.sequence - 1 \notin Z
    BY <1>6, <1>8 DEF Starting
  <2> QED BY <2>1, <2>2, <2>3, <2>4 DEF Starting
<1> QED BY <1>2, <1>3, <1>4, <1>5, <1>11 DEF Accurate

\* The numbers that are overtaken when the runner queues what it has in hand.
Overtaken(c) ==
    IF /\ Starts(c.taken) /\ c.held # Nothing
       /\ c.held.sequence = c.taken.sequence - 1
    THEN {c.held.sequence} ELSE {}

\* The answer d goes on from c, or is over.
GoesOn(c, d) ==
    \/ d = NoAnswer
    \/ /\ c.phase \in {"Started", "Entry"} /\ d.phase \in {"Entry", "Completed"}
       /\ d.phase = "Completed" => c.left = {}
       /\ d.request = c.request /\ d.listed = c.listed /\ d.left = c.left

\* It does.
LEMMA AnswerGoesOn ==
    ASSUME NEW c \in Answers, c.phase # "None"
    PROVE  LET next == NextPhase(c.phase, c.left)
           IN  GoesOn(c, IF next = "None" THEN NoAnswer ELSE [c EXCEPT !.phase = next])
<1> DEFINE next == NextPhase(c.phase, c.left)
           d == [c EXCEPT !.phase = next]
<1>1. c.phase \in {"Started", "Entry", "Completed", "Failed"}
  BY DEF Answers, Phases
<1>2. CASE c.phase \in {"Completed", "Failed"}
  <2>1. next = "None"
    BY <1>2 DEF NextPhase
  <2> HIDE DEF next
  <2>2. GoesOn(c, NoAnswer)
    BY DEF GoesOn
  <2> QED BY <2>1, <2>2 DEF next
<1>3. CASE c.phase \in {"Started", "Entry"}
  <2>1. next \in {"Entry", "Completed"} /\ (next = "Completed" => c.left = {})
    BY <1>3 DEF NextPhase
  <2> HIDE DEF next
  <2>2. d.phase = next /\ d.request = c.request /\ d.listed = c.listed /\ d.left = c.left
    BY DEF Answers
  <2> HIDE DEF d
  <2>3. GoesOn(c, d)
    BY <1>3, <2>1, <2>2 DEF GoesOn
  <2> QED BY <2>1, <2>3 DEF d, next
<1> QED BY <1>1, <1>2, <1>3

\* The runner queues what it has in hand; the start of a list overtakes the
\* observation that was numbered before it and is still to be queued.
LEMMA CaptureTakenAccurate ==
    ASSUME NEW b \in Brains, NEW c \in Companions, NEW d \in Companions, NEW n,
           NEW F \in SUBSET Proper, Sure(b, c, n, F), NEW G, NEW h, NEW a, NEW Z, NEW X,
           Accurate(h, a, Z, b, c, X, F), G \subseteq F \cup {c.taken},
           d.sequence = c.sequence, d.taken = Nothing, d.held = c.held,
           GoesOn(c.answer, d.answer), c.taken # Nothing, d.raced = c.raced
    PROVE  Accurate(h, a, Z \cup Overtaken(c), b, d, X, G)
<1> DEFINE o == c.taken
           Y == Z \cup Overtaken(c)
<1>1. /\ c.sequence \in Nat /\ b.last \in 0 .. c.sequence
      /\ \A x \in F \cup {c.held, c.taken} :
             x \in Proper /\ x.sequence \in 0 .. c.sequence
  BY SurePlaces
<1>2. Kept(h, d, X) /\ a \in Nat /\ a <= d.sequence
  BY DEF Accurate, Kept
<1>3. Answering(h[d.sequence], d)
  <2>1. CASE d.answer = NoAnswer
    BY <2>1, NothingStarts DEF NoAnswer, Answering
  <2>2. CASE d.answer # NoAnswer
    <3>1. /\ c.answer.phase \in {"Started", "Entry"}
          /\ d.answer.phase \in {"Entry", "Completed"}
          /\ d.answer.phase = "Completed" => c.answer.left = {}
          /\ d.answer.request = c.answer.request /\ d.answer.listed = c.answer.listed
          /\ d.answer.left = c.answer.left
      BY <2>2 DEF GoesOn
    <3> QED BY <3>1, NothingStarts DEF Accurate, Answering
  <2> QED BY <2>1, <2>2
<1>4. \A x \in G \cup {d.held, d.taken} : Recorded(h, x)
  BY NothingRecorded DEF Accurate
<1>5. Informed(h[b.last], a, b, d.raced)
  BY DEF Accurate
<1>6. /\ Starting(h, a, Z, b, c, F) /\ Singular(b, c, F)
  BY DEF Accurate
<1>7. Singular(b, d, G)
  BY <1>6, NothingStarts DEF Singular
<1>8. /\ Z \subseteq Y /\ Y \subseteq Nat \ {0}
      /\ \A m \in Y : m < d.sequence
      /\ \A m \in Y \ Z : m = c.held.sequence /\ m # b.last
  <2>1. Z \subseteq Nat \ {0} /\ \A m \in Z : m < c.sequence
    BY <1>6 DEF Starting
  <2>2. ASSUME NEW m \in Overtaken(c)
        PROVE  /\ m \in Nat \ {0} /\ m < c.sequence
               /\ m = c.held.sequence /\ m # b.last
    <3>1. m = c.held.sequence /\ c.held # Nothing /\ m = c.taken.sequence - 1
      BY <2>2 DEF Overtaken
    <3>2. m # 0 /\ m # b.last
      BY <1>6, <3>1 DEF Singular
    <3>3. /\ c.held.sequence \in 0 .. c.sequence /\ c.taken.sequence \in 0 .. c.sequence
          /\ c.sequence \in Nat
      BY <1>1
    <3>4. m \in Nat /\ m < c.sequence
      BY <3>1, <3>3
    <3> QED BY <3>1, <3>2, <3>4
  <2> QED BY <2>1, <2>2
<1>9. Starts(o) => o.sequence - 1 \notin Z
  BY <1>6 DEF Starting
<1>10. ASSUME Starts(o), o.request = b.nextRequest - 1
       PROVE  o.sequence - 1 \in Y \/ Fresh(h, a, o.listed, o.sequence, d.raced)
  <2>1. Fresh(h, a, o.listed, o.sequence, c.raced \cup InHand(c, o.sequence - 1))
    BY <1>6, <1>10 DEF Starting
  <2>2. CASE c.held = Nothing
    BY <2>1, <2>2, EmptyHand DEF Fresh
  <2>3. CASE c.held # Nothing /\ c.held.sequence = o.sequence - 1
    BY <1>10, <2>3 DEF Overtaken
  <2>4. CASE c.held.sequence # o.sequence - 1
    <3>1. InHand(c, o.sequence - 1) = {}
      BY <2>4 DEF InHand
    <3> QED BY <2>1, <3>1
  <2> QED BY <2>2, <2>3, <2>4
<1> HIDE DEF Y
<1>11. Starting(h, a, Y, b, d, G)
  <2>1. ASSUME NEW y \in G, Starts(y), y.request = b.nextRequest - 1
        PROVE  y.sequence - 1 \in Y \/ Fresh(h, a, y.listed, y.sequence, d.raced)
    <3>1. CASE y = o
      BY <1>10, <2>1, <3>1
    <3>2. CASE y # o
      <4>1. y \in F
        BY <3>2
      <4> QED BY <1>6, <1>8, <2>1, <4>1 DEF Starting
    <3> QED BY <3>1, <3>2
  <2>2. ASSUME NEW y \in G, Starts(y), y.sequence - 1 \in Y PROVE b.last # y.sequence - 1
    <3>1. CASE y.sequence - 1 \in Z
      <4>1. y \in F
        BY <1>9, <2>2, <3>1
      <4> QED BY <1>6, <2>2, <3>1, <4>1 DEF Starting
    <3>2. CASE y.sequence - 1 \notin Z
      BY <1>8, <2>2, <3>2
    <3> QED BY <3>1, <3>2
  <2>3. d.answer.phase # "Started"
    BY DEF GoesOn, NoAnswer
  <2> QED BY <1>8, <2>1, <2>2, <2>3, NothingStarts DEF Starting
<1> QED BY <1>2, <1>3, <1>4, <1>5, <1>7, <1>11 DEF Accurate, Y

\* The runner numbers an observation o of its answer, and e accounts for it.
LEMMA NumberAccurate ==
    ASSUME NEW b \in Brains, NEW c \in Companions, NEW d \in Companions, NEW n,
           NEW F \in SUBSET Proper, Sure(b, c, n, F), NEW h, NEW a, NEW Z, NEW X,
           Accurate(h, a, Z, b, c, X, F), NEW e \in Accounts,
           e.controllers = h[c.sequence].controllers, e.cut = h[c.sequence].cut,
           Accounted(d.taken, h[c.sequence], e), Answering(e, d),
           Starts(d.taken) => /\ c.answer.phase = "Started"
                              /\ d.taken.listed = c.answer.listed
                              /\ d.taken.request = c.answer.request,
           c.taken = Nothing, d.sequence = c.sequence + 1, d.taken.sequence = d.sequence,
           d.taken # Nothing, d.held = c.held, d.raced = c.raced,
           h[c.sequence].request <= e.request
    PROVE  Accurate(Grown(h, c.sequence, e), a, Z, b, d, X, F)
<1> DEFINE g == Grown(h, c.sequence, e)
<1>1. /\ c.sequence \in Nat /\ b.last \in 0 .. c.sequence
      /\ \A x \in F \cup {c.held, c.taken} :
             x \in Proper /\ x.sequence \in 0 .. c.sequence
  BY SurePlaces
<1>2. h[c.sequence].cut <= c.sequence /\ h[c.sequence].cut \in Nat
  BY <1>1, AccountFields DEF Accurate, Kept
<1>3. h[c.sequence].request <= e.request /\ e.cut <= c.sequence + 1
  BY <1>1, <1>2
<1>4. /\ Kept(g, d, e.controllers) /\ g[d.sequence] = e
      /\ g[d.sequence - 1] = h[c.sequence]
      /\ \A o \in F \cup {c.held, c.taken} : Recorded(g, o)
      /\ a \in Nat /\ a <= d.sequence
      /\ Informed(g[b.last], a, b, c.raced)
      /\ \A o \in F \cup {c.taken} : g[o.sequence] = h[o.sequence]
      /\ \A m \in Z : m < d.sequence /\ m # c.sequence
  BY <1>3, AccurateGrows
<1> HIDE DEF g
<1>5. e.controllers = X
  BY DEF Accurate, Kept
<1>6. Recorded(g, d.taken)
  BY <1>1, <1>4 DEF Recorded
<1>7. Starting(h, a, Z, b, c, F) /\ Singular(b, c, F)
  BY DEF Accurate
<1>8. d.sequence - 1 = c.sequence
  BY <1>1
<1>9. Starting(g, a, Z, b, d, F)
  <2>1. ASSUME NEW y \in F, Starts(y), y.request = b.nextRequest - 1
        PROVE  y.sequence - 1 \in Z \/ Fresh(g, a, y.listed, y.sequence, d.raced)
    BY <1>4, <1>7, <2>1 DEF Starting, Fresh
  <2>2. d.taken.sequence - 1 \notin Z
    BY <1>4, <1>8
  <2>3. ASSUME Starts(d.taken), d.taken.request = b.nextRequest - 1
        PROVE  Fresh(g, a, d.taken.listed, d.taken.sequence,
                     d.raced \cup InHand(d, d.taken.sequence - 1))
    <3>1. Fresh(h, a, c.answer.listed, c.sequence, c.raced \cup InHand(c, c.sequence))
      BY <1>7, <2>3 DEF Starting
    <3>2. InHand(d, d.taken.sequence - 1) = InHand(c, c.sequence)
      BY <1>8 DEF InHand
    <3> QED BY <1>4, <2>3, <3>1, <3>2 DEF Fresh
  <2>4. /\ Z \subseteq Nat \ {0} /\ \A m \in Z : m < d.sequence
        /\ \A y \in F : Starts(y) /\ y.sequence - 1 \in Z => b.last # y.sequence - 1
    BY <1>4, <1>7 DEF Starting
  <2> QED BY <2>1, <2>2, <2>3, <2>4 DEF Starting
<1>10. Singular(b, d, F)
  <2>1. c.held.sequence # d.taken.sequence
    BY <1>1
  <2> QED BY <1>7, <2>1 DEF Singular
<1> QED BY <1>4, <1>5, <1>6, <1>9, <1>10 DEF Accurate, g

\* The runner reads a request and copies the list: no other request is answered
\* by what is on its way.
LEMMA ReadAccurate ==
    ASSUME NEW b \in Brains, NEW c \in Companions, NEW d \in Companions, NEW n,
           NEW F \in SUBSET Proper, Sure(b, c, n, F), NEW h, NEW a, NEW Z, NEW X,
           Accurate(h, a, Z, b, c, X, F), c.answer.phase = "None",
           d.answer.phase \in {"Started", "Failed"},
           d.answer.listed = X, d.answer.left = X, d.raced = {},
           d.sequence = c.sequence, d.held = c.held, d.taken = c.taken,
           h[c.sequence].request < d.answer.request, d.answer.request < b.nextRequest
    PROVE  Accurate(h, a, Z, b, d, X, F)
<1> DEFINE m == c.sequence
           r == d.answer.request
<1>1. /\ m \in Nat /\ b.last \in 0 .. m /\ b.nextRequest \in Nat
      /\ \A o \in F \cup {c.held, c.taken} : o \in Proper /\ o.sequence \in 0 .. m
  BY SurePlaces
<1>2. h \in Accounting /\ \A i \in 0 .. m : h[i].request <= h[m].request
  BY DEF Accurate, Kept
<1>3. c.taken = Nothing
  BY DEF Sure, Hands
<1>4. r \in Nat /\ h[m].request \in Nat
  BY <1>1, <1>2, AccountFields, Numbers
<1>5. ASSUME NEW i \in 0 .. m PROVE h[i].request # b.nextRequest - 1
  <2>1. h[i].request \in Nat /\ h[i].request <= h[m].request
    BY <1>1, <1>2, AccountFields
  <2> QED BY <1>1, <1>4, <2>1
<1>6. Kept(h, d, X) /\ a \in Nat /\ a <= d.sequence
  BY DEF Accurate, Kept
<1>7. Answering(h[d.sequence], d)
  BY <1>3, NothingStarts DEF Answering
<1>8. \A o \in F \cup {d.held, d.taken} : Recorded(h, o)
  BY DEF Accurate
<1>9. Informed(h[b.last], a, b, d.raced)
  <2>1. h[b.last].request # b.nextRequest - 1
    BY <1>1, <1>5
  <2> QED BY <2>1 DEF Accurate, Informed
<1>10. Starting(h, a, Z, b, c, F) /\ Singular(b, c, F)
  BY DEF Accurate
<1>11. Starting(h, a, Z, b, d, F)
  <2>1. ASSUME NEW y \in F, Starts(y) PROVE y.request # b.nextRequest - 1
    <3>1. Recorded(h, y) /\ y.sequence \in 0 .. m
      BY <1>1 DEF Accurate
    <3>2. y.sequence # 0
      BY <2>1, <3>1 DEF Recorded, Starts, LocalKinds
    <3>3. h[y.sequence].request = y.request
      BY <2>1, <3>1, <3>2 DEF Recorded, Accounted
    <3> QED BY <1>5, <3>1, <3>3
  <2>2. Fresh(h, a, d.answer.listed, d.sequence, d.raced \cup InHand(d, d.sequence))
    BY DEF Fresh, Agree, Accurate, Kept
  <2>3. /\ Z \subseteq Nat \ {0} /\ \A i \in Z : i < d.sequence
        /\ \A y \in F : Starts(y) /\ y.sequence - 1 \in Z => b.last # y.sequence - 1
    BY <1>10 DEF Starting
  <2> QED BY <1>3, <2>1, <2>2, <2>3, NothingStarts DEF Starting
<1>12. Singular(b, d, F)
  BY <1>10 DEF Singular
<1> QED BY <1>6, <1>7, <1>8, <1>9, <1>11, <1>12 DEF Accurate

\* What has no number of the companion's may join what is on its way, and
\* anything may get lost.
LEMMA OtherAccurate ==
    ASSUME NEW b, NEW c, NEW d, NEW F, NEW G, NEW h, NEW a, NEW Z, NEW X,
           Accurate(h, a, Z, b, c, X, F),
           \A o \in G \ F : o.sequence = 0 /\ o.kind \in LocalKinds \cup {"Hello"},
           d.sequence = c.sequence, d.held = c.held, d.taken = c.taken,
           d.answer = c.answer, d.raced = c.raced
    PROVE  Accurate(h, a, Z, b, d, X, G)
<1>1. Kept(h, d, X) /\ Answering(h[d.sequence], d) /\ a \in Nat /\ a <= d.sequence
  BY DEF Accurate, Kept, Answering
<1>2. \A o \in G \ F : Recorded(h, o) /\ ~Starts(o)
  BY DEF Recorded, Starts, LocalKinds
<1>3. \A o \in G \cup {d.held, d.taken} : Recorded(h, o)
  BY <1>2 DEF Accurate
<1>4. Informed(h[b.last], a, b, d.raced)
  BY DEF Accurate
<1>5. Starting(h, a, Z, b, d, G)
  BY <1>2 DEF Accurate, Starting, InHand
<1>6. Singular(b, d, G)
  BY DEF Accurate, Singular
<1> QED BY <1>1, <1>3, <1>4, <1>5, <1>6 DEF Accurate

\* A report of losses takes a number, and its account is free.
LEMMA WriteAccurate ==
    ASSUME NEW b \in Brains, NEW c \in Companions, NEW d \in Companions, NEW n,
           NEW F \in SUBSET Proper, Sure(b, c, n, F), NEW h, NEW a, NEW Z, NEW X,
           Accurate(h, a, Z, b, c, X, F), c.answer.phase = "None",
           NEW o, Reports(o), d.sequence = c.sequence + 1, o.sequence = d.sequence,
           d.held = c.held, d.taken = c.taken, d.answer = c.answer, d.raced = c.raced
    PROVE  Accurate(Grown(h, c.sequence, h[c.sequence]), a, Z, b, d, X, F \cup {o})
<1> DEFINE e == h[c.sequence]
           g == Grown(h, c.sequence, e)
<1>1. /\ c.sequence \in Nat /\ b.last \in 0 .. c.sequence
      /\ \A x \in F \cup {c.held, c.taken} :
             x \in Proper /\ x.sequence \in 0 .. c.sequence
  BY SurePlaces
<1>2. /\ e \in Accounts /\ e.request \in Nat /\ e.cut \in Nat /\ e.cut <= c.sequence
      /\ e.controllers = X
  BY <1>1, AccountFields DEF Accurate, Kept
<1>3. c.taken = Nothing
  BY DEF Sure, Hands
<1>4. h[c.sequence].request <= e.request /\ e.cut <= c.sequence + 1
  BY <1>1, <1>2
<1> HIDE DEF e
<1>5. /\ Kept(g, d, e.controllers) /\ g[d.sequence] = e
      /\ g[d.sequence - 1] = h[c.sequence]
      /\ \A x \in F \cup {c.held, c.taken} : Recorded(g, x)
      /\ a \in Nat /\ a <= d.sequence
      /\ Informed(g[b.last], a, b, c.raced)
      /\ \A x \in F \cup {c.taken} : g[x.sequence] = h[x.sequence]
      /\ \A m \in Z : m < d.sequence /\ m # c.sequence
  BY <1>2, <1>4, AccurateGrows
<1> HIDE DEF g
<1>6. Answering(e, d)
  BY <1>3, NothingStarts DEF Answering, Accurate
<1>7. Recorded(g, o) /\ ~Starts(o)
  <2>1. ~Starts(o) /\ ~Completes(o) /\ o.kind \notin LiveKinds
        /\ o.kind \notin {"SourceAvailable", "IncomingPrivateMessage",
                          "ConnectionStateChanged", "SnapshotEntry"}
    BY DEF Reports, Starts, Completes, LiveKinds
  <2>2. o.sequence # 0
    BY <1>1
  <2> QED BY <2>1, <2>2 DEF Recorded, Accounted
<1>8. Starting(h, a, Z, b, c, F) /\ Singular(b, c, F)
  BY DEF Accurate
<1>9. Starting(g, a, Z, b, d, F \cup {o})
  <2>1. ASSUME NEW y \in F \cup {o}, Starts(y), y.request = b.nextRequest - 1
        PROVE  y.sequence - 1 \in Z \/ Fresh(g, a, y.listed, y.sequence, d.raced)
    <3>1. y \in F
      BY <1>7, <2>1
    <3> QED BY <1>5, <1>8, <2>1, <3>1 DEF Starting, Fresh
  <2>2. /\ Z \subseteq Nat \ {0} /\ \A m \in Z : m < d.sequence
        /\ \A y \in F \cup {o} : Starts(y) /\ y.sequence - 1 \in Z => b.last # y.sequence - 1
    BY <1>5, <1>7, <1>8 DEF Starting
  <2> QED BY <1>3, <2>1, <2>2, NothingStarts DEF Starting
<1>10. Singular(b, d, F \cup {o})
  <2>1. c.held.sequence # o.sequence
    BY <1>1
  <2> QED BY <1>8, <2>1 DEF Singular
<1> QED BY <1>2, <1>5, <1>6, <1>7, <1>9, <1>10 DEF Accurate, g, e

\* The Brain hears the first observation on its way.
LEMMA HearsAccurate ==
    ASSUME BrainInv, NEW o \in Proper, Consume(o), NEW c \in Companions, NEW n \in Nat,
           NEW F \in SUBSET Proper, Sure(brain, c, n, {o} \cup F), NEW h, NEW a, NEW Z,
           NEW X, Accurate(h, a, Z, brain, c, X, {o} \cup F), Clear({o}, F, Z),
           h[c.sequence].request < brain.nextRequest
    PROVE  Accurate(h, a, Z, brain', c, X, F)
<1>1. brain \in Brains /\ brain.last \in Nat /\ brain.nextRequest \in Nat
  BY BrainFields DEF BrainInv, Sound
<1>2. /\ o.sequence \in 0 .. c.sequence /\ c.sequence \in Nat /\ o.request \in Nat
      /\ brain.last <= c.sequence
  <2>1. {o} \cup F \in SUBSET Proper
    OBVIOUS
  <2> QED BY <1>1, <2>1, SurePlaces, Numbers
<1>3. /\ Recorded(h, o) /\ h \in Accounting
      /\ \A i \in 0 .. c.sequence : h[i].request <= h[c.sequence].request
  BY DEF Accurate, Kept
<1>4. /\ Placed(brain, c, n, o) /\ Counting(brain, c, n)
  BY DEF Sure
<1>5. /\ o.sequence # 0 => o.kind \notin LocalKinds \cup {"Hello"}
      /\ o.kind = "Hello" => brain.process = 0
      /\ brain.process = 0 => brain.recovery /\ ~brain.pending /\ brain.last = 0
  BY <1>4 DEF Placed, Counting
<1>6. ASSUME Starts(o)
      PROVE  /\ o.sequence # 0 /\ o.request < brain.nextRequest
             /\ h[o.sequence].cut = h[o.sequence - 1].cut
  <2>1. o.sequence # 0
    BY <1>3, <1>6 DEF Recorded, Starts, LocalKinds
  <2>2. /\ h[o.sequence].request = o.request
        /\ h[o.sequence].cut = h[o.sequence - 1].cut
    BY <1>3, <1>6, <2>1 DEF Recorded, Accounted
  <2>3. h[o.sequence].request <= h[c.sequence].request
    BY <1>2, <1>3
  <2>4. h[c.sequence].request \in Nat
    BY <1>2, <1>3, AccountFields
  <2> QED BY <1>1, <1>2, <2>1, <2>2, <2>3, <2>4
<1>7. /\ Informed(h[brain.last], a, brain, c.raced) /\ Starting(h, a, Z, brain, c, {o} \cup F)
      /\ Singular(brain, c, {o} \cup F) /\ a \in Nat
  BY DEF Accurate
<1>8. ASSUME Starts(o), o.request = brain.nextRequest - 1, brain.pending,
             brain.last = o.sequence - 1
      PROVE  Agree(o.listed, h[o.sequence].controllers, c.raced)
  <2>1. Fresh(h, a, o.listed, o.sequence, c.raced)
    BY <1>7, <1>8 DEF Starting
  <2>2. h[o.sequence].cut <= a
    BY <1>6, <1>7, <1>8 DEF Informed
  <2>3. h[o.sequence].cut \in Nat
    BY <1>2, <1>3, AccountFields
  <2> QED BY <1>7, <2>1, <2>2, <2>3 DEF Fresh
<1>9. Informed(h[brain'.last], a, brain', c.raced)
  BY <1>3, <1>5, <1>6, <1>7, <1>8, ConsumeInformed
<1>10. /\ brain'.nextRequest = brain.nextRequest
       /\ brain'.last \in {brain.last, 0, o.sequence}
  <2>1. Hears(brain, o, brain')
    BY ConsumeHears
  <2> QED BY <2>1 DEF Hears, LastAfterHello
<1>11. Starting(h, a, Z, brain', c, F)
  <2>1. ASSUME NEW y \in F, Starts(y), y.sequence - 1 \in Z
        PROVE  brain'.last # y.sequence - 1
    <3>1. brain.last # y.sequence - 1 /\ y.sequence - 1 # 0
      BY <1>7, <2>1 DEF Starting
    <3>2. o.sequence # y.sequence - 1
      <4>1. o.sequence \in Z => o.sequence + 1 # y.sequence
        BY <2>1 DEF Clear, Behind
      <4>2. y.sequence \in Nat
        BY Numbers
      <4> QED BY <1>2, <2>1, <4>1, <4>2
    <3> QED BY <1>10, <3>1, <3>2
  <2> QED BY <1>7, <1>10, <2>1 DEF Starting
<1>12. Singular(brain', c, F)
  BY <1>7, <1>10 DEF Singular
<1> QED BY <1>9, <1>11, <1>12 DEF Accurate

\* The Brain is the same as far as the list is concerned.
LEMMA SameAccurate ==
    ASSUME NEW b, NEW d, SameList(b, d), NEW c, NEW F, NEW h, NEW a, NEW Z, NEW X,
           Accurate(h, a, Z, b, c, X, F)
    PROVE  Accurate(h, a, Z, d, c, X, F)
<1>1. Informed(h[d.last], a, d, c.raced)
  BY SameInformed DEF Accurate, SameList
<1>2. Starting(h, a, Z, d, c, F) /\ Singular(d, c, F)
  BY DEF Accurate, SameList, Starting, Singular
<1> QED BY <1>1, <1>2 DEF Accurate

\* The end of a call makes the Brain forget, or ask for a list that starts later
\* than all it knows.
LEMMA EndInforms ==
    ASSUME BrainInv, NEW late \in BOOLEAN, NEW room \in BOOLEAN, EndService(late, room),
           NEW e, NEW a, NEW R, Informed(e, a, brain, R), e.cut <= brain.last
    PROVE  Informed(e, IF RequestsSnapshot(late, room) THEN brain.last ELSE a, brain', R)
<1> DEFINE ended == [brain EXCEPT !.served = 0]
           timed == TimeOut(ended, late)
           asks == NeedsSnapshot(timed) /\ room
           asked == IF asks THEN Requested(timed) ELSE timed
           x == IF asks THEN brain.last ELSE a
<1>1. Sound(ended) /\ SameList(brain, ended)
  <2>1. 0 \in 0 .. MaximumObservations
    BY BrainAssumption
  <2>2. Sound(brain) /\ brain \in Brains
    BY DEF BrainInv, Sound
  <2> QED BY <2>1, <2>2, WithServedSound, OthersSame
<1>2. RequestsSnapshot(late, room) = asks /\ ReevaluateDeferred(asked)
  BY DEF RequestsSnapshot, EndService
<1> HIDE DEF ended
<1>3. Informed(e, a, ended, R)
  BY <1>1, SameInformed
<1>4. Sound(timed) /\ Informed(e, a, timed, R) /\ timed.last = brain.last
  <2>1. CASE late /\ ended.pending
    <3>1. timed = MarkRecoveryRequired(ended)
      BY <2>1 DEF TimeOut
    <3>2. ended \in Brains /\ (ended.source => ended.last # 0)
      BY <1>1, <1>3 DEF Sound, Informed
    <3>3. Sound(timed)
      BY <1>1, <3>1, <3>2, MarkSound
    <3>4. Wants(timed) /\ timed.last = ended.last
      BY <1>1, <3>1, <3>2, MarkWants
    <3> QED BY <1>1, <3>3, <3>4, WantsInformed DEF SameList
  <2>2. CASE ~(late /\ ended.pending)
    <3>1. timed = ended
      BY <2>2 DEF TimeOut
    <3> QED BY <1>1, <1>3, <3>1 DEF SameList
  <2> QED BY <2>1, <2>2
<1> HIDE DEF timed
<1>5. Sound(asked) /\ Informed(e, x, asked, R)
  <2>1. CASE asks
    <3> DEFINE r == timed.nextRequest
               s == timed.nextRequest + 1
               d == [timed EXCEPT !.pending = TRUE, !.request = r, !.nextRequest = s]
    <3>1. timed \in Brains /\ r \in Nat
      BY <1>4, BrainFields DEF Sound
    <3>2. asked = d
      BY <2>1 DEF Requested
    <3>3. Sound(asked)
      BY <1>4, <2>1, RequestedSound DEF NeedsSnapshot
    <3>4. timed.source /\ timed.recovery /\ ~timed.build.active
      BY <2>1 DEF NeedsSnapshot, Available
    <3>5. r = s - 1
      BY <3>1
    <3> HIDE DEF r, s
    <3>6. /\ d.pending /\ d.request = r /\ d.nextRequest = s /\ d.last = timed.last
          /\ d.recovery = timed.recovery /\ d.build = timed.build
      BY <3>1 DEF Brains
    <3> HIDE DEF d
    <3> QED BY <1>4, <2>1, <3>2, <3>3, <3>4, <3>5, <3>6 DEF Informed
  <2>2. CASE ~asks
    BY <1>4, <2>2
  <2> QED BY <2>1, <2>2
<1> HIDE DEF asked
<1>6. SameList(asked, brain')
  BY <1>2, <1>5, ReevaluateSame
<1> QED BY <1>2, <1>5, <1>6, SameInformed

\* No start of a list that is on its way answers the new request.
LEMMA ServesAccurate ==
    ASSUME BrainInv, NEW late \in BOOLEAN, NEW room \in BOOLEAN, EndService(late, room),
           NEW c \in Companions, NEW n, NEW F \in SUBSET Proper, Sure(brain, c, n, F),
           NEW h, NEW a, NEW Z, NEW X, Accurate(h, a, Z, brain, c, X, F),
           h[c.sequence].request < brain.nextRequest,
           c.answer.phase # "None" => c.answer.request < brain.nextRequest
    PROVE  Accurate(h, IF RequestsSnapshot(late, room) THEN brain.last ELSE a,
                    Z, brain', c, X, F)
<1> DEFINE asks == RequestsSnapshot(late, room)
           x == IF asks THEN brain.last ELSE a
<1>1. /\ brain \in Brains /\ brain.last \in 0 .. c.sequence /\ brain.nextRequest \in Nat
      /\ c.sequence \in Nat
      /\ \A o \in F \cup {c.held, c.taken} : o \in Proper /\ o.sequence \in 0 .. c.sequence
  <2>1. brain \in Brains
    BY DEF BrainInv, Sound
  <2> QED BY <2>1, SurePlaces
<1>2. /\ h \in Accounting /\ a \in Nat /\ a <= c.sequence
      /\ \A i \in 0 .. c.sequence : h[i].cut <= i /\ h[i].request <= h[c.sequence].request
      /\ \A o \in F \cup {c.held, c.taken} : Recorded(h, o)
      /\ Informed(h[brain.last], a, brain, c.raced)
      /\ Starting(h, a, Z, brain, c, F) /\ Singular(brain, c, F)
  BY DEF Accurate, Kept
<1>3. Serves(brain, brain', asks) /\ asks \in BOOLEAN
  BY EndServes DEF RequestsSnapshot, NeedsSnapshot, Available
<1>4. Informed(h[brain.last], x, brain', c.raced)
  BY <1>1, <1>2, EndInforms
<1> HIDE DEF asks
<1>5. /\ brain'.last = brain.last
      /\ ~asks => brain'.nextRequest = brain.nextRequest
      /\ asks => brain'.nextRequest - 1 = brain.nextRequest
  BY <1>1, <1>3 DEF Serves
<1>6. x \in Nat /\ x <= c.sequence
  BY <1>1, <1>2
<1>7. ASSUME asks, NEW o \in F \cup {c.taken}, Starts(o)
      PROVE  o.request # brain.nextRequest
  <2>1. o.sequence # 0 /\ o.sequence \in 0 .. c.sequence
    BY <1>1, <1>2, <1>7 DEF Recorded, Starts, LocalKinds
  <2>2. o.request = h[o.sequence].request
    BY <1>2, <1>7, <2>1 DEF Recorded, Accounted
  <2>3. h[o.sequence].request <= h[c.sequence].request
    BY <1>2, <2>1
  <2>4. h[o.sequence].request \in Nat /\ h[c.sequence].request \in Nat
    BY <1>1, <1>2, <2>1, AccountFields
  <2> QED BY <1>1, <2>2, <2>3, <2>4
<1>8. Starting(h, x, Z, brain', c, F)
  <2>1. CASE ~asks
    BY <1>2, <1>5, <2>1 DEF Starting
  <2>2. CASE asks
    <3>1. \A y \in F : Starts(y) => y.request # brain'.nextRequest - 1
      BY <1>5, <1>7, <2>2
    <3>2. Starts(c.taken) => c.taken.request # brain'.nextRequest - 1
      BY <1>5, <1>7, <2>2
    <3>3. c.answer.phase = "Started" => c.answer.request # brain'.nextRequest - 1
      <4>1. c.answer.request \in Nat
        BY Numbers
      <4> QED BY <1>1, <1>5, <2>2, <4>1
    <3> QED BY <1>2, <1>5, <3>1, <3>2, <3>3 DEF Starting
  <2> QED BY <2>1, <2>2
<1>9. Singular(brain', c, F)
  BY <1>2, <1>5 DEF Singular
<1> HIDE DEF x
<1>10. Accurate(h, x, Z, brain', c, X, F)
  BY <1>4, <1>5, <1>6, <1>8, <1>9 DEF Accurate
<1> QED BY <1>10 DEF x, asks

\* What starts no list and has no overtaken number may come anywhere.
LEMMA TrailJoins ==
    ASSUME NEW S, NEW Z, NEW a \in Seq(S), NEW p \in Seq(S), NEW q \in Seq(S), NEW o \in S,
           Trail(a, p, q, Z), ~Starts(o), o.sequence \notin Z
    PROVE  Trail(Append(a, o), p, q, Z) /\ Trail(a, Append(p, o), q, Z)
<1>1. \A X : Clear(X, {o}, Z) /\ Clear({o}, X, Z)
  BY DEF Clear, Behind
<1>2. /\ Trailing(Append(a, o), Z) /\ Trailing(Append(p, o), Z)
      /\ Items(Append(a, o)) = Items(a) \cup {o} /\ Items(Append(p, o)) = Items(p) \cup {o}
  BY <1>1, TrailingAppend, ItemsAppend DEF Trail
<1>3. /\ Clear(Items(a) \cup {o}, Items(p), Z) /\ Clear(Items(a) \cup {o}, Items(q), Z)
      /\ Clear(Items(a), Items(p) \cup {o}, Z) /\ Clear(Items(p) \cup {o}, Items(q), Z)
  BY <1>1 DEF Trail, Clear
<1> QED BY <1>2, <1>3 DEF Trail

\* A number that nothing on its way has may be overtaken.
LEMMA TrailWidens ==
    ASSUME NEW S, NEW Z, NEW Y, NEW a \in Seq(S), NEW p \in Seq(S), NEW q \in Seq(S),
           Trail(a, p, q, Z),
           \A x \in (Items(a) \cup Items(p)) \cup Items(q) : x.sequence \in Y => x.sequence \in Z
    PROVE  Trail(a, p, q, Y)
<1>1. ASSUME NEW x \in (Items(a) \cup Items(p)) \cup Items(q), NEW y, Behind(x, y, Z)
      PROVE  Behind(x, y, Y)
  BY <1>1 DEF Behind
<1>2. ASSUME NEW s, Trailing(s, Z), Items(s) \subseteq (Items(a) \cup Items(p)) \cup Items(q)
      PROVE  Trailing(s, Y)
  <2>1. ASSUME NEW i \in DOMAIN s, NEW j \in DOMAIN s, i < j PROVE Behind(s[i], s[j], Y)
    <3>1. s[i] \in Items(s)
      BY DEF Items
    <3> QED BY <1>1, <1>2, <2>1, <3>1 DEF Trailing
  <2> QED BY <2>1 DEF Trailing
<1>3. Trailing(a, Y) /\ Trailing(p, Y) /\ Trailing(q, Y)
  BY <1>2 DEF Trail
<1>4. /\ Clear(Items(a), Items(p), Y) /\ Clear(Items(a), Items(q), Y)
      /\ Clear(Items(p), Items(q), Y)
  BY <1>1 DEF Trail, Clear
<1> QED BY <1>3, <1>4 DEF Trail

-----------------------------------------------------------------------------
(* The order of requests                                                   *)

\* A number greater than all in a rising sequence may join it.
LEMMA RisingAppend ==
    ASSUME NEW s \in Seq(Nat), NEW r \in Nat, Rising(s), \A x \in Items(s) : x < r
    PROVE  Rising(Append(s, r)) /\ Items(Append(s, r)) = Items(s) \cup {r}
<1> DEFINE t == Append(s, r)
<1>1. /\ Len(s) \in Nat /\ DOMAIN s = 1 .. Len(s) /\ DOMAIN t = 1 .. Len(s) + 1
      /\ t[Len(s) + 1] = r /\ \A i \in 1 .. Len(s) : t[i] = s[i]
  BY AppendProperties, LenProperties
<1>2. Items(t) = Items(s) \cup {r}
  BY ItemsAppend
<1> HIDE DEF t
<1>3. ASSUME NEW i \in DOMAIN t, NEW j \in DOMAIN t, i < j PROVE t[i] < t[j]
  <2>1. i \in 1 .. Len(s) /\ t[i] = s[i]
    BY <1>1, <1>3
  <2>2. s[i] \in Items(s)
    BY <1>1, <2>1 DEF Items
  <2>3. CASE j = Len(s) + 1
    BY <1>1, <2>1, <2>2, <2>3
  <2>4. CASE j # Len(s) + 1
    <3>1. j \in 1 .. Len(s) /\ t[j] = s[j]
      BY <1>1, <2>4
    <3> QED BY <1>1, <1>3, <2>1, <3>1 DEF Rising
  <2> QED BY <2>3, <2>4
<1> QED BY <1>2, <1>3 DEF Rising, t

\* The first of a rising sequence is less than the others.
LEMMA RisingTake ==
    ASSUME NEW s \in Seq(Nat), s # <<>>, Rising(s)
    PROVE  /\ Rising(Tail(s)) /\ \A x \in Items(Tail(s)) : Head(s) < x
           /\ Items(s) = {Head(s)} \cup Items(Tail(s))
           /\ Head(s) \in Nat /\ Tail(s) \in Seq(Nat)
<1> DEFINE h == Head(s)
           t == Tail(s)
<1>1. /\ Len(s) \in Nat \ {0} /\ DOMAIN s = 1 .. Len(s)
      /\ DOMAIN t = 1 .. Len(s) - 1 /\ h = s[1]
      /\ \A i \in 1 .. Len(s) - 1 : t[i] = s[i + 1]
  <2>1. /\ h \in Nat /\ t \in Seq(Nat) /\ Len(t) = Len(s) - 1
        /\ \A i \in 1 .. Len(t) : t[i] = s[i + 1]
    BY HeadTailProperties
  <2>2. Len(s) \in Nat \ {0} /\ DOMAIN s = 1 .. Len(s) /\ DOMAIN t = 1 .. Len(t)
    BY <2>1, LenProperties, EmptySeq
  <2>3. h = s[1]
    OBVIOUS
  <2> QED BY <2>1, <2>2, <2>3
<1>2. Items(s) = {h} \cup Items(t) /\ h \in Nat /\ t \in Seq(Nat)
  BY ItemsTake
<1> HIDE DEF h, t
<1>3. ASSUME NEW i \in DOMAIN t, NEW j \in DOMAIN t, i < j PROVE t[i] < t[j]
  <2>1. /\ i + 1 \in DOMAIN s /\ j + 1 \in DOMAIN s /\ i + 1 < j + 1
        /\ t[i] = s[i + 1] /\ t[j] = s[j + 1]
    BY <1>1, <1>3
  <2> QED BY <2>1 DEF Rising
<1>4. ASSUME NEW x \in Items(t) PROVE h < x
  <2>1. PICK i \in DOMAIN t : x = t[i]
    BY DEF Items
  <2>2. 1 \in DOMAIN s /\ i + 1 \in DOMAIN s /\ 1 < i + 1 /\ x = s[i + 1]
    BY <1>1, <2>1
  <2> QED BY <1>1, <2>2 DEF Rising
<1> QED BY <1>2, <1>3, <1>4 DEF Rising, h, t

\* The client sends a request.
LEMMA TurnFlushed ==
    ASSUME NEW e, NEW b, NEW c, NEW p \in Pipes, NEW l \in Clients, InTurn(e, b, c, p, l),
           NEW q, NEW m, l.outgoing # <<>>,
           q.toCompanion = Append(p.toCompanion, Head(l.outgoing)),
           m.outgoing = Tail(l.outgoing)
    PROVE  InTurn(e, b, c, q, m)
<1> DEFINE s == p.toCompanion
           t == l.outgoing
           h == Head(t)
           u == Append(s, h)
           v == Tail(t)
<1>1. s \in Seq(Nat) /\ t \in Seq(Nat)
  BY DEF Pipes, Clients
<1>2. Rising(s) /\ Rising(t) /\ \A x \in Items(s), y \in Items(t) : x < y
  BY DEF InTurn
<1>3. /\ Rising(v) /\ \A x \in Items(v) : h < x
      /\ Items(t) = {h} \cup Items(v) /\ h \in Nat
  BY <1>1, <1>2, RisingTake
<1> HIDE DEF h, v
<1>4. Rising(u) /\ Items(u) = Items(s) \cup {h}
  BY <1>1, <1>2, <1>3, RisingAppend
<1> HIDE DEF u
<1>5. q.toCompanion = u /\ m.outgoing = v
  BY DEF u, v, h
<1>6. \A x \in Items(u), y \in Items(v) : x < y
  BY <1>2, <1>3, <1>4
<1>7. Pending(q, m) = Pending(p, l)
  BY <1>3, <1>4, <1>5 DEF Pending
<1> QED BY <1>3, <1>4, <1>5, <1>6, <1>7 DEF InTurn

\* The runner reads the first request.
LEMMA TurnRead ==
    ASSUME NEW e, NEW b, NEW c, NEW p \in Pipes, NEW l \in Clients, InTurn(e, b, c, p, l),
           NEW d, NEW q, p.toCompanion # <<>>,
           q.toCompanion = Tail(p.toCompanion), d.answer.request = Head(p.toCompanion)
    PROVE  InTurn(e, b, d, q, l) /\ e.request < d.answer.request
<1> DEFINE s == p.toCompanion
           h == Head(s)
           v == Tail(s)
<1>1. s \in Seq(Nat)
  BY DEF Pipes
<1>2. Rising(s) /\ \A x \in Items(s), y \in Items(l.outgoing) : x < y
  BY DEF InTurn
<1>3. /\ Rising(v) /\ \A x \in Items(v) : h < x
      /\ Items(s) = {h} \cup Items(v) /\ h \in Nat
  BY <1>1, <1>2, RisingTake
<1>4. q.toCompanion = v /\ d.answer.request = h
  OBVIOUS
<1> HIDE DEF h, v
<1>5. \A x \in Pending(q, l) : h < x /\ x \in Pending(p, l)
  BY <1>2, <1>3, <1>4 DEF Pending
<1>6. h \in Pending(p, l)
  BY <1>3 DEF Pending
<1>7. \A x \in Items(v), y \in Items(l.outgoing) : x < y
  BY <1>2, <1>3
<1> QED BY <1>3, <1>4, <1>5, <1>6, <1>7 DEF InTurn

\* The Brain makes the next request.
LEMMA TurnAsked ==
    ASSUME NEW e, NEW b \in Brains, NEW c, NEW p \in Pipes, NEW l \in Clients,
           InTurn(e, b, c, p, l), Asked(b, c, p, l), NEW d, NEW m, e.request \in Nat,
           m.outgoing = Append(l.outgoing, b.nextRequest),
           d.nextRequest = b.nextRequest + 1
    PROVE  InTurn(e, d, c, p, m)
<1> DEFINE s == p.toCompanion
           t == l.outgoing
           r == b.nextRequest
           u == Append(t, r)
<1>1. s \in Seq(Nat) /\ t \in Seq(Nat) /\ r \in Nat
  BY BrainFields DEF Pipes, Clients
<1>2. Rising(s) /\ Rising(t) /\ \A x \in Items(s), y \in Items(t) : x < y
  BY DEF InTurn
<1>3. \A x \in Items(s) \cup Items(t) : x < r
  BY DEF Asked
<1>4. Rising(u) /\ Items(u) = Items(t) \cup {r}
  BY <1>1, <1>2, <1>3, RisingAppend
<1> HIDE DEF u
<1>5. m.outgoing = u
  BY DEF u
<1>6. \A x \in Items(s), y \in Items(u) : x < y
  BY <1>2, <1>3, <1>4
<1>7. \A x \in Pending(p, m) : x = r \/ x \in Pending(p, l)
  BY <1>4, <1>5 DEF Pending
<1>8. e.request < r /\ (c.answer.phase # "None" => c.answer.request < r)
  BY DEF InTurn, Asked
<1>9. e.request < d.nextRequest
  BY <1>1, <1>8
<1> QED BY <1>2, <1>4, <1>5, <1>6, <1>7, <1>8, <1>9 DEF InTurn

-----------------------------------------------------------------------------
(* The steps of the companion and the account                              *)

\* What a handler raises tells what has become of xPilot's controllers.
HostTold(o) ==
    \/ /\ o.kind \in LiveKinds
       /\ xpilot'.controllers = (xpilot.controllers \ Remove(o)) \cup Add(o)
    \/ o.kind = "ConnectionStateChanged"
    \/ /\ o.kind \in {"IncomingPrivateMessage", "SessionEnded"}
       /\ xpilot'.controllers = xpilot.controllers

\* Each handler does.
LEMMA HostTells ==
    ASSUME CompanionInv, Host
    PROVE  /\ RaisedOne /\ companion.held = Nothing /\ companion'.raced = companion.raced
           /\ HostTold(companion'.held)
<1>0. xpilot \in XPilots /\ companion \in Companions
  BY DEF CompanionInv
<1>1. RaisedOne
  BY HostRaises
<1>2. ASSUME NEW o, Raise(o)
      PROVE  companion'.raced = companion.raced /\ companion'.held = o
  BY <1>0, <1>2 DEF Raise, Companions
<1>3. CASE \E callsign \in Callsigns : NetworkConnected(callsign)
  <2> PICK callsign \in Callsigns : NetworkConnected(callsign)
    BY <1>3
  <2> DEFINE o == [NewObservation("ConnectionStateChanged") EXCEPT
                      !.epoch = companion.epoch + 1, !.callsign = callsign]
  <2>1. Raise(o) /\ companion.held = Nothing
    BY DEF NetworkConnected, UIThreadIdle
  <2>2. o.kind = "ConnectionStateChanged"
    BY DEF NewObservation, NumberedIn, Local
  <2> HIDE DEF o
  <2> QED BY <1>1, <1>2, <2>1, <2>2 DEF HostTold
<1>4. CASE NetworkDisconnected
  <2> DEFINE o == NewObservation("ConnectionStateChanged")
  <2>1. Raise(o) /\ companion.held = Nothing
    BY <1>4 DEF NetworkDisconnected, UIThreadIdle
  <2>2. o.kind = "ConnectionStateChanged"
    BY DEF NewObservation, NumberedIn, Local
  <2> HIDE DEF o
  <2> QED BY <1>1, <1>2, <2>1, <2>2 DEF HostTold
<1>5. CASE PrivateMessageReceived
  <2> DEFINE o == [NewObservation("IncomingPrivateMessage") EXCEPT
                      !.callsign = xpilot.callsign]
  <2>1. Raise(o) /\ companion.held = Nothing /\ xpilot' = xpilot
    BY <1>5 DEF PrivateMessageReceived, UIThreadIdle
  <2>2. o.kind = "IncomingPrivateMessage"
    BY DEF NewObservation, NumberedIn, Local
  <2> HIDE DEF o
  <2> QED BY <1>1, <1>2, <2>1, <2>2 DEF HostTold
<1>6. CASE \E kind \in LiveKinds, c \in Controllers : ControllerEvent(kind, c)
  <2> PICK kind \in LiveKinds, c \in Controllers : ControllerEvent(kind, c)
    BY <1>6
  <2> DEFINE o == [NewObservation(kind) EXCEPT !.controller = c]
             shown == IF kind = "ControllerDeleted" THEN xpilot.controllers \ {c}
                      ELSE xpilot.controllers \cup {c}
  <2>1. /\ Raise(o) /\ companion.held = Nothing
        /\ xpilot' = [xpilot EXCEPT !.controllers = shown]
    BY DEF ControllerEvent, UIThreadIdle
  <2>2. o.kind = kind /\ o.controller = c
    BY DEF NewObservation, NumberedIn, Local
  <2> HIDE DEF o
  <2>3. shown = (xpilot.controllers \ Remove(o)) \cup Add(o)
    BY <2>2 DEF Remove, Add
  <2> HIDE DEF shown
  <2>4. xpilot'.controllers = shown
    BY <1>0, <2>1 DEF XPilots
  <2> QED BY <1>1, <1>2, <2>1, <2>2, <2>3, <2>4 DEF HostTold
<1>7. CASE SessionEnded
  <2> DEFINE o == NewObservation("SessionEnded")
  <2>1. /\ Raise(o) /\ companion.held = Nothing
        /\ xpilot' = [xpilot EXCEPT !.session = FALSE]
    BY <1>7 DEF SessionEnded, UIThreadIdle
  <2>2. o.kind = "SessionEnded"
    BY DEF NewObservation, NumberedIn, Local
  <2> HIDE DEF o
  <2>3. xpilot'.controllers = xpilot.controllers
    BY <1>0, <2>1 DEF XPilots
  <2> QED BY <1>1, <1>2, <2>1, <2>2, <2>3 DEF HostTold
<1> QED BY <1>3, <1>4, <1>5, <1>6, <1>7 DEF Host

\* An account of what it has told.
LEMMA HostAccount ==
    ASSUME NEW p \in Accounts, NEW n \in Nat, NEW o, NEW X, NEW Y, X \in SUBSET Controllers,
           Y \in SUBSET Controllers, p.controllers = X, o.sequence = n,
           \/ o.kind \in LiveKinds /\ Y = (X \ Remove(o)) \cup Add(o)
           \/ o.kind = "ConnectionStateChanged"
           \/ o.kind \in {"IncomingPrivateMessage", "SessionEnded"} /\ Y = X
    PROVE  \E e \in Accounts :
               /\ e.controllers = Y /\ e.listed = p.listed /\ e.left = p.left
               /\ e.request = p.request
               /\ \/ e.cut = n
                  \/ e.cut = p.cut /\ Agree(p.controllers, e.controllers, {o.controller})
               /\ Accounted(o, p, e)
<1>1. CASE o.kind \in LiveKinds /\ Y = (X \ Remove(o)) \cup Add(o)
  <2> DEFINE e == [p EXCEPT !.controllers = Y]
  <2>1. /\ e \in Accounts /\ e.controllers = Y /\ e.listed = p.listed /\ e.left = p.left
        /\ e.request = p.request /\ e.cut = p.cut
    BY DEF Accounts
  <2> HIDE DEF e
  <2>2. Agree(X, Y, {o.controller})
    BY <1>1 DEF Agree, Remove, Add
  <2>3. Accounted(o, p, e)
    BY <1>1, <2>1 DEF Accounted, LiveKinds, Starts, Completes
  <2> QED BY <2>1, <2>2, <2>3
<1>2. CASE o.kind = "ConnectionStateChanged"
  <2> DEFINE e == [p EXCEPT !.controllers = Y, !.cut = n]
  <2>1. /\ e \in Accounts /\ e.controllers = Y /\ e.listed = p.listed /\ e.left = p.left
        /\ e.request = p.request /\ e.cut = n
    BY DEF Accounts
  <2> HIDE DEF e
  <2>2. Accounted(o, p, e)
    BY <1>2, <2>1 DEF Accounted, LiveKinds, Starts, Completes
  <2> QED BY <2>1, <2>2
<1>3. CASE o.kind \in {"IncomingPrivateMessage", "SessionEnded"} /\ Y = X
  <2>1. Accounted(o, p, p)
    BY <1>3 DEF Accounted, LiveKinds, Starts, Completes
  <2> QED BY <1>3, <2>1 DEF Agree
<1> QED BY <1>1, <1>2, <1>3

\* A handler raises an observation.
LEMMA HostList ==
    ASSUME IInv, IInv', LossBody, ListBody, Host, UNCHANGED otherVars
    PROVE  ListBody'
<1> DEFINE c == companion
           X == xpilot.controllers
           Y == xpilot'.controllers
           d == companion'
           o == d.held
<1>0. CompanionInv
  BY DEF IInv
<1>1. /\ brain \in Brains /\ c \in Companions /\ d \in Companions
      /\ OnWay \in SUBSET Proper /\ X \in SUBSET Controllers /\ Y \in SUBSET Controllers
  BY LossTyped DEF IInv, CompanionInv, XPilots
<1>2. /\ RaisedOne /\ c.held = Nothing /\ d.raced = c.raced /\ HostTold(o)
  BY <1>0, HostTells
<1>3. /\ OnWay' = OnWay /\ client' = client /\ brain' = brain /\ pipe' = pipe
      /\ d.queue = c.queue
  BY <1>2 DEF OnWay, RaisedOne, otherVars
<1>4. Sure(brain, c, xpilot.process, OnWay)
  BY DEF LossBody
<1>5. PICK h \in Accounting, a \in Nat, Z \in SUBSET Nat :
          /\ Accurate(h, a, Z, brain, c, X, OnWay)
          /\ InTurn(h[c.sequence], brain, c, pipe, client)
          /\ Trail(client.incoming.items, pipe.toBrain, c.queue.items, Z)
  BY DEF ListBody
<1> DEFINE p == h[c.sequence]
           n == c.sequence + 1
<1>6. c.sequence \in Nat /\ p \in Accounts /\ p.controllers = X
  <2>1. c.sequence \in Nat
    BY <1>1, Numbers
  <2> QED BY <1>5, <2>1, AccountFields DEF Accurate, Kept
<1>7. o.sequence = n /\ d.sequence = n /\ n \in Nat /\ d.taken = c.taken /\ d.answer = c.answer
  BY <1>2, <1>6 DEF RaisedOne
<1> HIDE DEF OnWay
<1>8. PICK e \in Accounts :
          /\ e.controllers = Y /\ e.listed = p.listed /\ e.left = p.left
          /\ e.request = p.request
          /\ \/ e.cut = n
             \/ e.cut = p.cut /\ Agree(p.controllers, e.controllers, {o.controller})
          /\ Accounted(o, p, e)
  <2>1. \/ o.kind \in LiveKinds /\ Y = (X \ Remove(o)) \cup Add(o)
        \/ o.kind = "ConnectionStateChanged"
        \/ o.kind \in {"IncomingPrivateMessage", "SessionEnded"} /\ Y = X
    BY <1>2 DEF HostTold
  <2> HIDE DEF n, p, X, Y, d, o
  <2> QED BY <1>1, <1>6, <1>7, <2>1, HostAccount
<1>9. ~Starts(o)
  BY <1>2 DEF HostTold, LiveKinds, Starts
<1> DEFINE g == Grown(h, c.sequence, e)
<1>10. Accurate(g, a, Z, brain, d, Y, OnWay)
  <2>1. Accurate(g, a, Z, brain, d, e.controllers, OnWay)
    BY <1>1, <1>2, <1>4, <1>5, <1>7, <1>8, <1>9, RaiseAccurate
  <2> QED BY <1>8, <2>1
<1>11. g \in Accounting /\ g[d.sequence] = e
  BY <1>6, <1>7, GrownAccount
<1> HIDE DEF g
<1>12. InTurn(g[d.sequence], brain, d, pipe, client)
  BY <1>5, <1>7, <1>8, <1>11 DEF InTurn
<1>13. Trail(client.incoming.items, pipe.toBrain, d.queue.items, Z)
  BY <1>3, <1>5
<1> QED BY <1>3, <1>10, <1>11, <1>12, <1>13 DEF ListBody

\* In the line of queues what is queued is the last.
LEMMA QueuedTrail ==
    ASSUME IInv, NEW o \in Proper, UNCHANGED <<pipe, client>>, QueuedOne(o), NEW Z,
           Trail(client.incoming.items, pipe.toBrain, companion.queue.items, Z),
           Clear(OnWay, {o}, Z)
    PROVE  Trail(client'.incoming.items, pipe'.toBrain, companion'.queue.items, Z)
<1>1. /\ companion.queue.items \in Seq(Proper) /\ pipe.toBrain \in Seq(Proper)
      /\ client.incoming.items \in Seq(Proper)
  BY LossTyped, FlowTyped
<1>2. Trail(client.incoming.items, pipe.toBrain, Append(companion.queue.items, o), Z)
  BY <1>1, TrailAppend DEF OnWay
<1>3. companion'.queue.items \in {companion.queue.items, Append(companion.queue.items, o)}
  BY DEF QueuedOne
<1> QED BY <1>2, <1>3

\* The UI thread queues what it has in hand.
LEMMA CaptureHeldList ==
    ASSUME IInv, IInv', LossBody, ListBody, CaptureHeld, UNCHANGED otherVars
    PROVE  ListBody'
<1> DEFINE o == companion.held
           queue == Offer(companion.queue, o, QueueCapacity)
           stopping == companion.stopping \/ companion.held.kind = "SessionEnded"
           raced == IF companion.answer.phase = "Started"
                    THEN companion.raced \cup {companion.held.controller}
                    ELSE companion.raced
           c == [companion EXCEPT !.queue = queue, !.stopping = stopping,
                                  !.raced = raced, !.held = Nothing]
<1>1. companion' = c /\ UNCHANGED <<xpilot, pipe>> /\ companion.held # Nothing
  BY DEF CaptureHeld
<1>2. /\ brain \in Brains /\ companion \in Companions /\ companion' \in Companions
      /\ OnWay \in SUBSET Proper /\ o \in Proper
  BY LossTyped, CompanionFields DEF IInv, CompanionInv
<1> HIDE DEF stopping, raced
<1>3. companion'.queue = queue
  <2> HIDE DEF queue
  <2> QED BY <1>1, <1>2 DEF Companions
<1>4. /\ companion'.sequence = companion.sequence /\ companion'.raced = raced
      /\ companion'.held = Nothing /\ companion'.taken = companion.taken
      /\ companion'.answer = companion.answer
  <2> HIDE DEF queue
  <2> QED BY <1>1, <1>2 DEF Companions
<1> HIDE DEF c
<1>5. UNCHANGED <<pipe, client, brain, xpilot>>
  BY <1>1 DEF otherVars
<1>6. QueuedOne(o)
  BY <1>2, <1>3, <1>5, QueueOne
<1> HIDE DEF queue
<1>7. PICK h \in Accounting, a \in Nat, Z \in SUBSET Nat :
          /\ Accurate(h, a, Z, brain, companion, xpilot.controllers, OnWay)
          /\ InTurn(h[companion.sequence], brain, companion, pipe, client)
          /\ Trail(client.incoming.items, pipe.toBrain, companion.queue.items, Z)
  BY DEF ListBody
<1>8. OnWay' \subseteq OnWay \cup {o}
  BY <1>6 DEF QueuedOne
<1>9. Clear(OnWay, {o}, Z)
  BY <1>1, <1>7 DEF Accurate, Singular, Clear, Behind
<1>10. Trail(client'.incoming.items, pipe'.toBrain, companion'.queue.items, Z)
  BY <1>2, <1>5, <1>6, <1>7, <1>9, QueuedTrail
<1> HIDE DEF OnWay
<1>11. Accurate(h, a, Z, brain, companion', xpilot.controllers, OnWay')
  BY <1>1, <1>2, <1>4, <1>7, <1>8, CaptureHeldAccurate DEF raced
<1>12. InTurn(h[companion'.sequence], brain, companion', pipe, client)
  BY <1>4, <1>7 DEF InTurn
<1> QED BY <1>5, <1>10, <1>11, <1>12 DEF ListBody

\* The runner queues what it has in hand.
LEMMA CaptureTakenList ==
    ASSUME IInv, IInv', LossBody, ListBody, CaptureTaken, UNCHANGED otherVars
    PROVE  ListBody'
<1> DEFINE o == companion.taken
           queue == Offer(companion.queue, o, QueueCapacity)
           answer == companion.answer
           next == NextPhase(answer.phase, answer.left)
           following == IF next = "None" THEN NoAnswer ELSE [answer EXCEPT !.phase = next]
           c == [companion EXCEPT !.queue = queue, !.taken = Nothing, !.answer = following]
<1>1. companion' = c /\ UNCHANGED <<xpilot, pipe>> /\ companion.taken # Nothing
  BY DEF CaptureTaken
<1>2. /\ brain \in Brains /\ companion \in Companions /\ companion' \in Companions
      /\ OnWay \in SUBSET Proper /\ o \in Proper /\ answer \in Answers
  BY LossTyped, CompanionFields DEF IInv, CompanionInv
<1>3. companion'.queue = queue
  <2> HIDE DEF queue, following
  <2> QED BY <1>1, <1>2 DEF Companions
<1>4. /\ companion'.sequence = companion.sequence /\ companion'.raced = companion.raced
      /\ companion'.taken = Nothing /\ companion'.held = companion.held
      /\ companion'.answer = following
  <2> HIDE DEF queue, following
  <2> QED BY <1>1, <1>2 DEF Companions
<1>5. UNCHANGED <<pipe, client, brain, xpilot>>
  BY <1>1 DEF otherVars
<1>6. QueuedOne(o)
  BY <1>2, <1>3, <1>5, QueueOne
<1> HIDE DEF queue, c
<1>7. Sure(brain, companion, xpilot.process, OnWay)
  BY DEF LossBody
<1>8. answer.phase # "None"
  BY <1>1, <1>7 DEF Sure, Hands
<1>9. GoesOn(answer, following)
  BY <1>2, <1>8, AnswerGoesOn
<1> HIDE DEF following, next
<1>10. PICK h \in Accounting, a \in Nat, Z \in SUBSET Nat :
           /\ Accurate(h, a, Z, brain, companion, xpilot.controllers, OnWay)
           /\ InTurn(h[companion.sequence], brain, companion, pipe, client)
           /\ Trail(client.incoming.items, pipe.toBrain, companion.queue.items, Z)
  BY DEF ListBody
<1> DEFINE Y == Z \cup Overtaken(companion)
<1>11. OnWay' \subseteq OnWay \cup {o}
  BY <1>6 DEF QueuedOne
<1>12. /\ \A x \in OnWay : x.sequence \in Y => x.sequence \in Z
       /\ Starts(o) => o.sequence - 1 \notin Z
  BY <1>10 DEF Accurate, Singular, Starting, Overtaken
<1>13. Clear(OnWay, {o}, Y)
  <2>1. ASSUME NEW x \in OnWay, Starts(o), x.sequence \in Y
        PROVE  x.sequence + 1 # o.sequence
    <3>1. x.sequence # o.sequence - 1
      BY <1>12, <2>1
    <3>2. x.sequence \in Nat /\ o.sequence \in Nat
      BY <1>2, Numbers
    <3> QED BY <3>1, <3>2
  <2> QED BY <2>1 DEF Clear, Behind
<1>14. Trail(client.incoming.items, pipe.toBrain, companion.queue.items, Y)
  <2>1. /\ companion.queue.items \in Seq(Proper) /\ pipe.toBrain \in Seq(Proper)
        /\ client.incoming.items \in Seq(Proper)
    BY LossTyped, FlowTyped
  <2> HIDE DEF Y
  <2> QED BY <1>10, <1>12, <2>1, TrailWidens DEF OnWay
<1>15. Trail(client'.incoming.items, pipe'.toBrain, companion'.queue.items, Y)
  <2> HIDE DEF Y
  <2> QED BY <1>2, <1>5, <1>6, <1>13, <1>14, QueuedTrail
<1> HIDE DEF OnWay
<1>16. Accurate(h, a, Y, brain, companion', xpilot.controllers, OnWay')
  BY <1>1, <1>2, <1>4, <1>7, <1>9, <1>10, <1>11, CaptureTakenAccurate
<1>17. InTurn(h[companion'.sequence], brain, companion', pipe, client)
  BY <1>4, <1>8, <1>9, <1>10 DEF InTurn, GoesOn, NoAnswer
<1>18. Y \in SUBSET Nat
  BY <1>16 DEF Accurate, Starting
<1> HIDE DEF Y
<1> QED BY <1>5, <1>15, <1>16, <1>17, <1>18 DEF ListBody

\* The next observation of an answer, and an account of it.
LEMMA AnswerAccount ==
    ASSUME NEW p \in Accounts, NEW c \in Companions, NEW d \in Companions, Answering(p, c),
           c.taken = Nothing, c.answer.phase # "None", d.taken # Nothing, NEW entry,
           c.answer.phase = "Entry" => entry \in c.answer.left,
           d.answer.phase = c.answer.phase, d.answer.request = c.answer.request,
           d.answer.listed = c.answer.listed,
           d.answer.left = IF c.answer.phase = "Entry" THEN c.answer.left \ {entry}
                           ELSE c.answer.left,
           d.taken.request = c.answer.request, d.taken.listed = c.answer.listed,
           c.answer.phase = "Started" => d.taken.kind = "SnapshotStarted",
           c.answer.phase = "Entry" =>
               d.taken.kind = "SnapshotEntry" /\ d.taken.controller = entry,
           c.answer.phase = "Completed" => d.taken.kind = "SnapshotCompleted",
           c.answer.phase = "Failed" => d.taken.kind = "CorruptEnvelope"
    PROVE  \E e \in Accounts :
               /\ e.controllers = p.controllers /\ e.cut = p.cut
               /\ Accounted(d.taken, p, e) /\ Answering(e, d)
               /\ e.request \in {p.request, c.answer.request} /\ p.request <= e.request
               /\ Starts(d.taken) => c.answer.phase = "Started"
<1> USE DEF LiveKinds, Starts, Completes
<1>1. c.answer \in Answers
  BY CompanionFields
<1>2. /\ c.answer.phase \in {"Started", "Entry", "Completed", "Failed"}
      /\ c.answer.request \in Nat /\ p.request \in Nat
      /\ c.answer.listed \in SUBSET Controllers /\ c.answer.left \in SUBSET Controllers
  BY <1>1 DEF Answers, Phases, Accounts
<1>3. CASE c.answer.phase = "Started"
  <2> DEFINE r == c.answer.request
             l == c.answer.listed
             m == c.answer.left
             e == [p EXCEPT !.listed = l, !.left = m, !.request = r]
  <2>1. r \in Nat /\ l \in SUBSET Controllers /\ m \in SUBSET Controllers
    BY <1>2
  <2>2. m = l /\ p.request < r
    BY <1>3 DEF Answering
  <2> HIDE DEF r, l, m
  <2>3. /\ e \in Accounts /\ e.controllers = p.controllers /\ e.cut = p.cut
        /\ e.listed = l /\ e.left = m /\ e.request = r
    BY <2>1 DEF Accounts
  <2> HIDE DEF e
  <2>4. Accounted(d.taken, p, e)
    BY <1>3, <2>2, <2>3 DEF Accounted, r, l, m
  <2>5. Answering(e, d)
    BY <1>3, <2>2, <2>3 DEF Answering, r, l, m
  <2>6. p.request <= e.request /\ e.request = c.answer.request
    BY <1>2, <2>1, <2>2, <2>3 DEF r
  <2> QED BY <1>3, <2>3, <2>4, <2>5, <2>6
<1>4. CASE c.answer.phase = "Entry"
  <2> DEFINE m == p.left \ {entry}
             e == [p EXCEPT !.left = m]
  <2>1. /\ p.request = c.answer.request /\ p.listed = c.answer.listed
        /\ p.left = c.answer.left /\ c.answer.left \subseteq c.answer.listed
    BY <1>4 DEF Answering
  <2>2. m \in SUBSET Controllers
    BY DEF Accounts
  <2> HIDE DEF m
  <2>3. /\ e \in Accounts /\ e.controllers = p.controllers /\ e.cut = p.cut
        /\ e.listed = p.listed /\ e.left = m /\ e.request = p.request
    BY <2>2 DEF Accounts
  <2> HIDE DEF e
  <2>4. Accounted(d.taken, p, e)
    BY <1>4, <2>1, <2>3 DEF Accounted, m
  <2>5. Answering(e, d)
    BY <1>4, <2>1, <2>3 DEF Answering, m
  <2> QED BY <1>2, <1>4, <2>3, <2>4, <2>5
<1>5. CASE c.answer.phase = "Completed"
  <2>1. p.request = c.answer.request /\ p.left = c.answer.left /\ c.answer.left = {}
    BY <1>5 DEF Answering
  <2>2. Accounted(d.taken, p, p)
    BY <1>5, <2>1 DEF Accounted
  <2>3. Answering(p, d)
    BY <1>5, <2>1 DEF Answering
  <2> QED BY <1>2, <1>5, <2>2, <2>3
<1>6. CASE c.answer.phase = "Failed"
  <2>1. Accounted(d.taken, p, p)
    BY <1>6 DEF Accounted
  <2>2. Answering(p, d)
    BY <1>6 DEF Answering
  <2> QED BY <1>2, <1>6, <2>1, <2>2
<1> QED BY <1>2, <1>3, <1>4, <1>5, <1>6

\* The runner numbers an observation of its answer.
LEMMA NumberAnswerList ==
    ASSUME IInv, IInv', LossBody, ListBody, NumberAnswer, UNCHANGED otherVars
    PROVE  ListBody'
<1> DEFINE answer == companion.answer
           entry  == CHOOSE x \in answer.left : TRUE
           left   == IF answer.phase = "Entry" THEN answer.left \ {entry} ELSE answer.left
           kind   == CASE answer.phase = "Started"   -> "SnapshotStarted"
                       [] answer.phase = "Entry"     -> "SnapshotEntry"
                       [] answer.phase = "Completed" -> "SnapshotCompleted"
                       [] OTHER                      -> "CorruptEnvelope"
           controller == IF answer.phase = "Entry" THEN entry ELSE NoController
           base == NewObservation(kind)
           o == [base EXCEPT !.request = answer.request, !.listed = answer.listed,
                             !.controller = controller]
           next == [answer EXCEPT !.left = left]
           sequence == companion.sequence + 1
           c == [companion EXCEPT !.sequence = sequence, !.taken = o, !.answer = next]
           d == companion'
<1>1. /\ companion' = c /\ UNCHANGED <<xpilot, pipe>> /\ companion.taken = Nothing
      /\ answer.phase # "None"
  BY DEF NumberAnswer
<1>2. /\ answer.phase = "Started" => kind = "SnapshotStarted"
      /\ answer.phase = "Entry" => kind = "SnapshotEntry"
      /\ answer.phase = "Completed" => kind = "SnapshotCompleted"
      /\ answer.phase = "Failed" => kind = "CorruptEnvelope"
      /\ kind \in AnswerKinds
  BY DEF AnswerKinds
<1>3. answer.phase = "Entry" => controller = entry
  OBVIOUS
<1> HIDE DEF kind, controller
<1>4. /\ o.kind = kind /\ o.sequence = companion.sequence + 1
      /\ o.request = answer.request /\ o.listed = answer.listed
      /\ o.controller = controller
  BY DEF NewObservation, NumberedIn, Local
<1>5. /\ brain \in Brains /\ companion \in Companions /\ d \in Companions
      /\ OnWay \in SUBSET Proper /\ answer \in Answers /\ AnswerInv(companion)
      /\ companion.sequence \in Nat
  BY LossTyped, CompanionFields DEF IInv, CompanionInv
<1>6. answer.phase = "Entry" => entry \in answer.left
  BY <1>1, <1>5 DEF AnswerInv
<1>7. left = IF answer.phase = "Entry" THEN answer.left \ {entry} ELSE answer.left
  OBVIOUS
<1> HIDE DEF left, entry
<1>8. /\ next.phase = answer.phase /\ next.request = answer.request
      /\ next.listed = answer.listed /\ next.left = left
  BY <1>5 DEF Answers
<1>9. sequence = companion.sequence + 1
  OBVIOUS
<1> HIDE DEF o, next, sequence
<1>10. /\ d.sequence = sequence /\ d.raced = companion.raced
       /\ d.taken = o /\ d.held = companion.held
       /\ d.queue = companion.queue /\ d.answer = next
  BY <1>1, <1>5 DEF Companions
<1> HIDE DEF c
<1>11. UNCHANGED <<pipe, client, brain, xpilot>>
  BY <1>1 DEF otherVars
<1>12. OnWay' = OnWay
  BY <1>10, <1>11 DEF OnWay
<1>13. Sure(brain, companion, xpilot.process, OnWay) /\ answer.request < brain.nextRequest
  BY <1>1 DEF LossBody, Asked
<1>14. PICK h \in Accounting, a \in Nat, Z \in SUBSET Nat :
           /\ Accurate(h, a, Z, brain, companion, xpilot.controllers, OnWay)
           /\ InTurn(h[companion.sequence], brain, companion, pipe, client)
           /\ Trail(client.incoming.items, pipe.toBrain, companion.queue.items, Z)
  BY DEF ListBody
<1> HIDE DEF OnWay
<1>15. o # Nothing
  BY <1>2, <1>4 DEF AnswerKinds, Nothing, Local
<1> DEFINE p == h[companion.sequence]
<1>16. p \in Accounts /\ p.controllers = xpilot.controllers /\ Answering(p, companion)
  BY <1>5, <1>14, AccountFields DEF Accurate, Kept
<1>17. PICK e \in Accounts :
           /\ e.controllers = p.controllers /\ e.cut = p.cut
           /\ Accounted(d.taken, p, e) /\ Answering(e, d)
           /\ e.request \in {p.request, answer.request} /\ p.request <= e.request
           /\ Starts(d.taken) => answer.phase = "Started"
  <2> HIDE DEF p, d
  <2> QED BY <1>1, <1>2, <1>3, <1>4, <1>5, <1>6, <1>7, <1>8, <1>10, <1>15, <1>16,
             AnswerAccount
<1> DEFINE g == Grown(h, companion.sequence, e)
<1>18. Accurate(g, a, Z, brain, d, xpilot.controllers, OnWay)
  <2>1. /\ d.sequence = companion.sequence + 1 /\ d.taken.sequence = d.sequence
        /\ d.taken.listed = answer.listed /\ d.taken.request = answer.request
        /\ d.taken # Nothing
    BY <1>4, <1>9, <1>10, <1>15
  <2>2. p.request <= e.request
    BY <1>17
  <2> HIDE DEF d
  <2> QED BY <1>1, <1>5, <1>10, <1>13, <1>14, <1>16, <1>17, <2>1, <2>2, NumberAccurate
<1>19. g \in Accounting /\ g[d.sequence] = e
  BY <1>5, <1>9, <1>10, GrownAccount
<1> HIDE DEF g
<1>20. InTurn(g[d.sequence], brain, d, pipe, client)
  BY <1>1, <1>8, <1>10, <1>13, <1>14, <1>17, <1>19 DEF InTurn
<1>21. Trail(client.incoming.items, pipe.toBrain, d.queue.items, Z)
  BY <1>10, <1>14
<1> QED BY <1>11, <1>12, <1>18, <1>19, <1>20, <1>21 DEF ListBody

\* What has no number of the companion's comes, goes or moves: the account stays.
LEMMA FlowList ==
    ASSUME ListBody, UNCHANGED brain, xpilot'.controllers = xpilot.controllers,
           companion'.sequence = companion.sequence, companion'.held = companion.held,
           companion'.taken = companion.taken, companion'.answer = companion.answer,
           companion'.raced = companion.raced,
           \A o \in OnWay' \ OnWay : o.sequence = 0 /\ o.kind \in LocalKinds \cup {"Hello"},
           \A e : InTurn(e, brain, companion, pipe, client)
                      => InTurn(e, brain, companion', pipe', client'),
           \A Z : 0 \notin Z /\ Trail(client.incoming.items, pipe.toBrain,
                                      companion.queue.items, Z)
                      => Trail(client'.incoming.items, pipe'.toBrain,
                               companion'.queue.items, Z)
    PROVE  ListBody'
<1>1. PICK h \in Accounting, a \in Nat, Z \in SUBSET Nat :
          /\ Accurate(h, a, Z, brain, companion, xpilot.controllers, OnWay)
          /\ InTurn(h[companion.sequence], brain, companion, pipe, client)
          /\ Trail(client.incoming.items, pipe.toBrain, companion.queue.items, Z)
  BY DEF ListBody
<1>2. 0 \notin Z
  BY <1>1 DEF Accurate, Starting
<1> HIDE DEF OnWay
<1>3. Accurate(h, a, Z, brain, companion', xpilot.controllers, OnWay')
  BY <1>1, OtherAccurate
<1>4. InTurn(h[companion'.sequence], brain, companion', pipe', client')
  BY <1>1
<1>5. Trail(client'.incoming.items, pipe'.toBrain, companion'.queue.items, Z)
  BY <1>1, <1>2
<1> QED BY <1>3, <1>4, <1>5 DEF ListBody

\* The runner waits for a client.
LEMMA CreatePipeList ==
    ASSUME IInv, ListBody, CreatePipe, UNCHANGED otherVars
    PROVE  ListBody'
<1> DEFINE r == IF companion.stopping THEN "Stopped" ELSE "Listening"
           c == [companion EXCEPT !.runner = r]
<1>1. /\ companion' = c /\ UNCHANGED <<xpilot, pipe>> /\ companion \in Companions
      /\ UNCHANGED <<brain, client>>
  BY DEF CreatePipe, IInv, CompanionInv, otherVars
<1>2. /\ c.sequence = companion.sequence /\ c.raced = companion.raced
      /\ c.held = companion.held /\ c.taken = companion.taken
      /\ c.queue = companion.queue /\ c.answer = companion.answer
  <2> HIDE DEF r
  <2> QED BY <1>1 DEF Companions
<1> HIDE DEF c
<1>3. OnWay' = OnWay
  BY <1>1, <1>2 DEF OnWay
<1>4. \A e : InTurn(e, brain, companion, pipe, client)
                 => InTurn(e, brain, companion', pipe', client')
  BY <1>1, <1>2 DEF InTurn
<1> QED BY <1>1, <1>2, <1>3, <1>4, FlowList

\* The runner takes a request from the pipe and copies the list.
LEMMA ReadCommandList ==
    ASSUME IInv, IInv', LossBody, ListBody, NEW readable \in BOOLEAN,
           ReadCommand(readable), UNCHANGED otherVars
    PROVE  ListBody'
<1> DEFINE request == Head(pipe.toCompanion)
           phase == IF readable THEN "Started" ELSE "Failed"
           answer == [phase |-> phase, request |-> request,
                      listed |-> xpilot.controllers, left |-> xpilot.controllers]
           rest == Tail(pipe.toCompanion)
           c == [companion EXCEPT !.answer = answer, !.raced = {}]
<1>1. /\ companion' = c /\ pipe' = [pipe EXCEPT !.toCompanion = rest]
      /\ UNCHANGED <<xpilot, brain, client>> /\ companion.answer.phase = "None"
      /\ pipe.toCompanion # <<>>
  BY DEF ReadCommand, RunnerIdle, otherVars
<1>2. /\ brain \in Brains /\ companion \in Companions /\ companion' \in Companions
      /\ OnWay \in SUBSET Proper /\ pipe \in Pipes /\ client \in Clients
      /\ companion.sequence \in Nat
  BY LossTyped, CompanionFields DEF IInv, CompanionInv
<1>3. /\ answer.request = request /\ answer.phase \in {"Started", "Failed"}
      /\ answer.listed = xpilot.controllers /\ answer.left = xpilot.controllers
  OBVIOUS
<1>4. request \in Items(pipe.toCompanion)
  <2>1. pipe.toCompanion \in Seq(Nat)
    BY <1>2 DEF Pipes
  <2> QED BY <1>1, <2>1, ItemsTake
<1> HIDE DEF answer, rest, request
<1>5. /\ c.sequence = companion.sequence /\ c.raced = {}
      /\ c.held = companion.held /\ c.taken = companion.taken
      /\ c.queue = companion.queue /\ c.answer = answer
  BY <1>2 DEF Companions
<1>6. pipe'.toBrain = pipe.toBrain /\ pipe'.toCompanion = rest
  BY <1>1, <1>2 DEF Pipes
<1> HIDE DEF c
<1>7. OnWay' = OnWay
  BY <1>1, <1>5, <1>6 DEF OnWay
<1>8. /\ Sure(brain, companion, xpilot.process, OnWay) /\ request < brain.nextRequest
  BY <1>4 DEF LossBody, Asked
<1>9. PICK h \in Accounting, a \in Nat, Z \in SUBSET Nat :
          /\ Accurate(h, a, Z, brain, companion, xpilot.controllers, OnWay)
          /\ InTurn(h[companion.sequence], brain, companion, pipe, client)
          /\ Trail(client.incoming.items, pipe.toBrain, companion.queue.items, Z)
  BY DEF ListBody
<1> HIDE DEF OnWay
<1>10. /\ InTurn(h[companion.sequence], brain, companion', pipe', client)
       /\ h[companion.sequence].request < companion'.answer.request
  <2>1. pipe'.toCompanion = Tail(pipe.toCompanion)
    BY <1>6 DEF rest
  <2>2. companion'.answer.request = Head(pipe.toCompanion)
    BY <1>1, <1>3, <1>5 DEF request
  <2> QED BY <1>1, <1>2, <1>9, <2>1, <2>2, TurnRead
<1>11. Accurate(h, a, Z, brain, companion', xpilot.controllers, OnWay)
  BY <1>1, <1>2, <1>3, <1>5, <1>8, <1>9, <1>10, ReadAccurate
<1> QED BY <1>1, <1>5, <1>6, <1>7, <1>9, <1>10, <1>11 DEF ListBody

\* The runner greets.
LEMMA WriteHelloList ==
    ASSUME IInv, IInv', ListBody, WriteHello, UNCHANGED otherVars
    PROVE  ListBody'
<1> DEFINE o == [Local("Hello") EXCEPT !.process = xpilot.process, !.epoch = companion.epoch]
           sent == Append(pipe.toBrain, o)
           c == [companion EXCEPT !.runner = "Connected"]
<1>1. /\ UNCHANGED <<xpilot, brain, client>>
      /\ companion' = c /\ pipe' = [pipe EXCEPT !.toBrain = sent]
  BY DEF WriteHello, otherVars
<1>2. /\ brain \in Brains /\ companion \in Companions /\ companion' \in Companions
      /\ xpilot.process \in Nat /\ OnWay \in SUBSET Proper /\ pipe \in Pipes
      /\ client \in Clients
  BY LossTyped DEF IInv, CompanionInv
<1>3. companion.epoch \in Nat
  BY <1>2, CompanionFields
<1>4. o.kind = "Hello" /\ o.sequence = 0
  BY DEF Local
<1>5. o \in Proper
  <2>1. Local("Hello") \in Observation
    BY LocalType DEF Kinds
  <2>2. o \in Observation
    BY <1>2, <1>3, <2>1 DEF Local, Observation
  <2> QED BY <1>4, <2>2, OtherKindProper DEF LiveKinds
<1> HIDE DEF o
<1>6. /\ c.sequence = companion.sequence /\ c.raced = companion.raced
      /\ c.held = companion.held /\ c.taken = companion.taken
      /\ c.queue = companion.queue /\ c.answer = companion.answer
  BY <1>2 DEF Companions
<1>7. pipe'.toBrain = sent /\ pipe'.toCompanion = pipe.toCompanion
  <2> HIDE DEF sent
  <2> QED BY <1>1, <1>2 DEF Pipes
<1> HIDE DEF c
<1>8. /\ companion.queue.items \in Seq(Proper) /\ pipe.toBrain \in Seq(Proper)
      /\ client.incoming.items \in Seq(Proper)
  BY <1>2, FlowTyped
<1>9. OnWay' = OnWay \cup {o}
  <2>1. Items(sent) = Items(pipe.toBrain) \cup {o}
    BY <1>5, <1>8, ItemsAppend
  <2> HIDE DEF sent
  <2> QED BY <1>1, <1>6, <1>7, <2>1 DEF OnWay
<1>10. ASSUME NEW Z, 0 \notin Z,
              Trail(client.incoming.items, pipe.toBrain, companion.queue.items, Z)
       PROVE  Trail(client.incoming.items, sent, companion.queue.items, Z)
  <2>1. ~Starts(o)
    BY <1>4 DEF Starts
  <2> QED BY <1>4, <1>5, <1>8, <1>10, <2>1, TrailJoins
<1> HIDE DEF OnWay, sent
<1>11. \A e : InTurn(e, brain, companion, pipe, client)
                 => InTurn(e, brain, companion', pipe', client')
  BY <1>1, <1>6, <1>7 DEF InTurn, Pending
<1> QED BY <1>1, <1>4, <1>6, <1>7, <1>9, <1>10, <1>11, FlowList

\* The runner writes the first of its queue, and reports a loss when that leaves
\* the queue room.
LEMMA WriteObservationList ==
    ASSUME IInv, IInv', LossBody, ListBody, WriteObservation, UNCHANGED otherVars
    PROVE  ListBody'
<1> DEFINE q == companion.queue.items
           p == pipe.toBrain
           a == client.incoming.items
           rest == Tail(q)
           sent == Append(p, Head(q))
           queue == [companion.queue EXCEPT !.items = rest]
           c == [companion EXCEPT !.queue = queue]
           d == MaterializeLoss(c)
           F == OnWay
           X == xpilot.controllers
<1>1. /\ brain \in Brains /\ companion \in Companions /\ companion' \in Companions
      /\ xpilot \in XPilots /\ F \in SUBSET Proper
      /\ pipe \in Pipes /\ client \in Clients /\ companion.sequence \in Nat
  BY LossTyped, CompanionFields DEF IInv, CompanionInv
<1>2. /\ q \in Seq(Proper) /\ p \in Seq(Proper) /\ a \in Seq(Proper)
      /\ companion.queue \in ProperQueues /\ Len(q) \in Nat
  BY <1>1, FlowTyped
<1>3. Sure(brain, companion, xpilot.process, F)
  BY DEF LossBody
<1>4. MaterializeLoss(companion) = companion
  <2>1. ~LossIsDue(companion.queue, QueueCapacity)
    BY <1>2, <1>3, Bounds DEF Sure, Reported, Losing, LossIsDue
  <2> QED BY <2>1 DEF MaterializeLoss
<1>5. /\ q # <<>> /\ UNCHANGED <<xpilot, brain, client>>
      /\ companion.answer.phase = "None" /\ pipe' = [pipe EXCEPT !.toBrain = sent]
      /\ companion' = MaterializeLoss([companion EXCEPT !.queue.items = rest])
  BY <1>4 DEF WriteObservation, RunnerIdle, otherVars
<1>6. companion' = d
  BY <1>5
<1>7. /\ rest \in Seq(Proper) /\ sent \in Seq(Proper) /\ queue \in ProperQueues
      /\ Items(q) = {Head(q)} \cup Items(rest) /\ Items(sent) = Items(p) \cup {Head(q)}
  <2>1. queue \in ProperQueues
    BY <1>2, <1>5, DequeueType
  <2>2. Head(q) \in Proper /\ rest \in Seq(Proper) /\ Items(q) = {Head(q)} \cup Items(rest)
    BY <1>2, <1>5, ItemsTake
  <2> QED BY <1>2, <2>1, <2>2, ItemsAppend, AppendProperties
<1>8. queue.items = rest
  <2> HIDE DEF rest
  <2> QED BY <1>2 DEF ProperQueues
<1>9. OnWay = (Items(a) \cup Items(sent)) \cup Items(rest)
  BY <1>7 DEF OnWay
<1>10. PICK h \in Accounting, z \in Nat, Z \in SUBSET Nat :
           /\ Accurate(h, z, Z, brain, companion, X, OnWay)
           /\ InTurn(h[companion.sequence], brain, companion, pipe, client)
           /\ Trail(a, p, q, Z)
  BY DEF ListBody
<1>11. Trail(a, sent, rest, Z)
  BY <1>2, <1>5, <1>10, TrailWrites
<1> HIDE DEF sent, rest
<1>12. pipe'.toBrain = sent /\ pipe'.toCompanion = pipe.toCompanion
  BY <1>1, <1>5 DEF Pipes
<1> HIDE DEF queue
<1>13. /\ c \in Companions /\ c.queue = queue /\ c.sequence = companion.sequence
       /\ c.raced = companion.raced /\ c.held = companion.held
       /\ c.taken = companion.taken /\ c.answer = companion.answer
  <2>1. c \in Companions
    BY <1>1, <1>7, ZenonT(60) DEF Companions
  <2> QED BY <1>1, <2>1 DEF Companions
<1> HIDE DEF c
<1>14. OnWay' = (Items(a) \cup Items(sent)) \cup Items(d.queue.items)
  BY <1>5, <1>6, <1>12 DEF OnWay
<1>15. CASE LossIsDue(c.queue, QueueCapacity)
  <2>1. d.sequence = companion.sequence + 1 /\ d.answer = companion.answer
    BY <1>1, <1>13, <1>15, MaterializeReports
  <2>2. PICK o \in Proper :
            /\ Reports(o) /\ o.sequence = companion.sequence + 1
            /\ d.queue.items = Append(rest, o)
    BY <1>1, <1>8, <1>13, <1>15, MaterializeReports
  <2>3. d.held = companion.held /\ d.taken = companion.taken
    BY <1>13, MaterializeFields
  <2>4. d.raced = companion.raced
    <3> DEFINE base == NumberedIn(xpilot.process, c, "CapacityLoss")
               report == [base EXCEPT !.epoch = c.queue.loss.epoch]
               more == ReportLoss(c.queue, report)
               n == report.sequence
               e == [c EXCEPT !.sequence = n, !.queue = more]
    <3>1. d = e
      BY <1>15 DEF MaterializeLoss
    <3> HIDE DEF more, n
    <3>2. e.raced = c.raced
      BY <1>13 DEF Companions
    <3> QED BY <1>13, <3>1, <3>2
  <2>5. OnWay' = F \cup {o}
    <3>1. Items(d.queue.items) = Items(rest) \cup {o}
      BY <1>7, <2>2, ItemsAppend
    <3> QED BY <1>9, <1>14, <3>1
  <2> DEFINE g == Grown(h, companion.sequence, h[companion.sequence])
  <2>6. Accurate(g, z, Z, brain, d, X, F \cup {o})
    <3> HIDE DEF F, X, d
    <3>1. Accurate(h, z, Z, brain, companion, X, F)
      BY <1>10 DEF F
    <3>2. d \in Companions
      BY <1>1, <1>6
    <3> QED BY <1>1, <1>3, <1>5, <2>1, <2>2, <2>3, <2>4, <3>1, <3>2, WriteAccurate
  <2>7. g \in Accounting /\ g[d.sequence] = h[companion.sequence]
    <3>1. h[companion.sequence] \in Accounts
      BY <1>1, <1>10, AccountFields
    <3> QED BY <1>1, <2>1, <3>1, GrownAccount
  <2> HIDE DEF g
  <2>8. InTurn(g[d.sequence], brain, d, pipe', client)
    BY <1>10, <1>12, <2>1, <2>7 DEF InTurn, Pending
  <2>9. Trail(a, sent, d.queue.items, Z)
    <3>1. Clear((Items(a) \cup Items(sent)) \cup Items(rest), {o}, Z)
      BY <2>2 DEF Clear, Behind, Starts, Reports
    <3> HIDE DEF a
    <3>2. Trail(a, sent, Append(rest, o), Z)
      BY <1>2, <1>7, <1>11, <2>2, <3>1, TrailAppend
    <3> QED BY <2>2, <3>2
  <2> HIDE DEF d, OnWay
  <2> QED BY <1>5, <1>6, <1>12, <2>5, <2>6, <2>7, <2>8, <2>9 DEF ListBody
<1>16. CASE ~LossIsDue(c.queue, QueueCapacity)
  <2>1. d = c
    BY <1>16 DEF MaterializeLoss
  <2>2. OnWay' = OnWay /\ companion'.queue.items = rest
    BY <1>6, <1>8, <1>9, <1>13, <1>14, <2>1
  <2>3. /\ companion'.sequence = companion.sequence /\ companion'.raced = companion.raced
        /\ companion'.held = companion.held /\ companion'.taken = companion.taken
        /\ companion'.answer = companion.answer
    BY <1>6, <1>13, <2>1
  <2> HIDE DEF OnWay
  <2>4. Accurate(h, z, Z, brain, companion', X, OnWay')
    BY <1>10, <2>2, <2>3, OtherAccurate
  <2>5. InTurn(h[companion'.sequence], brain, companion', pipe', client)
    BY <1>10, <1>12, <2>3 DEF InTurn, Pending
  <2> QED BY <1>5, <1>11, <1>12, <2>2, <2>4, <2>5 DEF ListBody
<1> QED BY <1>15, <1>16

-----------------------------------------------------------------------------
(* The steps of the client and the Brain, and the account                  *)

\* The client's own reports have no number.
LEMMA ReportsList ==
    ASSUME IInv, NEW kind \in {"TransportConnected", "TransportDisconnected"},
           NEW connected \in BOOLEAN,
           client' = Publish([client EXCEPT !.connected = connected], Local(kind)),
           pipe'.toBrain = pipe.toBrain, companion'.queue = companion.queue
    PROVE  /\ \A o \in OnWay' \ OnWay : o.sequence = 0 /\ o.kind \in LocalKinds \cup {"Hello"}
           /\ client'.outgoing = client.outgoing
           /\ \A Z : 0 \notin Z /\ Trail(client.incoming.items, pipe.toBrain,
                                         companion.queue.items, Z)
                         => Trail(client'.incoming.items, pipe'.toBrain,
                                  companion'.queue.items, Z)
<1> DEFINE c == [client EXCEPT !.connected = connected]
           o == Local(kind)
           a == client.incoming.items
           p == pipe.toBrain
           q == companion.queue.items
<1>1. pipe \in Pipes /\ client \in Clients /\ companion \in Companions
  BY LossTyped
<1>2. /\ c \in Clients /\ c.incoming = client.incoming /\ c.outgoing = client.outgoing
  BY <1>1, ConnectedClientType, ConnectedFields DEF Clients
<1> HIDE DEF c
<1>3. /\ client'.outgoing = client.outgoing
      /\ client'.incoming.items = Append(a, o) \/ client'.incoming.items = a
  BY <1>2, PublishCases DEF c
<1>4. o \in Proper /\ o.kind \in LocalKinds /\ o.sequence = 0 /\ ~Starts(o)
  BY LocalProper DEF Local, LocalKinds, Starts
<1>5. a \in Seq(Proper) /\ p \in Seq(Proper) /\ q \in Seq(Proper)
  BY <1>1, FlowTyped
<1>6. /\ OnWay = (Items(a) \cup Items(p)) \cup Items(q)
      /\ OnWay' = (Items(client'.incoming.items) \cup Items(p)) \cup Items(q)
  BY DEF OnWay
<1> HIDE DEF o
<1>7. Items(Append(a, o)) = Items(a) \cup {o}
  BY <1>4, <1>5, ItemsAppend
<1>8. OnWay' = OnWay \/ OnWay' = OnWay \cup {o}
  BY <1>3, <1>6, <1>7
<1>9. ASSUME NEW Z, 0 \notin Z, Trail(a, p, q, Z)
      PROVE  Trail(client'.incoming.items, p, q, Z)
  <2>1. Trail(Append(a, o), p, q, Z)
    BY <1>4, <1>5, <1>9, TrailJoins
  <2> QED BY <1>3, <1>9, <2>1
<1> QED BY <1>3, <1>4, <1>8, <1>9

\* The client opens the pipe the companion waits on.
LEMMA ConnectClientList ==
    ASSUME IInv, LossBody, ListBody, ConnectClient
    PROVE  ListBody'
<1> DEFINE c == [companion EXCEPT !.runner = "Greeting"]
<1>1. /\ companion.runner = "Listening" /\ companion' = c
      /\ pipe' = [DeadPipe EXCEPT !.live = TRUE]
      /\ client' = Publish([client EXCEPT !.connected = TRUE], Local("TransportConnected"))
      /\ UNCHANGED <<xpilot, brain>> /\ companion \in Companions
  BY LossTyped DEF ConnectClient
<1>2. /\ c.sequence = companion.sequence /\ c.raced = companion.raced
      /\ c.held = companion.held /\ c.taken = companion.taken
      /\ c.queue = companion.queue /\ c.answer = companion.answer
  BY <1>1 DEF Companions
<1> HIDE DEF c
<1>3. pipe'.toBrain = <<>> /\ pipe'.toCompanion = <<>>
  BY <1>1 DEF DeadPipe
<1>4. pipe.toBrain = <<>>
  BY <1>1 DEF LossBody, Greeted
<1>5. /\ \A o \in OnWay' \ OnWay : o.sequence = 0 /\ o.kind \in LocalKinds \cup {"Hello"}
      /\ client'.outgoing = client.outgoing
      /\ \A Z : 0 \notin Z /\ Trail(client.incoming.items, pipe.toBrain,
                                    companion.queue.items, Z)
                    => Trail(client'.incoming.items, pipe'.toBrain,
                             companion'.queue.items, Z)
  BY <1>1, <1>2, <1>3, <1>4, ReportsList
<1>6. Items(<<>>) = {} /\ Rising(<<>>)
  BY ItemsType DEF Rising
<1>7. \A e : InTurn(e, brain, companion, pipe, client)
                 => InTurn(e, brain, companion', pipe', client')
  BY <1>1, <1>2, <1>3, <1>5, <1>6 DEF InTurn, Pending
<1> HIDE DEF OnWay
<1> QED BY <1>1, <1>2, <1>5, <1>7, FlowList

\* The client reports a pipe that failed.
LEMMA NoticeList ==
    ASSUME IInv, ListBody, NoticeDisconnect
    PROVE  ListBody'
<1>1. /\ client' = Publish([client EXCEPT !.connected = FALSE],
                           Local("TransportDisconnected"))
      /\ UNCHANGED <<xpilot, brain, companion, pipe>>
  BY DEF NoticeDisconnect
<1>2. /\ \A o \in OnWay' \ OnWay : o.sequence = 0 /\ o.kind \in LocalKinds \cup {"Hello"}
      /\ client'.outgoing = client.outgoing
      /\ \A Z : 0 \notin Z /\ Trail(client.incoming.items, pipe.toBrain,
                                    companion.queue.items, Z)
                    => Trail(client'.incoming.items, pipe'.toBrain,
                             companion'.queue.items, Z)
  BY <1>1, ReportsList
<1>3. \A e : InTurn(e, brain, companion, pipe, client)
                 => InTurn(e, brain, companion', pipe', client')
  BY <1>1, <1>2 DEF InTurn, Pending
<1> HIDE DEF OnWay
<1> QED BY <1>1, <1>2, <1>3, FlowList

\* A command moves from the client to the pipe.
LEMMA FlushList ==
    ASSUME IInv, ListBody, FlushCommand
    PROVE  ListBody'
<1> DEFINE sent == Append(pipe.toCompanion, Head(client.outgoing))
           rest == Tail(client.outgoing)
<1>1. /\ client.outgoing # <<>> /\ pipe' = [pipe EXCEPT !.toCompanion = sent]
      /\ client' = [client EXCEPT !.outgoing = rest]
      /\ UNCHANGED <<xpilot, brain, companion>> /\ pipe \in Pipes /\ client \in Clients
  BY LossTyped DEF FlushCommand
<1> HIDE DEF sent, rest
<1>2. /\ pipe'.toBrain = pipe.toBrain /\ pipe'.toCompanion = sent
      /\ client'.incoming = client.incoming /\ client'.outgoing = rest
  BY <1>1 DEF Pipes, Clients
<1>3. OnWay' = OnWay
  BY <1>1, <1>2 DEF OnWay
<1>4. ASSUME NEW e, InTurn(e, brain, companion, pipe, client)
      PROVE  InTurn(e, brain, companion, pipe', client')
  BY <1>1, <1>2, <1>4, TurnFlushed DEF sent, rest
<1> HIDE DEF OnWay
<1> QED BY <1>1, <1>2, <1>3, <1>4, FlowList

\* An observation moves from the pipe to the client's queue, or it is lost there.
LEMMA ReadList ==
    ASSUME IInv, ListBody, ReadObservation
    PROVE  ListBody'
<1> DEFINE a == client.incoming.items
           p == pipe.toBrain
           q == companion.queue.items
           h == Head(p)
           rest == Tail(p)
<1>1. /\ p # <<>> /\ pipe' = [pipe EXCEPT !.toBrain = rest]
      /\ client' = Publish(client, h)
      /\ UNCHANGED <<xpilot, brain, companion>>
  BY DEF ReadObservation
<1>2. pipe \in Pipes /\ client \in Clients /\ companion \in Companions
  BY LossTyped
<1>3. a \in Seq(Proper) /\ p \in Seq(Proper) /\ q \in Seq(Proper)
  BY <1>2, FlowTyped
<1>4. /\ Items(p) = {h} \cup Items(rest) /\ Items(Append(a, h)) = Items(a) \cup {h}
  BY <1>1, <1>3, ItemsTake, ItemsAppend
<1>5. \A Z : Trail(a, p, q, Z) => Trail(Append(a, h), rest, q, Z) /\ Trail(a, rest, q, Z)
  BY <1>1, <1>3, TrailReads
<1> HIDE DEF h, rest
<1>6. /\ pipe'.toBrain = rest /\ pipe'.toCompanion = pipe.toCompanion
  BY <1>1, <1>2 DEF Pipes
<1>7. /\ client'.outgoing = client.outgoing
      /\ client'.incoming.items = Append(a, h) \/ client'.incoming.items = a
  BY <1>1, <1>2, PublishCases
<1>8. /\ OnWay = (Items(a) \cup Items(p)) \cup Items(q)
      /\ OnWay' = (Items(client'.incoming.items) \cup Items(rest)) \cup Items(q)
  BY <1>1, <1>6 DEF OnWay
<1>9. OnWay' \subseteq OnWay
  BY <1>4, <1>7, <1>8
<1>10. \A Z : Trail(a, p, q, Z) => Trail(client'.incoming.items, pipe'.toBrain, q, Z)
  BY <1>5, <1>6, <1>7
<1>11. \A e : InTurn(e, brain, companion, pipe, client)
                  => InTurn(e, brain, companion', pipe', client')
  BY <1>1, <1>6, <1>7 DEF InTurn, Pending
<1> HIDE DEF OnWay
<1> QED BY <1>1, <1>9, <1>10, <1>11, FlowList

\* The Brain takes the first observation on its way.
LEMMA HarvestList ==
    ASSUME IInv, LossBody, ListBody, Harvest
    PROVE  ListBody'
<1> DEFINE a == client.incoming.items
           p == pipe.toBrain
           q == companion.queue.items
           o == Head(a)
           rest == Tail(a)
           l == Local("LocalCapacityLoss")
           F == (Items(rest) \cup Items(p)) \cup Items(q)
           X == xpilot.controllers
<1>1. /\ brain \in Brains /\ companion \in Companions /\ xpilot.process \in Nat
      /\ pipe \in Pipes /\ client \in Clients /\ OnWay \in SUBSET Proper /\ BrainInv
  BY LossTyped DEF IInv
<1>2. a \in Seq(Proper) /\ p \in Seq(Proper) /\ q \in Seq(Proper)
  BY <1>1, FlowTyped
<1>3. /\ a # <<>> /\ Consume(o) /\ client'.outgoing = client.outgoing
      /\ client'.incoming.items = rest \/ client'.incoming.items = Append(rest, l)
      /\ UNCHANGED <<xpilot, companion, pipe>>
  BY HarvestCases DEF companionVars
<1>4. o \in Proper /\ rest \in Seq(Proper) /\ Items(a) = {o} \cup Items(rest)
  BY <1>2, <1>3, ItemsTake
<1>5. PICK h \in Accounting, n \in Nat, Z \in SUBSET Nat :
          /\ Accurate(h, n, Z, brain, companion, X, OnWay)
          /\ InTurn(h[companion.sequence], brain, companion, pipe, client)
          /\ Trail(a, p, q, Z)
  BY DEF ListBody
<1>6. Trail(rest, p, q, Z) /\ Clear({o}, F, Z)
  BY <1>2, <1>3, <1>5, TrailTakes
<1>7. l \in Proper /\ l.kind \in LocalKinds /\ l.sequence = 0 /\ ~Starts(l)
  BY LocalProper DEF Local, LocalKinds, Starts
<1>8. brain'.nextRequest = brain.nextRequest
  BY <1>1, <1>3, <1>4, ConsumeHears DEF Hears
<1>9. OnWay = {o} \cup F
  BY <1>4 DEF OnWay
<1> HIDE DEF o, rest, l
<1>10. Items(Append(rest, l)) = Items(rest) \cup {l}
  BY <1>4, <1>7, ItemsAppend
<1>11. OnWay' = F \/ OnWay' = F \cup {l}
  BY <1>3, <1>10 DEF OnWay
<1>12. F \in SUBSET Proper
  BY <1>1, <1>9
<1>13. Sure(brain, companion, xpilot.process, {o} \cup F)
  BY <1>9 DEF LossBody
<1>14. 0 \notin Z /\ h[companion.sequence].request < brain.nextRequest
  BY <1>5 DEF Accurate, Starting, InTurn
<1> HIDE DEF F, OnWay, X
<1>15. Accurate(h, n, Z, brain', companion, X, F)
  BY <1>1, <1>3, <1>4, <1>5, <1>6, <1>9, <1>12, <1>13, <1>14, HearsAccurate
<1>16. Accurate(h, n, Z, brain', companion, X, OnWay')
  <2>1. \A x \in OnWay' \ F : x.sequence = 0 /\ x.kind \in LocalKinds \cup {"Hello"}
    BY <1>7, <1>11
  <2> QED BY <1>15, <2>1, OtherAccurate
<1>17. Trail(client'.incoming.items, p, q, Z)
  <2>1. Trail(Append(rest, l), p, q, Z)
    BY <1>2, <1>4, <1>6, <1>7, <1>14, TrailJoins
  <2> QED BY <1>3, <1>6, <2>1
<1>18. InTurn(h[companion.sequence], brain', companion, pipe, client')
  BY <1>3, <1>5, <1>8 DEF InTurn, Pending
<1> QED BY <1>3, <1>5, <1>16, <1>17, <1>18 DEF ListBody, X

\* The Brain's list and its numbers are the same.
LEMMA SameListStep ==
    ASSUME ListBody, UNCHANGED <<xpilot, companion, pipe, client>>, SameList(brain, brain')
    PROVE  ListBody'
<1>1. PICK h \in Accounting, a \in Nat, Z \in SUBSET Nat :
          /\ Accurate(h, a, Z, brain, companion, xpilot.controllers, OnWay)
          /\ InTurn(h[companion.sequence], brain, companion, pipe, client)
          /\ Trail(client.incoming.items, pipe.toBrain, companion.queue.items, Z)
  BY DEF ListBody
<1>2. OnWay' = OnWay
  BY DEF OnWay
<1> HIDE DEF OnWay
<1>3. Accurate(h, a, Z, brain', companion, xpilot.controllers, OnWay)
  BY <1>1, SameAccurate
<1>4. InTurn(h[companion.sequence], brain', companion, pipe, client)
  BY <1>1 DEF InTurn, SameList
<1> QED BY <1>1, <1>2, <1>3, <1>4 DEF ListBody

\* The call ends, and the Brain may ask for a list.
LEMMA ServeList ==
    ASSUME IInv, LossBody, ListBody, NEW late \in BOOLEAN, Serve(late)
    PROVE  ListBody'
<1> DEFINE room == /\ Len(client.outgoing) < OutgoingCapacity
                   /\ brain.nextRequest <= MaxRequests
           asks == RequestsSnapshot(late, room)
           more == Append(client.outgoing, brain.nextRequest)
<1>1. /\ brain \in Brains /\ companion \in Companions /\ client \in Clients
      /\ pipe \in Pipes /\ OnWay \in SUBSET Proper /\ BrainInv /\ companion.sequence \in Nat
      /\ brain.last \in Nat
  BY LossTyped, BrainFields, Numbers DEF IInv
<1>2. /\ EndService(late, room)
      /\ client' = IF asks THEN [client EXCEPT !.outgoing = more] ELSE client
      /\ UNCHANGED <<xpilot, companion, pipe>>
  BY DEF Serve
<1>3. room \in BOOLEAN
  OBVIOUS
<1>4. Serves(brain, brain', asks)
  BY <1>1, <1>2, EndServes
<1> HIDE DEF room
<1>5. PICK h \in Accounting, a \in Nat, Z \in SUBSET Nat :
          /\ Accurate(h, a, Z, brain, companion, xpilot.controllers, OnWay)
          /\ InTurn(h[companion.sequence], brain, companion, pipe, client)
          /\ Trail(client.incoming.items, pipe.toBrain, companion.queue.items, Z)
  BY DEF ListBody
<1>6. /\ h[companion.sequence].request < brain.nextRequest
      /\ companion.answer.phase # "None" => companion.answer.request < brain.nextRequest
      /\ h[companion.sequence].request \in Nat
  BY <1>1, <1>5, AccountFields DEF InTurn, LossBody, Asked
<1> DEFINE b == IF asks THEN brain.last ELSE a
<1>7. Sure(brain, companion, xpilot.process, OnWay)
  BY DEF LossBody
<1> HIDE DEF OnWay
<1>8. Accurate(h, b, Z, brain', companion, xpilot.controllers, OnWay)
  BY <1>1, <1>2, <1>3, <1>5, <1>6, <1>7, ServesAccurate
<1> HIDE DEF asks, more
<1>9. /\ client'.incoming = client.incoming
      /\ asks => client'.outgoing = more
      /\ ~asks => client'.outgoing = client.outgoing
  BY <1>1, <1>2 DEF Clients
<1>10. OnWay' = OnWay
  BY <1>2, <1>9 DEF OnWay
<1>11. InTurn(h[companion.sequence], brain', companion, pipe, client')
  <2>1. CASE asks
    <3>1. client'.outgoing = Append(client.outgoing, brain.nextRequest)
      BY <1>9, <2>1 DEF more
    <3>2. brain'.nextRequest = brain.nextRequest + 1
      BY <1>4, <2>1 DEF Serves
    <3>3. Asked(brain, companion, pipe, client)
      BY DEF LossBody
    <3> QED BY <1>1, <1>5, <1>6, <3>1, <3>2, <3>3, TurnAsked
  <2>2. CASE ~asks
    BY <1>4, <1>5, <1>9, <2>2 DEF Serves, InTurn, Pending
  <2> QED BY <2>1, <2>2
<1>12. b \in Nat
  BY <1>1, <1>5
<1> HIDE DEF b
<1> QED BY <1>2, <1>5, <1>8, <1>9, <1>10, <1>11, <1>12 DEF ListBody

-----------------------------------------------------------------------------
(* A complete list is accurate                                             *)

\* What the companion does.
LEMMA CompanionList ==
    ASSUME IInv, IInv', LossBody, ListBody, CompanionStep, Lasting,
           companion'.runner # "Stopped"
    PROVE  ListBody'
<1>1. UNCHANGED otherVars
  BY DEF CompanionStep, otherVars
<1>2. CASE Host
  BY <1>1, <1>2, HostList
<1>3. CASE CaptureHeld
  BY <1>1, <1>3, CaptureHeldList
<1>4. CASE RestartXPilot
  BY <1>4 DEF RestartXPilot, Disturbed, Lasting
<1>5. CASE CreatePipe
  BY <1>1, <1>5, CreatePipeList
<1>6. CASE WriteHello
  BY <1>1, <1>6, WriteHelloList
<1>7. CASE WriteObservation
  BY <1>1, <1>7, WriteObservationList
<1>8. CASE LosePipe
  BY <1>8 DEF LosePipe, RunnerIdle, LossBody, Greeted
<1>9. CASE StopGracefully
  <2>1. companion' = [companion EXCEPT !.runner = "Stopped"] /\ companion \in Companions
    BY <1>9 DEF StopGracefully, IInv, CompanionInv
  <2> QED BY <2>1 DEF Companions
<1>10. CASE \E readable \in BOOLEAN : ReadCommand(readable)
  BY <1>1, <1>10, ReadCommandList
<1>11. CASE NumberAnswer
  BY <1>1, <1>11, NumberAnswerList
<1>12. CASE CaptureTaken
  BY <1>1, <1>12, CaptureTakenList
<1> QED BY <1>2, <1>3, <1>4, <1>5, <1>6, <1>7, <1>8, <1>9, <1>10, <1>11, <1>12
        DEF CompanionStep, Runner

\* What the Brain does.
LEMMA BrainList ==
    ASSUME IInv, LossBody, ListBody, BrainStep
    PROVE  ListBody'
<1>1. CASE Harvest
  BY <1>1, HarvestList
<1>2. CASE \E late \in BOOLEAN : Serve(late)
  BY <1>2, ServeList
<1>3. CASE /\ FlightChanges \/ (ExpireDeferred /\ Disturbed("messages expire"))
           /\ UNCHANGED <<xpilot, companion, pipe, client>>
  <2>1. brain \in Brains
    BY LossTyped
  <2>2. brain' = brain \/ \E d : brain' = [brain EXCEPT !.deferred = d]
    BY <1>3 DEF FlightChanges, ChangeFlight, ExpireDeferred
  <2>3. SameList(brain, brain')
    BY <2>1, <2>2, OthersSame
  <2> QED BY <1>3, <2>3, SameListStep
<1> QED BY <1>1, <1>2, <1>3 DEF BrainStep

\* While the pipe and the processes last, every step preserves the invariant.
LEMMA ListStep ==
    ASSUME IInv, IInv', LossInv, ListInv, [Next]_vars, Lasting
    PROVE  ListInv'
<1> SUFFICES ASSUME companion'.runner # "Stopped" PROVE ListBody'
  BY DEF ListInv, ListBody
<1>1. companion.runner # "Stopped"
  BY StoppedStays DEF IInv
<1>2. LossBody /\ ListBody
  BY <1>1 DEF LossInv, LossBody, ListInv, ListBody
<1>3. CASE CompanionStep
  BY <1>2, <1>3, CompanionList
<1>4. CASE ClientStep
  BY <1>2, <1>4, ConnectClientList, FlushList, ReadList, NoticeList DEF ClientStep
<1>5. CASE BrainStep
  BY <1>2, <1>5, BrainList
<1>6. ~BreakPipe /\ ~RestartPlugin
  BY DEF BreakPipe, RestartPlugin, Disturbed, Lasting
<1>7. CASE UNCHANGED vars
  <2>1. UNCHANGED <<xpilot, companion, pipe, client, brain>>
    BY <1>7 DEF vars
  <2>2. SameList(brain, brain')
    BY <2>1 DEF SameList
  <2> QED BY <1>2, <2>1, <2>2, SameListStep
<1> QED BY <1>3, <1>4, <1>5, <1>6, <1>7 DEF Next

\* At the start xPilot shows no controllers and nothing has been listed.
LEMMA ListInit == Init => ListInv
<1> SUFFICES ASSUME Init PROVE ListBody
  BY DEF ListInv, ListBody
<1> DEFINE o == companion.held
           e == [controllers |-> {}, listed |-> {}, left |-> {}, request |-> 0, cut |-> 0]
           h == [n \in Nat |-> e]
           noOne == {}
<1>1. /\ xpilot = FreshXPilot(1) /\ companion = FreshCompanion(1) /\ pipe = DeadPipe
      /\ brain = FreshBrain /\ client = FreshClient
  BY DEF Init, CompanionInit, BrainInit
<1>2. xpilot.controllers = {}
  BY <1>1 DEF FreshXPilot
<1>3. /\ companion.sequence = 1 /\ companion.taken = Nothing
      /\ companion.queue = EmptyQueue /\ companion.answer = NoAnswer
      /\ o = NumberedIn(1, [sequence |-> 0, epoch |-> 0,
             held |-> Nothing, taken |-> Nothing, queue |-> EmptyQueue,
             runner |-> "Closed", answer |-> NoAnswer, stopping |-> FALSE,
             raced |-> {}], "SourceAvailable")
  BY <1>1 DEF FreshCompanion
<1>4. o.sequence = 1 /\ o.kind = "SourceAvailable"
  BY <1>3 DEF NumberedIn, Local
<1>5. Nothing.sequence = 0 /\ Nothing.kind = "None"
  BY DEF Nothing, Local
<1> HIDE DEF o
<1>6. /\ companion.queue.items = <<>> /\ pipe.toBrain = <<>> /\ pipe.toCompanion = <<>>
      /\ client.incoming.items = <<>> /\ client.outgoing = <<>>
  BY <1>1, <1>3 DEF DeadPipe, FreshClient, EmptyQueue
<1>7. Items(<<>>) = {} /\ DOMAIN <<>> = {}
  BY ItemsType
<1>8. OnWay = {}
  BY <1>6, <1>7 DEF OnWay
<1>9. /\ ~brain.source /\ ~brain.pending /\ brain.recovery /\ ~brain.build.active
      /\ brain.last = 0 /\ brain.nextRequest = 1
  BY <1>1 DEF FreshBrain, NoBuild
<1>10. companion.answer.phase = "None" /\ companion.answer.left \subseteq companion.answer.listed
  BY <1>3 DEF NoAnswer
<1>11. /\ h \in Accounting
       /\ \A n \in Nat : /\ h[n].controllers = {} /\ h[n].request = 0 /\ h[n].cut = 0
                         /\ h[n] = e
  BY DEF Accounting, Accounts
<1> HIDE DEF h, e, OnWay
<1>12. Kept(h, companion, xpilot.controllers)
  BY <1>2, <1>3, <1>11 DEF Kept
<1>13. ~Starts(o) /\ ~Starts(Nothing)
  BY <1>4, <1>5 DEF Starts
<1>14. Answering(h[companion.sequence], companion)
  BY <1>3, <1>10, <1>13 DEF Answering
<1>15. Recorded(h, o) /\ Recorded(h, Nothing)
  <2>1. Recorded(h, o)
    BY <1>4, <1>11 DEF Recorded, Accounted, LiveKinds, Starts, Completes
  <2>2. Recorded(h, Nothing)
    BY <1>5 DEF Recorded
  <2> QED BY <2>1, <2>2
<1>16. Informed(h[brain.last], 0, brain, companion.raced)
  BY <1>9 DEF Informed
<1>17. noOne \subseteq Nat \ {0} /\ \A n \in noOne : n < companion.sequence
  OBVIOUS
<1>18. Starting(h, 0, noOne, brain, companion, OnWay)
  BY <1>3, <1>8, <1>10, <1>13, <1>17 DEF Starting
<1>19. Singular(brain, companion, OnWay)
  BY <1>3, <1>4, <1>5, <1>8, <1>9, <1>13 DEF Singular, o
<1>20. Accurate(h, 0, noOne, brain, companion, xpilot.controllers, OnWay)
  <2>1. \A x \in OnWay \cup {companion.held, companion.taken} : Recorded(h, x)
    BY <1>3, <1>8, <1>15 DEF o
  <2>2. 0 \in Nat /\ 0 <= companion.sequence
    BY <1>3
  <2> QED BY <1>12, <1>14, <1>16, <1>18, <1>19, <2>1, <2>2 DEF Accurate
<1>21. InTurn(h[companion.sequence], brain, companion, pipe, client)
  <2>1. Rising(<<>>) /\ Pending(pipe, client) = {}
    BY <1>6, <1>7 DEF Rising, Pending
  <2>2. h[companion.sequence].request = 0
    BY <1>3, <1>11
  <2> QED BY <1>6, <1>7, <1>9, <2>1, <2>2 DEF InTurn
<1>22. Trail(client.incoming.items, pipe.toBrain, companion.queue.items, noOne)
  BY <1>6, <1>7 DEF Trail, Trailing, Clear
<1>23. noOne \in SUBSET Nat /\ 0 \in Nat
  OBVIOUS
<1> QED BY <1>11, <1>20, <1>21, <1>22, <1>23 DEF ListBody

\* A Brain that needs no list knows the account of the companion's last number,
\* and that of what xPilot shows.
LEMMA ListKnown == IInv /\ LossInv /\ ListInv /\ Lasting => ListIsAccurate
<1> SUFFICES ASSUME IInv, LossInv, ListInv, Lasting, Listed,
                    NEW x \in Controllers \ companion.raced
             PROVE  x \in brain.list <=> x \in xpilot.controllers
  BY DEF ListIsAccurate
<1>1. Drained /\ ~brain.recovery
  BY DEF Listed, Quiet
<1>2. companion.runner # "Stopped"
  BY <1>1 DEF Drained
<1>3. LossBody /\ ListBody
  BY <1>2 DEF LossInv, LossBody, ListInv, ListBody
<1>4. brain.process = xpilot.process
  BY <1>1, <1>3 DEF LossBody, Sure, Counting
<1>5. brain.last = companion.sequence
  BY <1>1, <1>4, DrainedKnows DEF LossIsReported
<1>6. PICK h \in Accounting, a \in Nat, Z \in SUBSET Nat :
          Accurate(h, a, Z, brain, companion, xpilot.controllers, OnWay)
  BY <1>3 DEF ListBody
<1>7. h[companion.sequence].controllers = xpilot.controllers
  BY <1>6 DEF Accurate, Kept
<1>8. Agree(brain.list, h[brain.last].controllers, companion.raced)
  BY <1>1, <1>6 DEF Accurate, Informed
<1> QED BY <1>5, <1>7, <1>8 DEF Agree

\* While the pipe and the processes last, a list that the Brain holds complete
\* when nothing is on its way is xPilot's, whatever the queues lost and however
\* the two threads of the companion took turns, except for the controllers that
\* changed between the copy of the list and its first number (FinishSnapshot,
\* BrainXPilot4BridgeRuntime.cpp:495-519).
THEOREM ListsAreAccurate == Lasting => (Spec => []ListIsAccurate)
<1> SUFFICES ASSUME Lasting PROVE Spec => []ListIsAccurate
  OBVIOUS
<1>1. Init => LossInv /\ ListInv
  BY LossInit, ListInit
<1>2. IInv /\ IInv' /\ LossInv /\ ListInv /\ [Next]_vars => LossInv' /\ ListInv'
  BY LossStep, ListStep
<1>3. IInv /\ LossInv /\ ListInv => ListIsAccurate
  BY ListKnown
<1> QED BY <1>1, <1>2, <1>3, BridgeInvariant, PTL DEF Spec

=============================================================================
