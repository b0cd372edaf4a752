--------------------------- MODULE DiagnosticsLog ---------------------------
(***************************************************************************)
(* What AsyncDiagnosticsWriter promises to those who call it.  A record    *)
(* accepted in a lane is written or lost to a failure exactly once and in  *)
(* the lane's order; the writer is closed only when nothing accepted is    *)
(* left; nothing is accepted by a writer that is not open.  A question     *)
(* about xPilot's log is answered once, and neither question nor answer    *)
(* outlives the session.                                                   *)
(***************************************************************************)
EXTENDS Sequences

CONSTANTS Lanes, Records, Questions

VARIABLES phase, pending, log, question
vars == <<phase, pending, log, question>>

NoQuestion == [state |-> "None"]
Asked(q) == [state |-> "Asked", of |-> q]
Answered(q) == [state |-> "Answered", of |-> q]

Init ==
    /\ phase = "Closed"
    /\ pending = [l \in Lanes |-> <<>>]
    /\ log = [l \in Lanes |-> <<>>]
    /\ question = NoQuestion

Open ==
    /\ phase = "Closed" /\ phase' = "Open"
    /\ UNCHANGED <<pending, log, question>>

Accept(l, record) ==
    /\ phase = "Open"
    /\ pending' = [pending EXCEPT ![l] = Append(pending[l], record)]
    /\ UNCHANGED <<phase, log, question>>

\* The oldest record of a lane is written, or its formatter or the disk fails.
Finish(l, written) ==
    /\ pending[l] # <<>>
    /\ pending' = [pending EXCEPT ![l] = Tail(pending[l])]
    /\ log' = IF written THEN [log EXCEPT ![l] = Append(log[l], Head(pending[l]))]
              ELSE log
    /\ UNCHANGED <<phase, question>>

Ask(q) ==
    /\ phase = "Open" /\ question = NoQuestion
    /\ question' = Asked(q)
    /\ UNCHANGED <<phase, pending, log>>

Answer ==
    /\ \E q \in Questions : question = Asked(q) /\ question' = Answered(q)
    /\ UNCHANGED <<phase, pending, log>>

Take ==
    /\ \E q \in Questions : question = Answered(q)
    /\ question' = NoQuestion
    /\ UNCHANGED <<phase, pending, log>>

StartClosing ==
    /\ phase = "Open" /\ phase' = "Closing"
    /\ UNCHANGED <<pending, log, question>>

Close ==
    /\ phase = "Closing" /\ \A l \in Lanes : pending[l] = <<>>
    /\ phase' = "Closed" /\ question' = NoQuestion
    /\ UNCHANGED <<pending, log>>

Next ==
    \/ Open \/ StartClosing \/ Close \/ Answer \/ Take
    \/ \E l \in Lanes, r \in Records : Accept(l, r)
    \/ \E l \in Lanes, written \in BOOLEAN : Finish(l, written)
    \/ \E q \in Questions : Ask(q)

Spec == Init /\ [][Next]_vars

=============================================================================
