----------------------------- MODULE XPilot4Arrival ---------------------------
(* The bridge with a history variable, for what must eventually arrive: has  *)
(* the Brain ever given up a request whose answer was still on its way? The  *)
(* end of such an answer makes the list required anew and cancels the        *)
(* request that replaced it (BrainXPilot4BridgeRuntime.cpp:714-723), and     *)
(* that may go on without end.                                               *)
EXTENDS XPilot4Bridge

VARIABLE abandoned  \* an answer has lost its request

arrivalVars == <<vars, abandoned>>

AnswerKinds == {"SnapshotStarted", "SnapshotEntry", "SnapshotCompleted", "CorruptEnvelope"}

\* The observations between the companion's threads and the Brain.
OnTheirWay ==
    {companion.taken}
    \cup {companion.queue.items[i] : i \in DOMAIN companion.queue.items}
    \cup {pipe.toBrain[i] : i \in DOMAIN pipe.toBrain}
    \cup {client.incoming.items[i] : i \in DOMAIN client.incoming.items}

\* The requests of which the question or a part of the answer is on its way.
Travelling ==
    {client.outgoing[i] : i \in DOMAIN client.outgoing}
    \cup {pipe.toCompanion[i] : i \in DOMAIN pipe.toCompanion}
    \cup (IF companion.answer.phase = "None" THEN {} ELSE {companion.answer.request})
    \cup {o.request : o \in {p \in OnTheirWay : p.kind \in AnswerKinds}}

\* The Brain waits for none of what is on its way, or for something else.
AnswerAbandoned == \E r \in Travelling : ~(brain.pending /\ r = brain.request)

ArrivalNext == Next /\ abandoned' = (abandoned \/ AnswerAbandoned)

\* No request is left of the MaxRequests of this model, and answers that had
\* lost their requests are why.
RequestsWasted == abandoned /\ brain.nextRequest > MaxRequests

\* While xPilot is connected, a Brain with a source comes to hold a complete
\* list: also when xPilot fails to list its controllers, when an answer is
\* late, when the queues lose what they have no room for, and when xPilot is
\* restarted or reconnects and the Brain has a source again. The exception is
\* an answer that has lost its request, for as long as it is on its way
\* (BrainXPilot4BridgeRuntime.cpp:771-811).
ListArrives ==
    Available(brain) ~> \/ brain.complete /\ ~brain.recovery
                        \/ ~Available(brain) \/ xpilot.callsign = NoCallsign
                        \/ AnswerAbandoned \/ RequestsWasted

=============================================================================
