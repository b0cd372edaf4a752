---------------------------- MODULE PdcLogDelivery ----------------------------
(* The PDC log monitor with a history variable, for what must eventually     *)
(* reach the Drawer: which messages the Brain has read out of a log that had *)
(* already fallen silent. The code drops these on purpose                    *)
(* (BrainPdcLogRuntime.cpp:201-217), and nothing the monitor keeps tells     *)
(* afterwards that it has.                                                   *)
EXTENDS PdcLogMonitor

VARIABLE foundSilent  \* ids of the lines a snapshot of a silent log has dropped

historyVars == <<vars, foundSilent>>

\* This callback accepts the answer that ends a snapshot, and the log has not
\* been written for more than 180 s.
SnapshotOfSilentLog ==
    LET fact == mailbox.fact
    IN  /\ mailbox.state = "Ready" /\ mailbox' # mailbox
        /\ fact.reachedEnd /\ ~fact.fresh
        /\ pdc.readingSnapshot /\ ~pdc'.readingSnapshot
        /\ fact.request.product = pdc'.productEpoch
        /\ fact.request.connection = pdc'.connectionEpoch

RecordDropped ==
    foundSilent' = IF SnapshotOfSilentLog
                   THEN foundSilent \cup {r.id : r \in pdc.staged \cup mailbox.fact.records}
                   ELSE foundSilent

DeliveryInit == Init /\ foundSilent = {}
DeliveryNext == Next /\ RecordDropped

DeliverySpec == DeliveryInit /\ [][DeliveryNext]_historyVars /\ Fairness

-----------------------------------------------------------------------------

\* Line i of the newest log is a direct message of the session the pilot
\* flies now, and the plugin runs.
Deliverable(i) ==
    /\ logs # <<>> /\ i \in 1 .. Len(logs[Newest].lines)
    /\ logs[Newest].lines[i] = [kind |-> "direct", callsign |-> flight.callsign]
    /\ OpenSession(logs[Newest].lines, flight.callsign, i, Len(logs[Newest].lines))
    /\ network.connected = flight.callsign /\ ~pdc.suspended

IdOf(i) == <<Newest, logs[Newest].generation, i>>

Delivered(i) == \E e \in pdc.inbox : e.id = IdOf(i)

\* The plugin was disabled between two batches of a commit: the monitor keeps
\* committing a stage that is gone, and reads nothing (run pdc_suspend).
CommitInterrupted ==
    pdc.committing /\ pdc.commitIndex > Cardinality(pdc.staged)

\* Every direct message of the current session reaches the Drawer, unless the
\* session, the flight, the log or the plugin ends first, a snapshot of a log
\* that has been silent for 180 s drops it, or the plugin is disabled in the
\* middle of a commit. A commit that spans callbacks, a failed read, a
\* reconnection, a plugin disabled at any other moment, or a snapshot of a
\* silent log that ends before the line lose nothing
\* (BrainPdcLogRuntime.cpp:194-264, 342-454; BrainPdcRuntime.cpp:168-183).
\* The first line of a log is a login.
EveryMessageArrives ==
    \A i \in 2 .. MaxLines :
        Deliverable(i) ~> \/ ~Deliverable(i)
                          \/ Delivered(i)
                          \/ IdOf(i) \in foundSilent
                          \/ CommitInterrupted

=============================================================================
