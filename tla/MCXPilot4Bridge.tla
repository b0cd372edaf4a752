--------------------------- MODULE MCXPilot4Bridge ---------------------------
(* Instances of XPilot4Bridge for TLC.                                      *)
EXTENDS XPilot4Bridge

CONSTANTS qfa1, qfa2, tower

OneCallsign   == {qfa1}
TwoCallsigns  == {qfa1, qfa2}
NoControllers == {}
OneController == {tower}

\* A state the program reaches: xPilot is connected as qfa1 and shows every
\* controller, a flight of that callsign is confirmed, and the Brain has consumed
\* all there was. Runs about what happens later start here.
Established ==
    /\ xpilot = [FreshXPilot(1) EXCEPT !.callsign = qfa1, !.controllers = Controllers]
    /\ companion = [FreshCompanion(1) EXCEPT
            !.sequence = 2 + Cardinality(Controllers), !.epoch = 1,
            !.held = Nothing, !.runner = "Connected"]
    /\ pipe = [DeadPipe EXCEPT !.live = TRUE]
    /\ spent = [messages |-> 0, changes |-> Cardinality(Controllers),
                connections |-> 1, flights |-> 1, disturbances |-> 0]
    /\ brain = [FreshBrain EXCEPT
            !.transport = TRUE, !.source = TRUE, !.compatible = TRUE, !.network = TRUE,
            !.process = 1, !.epoch = 1, !.last = 2 + Cardinality(Controllers),
            !.callsign = qfa1, !.list = Controllers]
    /\ inbox = <<>> /\ flight = qfa1
    /\ client = [FreshClient EXCEPT !.connected = TRUE]

LaterSpec == Established /\ [][Next]_vars

=============================================================================
