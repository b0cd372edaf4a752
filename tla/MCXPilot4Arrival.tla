--------------------------- MODULE MCXPilot4Arrival ---------------------------
(* The instance of XPilot4Arrival for TLC: from an established connection,   *)
(* of which no answer has been abandoned.                                    *)
EXTENDS MCXPilot4Bridge, XPilot4Arrival

\* Bound: the pilot stays connected as long as xPilot runs.
StaysConnected ==
    xpilot'.callsign = NoCallsign =>
        xpilot.callsign = NoCallsign \/ xpilot'.process # xpilot.process

\* Bound: controllers change, or xPilot is restarted.
ChangeOrRestart == xpilot'.process = 1 \/ spent'.changes = Cardinality(Controllers)

ArrivalSpec == /\ Established /\ abandoned = FALSE
               /\ [][ArrivalNext /\ StaysConnected /\ ChangeOrRestart]_arrivalVars
               /\ Fairness

=============================================================================
