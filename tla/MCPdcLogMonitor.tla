--------------------------- MODULE MCPdcLogMonitor ---------------------------
(* Instances of PdcLogMonitor for TLC.                                      *)
EXTENDS PdcLogMonitor, TLC

CONSTANTS dal250, ymml

OneCallsign == {dal250}
OneRoute    == {ymml}

=============================================================================
