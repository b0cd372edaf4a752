--------------------------- MODULE MCPdcLogDelivery ---------------------------
(* The instance of PdcLogDelivery for TLC.                                   *)
EXTENDS MCPdcLogMonitor, PdcLogDelivery

=============================================================================
