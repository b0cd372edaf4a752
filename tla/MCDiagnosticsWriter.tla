------------------------ MODULE MCDiagnosticsWriter ------------------------
(* An instance of DiagnosticsWriter for TLC.                               *)
EXTENDS DiagnosticsWriter

CONSTANT other

OneOther == {other}
SmallLanes == [l \in Lanes |-> 1]
FewRecords == [l \in Lanes |-> IF l = "timing" THEN 2 ELSE 1]

=============================================================================
