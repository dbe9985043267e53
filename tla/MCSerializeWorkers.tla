------------------------- MODULE MCSerializeWorkers -------------------------
(* Instance of SerializeWorkers for TLC: with two records per worker as the *)
(* threshold, eight records reach four workers, and seven leave a slice     *)
(* shorter than the others.                                                 *)
EXTENDS SerializeWorkers

MCRecCounts  == 0 .. 8
MCProcCounts == 1 .. 4
=============================================================================
