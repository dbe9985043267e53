--------------------------- MODULE MCPauseResume ---------------------------
(* Instance of PauseResume for TLC. *)
EXTENDS PauseInspect, TLC

CONSTANTS c1, c2

\* The right base, and one that is a block short.
MCResumeBases == {NBlocks - 1, NBlocks}

MCSymmetry == Permutations(Content)
=============================================================================
