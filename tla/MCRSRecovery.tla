---------------------------- MODULE MCRSRecovery ----------------------------
(* Instance of RSRecovery for TLC. *)
EXTENDS RSRecovery, TLC

CONSTANTS c1, c2

\* The default; one data shard; shards that end inside an index field, at a
\* record and between fields; one parity shard and two.
MCRequests == {<<0, 0>>, <<1, 1>>, <<2, 1>>, <<3, 1>>, <<4, 1>>, <<9, 9>>}

\* The right base, and one that is a block short.
MCResumeBases == {NBlocks - 1, NBlocks}

MCSymmetry == Permutations(Content)
=============================================================================
