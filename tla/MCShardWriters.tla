--------------------------- MODULE MCShardWriters ---------------------------
(* Instance of ShardWriters for TLC. Five cells per record over one, two,   *)
(* three and four shards put shard boundaries into the index, the data and  *)
(* before the CRC, at the end of a range and inside one.                    *)
EXTENDS ShardWriters

MCRecCounts  == 0 .. 6
MCProcCounts == 1 .. 3
MCGeometries == {<<1, 1>>, <<2, 2>>, <<3, 1>>, <<4, 1>>}
=============================================================================
