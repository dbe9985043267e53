---------------------------- MODULE ShardWriters ----------------------------
(***************************************************************************)
(* The concurrency of SerializeRS in rs.go: goroutines write the records   *)
(* straight into the data shards, where a record may cross from one shard  *)
(* into the next; the parity shards are computed from the data shards; a   *)
(* goroutine per shard then writes the shard's header. Two WaitGroups, one *)
(* after the other, keep these apart.                                      *)
(*                                                                         *)
(* A record is five cells: two of index, two of data, one CRC. The index   *)
(* and the data of the p-th dirty block are both represented by p.         *)
(***************************************************************************)
EXTENDS Integers, FiniteSets

CONSTANTS
    RecCounts,      \* how many dirty blocks the device may have
    ProcCounts,     \* values of GOMAXPROCS
    Geometries,     \* pairs of data and parity shard counts
    MinPerWorker    \* serialMinPerWorker

ASSUME ShardsAssumption ==
    /\ RecCounts \subseteq Nat /\ ProcCounts \subseteq Nat \ {0}
    /\ Geometries \subseteq (Nat \ {0}) \X Nat
    /\ MinPerWorker \in Nat \ {0}

VARIABLES
    n,          \* len(idxs)
    procs,      \* runtime.GOMAXPROCS(0)
    geo,        \* dataShards and parityShards
    shards,     \* shards[s][c]: cell c of shard s
    hdr,        \* hdr[s]: the header of shard s
    pc,         \* the caller
    lo, chunk,  \* first record not handed to a worker yet; records per worker
    work,       \* work[w]: the worker that starts at record w
    buf,        \* buf[w]: its buffers hdr and tail
    wg, wgHdr   \* workers and header goroutines the WaitGroups wait for

vars == <<n, procs, geo, shards, hdr, pc, lo, chunk, work, buf, wg, wgHdr>>
Caller == <<n, procs, geo, pc, lo, chunk>>

RecLen     == 5
FieldLen   == [index |-> 2, data |-> 2, crc |-> 1]
FieldOff   == [index |-> 0, data |-> 2, crc |-> 4]
NextField  == [index |-> "data", data |-> "crc", crc |-> "fill"]

N         == geo[1]
total     == geo[1] + geo[2]
payload   == n * RecLen
shardSize == (payload + N - 1) \div N

Zero  == <<"zero">>                     \* what make leaves in a cell
NoHdr == [idx |-> 0, crc |-> <<>>]      \* and in a header
NoBuf == [hdr |-> -1, tail |-> <<>>]

Init ==
    /\ n \in RecCounts /\ procs \in ProcCounts /\ geo \in Geometries
    /\ shards = [s \in 0 .. (total - 1) |-> [c \in 0 .. (shardSize - 1) |-> Zero]]
    /\ hdr = [s \in 0 .. (total - 1) |-> NoHdr]
    /\ pc = "start" /\ lo = 0 /\ chunk = 0
    /\ work = [w \in {} |-> 0] /\ buf = [w \in 0 .. n |-> NoBuf] /\ wg = {} /\ wgHdr = {}

-----------------------------------------------------------------------------
(* The records: writeRecordsSharded, writeRecordRangeSharded and           *)
(* writeShardSpans.                                                        *)

workers == LET max == n \div MinPerWorker IN IF procs > max THEN max ELSE procs

\* Mutant: the last range is not cut at the end of the records.
Begun_NoCap(p, hi) ==
    [p |-> p, hi |-> p + chunk, field |-> "fill", j |-> 0, off |-> p * RecLen]

\* A call of writeRecordRangeSharded for the records p .. hi-1.
Begun(p, hi) == [p |-> p, hi |-> hi, field |-> "fill", j |-> 0, off |-> p * RecLen]

With(w, r) == [v \in DOMAIN work \cup {w} |-> IF v = w THEN r ELSE work[v]]

\* An empty overlay has only shard headers; a small one the caller writes.
Start ==
    /\ pc = "start"
    /\ IF n = 0 THEN /\ pc' = "return" /\ UNCHANGED <<work, chunk>>
                     /\ hdr' = [s \in DOMAIN hdr |-> [idx |-> s, crc |-> shards[s]]]
       ELSE IF workers <= 1
       THEN pc' = "seq" /\ work' = With(0, Begun(0, n)) /\ UNCHANGED <<chunk, hdr>>
       ELSE /\ pc' = "spawn" /\ chunk' = (n + workers - 1) \div workers
            /\ UNCHANGED <<work, hdr>>
    /\ UNCHANGED <<n, procs, geo, shards, lo, buf, wg, wgHdr>>

\* Mutant: wg.Add is left to the goroutine, which may not have run yet.
Spawn_AddLate ==
    /\ pc = "spawn" /\ lo < n
    /\ work' = With(lo, Begun(lo, IF lo + chunk > n THEN n ELSE lo + chunk))
    /\ lo' = lo + chunk
    /\ UNCHANGED <<n, procs, geo, shards, hdr, pc, chunk, buf, wg, wgHdr>>

\* Mutant: a range reaches one record into the next one.
Spawn_Overlap ==
    /\ pc = "spawn" /\ lo < n
    /\ work' = With(lo, Begun(lo, IF lo + chunk >= n THEN n ELSE lo + chunk + 1))
    /\ wg' = wg \cup {lo} /\ lo' = lo + chunk
    /\ UNCHANGED <<n, procs, geo, shards, hdr, pc, chunk, buf, wgHdr>>

\* One iteration of the spawning loop.
Spawn ==
    /\ pc = "spawn" /\ lo < n
    /\ work' = With(lo, Begun(lo, IF lo + chunk > n THEN n ELSE lo + chunk))
    /\ wg' = wg \cup {lo} /\ lo' = lo + chunk
    /\ UNCHANGED <<n, procs, geo, shards, hdr, pc, chunk, buf, wgHdr>>

AllSpawned ==
    /\ pc = "spawn" /\ lo >= n /\ pc' = "wait"
    /\ UNCHANGED <<n, procs, geo, shards, hdr, lo, chunk, work, buf, wg, wgHdr>>

\* Mutant: one pair of buffers for all goroutines.
bufOf_Shared(w) == 0

\* hdr and tail are variables of the call.
bufOf(w) == w

\* The index of the next record and the CRC over it and the block.
FillBuffers(w) ==
    /\ work[w].field = "fill" /\ work[w].p < work[w].hi
    /\ buf' = [buf EXCEPT ![bufOf(w)] = [hdr |-> work[w].p, tail |-> <<work[w].p, work[w].p>>]]
    /\ work' = [work EXCEPT ![w].field = "index"]
    /\ UNCHANGED <<Caller, shards, hdr, wg, wgHdr>>

\* Cell j of the field that worker w is copying.
Source(w, j) ==
    CASE work[w].field = "index" -> <<"index", buf[bufOf(w)].hdr, j>>
      [] work[w].field = "data"  -> <<"data", work[w].p, j>>
      [] work[w].field = "crc"   -> <<"crc", buf[bufOf(w)].tail>>

\* A call after m more cells of its field: at the next field when it is through.
Advanced(r, m) ==
    IF m < FieldLen[r.field] - r.j THEN [r EXCEPT !.j = @ + m, !.off = @ + m]
    ELSE [r EXCEPT !.field = NextField[@], !.j = 0, !.off = @ + m,
                   !.p = IF r.field = "crc" THEN @ + 1 ELSE @]

\* One iteration of writeShardSpans: copy stops at the end of the shard or of
\* the source.
CopySpan(w) ==
    LET r    == work[w]
        s    == r.off \div shardSize
        c    == r.off % shardSize
        room == shardSize - c
        left == FieldLen[r.field] - r.j
        m    == IF left < room THEN left ELSE room
    IN  /\ r.field # "fill" /\ r.p < r.hi
        /\ shards' = [shards EXCEPT ![s] = [d \in DOMAIN @ |->
                        IF d \in c .. (c + m - 1) THEN Source(w, r.j + d - c) ELSE @[d]]]
        /\ work' = [work EXCEPT ![w] = Advanced(r, m)]
        /\ UNCHANGED <<Caller, hdr, buf, wg, wgHdr>>

\* The goroutine ends: deferred wg.Done.
Done(w) ==
    /\ w \in wg /\ work[w].p = work[w].hi
    /\ wg' = wg \ {w}
    /\ UNCHANGED <<Caller, shards, hdr, work, buf, wgHdr>>

-----------------------------------------------------------------------------
(* Parity and shard headers, in SerializeRS. *)

\* A parity cell is some function of the data cells above it.
Parity(s, c) == <<"parity", s, [d \in 0 .. (N - 1) |-> shards[d][c]]>>

\* The records are all written; enc.Encode.
Encode ==
    /\ \/ pc = "wait" /\ wg = {}
       \/ pc = "seq" /\ work[0].p = n
    /\ pc' = "headers" /\ wgHdr' = DOMAIN shards
    /\ shards' = [s \in DOMAIN shards |->
                     IF s < N THEN shards[s] ELSE [c \in DOMAIN shards[s] |-> Parity(s, c)]]
    /\ UNCHANGED <<n, procs, geo, hdr, lo, chunk, work, buf, wg>>

\* Mutant: a goroutine ends without wg.Done.
PutHeader_NoDone(s) ==
    /\ pc = "headers" /\ s \in wgHdr
    /\ hdr' = [hdr EXCEPT ![s] = [idx |-> s, crc |-> shards[s]]]
    /\ UNCHANGED <<Caller, shards, work, buf, wg, wgHdr>>

\* The goroutine of shard s: index and CRC, then wg.Done.
PutHeader(s) ==
    /\ pc = "headers" /\ s \in wgHdr
    /\ hdr' = [hdr EXCEPT ![s] = [idx |-> s, crc |-> shards[s]]]
    /\ wgHdr' = wgHdr \ {s}
    /\ UNCHANGED <<Caller, shards, work, buf, wg>>

Return ==
    /\ pc = "headers" /\ wgHdr = {} /\ pc' = "return"
    /\ UNCHANGED <<n, procs, geo, shards, hdr, lo, chunk, work, buf, wg, wgHdr>>

Main      == Start \/ Spawn \/ AllSpawned \/ Encode \/ Return
Worker(w) == FillBuffers(w) \/ CopySpan(w) \/ Done(w)

Next ==
    \/ Main
    \/ \E w \in DOMAIN work : Worker(w)
    \/ \E s \in DOMAIN shards : PutHeader(s)

\* The Go scheduler runs every goroutine that can run.
Fairness ==
    /\ WF_vars(Main)
    /\ \A w \in UNION {0 .. k : k \in RecCounts} : WF_vars(w \in DOMAIN work /\ Worker(w))
    /\ \A s \in UNION {0 .. (g[1] + g[2]) : g \in Geometries} :
          WF_vars(s \in DOMAIN shards /\ PutHeader(s))

Spec == Init /\ [][Next]_vars
FairSpec == Spec /\ Fairness

-----------------------------------------------------------------------------
(* Properties. *)

\* Every variable has its type; no worker is past its range or the payload.
TypeOK ==
    /\ n \in RecCounts /\ procs \in ProcCounts /\ geo \in Geometries
    /\ DOMAIN shards = 0 .. (total - 1) /\ DOMAIN hdr = 0 .. (total - 1)
    /\ \A s \in DOMAIN shards : DOMAIN shards[s] = 0 .. (shardSize - 1)
    /\ pc \in {"start", "seq", "spawn", "wait", "headers", "return"}
    /\ lo \in Nat /\ chunk \in Nat /\ DOMAIN work \subseteq 0 .. n
    /\ \A w \in DOMAIN work :
          /\ work[w].p \in 0 .. work[w].hi /\ work[w].hi <= n
          /\ work[w].field \in DOMAIN FieldLen \cup {"fill"}
          /\ work[w].j \in 0 .. 1 /\ work[w].off \in 0 .. payload
    /\ wg \subseteq DOMAIN work /\ wgHdr \subseteq DOMAIN shards

\* Cell q of the flat payload.
Flat(q) ==
    LET p == q \div RecLen
        f == CHOOSE g \in DOMAIN FieldLen : (q % RecLen) - FieldOff[g] \in 0 .. (FieldLen[g] - 1)
        j == (q % RecLen) - FieldOff[f]
    IN  IF q >= payload THEN Zero
        ELSE IF f = "crc" THEN <<f, <<p, p>>>> ELSE <<f, p, j>>

\* "The bytes are identical to building a flat payload and slicing it into
\* shards": whatever the schedule and the boundaries, a data cell holds what
\* the flat payload has there or is still blank, and the blob returned has all
\* of the payload in the data shards, zeros behind it, the parity of that in
\* the parity shards, and each shard's own index and CRC in its header.
ShardIdentity ==
    \A s \in DOMAIN shards :
        /\ pc = "return" => hdr[s] = [idx |-> s, crc |-> shards[s]]
        /\ \A c \in DOMAIN shards[s] :
              LET wanted == IF s < N THEN Flat(s * shardSize + c) ELSE Parity(s, c)
              IN  /\ s < N => shards[s][c] \in {Zero, wanted}
                  /\ pc = "return" => shards[s][c] = wanted

\* The cells of the payload that worker w has still to write.
Ahead(w) == work[w].off .. (work[w].hi * RecLen - 1)

\* "Workers write disjoint shard spans": a cell that a worker has still to
\* write is blank and no other worker's, so that no cell is written twice, by
\* two goroutines or by one, not even with the same bytes.
DisjointSpans ==
    \A w \in DOMAIN work : \A q \in Ahead(w) :
        /\ shards[q \div shardSize][q % shardSize] = Zero
        /\ \A v \in DOMAIN work \ {w} : q \notin Ahead(v)

\* Joined by wg.Wait: once parity is computed no record is written any more.
JoinedBeforeParity == [][(pc \in {"headers", "return"}) => shards' = shards]_vars

\* SerializeRS returns: both WaitGroups are released.
ShardTermination == <>(pc = "return")
=============================================================================
