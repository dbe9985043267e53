--------------------------- MODULE SerializeWorkers ---------------------------
(***************************************************************************)
(* writeRecords of format.go: the records of a large delta are written by  *)
(* several goroutines into one blob, each into a slice of its own, joined  *)
(* by a WaitGroup; a small delta is written by the caller.                 *)
(*                                                                         *)
(* A record is written in three steps (index, data, CRC), and the CRC is   *)
(* computed by reading index and data back from the blob. The index and    *)
(* the data of the i-th dirty block are both represented by i. Under the   *)
(* package's contract nobody changes the device meanwhile.                 *)
(***************************************************************************)
EXTENDS Integers

CONSTANTS
    RecCounts,      \* how many dirty blocks the device may have
    ProcCounts,     \* values of GOMAXPROCS
    MinPerWorker    \* serialMinPerWorker

ASSUME WorkersAssumption ==
    /\ RecCounts \subseteq Nat
    /\ ProcCounts \subseteq Nat \ {0}
    /\ MinPerWorker \in Nat \ {0}

VARIABLES
    n,          \* len(idxs)
    procs,      \* runtime.GOMAXPROCS(0)
    withCRC,    \* tier L1
    dst,        \* dst[p]: the p-th record of the blob
    pc,         \* the caller: "start", "seq", "spawn", "wait", "return"
    lo,         \* first record not handed to a worker yet
    chunk,      \* records per worker
    work,       \* work[w]: the worker whose slice starts at record w
    wg          \* workers added to the WaitGroup and not yet done

vars == <<n, procs, withCRC, dst, pc, lo, chunk, work, wg>>

Blank == [idx |-> -1, data |-> -1, crc |-> <<>>]

\* What a sequential run writes at position p.
Wanted(p) == [idx |-> p, data |-> p, crc |-> IF withCRC THEN <<p, p>> ELSE <<>>]

Init ==
    /\ n \in RecCounts /\ procs \in ProcCounts /\ withCRC \in BOOLEAN
    /\ dst = [p \in 0 .. (n - 1) |-> Blank]
    /\ pc = "start" /\ lo = 0 /\ chunk = 0
    /\ work = [w \in {} |-> Blank] /\ wg = {}

\* A goroutine (or the caller) about to write records w .. hi-1.
Begun(hi) == [hi |-> hi, k |-> 0, field |-> "index"]

With(w, r) == [v \in DOMAIN work \cup {w} |-> IF v = w THEN r ELSE work[v]]

-----------------------------------------------------------------------------
workers ==
    LET max == n \div MinPerWorker IN IF procs > max THEN max ELSE procs

\* The choice of the sequential or the parallel path.
Start ==
    /\ pc = "start"
    /\ IF workers <= 1
       THEN pc' = "seq" /\ work' = With(0, Begun(n)) /\ UNCHANGED chunk
       ELSE /\ pc' = "spawn" /\ chunk' = (n + workers - 1) \div workers
            /\ UNCHANGED work
    /\ UNCHANGED <<n, procs, withCRC, dst, lo, wg>>

\* Mutant: wg.Add is left to the goroutine, which may not have run yet.
Spawn_AddLate ==
    /\ pc = "spawn" /\ lo < n
    /\ work' = With(lo, Begun(IF lo + chunk > n THEN n ELSE lo + chunk))
    /\ lo' = lo + chunk
    /\ UNCHANGED <<n, procs, withCRC, dst, pc, chunk, wg>>

\* Mutant: a slice ends one record into the next one.
Spawn_Overlap ==
    /\ pc = "spawn" /\ lo < n
    /\ work' = With(lo, Begun(IF lo + chunk + 1 > n THEN n ELSE lo + chunk + 1))
    /\ wg' = wg \cup {lo} /\ lo' = lo + chunk
    /\ UNCHANGED <<n, procs, withCRC, dst, pc, chunk>>

\* Mutant: the last slice is not cut at the end of the records.
Spawn_NoCap ==
    /\ pc = "spawn" /\ lo < n
    /\ work' = With(lo, Begun(lo + chunk))
    /\ wg' = wg \cup {lo} /\ lo' = lo + chunk
    /\ UNCHANGED <<n, procs, withCRC, dst, pc, chunk>>

\* One iteration of the spawning loop.
Spawn ==
    /\ pc = "spawn" /\ lo < n
    /\ work' = With(lo, Begun(IF lo + chunk > n THEN n ELSE lo + chunk))
    /\ wg' = wg \cup {lo} /\ lo' = lo + chunk
    /\ UNCHANGED <<n, procs, withCRC, dst, pc, chunk>>

AllSpawned ==
    /\ pc = "spawn" /\ lo >= n /\ pc' = "wait"
    /\ UNCHANGED <<n, procs, withCRC, dst, lo, chunk, work, wg>>

\* Worker w's next record.
At(w) == w + work[w].k
Writing(w, field) == At(w) < work[w].hi /\ work[w].field = field

PutIndex(w) ==
    /\ Writing(w, "index")
    /\ dst' = [dst EXCEPT ![At(w)].idx = At(w)]
    /\ work' = [work EXCEPT ![w].field = "data"]
    /\ UNCHANGED <<n, procs, withCRC, pc, lo, chunk, wg>>

NextRecord(w) ==
    [hi |-> work[w].hi, k |-> work[w].k + 1, field |-> "index"]

CopyData(w) ==
    /\ Writing(w, "data")
    /\ dst' = [dst EXCEPT ![At(w)].data = At(w)]
    /\ work' = [work EXCEPT ![w] = IF withCRC THEN [@ EXCEPT !.field = "crc"]
                                   ELSE NextRecord(w)]
    /\ UNCHANGED <<n, procs, withCRC, pc, lo, chunk, wg>>

PutCRC(w) ==
    /\ Writing(w, "crc")
    /\ dst' = [dst EXCEPT ![At(w)].crc = <<dst[At(w)].idx, dst[At(w)].data>>]
    /\ work' = [work EXCEPT ![w] = NextRecord(w)]
    /\ UNCHANGED <<n, procs, withCRC, pc, lo, chunk, wg>>

\* Mutant: wg.Done runs when the goroutine starts, not when it ends.
Done_Early(w) ==
    /\ w \in wg
    /\ wg' = wg \ {w}
    /\ UNCHANGED <<n, procs, withCRC, dst, pc, lo, chunk, work>>

\* Mutant: a goroutine ends without wg.Done.
Done_Missing(w) == w \in wg /\ At(w) = work[w].hi /\ UNCHANGED vars

\* The goroutine ends: deferred wg.Done.
Done(w) ==
    /\ w \in wg /\ At(w) = work[w].hi
    /\ wg' = wg \ {w}
    /\ UNCHANGED <<n, procs, withCRC, dst, pc, lo, chunk, work>>

\* wg.Wait returns, or the caller has written everything itself.
Join ==
    /\ \/ pc = "wait" /\ wg = {}
       \/ pc = "seq" /\ At(0) = work[0].hi
    /\ pc' = "return"
    /\ UNCHANGED <<n, procs, withCRC, dst, lo, chunk, work, wg>>

Caller    == Start \/ Spawn \/ AllSpawned \/ Join
Worker(w) == PutIndex(w) \/ CopyData(w) \/ PutCRC(w) \/ Done(w)

Next == Caller \/ \E w \in DOMAIN work : Worker(w)

\* The Go scheduler runs every goroutine that can run.
Fairness ==
    /\ WF_vars(Caller)
    /\ \A w \in UNION {0 .. c : c \in RecCounts} :
          WF_vars(w \in DOMAIN work /\ Worker(w))

Spec == Init /\ [][Next]_vars
FairSpec == Spec /\ Fairness
-----------------------------------------------------------------------------
(* Properties. *)

RecordBytes == [idx : Int, data : Int, crc : (Int \X Int) \cup {<<>>}]
WorkerState == [hi : 0 .. n, k : Nat, field : {"index", "data", "crc"}]

\* Every variable has its type; no slice reaches past the last record.
TypeOK ==
    /\ n \in RecCounts /\ procs \in ProcCounts /\ withCRC \in BOOLEAN
    /\ dst \in [0 .. (n - 1) -> RecordBytes]
    /\ pc \in {"start", "seq", "spawn", "wait", "return"}
    /\ lo \in Nat /\ chunk \in Nat
    /\ DOMAIN work \subseteq 0 .. n
    /\ work \in [DOMAIN work -> WorkerState]
    /\ wg \subseteq DOMAIN work

\* "Workers write to disjoint regions of dst": a slice ends before the next
\* one begins, whatever the number of records and processors.
SlicesDisjoint ==
    \A v, w \in DOMAIN work : v < w => work[v].hi <= w

\* "The output bytes are identical to the sequential path regardless of
\* scheduling": when writeRecords returns, every record of the blob is there,
\* complete, with the CRC of its own index and data.
ByteIdentity ==
    pc = "return" => \A p \in 0 .. (n - 1) : dst[p] = Wanted(p)

\* Joined by wg.Wait before return: no goroutine writes to the blob once the
\* caller has it.
NoWriteAfterReturn == [][pc = "return" => dst' = dst]_vars

\* writeRecords returns: the spawning loop ends and wg.Wait is released.
Termination == <>(pc = "return")
=============================================================================
