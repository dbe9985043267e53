------------------------ MODULE SerializeWorkersProofs ------------------------
(***************************************************************************)
(* Proofs about SerializeWorkers, for any number of records, processors    *)
(* and records per worker, and every schedule.                             *)
(***************************************************************************)
EXTENDS SerializeWorkers, TLAPS

Positions == 0 .. (n - 1)

\* Record p is in worker w's slice.
Owns(w, p) == w <= p /\ p < work[w].hi

\* The slices handed out so far are not empty and end where the loop stands,
\* and every record before that is in one of them.
SlicesFill ==
    /\ pc = "start" => DOMAIN work = {} /\ wg = {} /\ lo = 0
    /\ pc = "seq" => DOMAIN work = {0} /\ work[0].hi = n /\ wg = {}
    /\ pc = "spawn" =>
          /\ chunk >= 1
          /\ \A w \in DOMAIN work : w < work[w].hi /\ work[w].hi <= lo
          /\ \A p \in Positions : p < lo => \E w \in DOMAIN work : Owns(w, p)
    /\ pc \in {"seq", "wait", "return"} =>
          \A p \in Positions : \E w \in DOMAIN work : Owns(w, p)

\* A worker has written its records up to the one it is at, and of that one
\* the fields before the one it is at.
Written ==
    \A w \in DOMAIN work :
        /\ At(w) <= work[w].hi
        /\ \A p \in Positions : w <= p /\ p < At(w) => dst[p] = Wanted(p)
        /\ work[w].field # "index" => At(w) < work[w].hi /\ dst[At(w)].idx = At(w)
        /\ work[w].field = "crc" => withCRC /\ dst[At(w)].data = At(w)

\* Without CRCs nobody writes that field.
NoStrayCRC == ~withCRC => \A p \in Positions : dst[p].crc = <<>>

\* A worker that is not in the WaitGroup has ended.
Joined ==
    /\ pc \in {"spawn", "wait"} =>
          \A w \in DOMAIN work : w \notin wg => At(w) = work[w].hi
    /\ pc = "return" => \A w \in DOMAIN work : At(w) = work[w].hi

WInv == TypeOK /\ SlicesDisjoint /\ SlicesFill /\ Written /\ NoStrayCRC /\ Joined

\* The record a worker is at is a record of the blob.
LEMMA AtInBlob ==
    ASSUME TypeOK, NEW w \in DOMAIN work
    PROVE  /\ w \in Nat /\ At(w) \in Nat /\ work[w].hi \in 0 .. n /\ n \in Nat
           /\ At(w) < work[w].hi => At(w) \in Positions
<1>1. /\ n \in Nat /\ w \in Nat /\ work[w] \in WorkerState
  BY WorkersAssumption DEF TypeOK
<1> QED BY <1>1 DEF At, WorkerState, Positions

\* Nothing is written and nobody works at first.
LEMMA InitWInv == Init => WInv
<1> SUFFICES ASSUME Init PROVE WInv
  OBVIOUS
<1>1. n \in Nat
  BY WorkersAssumption DEF Init
<1>2. TypeOK
  BY <1>1 DEF Init, TypeOK, Blank, RecordBytes, WorkerState
<1>3. SlicesDisjoint /\ SlicesFill /\ Written /\ Joined
  BY DEF Init, SlicesDisjoint, SlicesFill, Written, Joined
<1>4. NoStrayCRC
  BY DEF Init, NoStrayCRC, Positions, Blank
<1> QED BY <1>2, <1>3, <1>4 DEF WInv

\* The chunk of the parallel path is at least one record.
LEMMA ChunkPositive ==
    ASSUME TypeOK, ~(workers <= 1)
    PROVE  (n + workers - 1) \div workers \in Nat
           /\ (n + workers - 1) \div workers >= 1
<1>1. n \in Nat /\ procs \in Nat \ {0} /\ MinPerWorker \in Nat \ {0}
  BY WorkersAssumption DEF TypeOK
<1>2. n \div MinPerWorker \in Nat /\ n \div MinPerWorker <= n
  BY <1>1
<1>3. workers \in Nat /\ workers >= 1 /\ workers <= n
  BY <1>1, <1>2 DEF workers
<1> QED BY <1>1, <1>3

\* Both paths start with a sound chunk size.
LEMMA StartKeeps == WInv /\ Start => WInv'
<1> SUFFICES ASSUME WInv, Start PROVE WInv'
  OBVIOUS
<1>1. /\ pc = "start" /\ DOMAIN work = {} /\ wg = {} /\ lo = 0 /\ n \in Nat
      /\ UNCHANGED <<n, procs, withCRC, dst, lo, wg>>
  BY WorkersAssumption DEF WInv, SlicesFill, TypeOK, Start
<1>2. CASE workers <= 1
  <2>1. pc' = "seq" /\ work' = [v \in {0} |-> Begun(n)] /\ chunk' = chunk
    BY <1>1, <1>2 DEF Start, With
  <2>2. /\ DOMAIN work' = {0} /\ work'[0] = Begun(n)
        /\ Begun(n) \in [hi : 0 .. n, k : Nat, field : {"index", "data", "crc"}]
    BY <1>1, <2>1 DEF Begun
  <2>3. TypeOK'
    BY <1>1, <2>1, <2>2 DEF WInv, TypeOK, WorkerState, RecordBytes
  <2>4. SlicesDisjoint' /\ SlicesFill' /\ Joined'
    BY <1>1, <2>1, <2>2 DEF SlicesDisjoint, SlicesFill, Joined, Owns, Positions, Begun
  <2>5. Written'
    BY <1>1, <2>1, <2>2 DEF Written, Positions, At, Begun
  <2>6. NoStrayCRC'
    BY <1>1 DEF WInv, NoStrayCRC, Positions
  <2> QED BY <2>3, <2>4, <2>5, <2>6 DEF WInv
<1>3. CASE ~(workers <= 1)
  <2>1. pc' = "spawn" /\ work' = work /\ chunk' = (n + workers - 1) \div workers
    BY <1>3 DEF Start
  <2>2. chunk' \in Nat /\ chunk' >= 1
    BY <1>3, <2>1, ChunkPositive DEF WInv
  <2>3. TypeOK'
    BY <1>1, <2>1, <2>2 DEF WInv, TypeOK, WorkerState, RecordBytes
  <2>4. SlicesDisjoint' /\ SlicesFill' /\ Joined'
    BY <1>1, <2>1, <2>2 DEF SlicesDisjoint, SlicesFill, Joined, Owns, Positions
  <2>5. Written' /\ NoStrayCRC'
    BY <1>1, <2>1 DEF WInv, Written, NoStrayCRC, Positions
  <2> QED BY <2>3, <2>4, <2>5 DEF WInv
<1> QED BY <1>2, <1>3
\* A new slice begins where the last one ends.
LEMMA SpawnKeeps == WInv /\ Spawn => WInv'
<1> SUFFICES ASSUME WInv, Spawn PROVE WInv'
  OBVIOUS
<1> DEFINE h == IF lo + chunk > n THEN n ELSE lo + chunk
<1>1. /\ pc = "spawn" /\ pc' = "spawn" /\ lo < n /\ lo' = lo + chunk
      /\ wg' = wg \cup {lo}
      /\ n' = n /\ procs' = procs /\ withCRC' = withCRC /\ dst' = dst
      /\ chunk' = chunk
      /\ work' = With(lo, Begun(h))
  BY DEF Spawn
<1>2. n \in Nat /\ lo \in Nat /\ chunk \in Nat /\ chunk >= 1
  BY <1>1, WorkersAssumption DEF WInv, TypeOK, SlicesFill
<1>3. h \in 0 .. n /\ lo < h /\ h <= lo + chunk /\ (h = n \/ h = lo + chunk)
  BY <1>1, <1>2
<1> HIDE DEF h
<1>4. \A v \in DOMAIN work : v \in Nat /\ v < work[v].hi /\ work[v].hi <= lo
                             /\ work[v].hi \in 0 .. n
  BY <1>1, <1>2, AtInBlob DEF WInv, SlicesFill
<1>5. lo \notin DOMAIN work
  BY <1>2, <1>4
<1>6. /\ DOMAIN work' = DOMAIN work \cup {lo}
      /\ work'[lo] = Begun(h) /\ \A v \in DOMAIN work : work'[v] = work[v]
  BY <1>1, <1>5 DEF With
<1>7. Begun(h) \in [hi : 0 .. n, k : Nat, field : {"index", "data", "crc"}]
      /\ Begun(h).hi = h /\ Begun(h).k = 0 /\ Begun(h).field = "index"
  BY <1>3 DEF Begun
<1>8. TypeOK'
  <2>1. work' \in [DOMAIN work' -> WorkerState]
    BY <1>1, <1>6, <1>7 DEF WInv, TypeOK, WorkerState, With
  <2>2. DOMAIN work' \subseteq 0 .. n /\ wg' \subseteq DOMAIN work'
    BY <1>1, <1>2, <1>6 DEF WInv, TypeOK
  <2> QED BY <1>1, <1>2, <2>1, <2>2 DEF WInv, TypeOK, WorkerState, RecordBytes
<1>9. SlicesDisjoint'
  BY <1>2, <1>4, <1>6, <1>7 DEF WInv, SlicesDisjoint
<1>10. SlicesFill'
  <2>1. \A w \in DOMAIN work' : w < work'[w].hi /\ work'[w].hi <= lo'
    BY <1>1, <1>2, <1>3, <1>4, <1>6, <1>7
  <2>2. ASSUME NEW p \in Positions, p < lo'
        PROVE  \E w \in DOMAIN work' : w <= p /\ p < work'[w].hi
    <3>1. CASE p < lo
      <4>1. PICK w \in DOMAIN work : w <= p /\ p < work[w].hi
        BY <1>1, <3>1 DEF WInv, SlicesFill, Owns
      <4> QED BY <1>6, <4>1
    <3>2. CASE ~(p < lo)
      BY <1>1, <1>2, <1>3, <1>6, <1>7, <2>2, <3>2 DEF Positions
    <3> QED BY <3>1, <3>2
  <2> QED BY <1>1, <1>2, <2>1, <2>2 DEF SlicesFill, Owns, Positions
<1>11. Written'
  <2>1. Positions' = Positions /\ \A p : Wanted(p)' = Wanted(p)
    BY <1>1 DEF Positions, Wanted
  <2>2. ASSUME NEW w \in DOMAIN work'
        PROVE  /\ At(w)' <= work'[w].hi
               /\ \A p \in Positions : w <= p /\ p < At(w)' => dst[p] = Wanted(p)
               /\ work'[w].field # "index" =>
                     At(w)' < work'[w].hi /\ dst[At(w)'].idx = At(w)'
               /\ work'[w].field = "crc" => withCRC /\ dst[At(w)'].data = At(w)'
    <3>1. CASE w \in DOMAIN work
      <4>1. At(w)' = At(w) /\ work'[w] = work[w]
        BY <1>6, <3>1 DEF At
      <4> QED BY <3>1, <4>1 DEF WInv, Written
    <3>2. CASE w = lo
      <4>1. At(w)' = lo /\ work'[w].hi = h /\ work'[w].field = "index"
        BY <1>2, <1>6, <1>7, <3>2 DEF At
      <4> QED BY <1>2, <1>3, <3>2, <4>1 DEF Positions
    <3> QED BY <1>6, <2>2, <3>1, <3>2
  <2> QED BY <1>1, <2>1, <2>2 DEF Written
<1>12. NoStrayCRC' /\ Joined'
  BY <1>1, <1>6 DEF WInv, NoStrayCRC, Joined, Positions, At
<1> QED BY <1>8, <1>9, <1>10, <1>11, <1>12 DEF WInv

\* A step that changes only where the caller stands.
LEMMA CallerMoves ==
    ASSUME WInv, UNCHANGED <<n, procs, withCRC, dst, lo, chunk, work, wg>>,
           \/ pc = "spawn" /\ lo >= n /\ pc' = "wait"
           \/ pc = "wait" /\ wg = {} /\ pc' = "return"
           \/ pc = "seq" /\ At(0) = work[0].hi /\ pc' = "return"
    PROVE  WInv'
<1>1. TypeOK' /\ SlicesDisjoint' /\ Written' /\ NoStrayCRC'
  BY DEF WInv, TypeOK, SlicesDisjoint, Written, NoStrayCRC, At, Positions, Wanted,
         WorkerState, RecordBytes
<1>2. SlicesFill'
  <2>1. n \in Nat /\ lo \in Nat
    BY WorkersAssumption DEF WInv, TypeOK
  <2> QED BY <2>1 DEF WInv, SlicesFill, Owns, Positions
<1>3. Joined'
  BY DEF WInv, Joined, SlicesFill, At
<1> QED BY <1>1, <1>2, <1>3 DEF WInv

\* What a worker's step has to show: the worker moves on inside its slice and
\* changes only the record it is at.
LEMMA WorkerMoves ==
    ASSUME WInv, NEW w \in DOMAIN work, At(w) < work[w].hi,
           UNCHANGED <<n, procs, withCRC, pc, lo, chunk, wg>>,
           NEW r \in RecordBytes, dst' = [dst EXCEPT ![At(w)] = r],
           NEW s \in WorkerState, work' = [work EXCEPT ![w] = s],
           s.hi = work[w].hi, w + s.k <= s.hi, ~withCRC => r.crc = <<>>,
           \/ s.k = work[w].k
           \/ s.k = work[w].k + 1 /\ r = Wanted(At(w)),
           s.field # "index" => s.k = work[w].k /\ r.idx = At(w),
           s.field = "crc" => withCRC /\ r.data = At(w)
    PROVE  WInv'
<1>1. /\ DOMAIN work' = DOMAIN work
      /\ \A v \in DOMAIN work : work'[v] = IF v = w THEN s ELSE work[v]
      /\ \A v \in DOMAIN work : work'[v].hi = work[v].hi
  BY DEF WInv, TypeOK
<1>2. /\ w \in Nat /\ n \in Nat /\ At(w) \in Positions /\ work[w].k \in Nat
      /\ At(w) = w + work[w].k /\ s.k \in Nat
  BY AtInBlob DEF WInv, TypeOK, WorkerState, At
<1>3. \A p \in Positions : dst'[p] = IF p = At(w) THEN r ELSE dst[p]
  BY DEF WInv, TypeOK, Positions
<1>4. TypeOK'
  <2>1. work' \in [DOMAIN work -> WorkerState]
    BY DEF WInv, TypeOK
  <2> QED BY <1>1, <2>1 DEF WInv, TypeOK, WorkerState, RecordBytes
<1>5. SlicesDisjoint'
  BY <1>1 DEF WInv, SlicesDisjoint
<1>6. SlicesFill'
  BY <1>1 DEF WInv, SlicesFill, Owns, Positions
<1>7. \A v \in DOMAIN work : v # w => At(v)' = At(v)
  BY <1>1 DEF At
<1>8. At(w)' = w + s.k
  BY <1>1 DEF At
<1>9. \A p : Wanted(p)' = Wanted(p)
  BY DEF Wanted
<1>10. \A v \in DOMAIN work : \A p \in Positions :
          v # w /\ v <= p /\ p <= At(v) /\ p < work[v].hi => p # At(w)
  <2> SUFFICES ASSUME NEW v \in DOMAIN work, v # w, v <= At(w), At(w) < work[v].hi
               PROVE  FALSE
    OBVIOUS
  <2>1. v \in Nat /\ work[v].hi \in Nat /\ work[w].hi \in Nat
    BY AtInBlob DEF WInv
  <2>2. v < w => work[v].hi <= w
    BY DEF WInv, SlicesDisjoint
  <2>3. w < v => work[w].hi <= v
    BY DEF WInv, SlicesDisjoint
  <2> QED BY <1>2, <2>1, <2>2, <2>3
<1>11. Written'
  <2>1. ASSUME NEW v \in DOMAIN work, v # w
        PROVE  /\ At(v)' <= work'[v].hi
               /\ \A p \in Positions : v <= p /\ p < At(v)' => dst'[p] = Wanted(p)
               /\ work'[v].field # "index" =>
                     At(v)' < work'[v].hi /\ dst'[At(v)'].idx = At(v)'
               /\ work'[v].field = "crc" => withCRC /\ dst'[At(v)'].data = At(v)'
    <3>1. At(v)' = At(v) /\ work'[v] = work[v]
      BY <1>1, <1>7, <2>1
    <3>2. /\ v \in Nat /\ At(v) \in Nat /\ work[v].hi \in 0 .. n
          /\ At(v) <= work[v].hi /\ v <= At(v)
          /\ At(v) < work[v].hi => At(v) \in Positions
      <4>1. v \in Nat /\ work[v].k \in Nat
        BY AtInBlob DEF WInv, TypeOK, WorkerState
      <4>2. At(v) <= work[v].hi
        BY DEF WInv, Written
      <4>3. v <= At(v)
        BY <4>1 DEF At
      <4> QED BY <4>1, <4>2, <4>3, AtInBlob DEF WInv
    <3>3. ASSUME NEW p \in Positions, v <= p, p < At(v)
          PROVE  dst'[p] = Wanted(p)
      <4>1. p # At(w)
        BY <1>10, <2>1, <3>2, <3>3 DEF Positions
      <4> QED BY <1>3, <3>3, <4>1 DEF WInv, Written
    <3>4. At(v) < work[v].hi => dst'[At(v)] = dst[At(v)]
      BY <1>3, <1>10, <2>1, <3>2
    <3> QED BY <3>1, <3>2, <3>3, <3>4 DEF WInv, Written
  <2>2. /\ At(w)' <= work'[w].hi
        /\ \A p \in Positions : w <= p /\ p < At(w)' => dst'[p] = Wanted(p)
        /\ work'[w].field # "index" =>
              At(w)' < work'[w].hi /\ dst'[At(w)'].idx = At(w)'
        /\ work'[w].field = "crc" => withCRC /\ dst'[At(w)'].data = At(w)'
    <3>1. work'[w] = s
      BY <1>1
    <3>2. ASSUME NEW p \in Positions, w <= p, p < w + s.k
          PROVE  dst'[p] = Wanted(p)
      <4>1. p < At(w) => dst[p] = Wanted(p)
        BY <3>2 DEF WInv, Written
      <4>2. p = At(w) \/ p < At(w)
        BY <1>2, <3>2 DEF Positions
      <4>3. p = At(w) => r = Wanted(p)
        BY <1>2, <3>2
      <4> QED BY <1>2, <1>3, <4>1, <4>2, <4>3 DEF Positions
    <3>3. s.field # "index" => At(w)' = At(w) /\ dst'[At(w)] = r
      BY <1>2, <1>3, <1>8
    <3> QED BY <1>8, <3>1, <3>2, <3>3
  <2> QED BY <1>1, <1>9, <2>1, <2>2 DEF Written, Positions
<1>12. NoStrayCRC'
  BY <1>3 DEF WInv, NoStrayCRC, Positions
<1>13. Joined'
  <2>1. pc # "return"
    BY <1>2 DEF WInv, Joined
  <2>2. pc \in {"spawn", "wait"} => w \in wg
    BY <1>2 DEF WInv, Joined
  <2> QED BY <1>1, <1>7, <2>1, <2>2 DEF WInv, Joined
<1> QED BY <1>4, <1>5, <1>6, <1>11, <1>12, <1>13 DEF WInv

\* A record with the three wanted fields is the wanted record.
LEMMA WantedFields ==
    ASSUME NEW r \in RecordBytes, NEW p, r.idx = p, r.data = p,
           r.crc = IF withCRC THEN <<p, p>> ELSE <<>>
    PROVE  r = Wanted(p)
BY DEF RecordBytes, Wanted

\* A field of a record is overwritten, and the others stay.
LEMMA FieldWritten ==
    ASSUME NEW q \in RecordBytes, NEW a \in Int
    PROVE  /\ [q EXCEPT !.idx = a] \in RecordBytes
           /\ [q EXCEPT !.idx = a].idx = a /\ [q EXCEPT !.idx = a].crc = q.crc
           /\ [q EXCEPT !.data = a] \in RecordBytes
           /\ [q EXCEPT !.data = a].idx = q.idx /\ [q EXCEPT !.data = a].data = a
           /\ [q EXCEPT !.data = a].crc = q.crc
           /\ [q EXCEPT !.crc = <<q.idx, q.data>>] \in RecordBytes
           /\ [q EXCEPT !.crc = <<q.idx, q.data>>].idx = q.idx
           /\ [q EXCEPT !.crc = <<q.idx, q.data>>].data = q.data
           /\ [q EXCEPT !.crc = <<q.idx, q.data>>].crc = <<q.idx, q.data>>
<1>1. /\ [q EXCEPT !.idx = a] \in RecordBytes
      /\ [q EXCEPT !.idx = a].idx = a /\ [q EXCEPT !.idx = a].crc = q.crc
  BY DEF RecordBytes
<1>2. /\ [q EXCEPT !.data = a] \in RecordBytes
      /\ [q EXCEPT !.data = a].idx = q.idx /\ [q EXCEPT !.data = a].data = a
      /\ [q EXCEPT !.data = a].crc = q.crc
  BY DEF RecordBytes
<1>3. /\ [q EXCEPT !.crc = <<q.idx, q.data>>] \in RecordBytes
      /\ [q EXCEPT !.crc = <<q.idx, q.data>>].idx = q.idx
      /\ [q EXCEPT !.crc = <<q.idx, q.data>>].data = q.data
      /\ [q EXCEPT !.crc = <<q.idx, q.data>>].crc = <<q.idx, q.data>>
  BY DEF RecordBytes
<1> QED BY <1>1, <1>2, <1>3

\* A goroutine goes to another field, or to the next record.
LEMMA StateMoved ==
    ASSUME NEW o \in WorkerState, NEW f \in {"index", "data", "crc"}
    PROVE  /\ [o EXCEPT !.field = f] \in WorkerState
           /\ [o EXCEPT !.field = f].hi = o.hi /\ [o EXCEPT !.field = f].k = o.k
           /\ [o EXCEPT !.field = f].field = f
           /\ [hi |-> o.hi, k |-> o.k + 1, field |-> "index"] \in WorkerState
           /\ o.hi \in 0 .. n /\ o.k \in Nat
BY DEF WorkerState

\* The three steps of a record move the worker as WorkerMoves asks.
LEMMA RecordStepKeeps ==
    ASSUME WInv, NEW w \in DOMAIN work, PutIndex(w) \/ CopyData(w) \/ PutCRC(w)
    PROVE  WInv'
<1> DEFINE o == work[w]
           q == dst[At(w)]
<1>1. /\ o \in WorkerState /\ At(w) < o.hi /\ w \in Nat /\ n \in Nat
      /\ At(w) \in Positions /\ At(w) \in Nat /\ At(w) = w + o.k
  BY AtInBlob DEF WInv, TypeOK, PutIndex, CopyData, PutCRC, Writing, At
<1>2. q \in RecordBytes /\ (~withCRC => q.crc = <<>>)
  BY <1>1 DEF WInv, TypeOK, NoStrayCRC, Positions
<1>3. /\ o.field # "index" => q.idx = At(w)
      /\ o.field = "crc" => withCRC /\ q.data = At(w)
  BY DEF WInv, Written
<1>4. UNCHANGED <<n, procs, withCRC, pc, lo, chunk, wg>>
  BY DEF PutIndex, CopyData, PutCRC
<1>5. ASSUME PutIndex(w) PROVE WInv'
  <2> DEFINE r == [q EXCEPT !.idx = At(w)]
             s == [o EXCEPT !.field = "data"]
  <2>1. dst' = [dst EXCEPT ![At(w)] = r] /\ work' = [work EXCEPT ![w] = s]
    BY <1>5 DEF PutIndex
  <2>2. /\ r \in RecordBytes /\ r.crc = q.crc /\ r.idx = At(w)
        /\ s \in WorkerState /\ s.hi = o.hi /\ s.k = o.k /\ s.field = "data"
    <3> HIDE DEF o, q
    <3>1. At(w) \in Int
      BY <1>1
    <3>2. /\ r \in RecordBytes /\ r.crc = q.crc /\ r.idx = At(w)
      BY <1>2, <3>1, FieldWritten
    <3>3. s \in WorkerState /\ s.hi = o.hi /\ s.k = o.k /\ s.field = "data"
      BY <1>1, StateMoved
    <3> QED BY <3>2, <3>3
  <2> HIDE DEF r, s
  <2>3. w + s.k <= s.hi
    BY <1>1, <2>2 DEF WorkerState
  <2> QED BY <1>1, <1>2, <1>4, <2>1, <2>2, <2>3, WorkerMoves
<1>6. ASSUME CopyData(w) PROVE WInv'
  <2> DEFINE r == [q EXCEPT !.data = At(w)]
             s == IF withCRC THEN [o EXCEPT !.field = "crc"]
                  ELSE [hi |-> o.hi, k |-> o.k + 1, field |-> "index"]
  <2>0. o.field = "data"
    BY <1>6 DEF CopyData, Writing
  <2>1. dst' = [dst EXCEPT ![At(w)] = r] /\ work' = [work EXCEPT ![w] = s]
    BY <1>6 DEF CopyData, NextRecord
  <2>2. /\ r \in RecordBytes /\ r.crc = q.crc /\ r.idx = q.idx /\ r.data = At(w)
        /\ s \in WorkerState /\ s.hi = o.hi
        /\ withCRC => s.k = o.k /\ s.field = "crc"
        /\ ~withCRC => s.k = o.k + 1 /\ s.field = "index"
    <3> HIDE DEF o, q
    <3>1. At(w) \in Int
      BY <1>1
    <3>2. r \in RecordBytes /\ r.crc = q.crc /\ r.idx = q.idx /\ r.data = At(w)
      BY <1>2, <3>1, FieldWritten
    <3>3. CASE withCRC
      <4>1. s = [o EXCEPT !.field = "crc"]
        BY <3>3
      <4> HIDE DEF r, s
      <4>2. s \in WorkerState /\ s.hi = o.hi /\ s.k = o.k /\ s.field = "crc"
        BY <1>1, <4>1, StateMoved
      <4> QED BY <3>2, <3>3, <4>2
    <3>4. CASE ~withCRC
      <4>1. s = [hi |-> o.hi, k |-> o.k + 1, field |-> "index"]
        BY <3>4
      <4> HIDE DEF r, s
      <4>2. s \in WorkerState
        BY <1>1, <4>1, StateMoved
      <4>3. s.hi = o.hi /\ s.k = o.k + 1 /\ s.field = "index"
        BY <4>1
      <4> QED BY <3>2, <3>4, <4>2, <4>3
    <3> QED BY <3>3, <3>4
  <2>3. ~withCRC => r = Wanted(At(w))
    BY <1>2, <1>3, <2>0, <2>2, WantedFields
  <2> HIDE DEF r, s
  <2>4. w + s.k <= s.hi
    BY <1>1, <2>2 DEF WorkerState
  <2>5. s.k = o.k \/ (s.k = o.k + 1 /\ r = Wanted(At(w)))
    BY <2>2, <2>3
  <2>6. /\ s.field # "index" => s.k = o.k /\ r.idx = At(w)
        /\ s.field = "crc" => withCRC /\ r.data = At(w)
    BY <1>3, <2>0, <2>2
  <2> QED BY <1>1, <1>2, <1>4, <2>1, <2>2, <2>4, <2>5, <2>6, WorkerMoves
<1>7. ASSUME PutCRC(w) PROVE WInv'
  <2> DEFINE r == [q EXCEPT !.crc = <<q.idx, q.data>>]
             s == [hi |-> o.hi, k |-> o.k + 1, field |-> "index"]
  <2>0. o.field = "crc" /\ withCRC /\ q.idx = At(w) /\ q.data = At(w)
    BY <1>3, <1>7 DEF PutCRC, Writing
  <2>1. dst' = [dst EXCEPT ![At(w)] = r] /\ work' = [work EXCEPT ![w] = s]
    BY <1>7 DEF PutCRC, NextRecord
  <2>2. /\ r \in RecordBytes
        /\ s \in WorkerState /\ s.hi = o.hi /\ s.k = o.k + 1 /\ s.field = "index"
    <3> HIDE DEF o, q
    <3>1. At(w) \in Int
      BY <1>1
    <3>2. r \in RecordBytes
      BY <1>2, <3>1, FieldWritten
    <3>3. s \in WorkerState /\ s.hi = o.hi /\ s.k = o.k + 1 /\ s.field = "index"
      BY <1>1, StateMoved
    <3> QED BY <3>2, <3>3
  <2>3. r = Wanted(At(w))
    <3>1. r.idx = At(w) /\ r.data = At(w) /\ r.crc = <<At(w), At(w)>>
      <4> HIDE DEF o, q
      <4>1. At(w) \in Int
        BY <1>1
      <4>2. r.idx = q.idx /\ r.data = q.data /\ r.crc = <<q.idx, q.data>>
        BY <1>2, <4>1, FieldWritten
      <4> QED BY <2>0, <4>2
    <3> QED BY <2>0, <2>2, <3>1, WantedFields
  <2> HIDE DEF r, s
  <2>4. w + s.k <= s.hi
    BY <1>1, <2>2 DEF WorkerState
  <2> QED BY <1>1, <1>4, <2>0, <2>1, <2>2, <2>3, <2>4, WorkerMoves
<1> QED BY <1>5, <1>6, <1>7

\* A goroutine that is done leaves its slice complete.
LEMMA DoneKeeps ==
    ASSUME WInv, NEW w \in DOMAIN work, Done(w)
    PROVE  WInv'
<1>1. TypeOK' /\ SlicesDisjoint' /\ Written' /\ NoStrayCRC'
  BY DEF Done, WInv, TypeOK, SlicesDisjoint, Written, NoStrayCRC, At, Positions,
         Wanted, WorkerState, RecordBytes
<1>2. SlicesFill' /\ Joined'
  BY DEF Done, WInv, SlicesFill, Joined, Owns, Positions, At
<1> QED BY <1>1, <1>2 DEF WInv

\* Every step keeps the inductive invariant.
LEMMA NextWInv == WInv /\ [Next]_vars => WInv'
<1> SUFFICES ASSUME WInv, [Next]_vars PROVE WInv'
  OBVIOUS
<1>1. CASE Start
  BY <1>1, StartKeeps
<1>2. CASE Spawn
  BY <1>2, SpawnKeeps
<1>3. CASE AllSpawned
  BY <1>3, CallerMoves DEF AllSpawned
<1>4. CASE Join
  BY <1>4, CallerMoves DEF Join
<1>5. ASSUME NEW w \in DOMAIN work, Worker(w) PROVE WInv'
  BY <1>5, RecordStepKeeps, DoneKeeps DEF Worker
<1>6. CASE UNCHANGED vars
  BY <1>6 DEF vars, WInv, TypeOK, SlicesDisjoint, SlicesFill, Written, NoStrayCRC,
              Joined, At, Owns, Positions, Wanted, WorkerState, RecordBytes
<1> QED BY <1>1, <1>2, <1>3, <1>4, <1>5, <1>6 DEF Next, Caller

\* The inductive invariant holds throughout.
LEMMA SpecWInv == Spec => []WInv
BY InitWInv, NextWInv, PTL DEF Spec

\* writeRecords stays within the blob: whatever the numbers of records and of
\* processors, no slice reaches past the last record and the last chunk is cut
\* where the records end.
THEOREM WorkersTypeCorrect == Spec => []TypeOK
<1>1. WInv => TypeOK
  BY DEF WInv
<1> QED BY <1>1, SpecWInv, PTL

\* The goroutines' slices of the blob never overlap.
THEOREM SlicesAlwaysDisjoint == Spec => []SlicesDisjoint
<1>1. WInv => SlicesDisjoint
  BY DEF WInv
<1> QED BY <1>1, SpecWInv, PTL

\* The blob writeRecords returns is the sequential one, for every number of
\* records and processors and every schedule.
THEOREM ParallelIsSequential == Spec => []ByteIdentity
<1>1. WInv => ByteIdentity
  <2> SUFFICES ASSUME WInv, pc = "return", NEW p \in 0 .. (n - 1)
               PROVE  dst[p] = Wanted(p)
    BY DEF ByteIdentity
  <2>1. PICK w \in DOMAIN work : w <= p /\ p < work[w].hi
    BY DEF WInv, SlicesFill, Owns, Positions
  <2>2. At(w) = work[w].hi
    BY DEF WInv, Joined
  <2> QED BY <2>1, <2>2 DEF WInv, Written, Positions
<1> QED BY <1>1, SpecWInv, PTL

\* After writeRecords has returned no goroutine writes to the blob.
THEOREM QuietAfterReturn == Spec => NoWriteAfterReturn
<1>1. WInv /\ [Next]_vars => [pc = "return" => dst' = dst]_vars
  <2> SUFFICES ASSUME WInv, Next, pc = "return" PROVE dst' = dst
    BY DEF vars
  <2>1. CASE Caller
    BY <2>1 DEF Caller, Start, Spawn, AllSpawned, Join
  <2>2. ASSUME NEW w \in DOMAIN work, Worker(w) PROVE dst' = dst
    <3>1. At(w) = work[w].hi /\ work[w].hi \in Int
      BY AtInBlob DEF WInv, Joined
    <3> QED BY <2>2, <3>1 DEF Worker, PutIndex, CopyData, PutCRC, Done, Writing
  <2> QED BY <2>1, <2>2 DEF Next
<1> QED BY <1>1, SpecWInv, PTL DEF Spec, NoWriteAfterReturn
=============================================================================
