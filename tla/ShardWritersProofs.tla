------------------------- MODULE ShardWritersProofs -------------------------
(***************************************************************************)
(* Proofs about ShardWriters, for every number of records, every geometry  *)
(* and every schedule: the workers write disjoint spans of the shards, and *)
(* the blob they leave is the flat payload, cut into shards.               *)
(***************************************************************************)
EXTENDS ShardWriters, TLAPS

-----------------------------------------------------------------------------
(* The inductive invariant. *)

Field == {"fill", "index", "data", "crc"}

\* Where in its record the field that is being copied begins.
Begins(f) == IF f = "fill" THEN 0 ELSE FieldOff[f]

\* A worker is inside its range, its offset is that of cell j of the current
\* field of record p, and while it copies that record its buffers hold it.
WorkerOK(w, r) ==
    /\ r \in [p : Nat, hi : Nat, field : Field, j : 0 .. 1, off : Nat]
    /\ w <= r.p /\ r.p <= r.hi /\ r.hi <= n
    /\ r.off = r.p * RecLen + Begins(r.field) + r.j
    /\ r.field = "fill" => r.j = 0
    /\ r.field # "fill" => r.p < r.hi /\ r.j < FieldLen[r.field]

\* The buffers of a worker that copies belong to the record it is at.
BufferOK(w) == work[w].field # "fill" =>
    buf[w] = [hdr |-> work[w].p, tail |-> <<work[w].p, work[w].p>>]

Shape ==
    /\ n \in RecCounts /\ procs \in ProcCounts /\ geo \in Geometries
    /\ DOMAIN shards = 0 .. (total - 1) /\ DOMAIN hdr = 0 .. (total - 1)
    /\ \A s \in DOMAIN shards : DOMAIN shards[s] = 0 .. (shardSize - 1)
    /\ pc \in {"start", "seq", "spawn", "wait", "headers", "return"}
    /\ lo \in Nat /\ chunk \in Nat /\ DOMAIN work \subseteq 0 .. n
    /\ DOMAIN buf = 0 .. n
    /\ wg \subseteq DOMAIN work /\ wgHdr \subseteq DOMAIN shards
    /\ n = 0 => pc \in {"start", "return"}

WorkersOK == \A w \in DOMAIN work : WorkerOK(w, work[w])
BuffersOK == \A w \in DOMAIN work : BufferOK(w)

\* No two workers share a record.
Apart == \A v, w \in DOMAIN work : v < w => work[v].hi <= w

\* Cell q of the payload lies behind the offset of the worker it belongs to.
Written(q) == \E w \in DOMAIN work : w * RecLen <= q /\ q < work[w].off

\* A data cell holds what the flat payload has there exactly when some worker
\* has passed it.
DataCells ==
    \A s \in DOMAIN shards : s < N => \A c \in DOMAIN shards[s] :
        shards[s][c] = IF Written(s * shardSize + c) THEN Flat(s * shardSize + c) ELSE Zero

ParityDone == pc \in {"headers", "return"}

ParityCells ==
    \A s \in DOMAIN shards : s >= N => \A c \in DOMAIN shards[s] :
        shards[s][c] = IF ParityDone THEN Parity(s, c) ELSE Zero

\* Record p was handed to some worker.
Dealt(p) == \E w \in DOMAIN work : w <= p /\ p < work[w].hi

Progress ==
    /\ pc = "start" => DOMAIN work = {} /\ lo = 0
    /\ pc = "seq" => DOMAIN work = {0} /\ work[0].hi = n
    /\ pc = "spawn" => chunk >= 1 /\ \A w \in DOMAIN work : w < lo /\ work[w].hi <= lo
    /\ pc = "wait" => lo >= n
    /\ pc \in {"spawn", "wait"} =>
          /\ \A w \in DOMAIN work \ wg : work[w].p = work[w].hi
          /\ \A p \in 0 .. (n - 1) : p < lo => Dealt(p)
    /\ ParityDone => /\ \A w \in DOMAIN work : work[w].p = work[w].hi
                     /\ \A p \in 0 .. (n - 1) : Dealt(p)

Headers ==
    /\ pc = "headers" => \A s \in DOMAIN shards \ wgHdr : hdr[s] = [idx |-> s, crc |-> shards[s]]
    /\ pc = "return" => \A s \in DOMAIN shards : hdr[s] = [idx |-> s, crc |-> shards[s]]

IInv == Shape /\ WorkersOK /\ BuffersOK /\ Apart /\ DataCells /\ ParityCells /\ Progress /\ Headers

-----------------------------------------------------------------------------
(* Arithmetic of cutting a payload into shards. *)

\* A cell of the payload has a shard and a place in it.
LEMMA DivMod ==
    ASSUME NEW q \in Nat, NEW S \in Nat, S >= 1
    PROVE  /\ q \div S \in Nat /\ q % S \in 0 .. (S - 1)
           /\ q = (q \div S) * S + (q % S)
OBVIOUS

\* They are its only ones.
LEMMA PlaceUnique ==
    ASSUME NEW S \in Nat, NEW s \in Nat, NEW t \in Nat,
           NEW c \in 0 .. (S - 1), NEW d \in 0 .. (S - 1),
           s * S + c = t * S + d
    PROVE  s = t /\ c = d
<1>1. ~(s < t)
  <2>1. SUFFICES ASSUME s < t PROVE FALSE
    OBVIOUS
  <2>2. (s + 1) * S <= t * S
    BY <2>1
  <2>3. (s + 1) * S = s * S + S
    OBVIOUS
  <2> QED BY <2>2, <2>3
<1>2. ~(t < s)
  <2>1. SUFFICES ASSUME t < s PROVE FALSE
    OBVIOUS
  <2>2. (t + 1) * S <= s * S
    BY <2>1
  <2>3. (t + 1) * S = t * S + S
    OBVIOUS
  <2> QED BY <2>2, <2>3
<1>3. s = t BY <1>1, <1>2
<1> QED BY <1>3

\* The shards hold the whole payload.
LEMMA ShardSizeFacts ==
    ASSUME NEW P \in Nat, NEW D \in Nat \ {0}
    PROVE  LET S == (P + D - 1) \div D
           IN  /\ S \in Nat
               /\ P <= D * S
               /\ P > 0 => S >= 1
               /\ P = 0 => S = 0
<1> DEFINE S == (P + D - 1) \div D
<1> DEFINE R == (P + D - 1) % D
<1> DEFINE Q == P + D - 1
<1>1. S \in Nat /\ R \in 0 .. (D - 1) /\ P + D - 1 = S * D + R
  <2>1. Q \in Nat /\ D \in Nat /\ D >= 1 OBVIOUS
  <2> HIDE DEF Q
  <2>2. Q \div D \in Nat /\ Q % D \in 0 .. (D - 1) /\ Q = (Q \div D) * D + (Q % D)
    BY <2>1, DivMod
  <2> QED BY <2>2 DEF Q, S, R
<1> HIDE DEF S, R
<1>2. P <= D * S
  BY <1>1
<1>3. P > 0 => S >= 1
  BY <1>2, <1>1
<1>4. P = 0 => S = 0
  <2>1. SUFFICES ASSUME P = 0, S >= 1 PROVE FALSE
    BY <1>1
  <2>2. S * D >= D
    BY <2>1, <1>1
  <2> QED BY <2>1, <2>2, <1>1
<1> QED BY <1>1, <1>2, <1>3, <1>4 DEF S

-----------------------------------------------------------------------------
(* The payload and the shards. *)

\* The sizes in a state of the program.
LEMMA Sizes ==
    ASSUME Shape
    PROVE  /\ n \in Nat /\ N \in Nat \ {0} /\ total \in Nat /\ N <= total
           /\ payload \in Nat /\ payload = n * RecLen
           /\ shardSize \in Nat /\ payload <= N * shardSize
           /\ n > 0 => shardSize >= 1
           /\ n = 0 => shardSize = 0
<1>1. n \in Nat /\ geo[1] \in Nat \ {0} /\ geo[2] \in Nat
  BY ShardsAssumption DEF Shape
<1>2. payload \in Nat /\ payload = n * RecLen
  BY <1>1 DEF payload, RecLen
<1>3. N \in Nat \ {0} /\ total \in Nat /\ N <= total
  BY <1>1 DEF N, total
<1>4. /\ shardSize \in Nat /\ payload <= N * shardSize
      /\ payload > 0 => shardSize >= 1
      /\ payload = 0 => shardSize = 0
  <2> HIDE DEF payload, N
  <2> QED BY <1>2, <1>3, ShardSizeFacts DEF shardSize
<1>5. (n > 0 => payload > 0) /\ (n = 0 => payload = 0)
  BY <1>1, <1>2 DEF RecLen
<1> QED BY <1>1, <1>2, <1>3, <1>4, <1>5

\* They depend on the number of records and the geometry alone.
LEMMA Still ==
    ASSUME UNCHANGED <<n, geo>>
    PROVE  /\ N' = N /\ total' = total /\ payload' = payload /\ shardSize' = shardSize
           /\ \A q : Flat(q)' = Flat(q)
<1>1. N' = N /\ total' = total /\ payload' = payload
  BY DEF N, total, payload
<1>2. shardSize' = shardSize
  BY <1>1 DEF shardSize
<1>3. ASSUME NEW q PROVE Flat(q)' = Flat(q)
  BY <1>1 DEF Flat
<1> QED BY <1>1, <1>2, <1>3

\* Cell j of field f of record p.
LEMMA FlatCell ==
    ASSUME n \in Nat, NEW p \in Nat, p < n, NEW f \in DOMAIN FieldLen,
           NEW j \in Nat, j < FieldLen[f]
    PROVE  /\ p * RecLen + FieldOff[f] + j \in 0 .. (payload - 1)
           /\ Flat(p * RecLen + FieldOff[f] + j) =
                 IF f = "crc" THEN <<f, <<p, p>>>> ELSE <<f, p, j>>
<1> DEFINE q == p * RecLen + FieldOff[f] + j
<1>1. f \in {"index", "data", "crc"}
  BY DEF FieldLen
<1>2. /\ q \in 0 .. (payload - 1) /\ q \div RecLen = p /\ q % RecLen = FieldOff[f] + j
  BY <1>1 DEF FieldLen, FieldOff, RecLen, payload
<1> HIDE DEF q
<1>3. \A g \in DOMAIN FieldLen :
          ((q % RecLen) - FieldOff[g] \in 0 .. (FieldLen[g] - 1)) <=> g = f
  BY <1>1, <1>2 DEF FieldLen, FieldOff
<1> DEFINE X == CHOOSE g \in DOMAIN FieldLen : (q % RecLen) - FieldOff[g] \in 0 .. (FieldLen[g] - 1)
<1>4. X = f
  BY <1>3
<1>5. (q % RecLen) - FieldOff[f] = j
  BY <1>1, <1>2 DEF FieldOff
<1>6. ~(q >= payload)
  BY <1>2 DEF payload, RecLen
<1>7. Flat(q) = IF f = "crc" THEN <<f, <<p, p>>>> ELSE <<f, p, j>>
  <2>1. Flat(q) = IF q >= payload THEN Zero
                  ELSE IF X = "crc" THEN <<X, <<q \div RecLen, q \div RecLen>>>>
                       ELSE <<X, q \div RecLen, (q % RecLen) - FieldOff[X]>>
    BY Zenon DEF Flat
  <2> HIDE DEF X
  <2> QED BY <2>1, <1>2, <1>4, <1>5, <1>6
<1> QED BY <1>2, <1>7, Zenon DEF q

\* A cell of the payload lies in one data shard, at one place.
LEMMA CellPlace ==
    ASSUME Shape, NEW q \in 0 .. (payload - 1)
    PROVE  /\ q \div shardSize \in 0 .. (N - 1)
           /\ q % shardSize \in 0 .. (shardSize - 1)
           /\ q = (q \div shardSize) * shardSize + (q % shardSize)
<1> DEFINE s == q \div shardSize
<1>1. /\ n \in Nat /\ N \in Nat \ {0} /\ payload \in Nat /\ payload = n * RecLen
      /\ shardSize \in Nat /\ payload <= N * shardSize /\ (n > 0 => shardSize >= 1)
  BY Sizes
<1> HIDE DEF N, payload, shardSize
<1>2. q \in Nat /\ n > 0
  BY <1>1 DEF RecLen
<1>3. s \in Nat /\ q % shardSize \in 0 .. (shardSize - 1) /\ q = s * shardSize + (q % shardSize)
  BY <1>1, <1>2, DivMod
<1> HIDE DEF s
<1>4. s < N
  <2>1. SUFFICES ASSUME s >= N PROVE FALSE
    BY <1>1, <1>3
  <2>2. s * shardSize >= N * shardSize
    BY <2>1, <1>1, <1>3
  <2> QED BY <2>2, <1>1, <1>3
<1> QED BY <1>1, <1>3, <1>4 DEF s

-----------------------------------------------------------------------------
(* One iteration of writeShardSpans. *)

\* What a span is: m cells from place c of shard s, cells j .. j+m-1 of the
\* current field of worker w.
LEMMA SpanFacts ==
    ASSUME Shape, NEW w \in DOMAIN work, WorkerOK(w, work[w]),
           work[w].field # "fill"
    PROVE  LET r    == work[w]
               c    == r.off % shardSize
               room == shardSize - c
               left == FieldLen[r.field] - r.j
               m    == IF left < room THEN left ELSE room
           IN  /\ r.field \in DOMAIN FieldLen
               /\ r.off = r.p * RecLen + FieldOff[r.field] + r.j
               /\ r.off \in 0 .. (payload - 1)
               /\ r.off \div shardSize \in 0 .. (N - 1)
               /\ c \in 0 .. (shardSize - 1)
               /\ r.off = (r.off \div shardSize) * shardSize + c
               /\ m \in Nat /\ m >= 1 /\ m <= left /\ c + m <= shardSize
<1> DEFINE r    == work[w]
           c    == r.off % shardSize
           room == shardSize - c
           left == FieldLen[r.field] - r.j
           m    == IF left < room THEN left ELSE room
<1>1. /\ r.p \in Nat /\ r.field \in {"index", "data", "crc"} /\ r.j \in Nat /\ r.hi \in Nat
      /\ r.p < n /\ r.j < FieldLen[r.field] /\ r.off = r.p * RecLen + FieldOff[r.field] + r.j
  <2>1. n \in Nat BY Sizes
  <2> QED BY <2>1 DEF WorkerOK, Field, Begins, FieldOff
<1>2. r.field \in DOMAIN FieldLen
  BY <1>1 DEF FieldLen
<1>3. r.off \in 0 .. (payload - 1)
  BY <1>1, <1>2, FlatCell, Sizes
<1>4. /\ r.off \div shardSize \in 0 .. (N - 1) /\ c \in 0 .. (shardSize - 1)
      /\ r.off = (r.off \div shardSize) * shardSize + c
  BY <1>3, CellPlace
<1>5. left \in Nat /\ left >= 1
  BY <1>1 DEF FieldLen
<1>6. shardSize \in Nat BY Sizes
<1> HIDE DEF left, c
<1>7. m \in Nat /\ m >= 1 /\ m <= left /\ c + m <= shardSize
  BY <1>4, <1>5, <1>6
<1> QED BY <1>1, <1>2, <1>3, <1>4, <1>7 DEF left, c

\* After m more cells a worker is still inside its range.
LEMMA AdvancedOK ==
    ASSUME n \in Nat, NEW w \in Nat, NEW r, WorkerOK(w, r), r.field # "fill",
           NEW m \in Nat, m >= 1, m <= FieldLen[r.field] - r.j
    PROVE  LET q == Advanced(r, m)
           IN  /\ WorkerOK(w, q)
               /\ q.off = r.off + m /\ q.hi = r.hi
               /\ q.field # "fill" => q.p = r.p
               /\ r.p <= q.p /\ q.off <= r.hi * RecLen
<1> DEFINE q == Advanced(r, m)
<1>1. /\ r \in [p : Nat, hi : Nat, field : Field, j : 0 .. 1, off : Nat]
      /\ r.field \in {"index", "data", "crc"} /\ r.j < FieldLen[r.field]
      /\ w <= r.p /\ r.p < r.hi /\ r.hi <= n /\ r.off = r.p * RecLen + FieldOff[r.field] + r.j
  BY DEF WorkerOK, Field, Begins, FieldOff
<1>2. CASE m < FieldLen[r.field] - r.j
  <2>1. q = [r EXCEPT !.j = @ + m, !.off = @ + m]
    BY <1>2 DEF Advanced
  <2>2. r.field # "crc" /\ r.j = 0 /\ m = 1
    BY <1>1, <1>2 DEF FieldLen
  <2> HIDE DEF q
  <2>a. q = [p |-> r.p, hi |-> r.hi, field |-> r.field, j |-> r.j + m, off |-> r.off + m]
    BY <2>1, <1>1
  <2>3. /\ q.p = r.p /\ q.hi = r.hi /\ q.field = r.field /\ q.j = r.j + m /\ q.off = r.off + m
        /\ q \in [p : Nat, hi : Nat, field : Field, j : 0 .. 1, off : Nat]
    BY <2>a, <2>2, <1>1
  <2>4. WorkerOK(w, q)
    BY <1>1, <2>2, <2>3 DEF WorkerOK, Begins, FieldLen, FieldOff, RecLen
  <2> QED BY <1>1, <2>2, <2>3, <2>4 DEF FieldOff, RecLen, q
<1>3. CASE ~(m < FieldLen[r.field] - r.j)
  <2> DEFINE pp == IF r.field = "crc" THEN r.p + 1 ELSE r.p
  <2>1. q = [r EXCEPT !.field = NextField[@], !.j = 0, !.off = @ + m,
                      !.p = IF r.field = "crc" THEN @ + 1 ELSE @]
    BY <1>3 DEF Advanced
  <2>2. m = FieldLen[r.field] - r.j
    BY <1>1, <1>3 DEF FieldLen
  <2>3. NextField[r.field] \in Field /\ pp \in Nat
    BY <1>1 DEF NextField, Field
  <2> HIDE DEF q
  <2>a. q = [p |-> pp, hi |-> r.hi, field |-> NextField[r.field], j |-> 0, off |-> r.off + m]
    BY <2>1, <1>1
  <2>4. /\ q.p = pp /\ q.hi = r.hi /\ q.field = NextField[r.field] /\ q.j = 0
        /\ q.off = r.off + m
        /\ q \in [p : Nat, hi : Nat, field : Field, j : 0 .. 1, off : Nat]
    BY <2>a, <2>3, <1>1
  <2>5. WorkerOK(w, q)
    BY <1>1, <2>2, <2>4 DEF WorkerOK, Begins, FieldLen, FieldOff, NextField, RecLen
  <2> QED BY <1>1, <2>2, <2>4, <2>5 DEF FieldLen, FieldOff, NextField, RecLen, q
<1> QED BY <1>2, <1>3

\* The cells of the span are the cells off .. off+m-1 of the payload.
LEMMA SpanCells ==
    ASSUME NEW S \in Nat, NEW s \in Nat, NEW c \in 0 .. (S - 1), NEW m \in Nat, c + m <= S,
           NEW t \in Nat, NEW d \in 0 .. (S - 1)
    PROVE  (t = s /\ d \in c .. (c + m - 1))
              <=> (t * S + d \in (s * S + c) .. (s * S + c + m - 1))
<1>1. t = s => ((d \in c .. (c + m - 1)) <=> (t * S + d \in (s * S + c) .. (s * S + c + m - 1)))
  OBVIOUS
<1>2. ASSUME t * S + d \in (s * S + c) .. (s * S + c + m - 1) PROVE t = s
  <2> DEFINE e == t * S + d - s * S
  <2>1. t * S \in Nat /\ s * S \in Nat OBVIOUS
  <2>2. e \in 0 .. (S - 1) /\ t * S + d = s * S + e
    BY <1>2, <2>1
  <2> HIDE DEF e
  <2> QED BY <2>2, PlaceUnique
<1> QED BY <1>1, <1>2

\* A span leaves what other workers and earlier spans have written alone, and
\* puts there what the flat payload has.
LEMMA CopyKeeps ==
    ASSUME IInv, NEW w \in DOMAIN work, CopySpan(w)
    PROVE  IInv' /\ ~ParityDone
<1> DEFINE r == work[w]
           s == r.off \div shardSize
           c == r.off % shardSize
           room == shardSize - c
           left == FieldLen[r.field] - r.j
           m == IF left < room THEN left ELSE room
           q == Advanced(r, m)
<1>1. /\ r.field # "fill" /\ r.p < r.hi
      /\ shards' = [shards EXCEPT ![s] = [d \in DOMAIN @ |->
                        IF d \in c .. (c + m - 1) THEN Source(w, r.j + d - c) ELSE @[d]]]
      /\ work' = [work EXCEPT ![w] = q]
      /\ UNCHANGED <<Caller, hdr, buf, wg, wgHdr>>
  BY Zenon DEF CopySpan
<1>2. UNCHANGED <<n, procs, geo, pc, lo, chunk, hdr, buf, wg, wgHdr>>
  BY <1>1 DEF Caller
<1>3. Shape /\ WorkersOK /\ BuffersOK /\ Apart /\ DataCells /\ ParityCells /\ Progress /\ Headers
  BY DEF IInv
<1>4. WorkerOK(w, r) /\ BufferOK(w)
  BY <1>3 DEF WorkersOK, BuffersOK
<1>5. /\ n \in Nat /\ N \in Nat \ {0} /\ total \in Nat /\ N <= total /\ shardSize \in Nat
      /\ payload = n * RecLen
  BY <1>3, Sizes
<1>6. /\ r.field \in DOMAIN FieldLen
      /\ r.off = r.p * RecLen + FieldOff[r.field] + r.j
      /\ r.off \in 0 .. (payload - 1)
      /\ s \in 0 .. (N - 1) /\ c \in 0 .. (shardSize - 1) /\ r.off = s * shardSize + c
      /\ m \in Nat /\ m >= 1 /\ m <= left /\ c + m <= shardSize
  BY <1>1, <1>3, <1>4, SpanFacts
<1>7. w \in Nat /\ DOMAIN work \subseteq Nat
  BY <1>3, <1>5 DEF Shape
<1>8. /\ WorkerOK(w, q) /\ q.off = r.off + m /\ q.hi = r.hi
      /\ q.field # "fill" => q.p = r.p
      /\ r.p <= q.p /\ q.off <= r.hi * RecLen
  <2>1. m \in Nat /\ m >= 1 /\ m <= FieldLen[r.field] - r.j
    BY <1>6
  <2> HIDE DEF m, r
  <2> QED BY <2>1, <1>1, <1>4, <1>5, <1>7, AdvancedOK
<1>9. N' = N /\ total' = total /\ payload' = payload /\ shardSize' = shardSize
      /\ \A x : Flat(x)' = Flat(x)
  BY <1>2, Still
<1>10. /\ r \in [p : Nat, hi : Nat, field : Field, j : 0 .. 1, off : Nat]
       /\ w <= r.p /\ r.hi <= n
  BY <1>4 DEF WorkerOK
<1> HIDE DEF r, s, c, room, left, m, q
<1>11. s \in DOMAIN shards /\ s < N /\ DOMAIN shards = 0 .. (total - 1)
       /\ \A t \in DOMAIN shards : DOMAIN shards[t] = 0 .. (shardSize - 1)
  BY <1>3, <1>5, <1>6 DEF Shape
<1>12. /\ DOMAIN work' = DOMAIN work /\ work'[w] = q
       /\ \A v \in DOMAIN work : v # w => work'[v] = work[v]
  BY <1>1
<1>13. DOMAIN shards' = DOMAIN shards
       /\ \A t \in DOMAIN shards : /\ DOMAIN shards'[t] = DOMAIN shards[t]
                                   /\ t # s => shards'[t] = shards[t]
  BY <1>1
<1>14. \A d \in DOMAIN shards[s] : shards'[s][d] =
          IF d \in c .. (c + m - 1) THEN Source(w, r.j + d - c) ELSE shards[s][d]
  BY <1>1, <1>11
<1>15. \A v \in DOMAIN work : WorkerOK(v, work[v])
  BY <1>3 DEF WorkersOK
<1>16. \A v \in DOMAIN work : /\ v \in Nat /\ work[v].hi \in Nat /\ work[v].off \in Nat
                             /\ work[v].off <= work[v].hi * RecLen
  <2>1. ASSUME NEW v \in DOMAIN work
        PROVE  work[v].hi \in Nat /\ work[v].off \in Nat /\ work[v].off <= work[v].hi * RecLen
    <3>1. WorkerOK(v, work[v]) BY <1>15
    <3> QED BY <3>1 DEF WorkerOK, Field, Begins, FieldLen, FieldOff, RecLen
  <2> QED BY <2>1, <1>7
\* The cells of the span were not written yet.
<1>17. ASSUME NEW x \in r.off .. (r.off + m - 1) PROVE ~Written(x)
  <2>1. SUFFICES ASSUME NEW v \in DOMAIN work, v * RecLen <= x, x < work[v].off PROVE FALSE
    BY DEF Written
  <2>2. v # w
    BY <2>1, <1>10, <1>6 DEF r
  <2>3. work[v].hi <= w \/ r.hi <= v
    BY <2>2, <1>3, <1>7, <1>16 DEF Apart, r
  <2>4. x < r.hi * RecLen /\ w * RecLen <= x
    BY <1>8, <1>10, <1>6, <1>7 DEF RecLen, Begins, FieldLen, FieldOff
  <2> QED BY <2>1, <2>3, <2>4, <1>16, <1>7, <1>10, <1>6 DEF RecLen
<1> DEFINE Passed(x) == \E v \in DOMAIN work : v * RecLen <= x /\ x < work'[v].off
<1>18. ASSUME NEW x \in Nat PROVE Passed(x) <=> (Written(x) \/ x \in r.off .. (r.off + m - 1))
  <2>2. ASSUME NEW v \in DOMAIN work, v # w PROVE work'[v].off = work[v].off
    BY <2>2, <1>12
  <2>3. w * RecLen <= r.off
    BY <1>10, <1>6, <1>7 DEF RecLen, FieldLen, FieldOff
  <2>4. x < work'[w].off <=> (x < r.off \/ x \in r.off .. (r.off + m - 1))
    BY <1>12, <1>8, <1>6, <1>10
  <2>5. (\E v \in DOMAIN work : v * RecLen <= x /\ x < work'[v].off)
        <=> (Written(x) \/ x \in r.off .. (r.off + m - 1))
    <3>1. ASSUME NEW v \in DOMAIN work, v * RecLen <= x, x < work'[v].off
          PROVE  Written(x) \/ x \in r.off .. (r.off + m - 1)
      BY <3>1, <2>2, <2>4 DEF Written, r
    <3>2. ASSUME Written(x) PROVE \E v \in DOMAIN work : v * RecLen <= x /\ x < work'[v].off
      <4>1. PICK v \in DOMAIN work : v * RecLen <= x /\ x < work[v].off
        BY <3>2 DEF Written
      <4>2. CASE v = w
        BY <4>1, <4>2, <2>4 DEF r
      <4>3. CASE v # w
        BY <4>1, <4>3, <2>2
      <4> QED BY <4>2, <4>3
    <3>3. ASSUME x \in r.off .. (r.off + m - 1) PROVE w * RecLen <= x /\ x < work'[w].off
      BY <3>3, <2>3, <2>4, <1>6, <1>7, <1>10 DEF RecLen
    <3> QED BY <3>1, <3>2, <3>3
  <2> QED BY <2>5
\* What is copied there is what belongs there.
<1>19. ASSUME NEW d \in c .. (c + m - 1)
       PROVE  Source(w, r.j + d - c) = Flat(s * shardSize + d)
  <2> DEFINE j == r.j + d - c
  <2>0. FieldLen[r.field] \in Nat
    BY <1>6 DEF FieldLen
  <2>1. j \in Nat /\ j < FieldLen[r.field]
    BY <2>0, <1>6, <1>10 DEF left
  <2>2. s * shardSize \in Nat
    BY <1>5, <1>6
  <2>3. s * shardSize + d = r.p * RecLen + FieldOff[r.field] + j
    <3>1. r.p * RecLen + FieldOff[r.field] \in Nat
      BY <1>6, <1>10 DEF RecLen, FieldLen, FieldOff
    <3> QED BY <1>6, <1>10, <2>2, <3>1
  <2>4. r.p \in Nat /\ r.p < n
    BY <1>1, <1>10, <1>5
  <2> HIDE DEF j
  <2>5. Flat(s * shardSize + d) =
           IF r.field = "crc" THEN <<r.field, <<r.p, r.p>>>> ELSE <<r.field, r.p, j>>
    BY <2>1, <2>3, <2>4, <1>5, <1>6, FlatCell
  <2>6. buf[w].hdr = r.p /\ buf[w].tail = <<r.p, r.p>>
    BY <1>1, <1>4 DEF BufferOK, r
  <2>7. Source(w, j) = IF r.field = "crc" THEN <<r.field, <<r.p, r.p>>>> ELSE <<r.field, r.p, j>>
    BY <1>6, <2>6 DEF Source, bufOf, FieldLen, r
  <2> QED BY <2>5, <2>7 DEF j
<1>20. Shape'
  <2>1. DOMAIN shards' = 0 .. (total' - 1) /\ DOMAIN hdr' = 0 .. (total' - 1)
    BY <1>2, <1>3, <1>9, <1>13 DEF Shape
  <2>2. \A t \in DOMAIN shards' : DOMAIN shards'[t] = 0 .. (shardSize' - 1)
    BY <1>9, <1>11, <1>13
  <2>3. /\ wg' \subseteq DOMAIN work' /\ wgHdr' \subseteq DOMAIN shards'
        /\ DOMAIN work' \subseteq 0 .. n' /\ DOMAIN buf' = 0 .. n'
    BY <1>2, <1>3, <1>12, <1>13 DEF Shape
  <2> QED BY <2>1, <2>2, <2>3, <1>2, <1>3 DEF Shape
<1>21. WorkersOK'
  <2>1. ASSUME NEW v \in DOMAIN work PROVE WorkerOK(v, work'[v])
    BY <1>8, <1>12, <1>15
  <2>2. \A v, y : WorkerOK(v, y)' <=> WorkerOK(v, y)
    BY <1>2 DEF WorkerOK
  <2> QED BY <2>1, <1>2, <1>12 DEF WorkersOK, WorkerOK
<1>22. BuffersOK'
  <2>1. ASSUME NEW v \in DOMAIN work PROVE BufferOK(v)'
    <3>1. CASE v = w
      BY <3>1, <1>1, <1>2, <1>4, <1>8, <1>12 DEF BufferOK, r
    <3>2. CASE v # w
      BY <3>2, <1>2, <1>3, <1>12 DEF BuffersOK, BufferOK
    <3> QED BY <3>1, <3>2
  <2> QED BY <2>1, <1>12 DEF BuffersOK
<1>23. Apart'
  <2>1. \A v \in DOMAIN work : work'[v].hi = work[v].hi
    BY <1>8, <1>12 DEF r
  <2> QED BY <2>1, <1>3, <1>12 DEF Apart
<1>24. ~ParityDone
  BY <1>1, <1>3, <1>10 DEF Progress, r
<1>25. DataCells'
  <2>1. SUFFICES ASSUME NEW t \in DOMAIN shards, t < N, NEW d \in DOMAIN shards[t]
                 PROVE  shards'[t][d] = IF Passed(t * shardSize + d) THEN Flat(t * shardSize + d)
                                        ELSE Zero
    <3>1. \A x : (\E v \in DOMAIN work' : v * RecLen <= x /\ x < work'[v].off) <=> Passed(x)
      BY <1>12
    <3> HIDE DEF Passed
    <3> QED BY <3>1, <1>9, <1>13 DEF DataCells, Written
  <2> HIDE DEF Passed
  <2> DEFINE x == t * shardSize + d
  <2>2. t \in Nat /\ d \in 0 .. (shardSize - 1) /\ x \in Nat
    BY <1>5, <1>11
  <2>3. shards[t][d] = IF Written(x) THEN Flat(x) ELSE Zero
    BY <2>1, <1>3 DEF DataCells
  <2>4. (t = s /\ d \in c .. (c + m - 1)) <=> x \in r.off .. (r.off + m - 1)
    <3>1. (t = s /\ d \in c .. (c + m - 1))
             <=> x \in (s * shardSize + c) .. (s * shardSize + c + m - 1)
      BY <2>2, <1>5, <1>6, SpanCells
    <3> QED BY <3>1, <1>6
  <2>5. Passed(x) <=> (Written(x) \/ x \in r.off .. (r.off + m - 1))
    BY <2>2, <1>18
  <2>6. CASE t = s /\ d \in c .. (c + m - 1)
    <3>1. shards'[t][d] = Flat(x)
      BY <2>6, <1>14, <1>19
    <3> QED BY <3>1, <2>4, <2>5, <2>6
  <2>7. CASE ~(t = s /\ d \in c .. (c + m - 1))
    <3>1. shards'[t][d] = shards[t][d]
      BY <2>7, <1>13, <1>14
    <3> QED BY <3>1, <2>3, <2>4, <2>5, <2>7
  <2> QED BY <2>6, <2>7
<1>26. ParityCells'
  <2>1. ASSUME NEW t \in DOMAIN shards, t >= N PROVE t # s
    BY <2>1, <1>5, <1>6, <1>11
  <2>2. ~ParityDone'
    BY <1>2, <1>24 DEF ParityDone
  <2> QED BY <2>1, <2>2, <1>3, <1>9, <1>13, <1>24 DEF ParityCells
<1>27. Progress'
  <2>1. \A v \in DOMAIN work : work'[v].hi = work[v].hi
    BY <1>8, <1>12 DEF r
  <2>2. \A p : Dealt(p)' <=> Dealt(p)
    BY <2>1, <1>12 DEF Dealt
  <2>3. pc \in {"spawn", "wait"} => w \in wg
    BY <1>1, <1>3, <1>10 DEF Progress, r
  <2>4. pc \in {"spawn", "wait"} => \A v \in DOMAIN work' \ wg' : work'[v].p = work'[v].hi
    BY <2>3, <1>2, <1>3, <1>12 DEF Progress
  <2>5. ~ParityDone'
    BY <1>2, <1>24 DEF ParityDone
  <2>6. pc = "start" => DOMAIN work' = {} /\ lo' = 0
    BY <1>2, <1>3, <1>12 DEF Progress
  <2>7. pc = "seq" => DOMAIN work' = {0} /\ work'[0].hi = n'
    BY <2>1, <1>2, <1>3, <1>12 DEF Progress
  <2>8. pc = "spawn" => chunk' >= 1 /\ \A v \in DOMAIN work' : v < lo' /\ work'[v].hi <= lo'
    BY <2>1, <1>2, <1>3, <1>12 DEF Progress
  <2>9. pc = "wait" => lo' >= n'
    BY <1>2, <1>3 DEF Progress
  <2>10. pc \in {"spawn", "wait"} => \A p \in 0 .. (n' - 1) : p < lo' => Dealt(p)'
    BY <2>2, <1>2, <1>3 DEF Progress
  <2> QED BY <2>4, <2>5, <2>6, <2>7, <2>8, <2>9, <2>10, <1>2 DEF Progress
<1>28. Headers'
  BY <1>2, <1>24 DEF Headers, ParityDone
<1>29. IInv'
  BY <1>20, <1>21, <1>22, <1>23, <1>25, <1>26, <1>27, <1>28 DEF IInv
<1> QED BY <1>24, <1>29

-----------------------------------------------------------------------------
(* The other steps of a worker. *)

\* A step that writes no cell and moves no worker past one leaves the cells'
\* part of the invariant alone.
LEMMA CellsStay ==
    ASSUME DataCells, UNCHANGED <<n, geo, shards>>, DOMAIN work' = DOMAIN work,
           \A v \in DOMAIN work : work'[v].off = work[v].off
    PROVE  DataCells'
<1>1. N' = N /\ shardSize' = shardSize /\ \A x : Flat(x)' = Flat(x)
  BY Still
<1>2. \A x : (\E v \in DOMAIN work' : v * RecLen <= x /\ x < work'[v].off) <=> Written(x)
  BY DEF Written
<1> QED BY <1>1, <1>2 DEF DataCells, Written

\* The same for the parity.
LEMMA ParityStays ==
    ASSUME ParityCells, UNCHANGED <<n, geo, shards>>, ParityDone' = ParityDone
    PROVE  ParityCells'
<1>1. N' = N BY Still
<1>2. \A s, c : Parity(s, c)' = Parity(s, c)
  BY <1>1 DEF Parity
<1> QED BY <1>1, <1>2 DEF ParityCells

\* The shape of the state depends on the domains alone.
LEMMA ShapeStays ==
    ASSUME Shape, UNCHANGED <<n, procs, geo, shards>>, DOMAIN hdr' = DOMAIN hdr,
           pc' \in {"start", "seq", "spawn", "wait", "headers", "return"},
           lo' \in Nat, chunk' \in Nat, DOMAIN work' \subseteq 0 .. n,
           DOMAIN buf' = DOMAIN buf, wg' \subseteq DOMAIN work',
           wgHdr' \subseteq DOMAIN shards, n = 0 => pc' \in {"start", "return"}
    PROVE  Shape'
<1>1. total' = total /\ shardSize' = shardSize
  BY Still
<1> QED BY <1>1 DEF Shape

\* A worker fills its buffers from the record it is at.
LEMMA FillKeeps ==
    ASSUME IInv, NEW w \in DOMAIN work, FillBuffers(w)
    PROVE  IInv'
<1> DEFINE r == work[w]
           q == [r EXCEPT !.field = "index"]
<1>1. /\ r.field = "fill" /\ r.p < r.hi
      /\ buf' = [buf EXCEPT ![w] = [hdr |-> r.p, tail |-> <<r.p, r.p>>]]
      /\ work' = [work EXCEPT ![w] = q]
      /\ UNCHANGED <<n, procs, geo, pc, lo, chunk, shards, hdr, wg, wgHdr>>
  BY DEF FillBuffers, bufOf, Caller
<1>2. Shape /\ WorkersOK /\ BuffersOK /\ Apart /\ DataCells /\ ParityCells /\ Progress /\ Headers
  BY DEF IInv
<1>3. \A v \in DOMAIN work : WorkerOK(v, work[v])
  BY <1>2 DEF WorkersOK
<1>4. r \in [p : Nat, hi : Nat, field : Field, j : 0 .. 1, off : Nat] /\ r.j = 0
  BY <1>1, <1>3 DEF WorkerOK
<1>5. q = [p |-> r.p, hi |-> r.hi, field |-> "index", j |-> r.j, off |-> r.off]
  BY <1>4
<1>6. /\ q.p = r.p /\ q.hi = r.hi /\ q.field = "index" /\ q.j = r.j /\ q.off = r.off
      /\ q \in [p : Nat, hi : Nat, field : Field, j : 0 .. 1, off : Nat]
  BY <1>4, <1>5 DEF Field
<1>7. WorkerOK(w, q)
  <2>1. WorkerOK(w, r) BY <1>3
  <2> HIDE DEF q, r
  <2> QED BY <2>1, <1>1, <1>4, <1>6 DEF WorkerOK, Begins, FieldOff, FieldLen
<1> HIDE DEF q
<1>8. /\ DOMAIN work' = DOMAIN work /\ work'[w] = q
      /\ \A v \in DOMAIN work : v # w => work'[v] = work[v]
  BY <1>1
<1>9. \A v \in DOMAIN work : /\ work'[v].off = work[v].off /\ work'[v].hi = work[v].hi
                             /\ work'[v].p = work[v].p
  BY <1>6, <1>8
<1>10. w \in DOMAIN buf
  BY <1>2 DEF Shape
<1>11. Shape'
  <2>1. DOMAIN buf' = DOMAIN buf BY <1>1
  <2> QED BY <2>1, <1>1, <1>2, <1>8, ShapeStays DEF Shape
<1>12. WorkersOK'
  <2>1. \A v \in DOMAIN work : WorkerOK(v, work'[v])
    BY <1>3, <1>7, <1>8
  <2> QED BY <2>1, <1>1, <1>8 DEF WorkersOK, WorkerOK
<1>13. BuffersOK'
  <2>1. BufferOK(w)'
    BY <1>1, <1>6, <1>8, <1>10 DEF BufferOK
  <2>2. ASSUME NEW v \in DOMAIN work, v # w PROVE BufferOK(v)'
    <3>1. BufferOK(v) /\ buf'[v] = buf[v]
      BY <2>2, <1>1, <1>2 DEF BuffersOK, Shape
    <3> QED BY <3>1, <2>2, <1>8 DEF BufferOK
  <2> QED BY <2>1, <2>2, <1>8 DEF BuffersOK
<1>14. Apart'
  BY <1>2, <1>8, <1>9 DEF Apart
<1>15. DataCells'
  BY <1>1, <1>2, <1>8, <1>9, CellsStay
<1>16. ParityCells'
  BY <1>1, <1>2, ParityStays DEF ParityDone
<1>17. Progress'
  <2>1. \A p : Dealt(p)' <=> Dealt(p)
    BY <1>8, <1>9 DEF Dealt
  <2> QED BY <2>1, <1>1, <1>2, <1>8, <1>9 DEF Progress, ParityDone
<1>18. Headers'
  BY <1>1, <1>2 DEF Headers
<1> QED BY <1>11, <1>12, <1>13, <1>14, <1>15, <1>16, <1>17, <1>18 DEF IInv

\* A worker that is through leaves the WaitGroup.
LEMMA DoneKeeps ==
    ASSUME IInv, NEW w \in DOMAIN work, Done(w)
    PROVE  IInv'
<1>1. /\ w \in wg /\ work[w].p = work[w].hi /\ wg' = wg \ {w}
      /\ UNCHANGED <<n, procs, geo, pc, lo, chunk, shards, hdr, work, buf, wgHdr>>
  BY DEF Done, Caller
<1>2. Shape /\ WorkersOK /\ BuffersOK /\ Apart /\ DataCells /\ ParityCells /\ Progress /\ Headers
  BY DEF IInv
<1>3. Shape'
  BY <1>1, <1>2, ShapeStays DEF Shape
<1>4. WorkersOK' /\ BuffersOK' /\ Apart' /\ Headers'
  BY <1>1, <1>2 DEF WorkersOK, WorkerOK, BuffersOK, BufferOK, Apart, Headers
<1>5. DataCells'
  BY <1>1, <1>2, CellsStay
<1>6. ParityCells'
  BY <1>1, <1>2, ParityStays DEF ParityDone
<1>7. Progress'
  BY <1>1, <1>2 DEF Progress, ParityDone, Dealt
<1> QED BY <1>3, <1>4, <1>5, <1>6, <1>7 DEF IInv

-----------------------------------------------------------------------------
(* The caller. *)

\* What make leaves: blank shards and headers, and no worker.
LEMMA InitHolds == Init => IInv
<1> SUFFICES ASSUME Init PROVE IInv
  OBVIOUS
<1>1. /\ n \in RecCounts /\ procs \in ProcCounts /\ geo \in Geometries
      /\ shards = [s \in 0 .. (total - 1) |-> [c \in 0 .. (shardSize - 1) |-> Zero]]
      /\ hdr = [s \in 0 .. (total - 1) |-> NoHdr]
      /\ pc = "start" /\ lo = 0 /\ chunk = 0
      /\ DOMAIN work = {} /\ DOMAIN buf = 0 .. n /\ wg = {} /\ wgHdr = {}
  BY DEF Init
<1>2. Shape
  BY <1>1 DEF Shape
<1>3. WorkersOK /\ BuffersOK /\ Apart /\ Headers
  BY <1>1 DEF WorkersOK, BuffersOK, Apart, Headers
<1>4. DataCells
  <2>1. \A x : ~Written(x)
    BY <1>1 DEF Written
  <2> QED BY <2>1, <1>1 DEF DataCells
<1>5. ParityCells
  BY <1>1 DEF ParityCells, ParityDone
<1>6. Progress
  BY <1>1 DEF Progress, ParityDone
<1> QED BY <1>2, <1>3, <1>4, <1>5, <1>6 DEF IInv

\* A call for the records p .. hi-1, before its first cell.
LEMMA BegunOK ==
    ASSUME n \in Nat, NEW p \in Nat, NEW hi \in Nat, p <= hi, hi <= n
    PROVE  /\ WorkerOK(p, Begun(p, hi)) /\ Begun(p, hi).field = "fill"
           /\ Begun(p, hi).p = p /\ Begun(p, hi).hi = hi /\ Begun(p, hi).off = p * RecLen
<1> DEFINE q == [p |-> p, hi |-> hi, field |-> "fill", j |-> 0, off |-> p * RecLen]
<1>1. Begun(p, hi) = q
  BY DEF Begun
<1>2. /\ q.p = p /\ q.hi = hi /\ q.field = "fill" /\ q.j = 0 /\ q.off = p * RecLen
      /\ q \in [p : Nat, hi : Nat, field : Field, j : 0 .. 1, off : Nat]
  BY DEF Field, RecLen
<1> HIDE DEF q
<1>3. WorkerOK(p, q)
  BY <1>2 DEF WorkerOK, Begins, RecLen
<1> QED BY <1>1, <1>2, <1>3

\* A new worker for the records w .. hi-1, behind those of all others, has
\* passed no cell.
LEMMA NewWorker ==
    ASSUME IInv, NEW w \in Nat, NEW hi \in Nat, w < hi, hi <= n,
           work' = With(w, Begun(w, hi)), UNCHANGED <<n, geo, shards, buf>>,
           \A v \in DOMAIN work : v < w /\ work[v].hi <= w
    PROVE  /\ DOMAIN work' = DOMAIN work \cup {w} /\ w \notin DOMAIN work
           /\ work'[w] = Begun(w, hi) /\ \A v \in DOMAIN work : work'[v] = work[v]
           /\ WorkersOK' /\ BuffersOK' /\ Apart' /\ DataCells'
           /\ DOMAIN work' \subseteq 0 .. n
           /\ \A p : Dealt(p)' <=> (Dealt(p) \/ (w <= p /\ p < hi))
<1>1. Shape /\ WorkersOK /\ BuffersOK /\ Apart /\ DataCells
  BY DEF IInv
<1>2. n \in Nat BY <1>1, Sizes
<1>3. /\ WorkerOK(w, Begun(w, hi)) /\ Begun(w, hi).field = "fill"
      /\ Begun(w, hi).hi = hi /\ Begun(w, hi).off = w * RecLen
  BY <1>2, BegunOK
<1>4. w \notin DOMAIN work OBVIOUS
<1>5. /\ DOMAIN work' = DOMAIN work \cup {w}
      /\ work'[w] = Begun(w, hi) /\ \A v \in DOMAIN work : work'[v] = work[v]
  BY <1>4 DEF With
<1>6. WorkersOK'
  <2>1. \A v \in DOMAIN work' : WorkerOK(v, work'[v])
    BY <1>1, <1>3, <1>5 DEF WorkersOK
  <2> QED BY <2>1 DEF WorkersOK, WorkerOK
<1>7. BuffersOK'
  BY <1>1, <1>3, <1>5 DEF BuffersOK, BufferOK
<1>8. Apart'
  <2>1. \A v \in DOMAIN work : v \in Nat BY <1>1 DEF Shape
  <2> QED BY <2>1, <1>1, <1>3, <1>5 DEF Apart
<1>9. DataCells'
  <2>1. N' = N /\ shardSize' = shardSize /\ \A x : Flat(x)' = Flat(x)
    BY Still
  <2>2. N \in Nat /\ shardSize \in Nat BY <1>1, Sizes
  <2>3. ASSUME NEW x \in Nat
        PROVE  (\E v \in DOMAIN work' : v * RecLen <= x /\ x < work'[v].off) <=> Written(x)
    <3>1. ~(w * RecLen <= x /\ x < work'[w].off)
      BY <1>3, <1>5 DEF RecLen
    <3> QED BY <3>1, <1>5 DEF Written
  <2>4. ASSUME NEW s \in DOMAIN shards, NEW c \in DOMAIN shards[s] PROVE s * shardSize + c \in Nat
    <3>1. s \in Nat /\ c \in Nat
      BY <1>1, <2>2 DEF Shape
    <3> QED BY <3>1, <2>2
  <2> QED BY <2>1, <2>3, <2>4, <1>1 DEF DataCells, Written
<1>10. ASSUME NEW p PROVE Dealt(p)' <=> (Dealt(p) \/ (w <= p /\ p < hi))
  BY <1>3, <1>5 DEF Dealt
<1>11. DOMAIN work' \subseteq 0 .. n
  BY <1>1, <1>2, <1>5 DEF Shape
<1> QED BY <1>4, <1>5, <1>6, <1>7, <1>8, <1>9, <1>10, <1>11

\* The spawning loop cuts the records into ranges that do not overlap.
LEMMA SpawnKeeps == IInv /\ Spawn => IInv'
<1> SUFFICES ASSUME IInv, Spawn PROVE IInv'
  OBVIOUS
<1> DEFINE hi == IF lo + chunk > n THEN n ELSE lo + chunk
<1>1. /\ pc = "spawn" /\ lo < n
      /\ work' = With(lo, Begun(lo, hi)) /\ wg' = wg \cup {lo} /\ lo' = lo + chunk
      /\ UNCHANGED <<n, procs, geo, shards, hdr, pc, chunk, buf, wgHdr>>
  BY DEF Spawn
<1>2. Shape /\ WorkersOK /\ ParityCells /\ Progress /\ Headers
  BY DEF IInv
<1>3. n \in Nat /\ lo \in Nat /\ chunk \in Nat /\ chunk >= 1
      /\ \A v \in DOMAIN work : v < lo /\ work[v].hi <= lo
  BY <1>1, <1>2, Sizes DEF Shape, Progress
<1>4. hi \in Nat /\ lo < hi /\ hi <= n /\ hi <= lo' /\ \A p \in 0 .. (n - 1) : p < lo' => p < hi
  BY <1>1, <1>3
<1> HIDE DEF hi
<1>a. PICK k \in Nat, h \in Nat : k = lo /\ h = hi
  BY <1>3, <1>4
<1>5. /\ DOMAIN work' = DOMAIN work \cup {lo} /\ lo \notin DOMAIN work
      /\ work'[lo] = Begun(lo, hi) /\ \A v \in DOMAIN work : work'[v] = work[v]
      /\ WorkersOK' /\ BuffersOK' /\ Apart' /\ DataCells'
      /\ DOMAIN work' \subseteq 0 .. n
      /\ \A p : Dealt(p)' <=> (Dealt(p) \/ (lo <= p /\ p < hi))
  <2>1. work' = With(k, Begun(k, h)) /\ UNCHANGED <<n, geo, shards, buf>>
        /\ k < h /\ h <= n /\ \A v \in DOMAIN work : v < k /\ work[v].hi <= k
    BY <1>1, <1>3, <1>4, <1>a
  <2>2. /\ DOMAIN work' = DOMAIN work \cup {k} /\ k \notin DOMAIN work
        /\ work'[k] = Begun(k, h) /\ \A v \in DOMAIN work : work'[v] = work[v]
        /\ WorkersOK' /\ BuffersOK' /\ Apart' /\ DataCells'
        /\ DOMAIN work' \subseteq 0 .. n
        /\ \A p : Dealt(p)' <=> (Dealt(p) \/ (k <= p /\ p < h))
    BY <2>1, NewWorker
  <2> QED BY <2>2, <1>a
<1>6. Begun(lo, hi).hi = hi
  BY <1>3, <1>4, BegunOK
<1>7. Shape'
  <2>1. lo' \in Nat /\ chunk' \in Nat BY <1>1, <1>3
  <2>2. wg' \subseteq DOMAIN work' BY <1>1, <1>2, <1>5 DEF Shape
  <2> QED BY <2>1, <2>2, <1>1, <1>2, <1>5, ShapeStays DEF Shape
<1>8. ParityCells'
  BY <1>1, <1>2, ParityStays DEF ParityDone
<1>9. Progress'
  <2>1. \A v \in DOMAIN work' : v < lo' /\ work'[v].hi <= lo'
    <3>1. \A v \in DOMAIN work : v \in Nat /\ work[v].hi \in Nat
      BY <1>2, <1>3 DEF Shape, WorkersOK, WorkerOK
    <3> QED BY <3>1, <1>1, <1>3, <1>4, <1>5, <1>6
  <2>2. \A v \in DOMAIN work' \ wg' : work'[v].p = work'[v].hi
    BY <1>1, <1>2, <1>5 DEF Progress
  <2>3. \A p \in 0 .. (n - 1) : p < lo' => Dealt(p)'
    BY <1>1, <1>2, <1>3, <1>4, <1>5 DEF Progress
  <2> QED BY <2>1, <2>2, <2>3, <1>1, <1>3 DEF Progress, ParityDone
<1>10. Headers'
  BY <1>1 DEF Headers
<1> QED BY <1>5, <1>7, <1>8, <1>9, <1>10 DEF IInv

\* An empty overlay needs its shard headers only; otherwise the records are
\* handed to the caller itself or to be handed to workers.
LEMMA StartKeeps == IInv /\ Start => IInv'
<1> SUFFICES ASSUME IInv, Start PROVE IInv'
  OBVIOUS
<1>1. Shape /\ WorkersOK /\ BuffersOK /\ Apart /\ DataCells /\ ParityCells /\ Progress /\ Headers
  BY DEF IInv
<1>2. /\ n \in Nat /\ N \in Nat \ {0} /\ shardSize \in Nat /\ (n = 0 => shardSize = 0)
  BY <1>1, Sizes
<1>3. pc = "start" /\ UNCHANGED <<n, procs, geo, shards, lo, buf, wg, wgHdr>>
  BY DEF Start
<1>4. DOMAIN work = {} /\ lo = 0 /\ wg = {}
  BY <1>1, <1>3 DEF Progress, Shape
<1>5. CASE n = 0
  <2>1. /\ pc' = "return" /\ UNCHANGED <<work, chunk>>
        /\ hdr' = [s \in DOMAIN hdr |-> [idx |-> s, crc |-> shards[s]]]
    BY <1>5 DEF Start
  <2>2. DOMAIN hdr = DOMAIN shards
    BY <1>1 DEF Shape
  <2>3. Shape'
    BY <2>1, <1>1, <1>3, ShapeStays DEF Shape
  <2>4. WorkersOK' /\ BuffersOK' /\ Apart'
    BY <2>1, <1>4 DEF WorkersOK, BuffersOK, Apart
  <2>5. DataCells'
    BY <2>1, <1>1, <1>3, CellsStay
  <2>6. ParityCells'
    <3>1. \A s \in DOMAIN shards' : DOMAIN shards'[s] = {}
      BY <1>1, <1>2, <1>3, <1>5 DEF Shape
    <3> QED BY <3>1 DEF ParityCells
  <2>7. Progress'
    BY <2>1, <1>3, <1>4, <1>5 DEF Progress, ParityDone
  <2>8. Headers'
    BY <2>1, <2>2, <1>3 DEF Headers
  <2> QED BY <2>3, <2>4, <2>5, <2>6, <2>7, <2>8 DEF IInv
<1>6. CASE n # 0 /\ workers <= 1
  <2>1. pc' = "seq" /\ work' = With(0, Begun(0, n)) /\ UNCHANGED <<chunk, hdr>>
    BY <1>6 DEF Start
  <2>2. \A v \in DOMAIN work : v < 0 /\ work[v].hi <= 0
    BY <1>4
  <2>3. /\ DOMAIN work' = DOMAIN work \cup {0} /\ work'[0] = Begun(0, n)
        /\ WorkersOK' /\ BuffersOK' /\ Apart' /\ DataCells'
        /\ DOMAIN work' \subseteq 0 .. n
    <3>1. 0 < n /\ n <= n BY <1>2, <1>6
    <3> QED BY <2>1, <2>2, <3>1, <1>2, <1>3, NewWorker
  <2>4. Shape'
    BY <2>1, <2>3, <1>1, <1>3, <1>4, <1>6, ShapeStays DEF Shape
  <2>5. ParityCells'
    BY <2>1, <1>1, <1>3, ParityStays DEF ParityDone
  <2>6. Progress'
    <3>1. work'[0].hi = n
      BY <2>3, <1>2, BegunOK
    <3> QED BY <3>1, <2>1, <2>3, <1>3, <1>4 DEF Progress, ParityDone
  <2>7. Headers'
    BY <2>1 DEF Headers
  <2> QED BY <2>3, <2>4, <2>5, <2>6, <2>7 DEF IInv
<1>7. CASE n # 0 /\ ~(workers <= 1)
  <2>1. /\ pc' = "spawn" /\ chunk' = (n + workers - 1) \div workers
        /\ UNCHANGED <<work, hdr>>
    BY <1>7 DEF Start
  <2>2. workers \in Nat
    <3>1. procs \in Nat /\ MinPerWorker \in Nat /\ MinPerWorker >= 1
      BY <1>1, ShardsAssumption DEF Shape
    <3>2. n \div MinPerWorker \in Nat
      BY <3>1, <1>2, DivMod
    <3> QED BY <3>1, <3>2 DEF workers
  <2>3. chunk' \in Nat /\ chunk' >= 1
    <3> HIDE DEF workers
    <3>1. workers \in Nat \ {0} /\ n > 0 BY <2>2, <1>2, <1>7
    <3> QED BY <3>1, <2>1, <1>2, ShardSizeFacts
  <2>4. Shape'
    BY <2>1, <2>3, <1>1, <1>3, <1>7, ShapeStays DEF Shape
  <2>5. WorkersOK' /\ BuffersOK' /\ Apart'
    BY <2>1, <1>4 DEF WorkersOK, BuffersOK, Apart
  <2>6. DataCells'
    BY <2>1, <1>1, <1>3, CellsStay
  <2>7. ParityCells'
    BY <2>1, <1>1, <1>3, ParityStays DEF ParityDone
  <2>8. Progress'
    BY <2>1, <2>3, <1>2, <1>3, <1>4 DEF Progress, ParityDone
  <2>9. Headers'
    BY <2>1 DEF Headers
  <2> QED BY <2>4, <2>5, <2>6, <2>7, <2>8, <2>9 DEF IInv
<1> QED BY <1>5, <1>6, <1>7

\* At the end of the loop every record is in some range.
LEMMA AllSpawnedKeeps == IInv /\ AllSpawned => IInv'
<1> SUFFICES ASSUME IInv, AllSpawned PROVE IInv'
  OBVIOUS
<1>1. /\ pc = "spawn" /\ lo >= n /\ pc' = "wait"
      /\ UNCHANGED <<n, procs, geo, shards, hdr, lo, chunk, work, buf, wg, wgHdr>>
  BY DEF AllSpawned
<1>2. Shape /\ WorkersOK /\ BuffersOK /\ Apart /\ DataCells /\ ParityCells /\ Progress /\ Headers
  BY DEF IInv
<1>3. Shape'
  BY <1>1, <1>2, ShapeStays DEF Shape
<1>4. WorkersOK' /\ BuffersOK' /\ Apart' /\ Headers'
  BY <1>1, <1>2 DEF WorkersOK, WorkerOK, BuffersOK, BufferOK, Apart, Headers
<1>5. DataCells' /\ ParityCells'
  BY <1>1, <1>2, CellsStay, ParityStays DEF ParityDone
<1>6. Progress'
  BY <1>1, <1>2 DEF Progress, ParityDone, Dealt
<1> QED BY <1>3, <1>4, <1>5, <1>6 DEF IInv

\* wg.Wait has joined every worker, and every record was handed to one: the
\* parity is that of the finished data shards.
LEMMA EncodeKeeps ==
    ASSUME IInv, Encode
    PROVE  IInv'
<1>1. /\ \/ pc = "wait" /\ wg = {}
         \/ pc = "seq" /\ work[0].p = n
      /\ pc' = "headers" /\ wgHdr' = DOMAIN shards
      /\ shards' = [s \in DOMAIN shards |->
                     IF s < N THEN shards[s] ELSE [c \in DOMAIN shards[s] |-> Parity(s, c)]]
      /\ UNCHANGED <<n, procs, geo, hdr, lo, chunk, work, buf, wg>>
  BY DEF Encode
<1>2. Shape /\ WorkersOK /\ BuffersOK /\ Apart /\ DataCells /\ ParityCells /\ Progress /\ Headers
  BY DEF IInv
<1>3. /\ n \in Nat /\ N \in Nat \ {0} /\ total \in Nat /\ N <= total /\ shardSize \in Nat
  BY <1>2, Sizes
<1>4. N' = N /\ total' = total /\ shardSize' = shardSize /\ \A x : Flat(x)' = Flat(x)
  BY <1>1, Still
<1>5. /\ DOMAIN shards' = DOMAIN shards
      /\ \A s \in DOMAIN shards : DOMAIN shards'[s] = DOMAIN shards[s]
      /\ \A s \in DOMAIN shards : s < N => shards'[s] = shards[s]
      /\ \A s \in DOMAIN shards : ~(s < N) =>
            \A c \in DOMAIN shards[s] : shards'[s][c] = Parity(s, c)
  BY <1>1
<1>6. DOMAIN shards = 0 .. (total - 1) /\ \A s \in DOMAIN shards : DOMAIN shards[s] = 0 .. (shardSize - 1)
  BY <1>2 DEF Shape
<1>7. Shape'
  <2>1. n # 0 BY <1>1, <1>2 DEF Shape
  <2>2. DOMAIN shards' = 0 .. (total' - 1) /\ DOMAIN hdr' = 0 .. (total' - 1)
    BY <1>1, <1>2, <1>4, <1>5 DEF Shape
  <2>3. \A s \in DOMAIN shards' : DOMAIN shards'[s] = 0 .. (shardSize' - 1)
    BY <1>4, <1>5, <1>6
  <2> QED BY <2>1, <2>2, <2>3, <1>1, <1>2, <1>5 DEF Shape
<1>8. WorkersOK' /\ BuffersOK' /\ Apart'
  BY <1>1, <1>2 DEF WorkersOK, WorkerOK, BuffersOK, BufferOK, Apart
<1>9. DataCells'
  <2>1. \A x : (\E v \in DOMAIN work' : v * RecLen <= x /\ x < work'[v].off) <=> Written(x)
    BY <1>1 DEF Written
  <2> QED BY <2>1, <1>2, <1>4, <1>5 DEF DataCells, Written
<1>10. ParityCells'
  <2>1. ASSUME NEW s \in DOMAIN shards, s >= N, NEW c \in DOMAIN shards[s]
        PROVE  shards'[s][c] = <<"parity", s, [d \in 0 .. (N' - 1) |-> shards'[d][c]]>>
    <3>1. \A d \in 0 .. (N - 1) : shards'[d] = shards[d]
      BY <1>3, <1>5, <1>6
    <3>2. [d \in 0 .. (N - 1) |-> shards'[d][c]] = [d \in 0 .. (N - 1) |-> shards[d][c]]
      BY <3>1
    <3>3. shards'[s][c] = Parity(s, c)
      BY <2>1, <1>3, <1>5, <1>6
    <3> QED BY <3>2, <3>3, <1>4 DEF Parity
  <2> QED BY <2>1, <1>1, <1>4, <1>5 DEF ParityCells, ParityDone, Parity
<1>11. Progress'
  <2>1. \A v \in DOMAIN work : work[v].p = work[v].hi
    BY <1>1, <1>2 DEF Progress
  <2>2. \A p \in 0 .. (n - 1) : Dealt(p)
    <3>1. CASE pc = "wait"
      BY <3>1, <1>2, <1>3 DEF Progress, Shape
    <3>2. CASE pc = "seq"
      BY <3>2, <1>2, <1>3 DEF Progress, Dealt
    <3> QED BY <3>1, <3>2, <1>1
  <2> QED BY <2>1, <2>2, <1>1 DEF Progress, ParityDone, Dealt
<1>12. Headers'
  BY <1>1, <1>5 DEF Headers
<1> QED BY <1>7, <1>8, <1>9, <1>10, <1>11, <1>12 DEF IInv

\* Each header goroutine writes its own header, of a shard that is final.
LEMMA PutHeaderKeeps ==
    ASSUME IInv, NEW s \in DOMAIN shards, PutHeader(s)
    PROVE  IInv'
<1>1. /\ pc = "headers" /\ s \in wgHdr
      /\ hdr' = [hdr EXCEPT ![s] = [idx |-> s, crc |-> shards[s]]]
      /\ wgHdr' = wgHdr \ {s}
      /\ UNCHANGED <<n, procs, geo, pc, lo, chunk, shards, work, buf, wg>>
  BY DEF PutHeader, Caller
<1>2. Shape /\ WorkersOK /\ BuffersOK /\ Apart /\ DataCells /\ ParityCells /\ Progress /\ Headers
  BY DEF IInv
<1>3. DOMAIN hdr' = DOMAIN hdr /\ hdr'[s] = [idx |-> s, crc |-> shards[s]]
      /\ \A t \in DOMAIN hdr : t # s => hdr'[t] = hdr[t]
  BY <1>1, <1>2 DEF Shape
<1>4. DOMAIN hdr = DOMAIN shards
  BY <1>2 DEF Shape
<1>5. Shape'
  BY <1>1, <1>2, <1>3, ShapeStays DEF Shape
<1>6. WorkersOK' /\ BuffersOK' /\ Apart'
  BY <1>1, <1>2 DEF WorkersOK, WorkerOK, BuffersOK, BufferOK, Apart
<1>7. DataCells' /\ ParityCells'
  BY <1>1, <1>2, CellsStay, ParityStays DEF ParityDone
<1>8. Progress'
  BY <1>1, <1>2 DEF Progress, ParityDone, Dealt
<1>9. Headers'
  BY <1>1, <1>2, <1>3, <1>4 DEF Headers
<1> QED BY <1>5, <1>6, <1>7, <1>8, <1>9 DEF IInv

\* The second WaitGroup has joined them all.
LEMMA ReturnKeeps == IInv /\ Return => IInv'
<1> SUFFICES ASSUME IInv, Return PROVE IInv'
  OBVIOUS
<1>1. /\ pc = "headers" /\ wgHdr = {} /\ pc' = "return"
      /\ UNCHANGED <<n, procs, geo, shards, hdr, lo, chunk, work, buf, wg, wgHdr>>
  BY DEF Return
<1>2. Shape /\ WorkersOK /\ BuffersOK /\ Apart /\ DataCells /\ ParityCells /\ Progress /\ Headers
  BY DEF IInv
<1>3. Shape'
  BY <1>1, <1>2, ShapeStays DEF Shape
<1>4. WorkersOK' /\ BuffersOK' /\ Apart' /\ Headers'
  BY <1>1, <1>2 DEF WorkersOK, WorkerOK, BuffersOK, BufferOK, Apart, Headers
<1>5. DataCells' /\ ParityCells'
  BY <1>1, <1>2, CellsStay, ParityStays DEF ParityDone
<1>6. Progress'
  BY <1>1, <1>2 DEF Progress, ParityDone, Dealt
<1> QED BY <1>3, <1>4, <1>5, <1>6 DEF IInv

\* The invariant depends on the variables alone.
LEMMA StutterKeeps == IInv /\ UNCHANGED vars => IInv'
<1> SUFFICES ASSUME IInv, UNCHANGED vars PROVE IInv'
  OBVIOUS
<1>1. UNCHANGED <<n, procs, geo, shards, hdr, pc, lo, chunk, work, buf, wg, wgHdr>>
  BY DEF vars
<1>2. Shape /\ WorkersOK /\ BuffersOK /\ Apart /\ DataCells /\ ParityCells /\ Progress /\ Headers
  BY DEF IInv
<1>3. Shape'
  BY <1>1, <1>2, ShapeStays DEF Shape
<1>4. WorkersOK' /\ BuffersOK' /\ Apart' /\ Headers'
  BY <1>1, <1>2 DEF WorkersOK, WorkerOK, BuffersOK, BufferOK, Apart, Headers
<1>5. DataCells' /\ ParityCells'
  BY <1>1, <1>2, CellsStay, ParityStays DEF ParityDone
<1>6. Progress'
  BY <1>1, <1>2 DEF Progress, ParityDone, Dealt
<1> QED BY <1>3, <1>4, <1>5, <1>6 DEF IInv

-----------------------------------------------------------------------------
(* The theorems. *)

\* The invariant is inductive.
LEMMA IInvInductive == IInv /\ [Next]_vars => IInv'
<1> SUFFICES ASSUME IInv, [Next]_vars PROVE IInv'
  OBVIOUS
<1>1. CASE Main
  BY <1>1, StartKeeps, SpawnKeeps, AllSpawnedKeeps, EncodeKeeps, ReturnKeeps DEF Main
<1>2. CASE \E w \in DOMAIN work : Worker(w)
  BY <1>2, FillKeeps, CopyKeeps, DoneKeeps DEF Worker
<1>3. CASE \E s \in DOMAIN shards : PutHeader(s)
  BY <1>3, PutHeaderKeeps
<1>4. CASE UNCHANGED vars
  BY <1>4, StutterKeeps
<1> QED BY <1>1, <1>2, <1>3, <1>4 DEF Next

\* It holds in every state of SerializeRS.
LEMMA IInvHolds == Spec => []IInv
<1>1. Init => IInv
  BY InitHolds
<1>2. IInv /\ [Next]_vars => IInv'
  BY IInvInductive
<1> QED BY <1>1, <1>2, PTL DEF Spec

\* Every variable has its type, and no worker runs past its range or past the
\* end of the payload.
THEOREM ShardWritersTypeCorrect == Spec => []TypeOK
<1>1. IInv => TypeOK
  <2> SUFFICES ASSUME IInv PROVE TypeOK
    OBVIOUS
  <2>1. Shape /\ WorkersOK
    BY DEF IInv
  <2>2. n \in Nat /\ payload = n * RecLen
    BY <2>1, Sizes
  <2>3. ASSUME NEW w \in DOMAIN work
        PROVE  /\ work[w].p \in 0 .. work[w].hi /\ work[w].hi <= n
               /\ work[w].field \in DOMAIN FieldLen \cup {"fill"}
               /\ work[w].j \in 0 .. 1 /\ work[w].off \in 0 .. payload
    <3>1. WorkerOK(w, work[w]) BY <2>1 DEF WorkersOK
    <3> QED BY <3>1, <2>2 DEF WorkerOK, Field, Begins, FieldLen, FieldOff, RecLen
  <2> QED BY <2>1, <2>3 DEF TypeOK, Shape
<1> QED BY <1>1, IInvHolds, PTL

\* Every cell of the payload is behind the offset of a worker once all workers
\* are through.
LEMMA AllPassed ==
    ASSUME IInv, ParityDone, NEW q \in Nat
    PROVE  Written(q) <=> q < payload
<1>1. Shape /\ WorkersOK /\ Progress
  BY DEF IInv
<1>2. n \in Nat /\ payload = n * RecLen
  BY <1>1, Sizes
<1>3. \A w \in DOMAIN work : /\ w \in Nat /\ work[w].hi \in Nat /\ work[w].hi <= n
                             /\ work[w].off = work[w].hi * RecLen
  <2>1. ASSUME NEW w \in DOMAIN work
        PROVE  /\ w \in Nat /\ work[w].hi \in Nat /\ work[w].hi <= n
               /\ work[w].off = work[w].hi * RecLen
    <3>1. WorkerOK(w, work[w]) /\ work[w].p = work[w].hi /\ w \in Nat
      BY <1>1 DEF WorkersOK, Progress, Shape
    <3> QED BY <3>1 DEF WorkerOK, Begins, RecLen
  <2> QED BY <2>1
<1>4. ASSUME Written(q) PROVE q < payload
  BY <1>2, <1>3, <1>4 DEF Written, RecLen
<1>5. ASSUME q < payload PROVE Written(q)
  <2> DEFINE p == q \div RecLen
  <2>1. p \in 0 .. (n - 1) /\ p * RecLen <= q /\ q < (p + 1) * RecLen
    BY <1>2, <1>5 DEF RecLen
  <2> HIDE DEF p
  <2>2. PICK w \in DOMAIN work : w <= p /\ p < work[w].hi
    BY <2>1, <1>1 DEF Progress, Dealt
  <2>3. w * RecLen <= q /\ q < work[w].off
    BY <2>1, <2>2, <1>3 DEF RecLen
  <2> QED BY <2>3 DEF Written
<1> QED BY <1>4, <1>5

\* Whatever the schedule, the geometry and the place of the shard boundaries,
\* the blob that SerializeRS returns is the flat payload cut into shards, with
\* its parity and its headers; before that, a data cell is right or blank.
THEOREM BlobIsFlatPayload == Spec => []ShardIdentity
<1>1. IInv => ShardIdentity
  <2> SUFFICES ASSUME IInv PROVE ShardIdentity
    OBVIOUS
  <2>1. Shape /\ DataCells /\ ParityCells /\ Headers
    BY DEF IInv
  <2>2. N \in Nat /\ shardSize \in Nat /\ total \in Nat /\ payload \in Nat
    BY <2>1, Sizes
  <2>3. ASSUME NEW s \in DOMAIN shards, pc = "return" PROVE hdr[s] = [idx |-> s, crc |-> shards[s]]
    BY <2>1, <2>3 DEF Headers
  <2>4. ASSUME NEW s \in DOMAIN shards, NEW c \in DOMAIN shards[s], s < N
        PROVE  /\ shards[s][c] \in {Zero, Flat(s * shardSize + c)}
               /\ pc = "return" => shards[s][c] = Flat(s * shardSize + c)
    <3> DEFINE q == s * shardSize + c
    <3>1. s \in Nat /\ c \in Nat
      BY <2>1, <2>2 DEF Shape
    <3>2. q \in Nat BY <3>1, <2>2
    <3>3. shards[s][c] = IF Written(q) THEN Flat(q) ELSE Zero
      BY <2>1, <2>4 DEF DataCells
    <3>4. ASSUME pc = "return" PROVE Written(q) <=> q < payload
      BY <3>2, <3>4, AllPassed DEF ParityDone
    <3>5. ~(q < payload) => Flat(q) = Zero
      <4> HIDE DEF q
      <4>1. ~(q < payload) => q >= payload
        BY <3>2, <2>2
      <4> QED BY <4>1, Zenon DEF Flat
    <3> HIDE DEF q
    <3>6. /\ shards[s][c] \in {Zero, Flat(q)}
          /\ pc = "return" => shards[s][c] = Flat(q)
      BY <3>3, <3>4, <3>5
    <3> QED BY <3>6 DEF q
  <2>5. ASSUME NEW s \in DOMAIN shards, NEW c \in DOMAIN shards[s], ~(s < N), pc = "return"
        PROVE  shards[s][c] = Parity(s, c)
    <3>1. s >= N BY <2>1, <2>2, <2>5 DEF Shape
    <3> QED BY <3>1, <2>1, <2>5 DEF ParityCells, ParityDone
  <2> QED BY <2>3, <2>4, <2>5 DEF ShardIdentity
<1> QED BY <1>1, IInvHolds, PTL

\* What a worker has still to write lies in its own range.
LEMMA AheadInRange ==
    ASSUME Shape, WorkersOK, NEW w \in DOMAIN work, NEW q \in Ahead(w)
    PROVE  /\ w \in Nat /\ work[w].hi \in Nat /\ work[w].hi <= n /\ q \in Nat
           /\ w * RecLen <= q /\ q < work[w].hi * RecLen /\ work[w].off <= q
<1>1. WorkerOK(w, work[w]) /\ w \in Nat /\ n \in Nat
  BY Sizes DEF WorkersOK, Shape
<1>2. /\ work[w].p \in Nat /\ work[w].hi \in Nat /\ work[w].off \in Nat /\ work[w].hi <= n
      /\ w <= work[w].p /\ work[w].p * RecLen <= work[w].off
  BY <1>1 DEF WorkerOK, Field, Begins, FieldOff, RecLen
<1>3. q \in Nat /\ work[w].off <= q /\ q < work[w].hi * RecLen
  BY <1>2 DEF Ahead, RecLen
<1>4. w * RecLen <= q
  BY <1>1, <1>2, <1>3 DEF RecLen
<1> QED BY <1>1, <1>2, <1>3, <1>4

\* No two workers are to write the same cell, nor is one that was written to be
\* written again: wherever a goroutine still writes it writes alone and first.
THEOREM NoCellWrittenTwice == Spec => []DisjointSpans
<1>1. IInv => DisjointSpans
  <2> SUFFICES ASSUME IInv, NEW w \in DOMAIN work, NEW q \in Ahead(w)
               PROVE  /\ shards[q \div shardSize][q % shardSize] = Zero
                      /\ \A v \in DOMAIN work \ {w} : q \notin Ahead(v)
    BY DEF DisjointSpans
  <2>1. Shape /\ WorkersOK /\ Apart /\ DataCells
    BY DEF IInv
  <2>2. /\ w \in Nat /\ work[w].hi \in Nat /\ work[w].hi <= n /\ q \in Nat
        /\ w * RecLen <= q /\ q < work[w].hi * RecLen /\ work[w].off <= q
    BY <2>1, AheadInRange
  <2>3. ASSUME NEW v \in DOMAIN work, v # w
        PROVE  v \in Nat /\ ~(v * RecLen <= q /\ q < work[v].hi * RecLen)
    <3>1. v \in Nat /\ WorkerOK(v, work[v])
      BY <2>1, Sizes DEF Shape, WorkersOK
    <3>2. work[v].hi \in Nat
      BY <3>1 DEF WorkerOK
    <3>3. work[v].hi <= w \/ work[w].hi <= v
      BY <2>1, <2>2, <2>3, <3>1 DEF Apart
    <3> QED BY <2>2, <3>1, <3>2, <3>3 DEF RecLen
  <2>4. ASSUME NEW v \in DOMAIN work \ {w} PROVE q \notin Ahead(v)
    <3>1. q \in Ahead(v) => v * RecLen <= q /\ q < work[v].hi * RecLen
      BY <2>1, AheadInRange
    <3> QED BY <2>3, <3>1
  <2>5. ~Written(q)
    <3>1. ASSUME NEW v \in DOMAIN work, v * RecLen <= q, q < work[v].off PROVE FALSE
      <4>1. CASE v = w
        BY <2>1, <2>2, <3>1, <4>1 DEF WorkersOK, WorkerOK
      <4>2. CASE v # w
        <5>1. /\ WorkerOK(v, work[v]) /\ v \in Nat /\ n \in Nat
          BY <2>1, Sizes DEF WorkersOK, Shape
        <5>2. /\ work[v].p \in Nat /\ work[v].hi \in Nat /\ work[v].off \in Nat
              /\ work[v].off <= work[v].hi * RecLen
          BY <5>1 DEF WorkerOK, Field, Begins, FieldOff, FieldLen, RecLen
        <5> QED BY <2>2, <2>3, <3>1, <4>2, <5>2 DEF RecLen
      <4> QED BY <4>1, <4>2
    <3> QED BY <3>1 DEF Written
  <2> DEFINE s == q \div shardSize
             c == q % shardSize
  <2>6. s \in 0 .. (N - 1) /\ c \in 0 .. (shardSize - 1) /\ q = s * shardSize + c
    <3>1. payload \in Nat /\ payload = n * RecLen /\ n \in Nat
      BY <2>1, Sizes
    <3>2. q \in 0 .. (payload - 1)
      BY <2>2, <3>1 DEF RecLen
    <3> QED BY <2>1, <3>2, CellPlace
  <2> HIDE DEF s, c
  <2>7. s \in DOMAIN shards /\ s < N /\ c \in DOMAIN shards[s]
    <3>1. N \in Nat /\ total \in Nat /\ N <= total
      BY <2>1, Sizes
    <3>2. DOMAIN shards = 0 .. (total - 1) /\ s \in 0 .. (total - 1) /\ s < N
      BY <2>1, <2>6, <3>1 DEF Shape
    <3>3. DOMAIN shards[s] = 0 .. (shardSize - 1)
      BY <2>1, <3>2 DEF Shape
    <3> QED BY <2>6, <3>2, <3>3
  <2>8. shards[s][c] = Zero
    BY <2>1, <2>5, <2>6, <2>7 DEF DataCells
  <2> QED BY <2>4, <2>8 DEF s, c
<1> QED BY <1>1, IInvHolds, PTL

\* Once the parity is computed no shard changes: wg.Wait has joined every
\* worker that could still write one.
THEOREM ParityIsOfFinalData == Spec => JoinedBeforeParity
<1> DEFINE Kept == (pc \in {"headers", "return"}) => shards' = shards
<1>1. IInv /\ [Next]_vars => [Kept]_vars
  <2> SUFFICES ASSUME IInv, Next, pc \in {"headers", "return"} PROVE shards' = shards
    OBVIOUS
  <2>1. ~Encode
    BY DEF Encode
  <2>2. ~\E w \in DOMAIN work : CopySpan(w)
    BY CopyKeeps DEF ParityDone
  <2>3. CASE \/ Start \/ Spawn \/ AllSpawned \/ Return
             \/ \E w \in DOMAIN work : FillBuffers(w) \/ Done(w)
             \/ \E s \in DOMAIN shards : PutHeader(s)
    BY <2>3 DEF Start, Spawn, AllSpawned, Return, FillBuffers, Done, PutHeader
  <2> QED BY <2>1, <2>2, <2>3, Zenon DEF Next, Main, Worker
<1>2. Spec => [][Kept]_vars
  BY <1>1, IInvHolds, PTL DEF Spec
<1> QED BY <1>2 DEF JoinedBeforeParity
=============================================================================
