------------------------------ MODULE RSFormat ------------------------------
(***************************************************************************)
(* The L2 format of rs.go: the L1 records of a delta as one payload, cut   *)
(* into N data shards of equal size with K parity shards behind them; what *)
(* deserializeRS and inspectRS make of a damaged shard section.            *)
(*                                                                         *)
(* Lengths are counted in cells. A record has four: two for the index, so  *)
(* that a shard boundary can fall inside it, one for the data and one for  *)
(* the CRC. A shard of a blob is the header that is there for it (index,   *)
(* and whether the CRC verifies) and which of the written shards its bytes *)
(* are. CRCs are ideal, and so is the code: see Reconstruct.               *)
(***************************************************************************)
EXTENDS DeltaInspect

CONSTANTS
    rsMinShardPayload,   \* least payload per data shard
    rsMaxTotalShards,    \* most shards
    rsShardPayload,      \* payload per data shard by default (4096)
    rsDefaultData,       \* most data shards by default
    rsDefaultParity,     \* parity shards by default
    rsMaxDecodeAlloc,    \* most shard memory the decoder grants
    rsMetaSize, rsShardHdrSize,
    Junk                 \* what bytes that are no block's data read as

\* The last bound is what the length check of parseRSMeta, a factor of 4,
\* leaves room for: the blob of one data shard may be down to one shard.
ASSUME RSAssumption ==
    /\ {rsMinShardPayload, rsShardPayload, rsDefaultData, rsDefaultParity,
        rsMetaSize, rsShardHdrSize} \subseteq Nat \ {0}
    /\ rsMaxTotalShards \in Nat /\ rsMaxDecodeAlloc \in Nat
    /\ Junk \notin Content \cup {NoData}
    /\ rsDefaultParity <= 3

RecCells == 4

-----------------------------------------------------------------------------
(* Geometry. *)

AtLeast(m, x) == IF x < m THEN m ELSE x
AtMost(m, x)  == IF x > m THEN m ELSE x
CeilDiv(a, b) == (a + b - 1) \div b

validRSGeometry(data, parity, len) ==
    /\ data <= AtLeast(1, CeilDiv(len, rsMinShardPayload))
    /\ parity <= AtLeast(rsDefaultParity, data)

rsDefaultShards(len) ==
    [data   |-> AtMost(rsDefaultData, AtLeast(1, len \div rsShardPayload)),
     parity |-> rsDefaultParity]

shardSizeOf(data, len) == IF len = 0 THEN 0 ELSE CeilDiv(len, data)

\* The rsMeta section SerializeRS fills in for a request; zero or less asks
\* for the default.
rsMeta(data, parity, len) ==
    LET default == rsDefaultShards(len)
        N == IF data <= 0 THEN default.data ELSE data
        K == IF parity <= 0 THEN default.parity ELSE parity
    IN  [data |-> N, parity |-> K, size |-> shardSizeOf(N, len), len |-> len]

\* SerializeRS' checks of it.
encodable(m) ==
    /\ m.data + m.parity <= rsMaxTotalShards
    /\ validRSGeometry(m.data, m.parity, m.len)

Total(m)  == m.data + m.parity
Stride(m) == rsShardHdrSize + m.size

\* parseRSMeta, for an rsMeta that verifies, before a body of bodyLen cells
\* and behind a header that counts blockCount records.
parseRSMeta(m, blockCount, bodyLen) ==
    /\ m.data >= 1 /\ Total(m) <= rsMaxTotalShards
    /\ validRSGeometry(m.data, m.parity, m.len)
    /\ m.len % RecCells = 0 /\ m.len \div RecCells = blockCount
    /\ Total(m) * m.size <= rsMaxDecodeAlloc
    /\ m.len <= m.data * m.size
    /\ m.len = 0 \/ /\ m.size # 0
                    /\ m.size = CeilDiv(m.len, m.data)
                    /\ Total(m) * Stride(m) <= 4 * bodyLen

-----------------------------------------------------------------------------
(* What is written. *)

Zero    == <<"zero">>        \* padding
Garbage == <<"garbage">>     \* the output of a reconstruction from wrong shards

\* The p-th cell of the payload: writeRecordRangeSharded.
payloadCell(recs, p) ==
    LET r == recs[(p \div RecCells) + 1]
        cells == << <<"lo", r.idx>>, <<"hi">>, <<"data", r.data>>, <<"crc", r.crc>> >>
    IN  IF p < RecCells * Len(recs) THEN cells[(p % RecCells) + 1] ELSE Zero

\* Cell c of shard s as written. A parity cell depends on the cells above it;
\* with a single data shard the code is repetition.
shardCell(m, recs, s, c) ==
    IF s < m.data THEN payloadCell(recs, s * m.size + c)
    ELSE IF m.data = 1 THEN payloadCell(recs, c)
    ELSE <<"parity", s, [i \in 0 .. (m.data - 1) |-> payloadCell(recs, i * m.size + c)]>>

ShardHdr == [idx : Nat, ok : BOOLEAN, of : Nat]

\* "header" says that the outer header verifies, with tier L2; "recs" are the
\* records the shards were made from; "rest" is what follows the last shard.
RSBlob ==
    [header : BOOLEAN, count : Nat, metaOK : BOOLEAN,
     meta : [data : Nat, parity : Nat, size : Nat, len : Nat],
     recs : Seq(Record), shards : Seq(ShardHdr), rest : Nat]

\* SerializeRS, if it does not refuse.
SerializeRS(ov, data, parity) ==
    LET n == Cardinality(Dirty(ov))
        m == rsMeta(data, parity, RecCells * n)
    IN  {[header |-> TRUE, count |-> n, metaOK |-> TRUE, meta |-> m,
          recs |-> [i \in DOMAIN s |-> writeRecord(ov, s[i], TierL1)],
          shards |-> [k \in 1 .. Total(m) |-> [idx |-> k - 1, ok |-> TRUE, of |-> k - 1]],
          rest |-> 0] : s \in {t \in sortedIndices(ov) : encodable(m)}}

-----------------------------------------------------------------------------
(* What is read. *)

bodyLen(b) == rsMetaSize + Len(b.shards) * Stride(b.meta) + b.rest

Nil == -1
Smallest(S) == CHOOSE i \in S : \A j \in S : i <= j

\* For each slot the first shard that claims it and verifies, Nil for an
\* erasure. The index is outside the shard's CRC.
parseShardSection(b) ==
    [i \in 0 .. (Total(b.meta) - 1) |->
        LET claims == {k \in DOMAIN b.shards : b.shards[k].ok /\ b.shards[k].idx = i}
        IN  IF claims = {} THEN Nil ELSE b.shards[Smallest(claims)].of]

Missing(slots) == Cardinality({i \in DOMAIN slots : slots[i] = Nil})

\* Mutant: one erasure less than there are parity shards.
reconstructible_Less(m, slots) == Missing(slots) < m.parity

reconstructible(m, slots) == Missing(slots) <= m.parity

\* enc.Reconstruct computes each missing shard, column by column, from the
\* first N shards present. If each of these cells is the one written for its
\* slot, so is the result; if not, it is garbage. Shards present stay.
Reconstruct(b, slots, i, c) ==
    LET used == {s \in DOMAIN slots :
                    /\ slots[s] # Nil
                    /\ Cardinality({t \in 0 .. (s - 1) : slots[t] # Nil}) < b.meta.data}
        right(s) == shardCell(b.meta, b.recs, slots[s], c) = shardCell(b.meta, b.recs, s, c)
    IN  IF slots[i] # Nil THEN shardCell(b.meta, b.recs, slots[i], c)
        ELSE IF \A s \in used : right(s) THEN shardCell(b.meta, b.recs, i, c)
        ELSE Garbage

\* The cell at payload offset p, with erasures reconstructed or not.
readCell(b, slots, p) ==
    LET i == p \div b.meta.size
        c == p % b.meta.size
    IN  IF reconstructible(b.meta, slots) THEN Reconstruct(b, slots, i, c)
        ELSE IF slots[i] = Nil THEN Garbage
        ELSE shardCell(b.meta, b.recs, slots[i], c)

\* Bytes that are no index read as an arbitrary number, "wild".
readIndex(lo, hi, wild) == IF lo[1] = "lo" /\ hi = <<"hi">> THEN lo[2] ELSE wild

\* The data shards one after the other, without the padding.
payloadCells(b, slots) ==
    SubSeq([p \in 1 .. (b.meta.data * b.meta.size) |-> readCell(b, slots, p - 1)], 1, b.meta.len)

\* The i-th record of the payload.
readRecord(cells, i, wild) ==
    LET cell(k) == cells[RecCells * (i - 1) + k]
    IN  [idx  |-> readIndex(cell(1), cell(2), wild),
         data |-> IF cell(3)[1] = "data" THEN cell(3)[2] ELSE Junk,
         crc  |-> IF cell(4)[1] = "crc" THEN cell(4)[2] ELSE BadCrc]

readPayload(b, slots, wild) ==
    LET cells == payloadCells(b, slots)
    IN  [i \in 1 .. (Len(cells) \div RecCells) |-> readRecord(cells, i, wild)]

\* The n cells at offset off lie in data shards that are there.
readShardSpan(b, slots, off, n) ==
    \A p \in off .. (off + n - 1) :
        p \div b.meta.size < b.meta.data /\ slots[p \div b.meta.size] # Nil

\* Mutant: a lost region is zero-filled, so every index can be read.
indexReadable_ZeroFill(b, slots, i) == TRUE

recordReadable(b, slots, i) == readShardSpan(b, slots, RecCells * (i - 1), RecCells)
indexReadable(b, slots, i)  == readShardSpan(b, slots, RecCells * (i - 1), 2)

-----------------------------------------------------------------------------
(* Deserialization. *)

\* Mutant: the index of a lost record is not checked against the base.
lostNamed_AnyIndex(recs, lost, readable, maxBlock) == {recs[i].idx : i \in lost \cap readable}

\* The blocks named by lost records whose index can still be read.
lostNamed(recs, lost, readable, maxBlock) ==
    {recs[i].idx : i \in {j \in lost \cap readable : InBase(recs[j].idx, maxBlock)}}

\* Mutant: a record whose index is lost as well is passed over.
lostUnnamed_Ignored(recs, lost, readable, maxBlock) == FALSE

\* Some record is lost and names no block of the base.
lostUnnamed(recs, lost, readable, maxBlock) ==
    \E i \in lost : i \notin readable \/ ~InBase(recs[i].idx, maxBlock)

\* "recs" is what can be read of the payload.
rsSalvage(b, slots, recs, maxBlock) ==
    LET lost  == {i \in DOMAIN recs : ~recordReadable(b, slots, i)}
        read  == DOMAIN recs \ lost
        idxOK == {i \in lost : indexReadable(b, slots, i)}
        over  == restored(recs, appliedAt(recs, TierL1, Len(recs), maxBlock) \cap read)
        named == lostNamed(recs, lost, idxOK, maxBlock)
        bad   == finalizeBad(over, named)
        unattributed ==
            \/ \E i \in read : /\ Verifies(recs[i], TierL1)
                               /\ ~InBase(recs[i].idx, maxBlock)
            \/ \E i \in read : /\ ~Verifies(recs[i], TierL1)
                               /\ ~suppressed(recs[i], over, maxBlock)
            \/ lostUnnamed(recs, lost, idxOK, maxBlock)
            \/ named \cap Dirty(over) # {}
    IN  [err |-> IF bad = {} /\ ~unattributed THEN "nil" ELSE "Partial",
         over |-> over, bad |-> bad, truncated |-> unattributed]

deserializeRS(b, maxBlock, wild) ==
    LET slots == parseShardSection(b)
        recs  == readPayload(b, slots, wild)
    IN  IF ~b.metaOK \/ ~parseRSMeta(b.meta, b.count, bodyLen(b)) THEN Corrupt
        ELSE IF b.meta.len = 0 \/ reconstructible(b.meta, slots)
        THEN applyRecords(recs, NoTail, TierL1, b.count, maxBlock)
        ELSE rsSalvage(b, slots, recs, maxBlock)

\* Deserialize of an L2 blob. Behind a header that fails, the scan for L1
\* records is not tried or finds none in the shards, which start off stride.
DeserializeL2(b, maxBlock, wild) ==
    IF b.header THEN deserializeRS(b, maxBlock, wild) ELSE Corrupt

-----------------------------------------------------------------------------
(* Inspection. *)

\* Mutant: a lost record that names a block is not listed.
inspectWalk_Unlisted(b, slots, recs) ==
    LET read == {i \in DOMAIN recs : recordReadable(b, slots, i)}
        unnamed == {i \in DOMAIN recs \ read : ~indexReadable(b, slots, i)}
    IN  [bad |-> {}, unattributed |-> Cardinality(unnamed)]

\* inspectRS' copy of the walk of rsSalvage.
inspectWalk(b, slots, recs) ==
    LET read == {i \in DOMAIN recs : recordReadable(b, slots, i)}
        verified == {i \in read : Verifies(recs[i], TierL1)}
        applied(idx) == {i \in verified : recs[i].idx = idx /\ idx >= 0}
        duplicate(r) == /\ applied(r.idx) # {}
                        /\ recs[Largest(applied(r.idx))].data = r.data
        named == {i \in DOMAIN recs \ read : indexReadable(b, slots, i)}
        gone  == {i \in named : applied(recs[i].idx) = {}}
    IN  [bad |-> {recs[i].idx : i \in {j \in verified : recs[j].idx < 0} \cup gone},
         unattributed |->
              Cardinality((DOMAIN recs \ read) \ gone)
            + Cardinality({i \in read \ verified : ~duplicate(recs[i])})]

inspectRS(b, wild) ==
    LET slots == parseShardSection(b)
        recs  == readPayload(b, slots, wild)
        found == IF reconstructible(b.meta, slots)
                 THEN scanL1Records(recs, b.count) ELSE inspectWalk(b, slots, recs)
    IN  IF ~b.metaOK \/ ~parseRSMeta(b.meta, b.count, bodyLen(b))
        THEN Rejected("ErrCorrupt")
        ELSE IF b.meta.len = 0 THEN finishInfo({}, 0, FALSE)
        ELSE finishInfo(found.bad, found.unattributed, FALSE)

InspectL2(b, wild) ==
    IF b.header THEN inspectRS(b, wild) ELSE Rejected("ErrCorrupt")
=============================================================================
