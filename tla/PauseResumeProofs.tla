-------------------------- MODULE PauseResumeProofs --------------------------
(***************************************************************************)
(* Proofs about PauseResume and PauseInspect, for any number of blocks,    *)
(* contents, damages and bases: that Deserialize fabricates no content,    *)
(* what its error value and BadBlocks are worth, and that Inspect's        *)
(* account of the same blob agrees. The latter follow each record of a     *)
(* stored blob back to the block writeRecord made it from.                 *)
(***************************************************************************)
EXTENDS PauseInspect, FormatProofs

-----------------------------------------------------------------------------
(* Nothing is fabricated: the inductive invariant. *)

\* A record is what writeRecord made of a dirty block, as far as the damage
\* leaves evidence: its CRC is still that of a block and its content, or is
\* broken; without CRCs, the record itself is, while no index or data changed.
Genuine(r, layout, faults, ov) ==
    IF layout = TierL1
    THEN r.crc = BadCrc \/ \E b \in Dirty(ov) : r.crc = Crc(b, ov[b])
    ELSE faults \cap {"index", "data"} = {} =>
            r.idx \in Block /\ r.data = ov[r.idx]

GenuineRecords ==
    \A i \in 1 .. Len(blob.recs) : Genuine(blob.recs[i], blob.layout, faulted, origin)

\* A header CRC that still verifies vouches for the tier of the body.
GenuineHeader ==
    \A t, c \in Nat : blob.hcrc = HeaderCrc(t, c) => t = blob.layout

PInv == TypeOK /\ GenuineRecords /\ GenuineHeader /\ NeverFabricates

\* The records and the header SerializeTier writes are genuine.
LEMMA SerializeGenuine ==
    ASSUME NEW ov \in Overlay, NEW tier \in {TierL0, TierL1},
           NEW b \in SerializeTier(ov, tier)
    PROVE  /\ b \in Blob
           /\ \A i \in 1 .. Len(b.recs) : Genuine(b.recs[i], b.layout, {}, ov)
           /\ \A t, c \in Nat : b.hcrc = HeaderCrc(t, c) => t = b.layout
<1> DEFINE n == Cardinality(Dirty(ov))
<1>1. n \in Nat
  <2>1. IsFiniteSet(Block)
    BY FormatAssumption, FS_Interval DEF Block
  <2>2. Dirty(ov) \in SUBSET Block
    BY DEF Dirty
  <2>3. IsFiniteSet(Dirty(ov))
    BY <2>1, <2>2, FS_Subset, Zenon
  <2> QED BY <2>3, FS_CardinalityType
<1> HIDE DEF n
<1>2. PICK s \in sortedIndices(ov) :
        b = [magic |-> TRUE, tier |-> tier, count |-> n,
             hcrc |-> HeaderCrc(tier, n), layout |-> tier,
             recs |-> [i \in DOMAIN s |-> writeRecord(ov, s[i], tier)],
             tail |-> NoTail]
  BY DEF SerializeTier, n
<1>3. s \in [1 .. n -> Dirty(ov)]
  BY DEF sortedIndices, n
<1> DEFINE recs == [i \in 1 .. n |-> writeRecord(ov, s[i], tier)]
<1>4. ASSUME NEW i \in 1 .. n
      PROVE  /\ writeRecord(ov, s[i], tier) \in Record
             /\ Genuine(writeRecord(ov, s[i], tier), tier, {}, ov)
  <2>1. s[i] \in Dirty(ov) /\ s[i] \in Block /\ s[i] \in Int /\ ov[s[i]] \in Content
    BY <1>3 DEF Dirty, Overlay, Block
  <2>2. writeRecord(ov, s[i], tier) \in Record
    BY <2>1 DEF writeRecord, Record, Crc
  <2>3. Genuine(writeRecord(ov, s[i], tier), tier, {}, ov)
    BY <2>1 DEF writeRecord, Genuine
  <2> QED BY <2>2, <2>3
<1>5. recs \in Seq(Record) /\ Len(recs) = n
  <2>1. recs \in [1 .. n -> Record]
    BY <1>4
  <2> HIDE DEF recs
  <2> QED BY <1>1, <2>1
<1>6. /\ b.recs = recs /\ b.layout = tier /\ b.hcrc = HeaderCrc(tier, n)
      /\ b.magic = TRUE /\ b.tier = tier /\ b.count = n /\ b.tail = NoTail
      /\ b = [magic |-> TRUE, tier |-> tier, count |-> n,
             hcrc |-> HeaderCrc(tier, n), layout |-> tier,
             recs |-> recs, tail |-> NoTail]
  BY <1>2, <1>3
<1>7. ASSUME NEW i \in 1 .. Len(b.recs)
      PROVE  Genuine(b.recs[i], b.layout, {}, ov)
  <2>1. i \in 1 .. n /\ b.recs[i] = writeRecord(ov, s[i], tier) /\ b.layout = tier
    BY <1>5, <1>6
  <2>2. Genuine(writeRecord(ov, s[i], tier), tier, {}, ov)
    BY <2>1, <1>4
  <2> QED BY <2>1, <2>2, Zenon
<1>8. \A t, c \in Nat : b.hcrc = HeaderCrc(t, c) => t = b.layout
  BY <1>1, <1>6 DEF HeaderCrc
<1>9. tier \in Nat /\ HeaderCrc(tier, n) \in Nat \X Nat
  BY <1>1 DEF TierL0, TierL1, HeaderCrc
<1>10. NoTail \in [kind : {"none", "short", "index"}, idx : Int]
  BY DEF NoTail
<1>11. b \in Blob
  <2> HIDE DEF recs
  <2> QED BY <1>1, <1>5, <1>6, <1>9, <1>10 DEF Blob
<1> QED BY <1>7, <1>8, <1>11

\* Whichever records of a genuine body are applied, a block they restore has
\* its content of before.
LEMMA RestoredGenuine ==
    ASSUME NEW b \in Blob, NEW ov \in Overlay, NEW faults, NEW n \in 0 .. Len(b.recs),
           NEW maxBlock, NEW x \in Block
    PROVE  /\ b.layout = TierL1 \/ faults \cap {"index", "data"} = {}
           /\ \A i \in 1 .. Len(b.recs) : Genuine(b.recs[i], b.layout, faults, ov)
           => restored(b.recs, appliedAt(b.recs, b.layout, n, maxBlock))[x] \in {ov[x], NoData}
<1> DEFINE at == appliedAt(b.recs, b.layout, n, maxBlock)
<1>1. b.recs \in Seq(Record) /\ Len(b.recs) \in Nat
  BY DEF Blob
<1>2. at \in SUBSET (1 .. Len(b.recs))
  BY <1>1 DEF appliedAt
<1>3. \A i \in at : Verifies(b.recs[i], b.layout)
  BY DEF appliedAt
<1> HIDE DEF at
<1>4. \/ restored(b.recs, at)[x] = NoData
      \/ \E i \in at : b.recs[i].idx = x /\ restored(b.recs, at)[x] = b.recs[i].data
  BY <1>2, RestoredFromBlob
<1> SUFFICES ASSUME b.layout = TierL1 \/ faults \cap {"index", "data"} = {},
                    \A i \in 1 .. Len(b.recs) : Genuine(b.recs[i], b.layout, faults, ov)
             PROVE  restored(b.recs, at)[x] \in {ov[x], NoData}
  BY DEF at
<1>5. CASE restored(b.recs, at)[x] = NoData
  BY <1>5
<1>6. ASSUME NEW i \in at, b.recs[i].idx = x,
             restored(b.recs, at)[x] = b.recs[i].data
      PROVE  restored(b.recs, at)[x] = ov[x]
  <2> DEFINE r == b.recs[i]
  <2>1. Genuine(r, b.layout, faults, ov) /\ Verifies(r, b.layout)
    BY <1>2, <1>3
  <2>2. CASE b.layout = TierL1
    <3>1. r.crc = <<x, r.data>>
      BY <1>6, <2>1, <2>2 DEF Verifies, Crc
    <3>2. r.crc = BadCrc \/ \E c \in Dirty(ov) : r.crc = <<c, ov[c]>>
      BY <2>1, <2>2 DEF Genuine, Crc
    <3> HIDE DEF r
    <3>3. PICK c \in Dirty(ov) : r.crc = <<c, ov[c]>>
      BY <3>1, <3>2 DEF BadCrc
    <3>4. r.data = ov[x]
      BY <3>1, <3>3
    <3> QED BY <1>6, <3>4 DEF r
  <2>3. CASE b.layout # TierL1
    BY <1>6, <2>1, <2>3 DEF Genuine
  <2> QED BY <2>2, <2>3
<1> QED BY <1>4, <1>5, <1>6

\* Deserialize restores nothing but what was serialized, from any blob whose
\* records and header CRC are genuine.
LEMMA DeserializeGenuine ==
    ASSUME NEW b \in Blob, NEW ov \in Overlay, NEW faults,
           NEW maxBlock \in 0 .. NBlocks, NEW x \in Block,
           b.layout = TierL1 \/ faults \cap {"index", "data"} = {},
           \A i \in 1 .. Len(b.recs) : Genuine(b.recs[i], b.layout, faults, ov),
           \A t, c \in Nat : b.hcrc = HeaderCrc(t, c) => t = b.layout
    PROVE  Deserialize(b, maxBlock).over[x] \in {ov[x], NoData}
<1>1. Corrupt.over[x] = NoData /\ UnsupportedTier.over[x] = NoData
  BY EmptyType DEF Corrupt, UnsupportedTier
<1>2. b.tier \in Nat /\ b.count \in Nat /\ Len(b.recs) \in Nat
  BY DEF Blob
<1>3. CASE b.magic /\ headerIntact(b) /\ b.tier \in {TierL0, TierL1}
  <2> DEFINE ext == Extent(b.recs, b.tail, b.count, maxBlock)
  <2>1. b.tier = b.layout
    BY <1>2, <1>3 DEF headerIntact
  <2>2. ext.n \in 0 .. Len(b.recs)
    BY ExtentType
  <2>3. Deserialize(b, maxBlock) = applyRecords(b.recs, b.tail, b.layout, b.count, maxBlock)
    BY <1>3, <2>1 DEF Deserialize
  <2>4. applyRecords(b.recs, b.tail, b.layout, b.count, maxBlock).over
          = restored(b.recs, appliedAt(b.recs, b.layout, ext.n, maxBlock))
    BY DEF applyRecords
  <2>5. restored(b.recs, appliedAt(b.recs, b.layout, ext.n, maxBlock))[x] \in {ov[x], NoData}
    <3> HIDE DEF ext
    <3> QED BY <2>2, RestoredGenuine
  <2> QED BY <2>3, <2>4, <2>5
<1>4. CASE b.magic /\ ~headerIntact(b) /\ fallback(b)
  <2>1. Deserialize(b, maxBlock) = deserializeHeaderless(b, maxBlock)
    BY <1>4 DEF Deserialize
  <2>2. CASE deserializeHeaderless(b, maxBlock) = Corrupt
    BY <1>1, <2>1, <2>2
  <2>3. CASE /\ b.layout = TierL1
             /\ deserializeHeaderless(b, maxBlock).over
                  = restored(b.recs, appliedAt(b.recs, b.layout, Len(b.recs), maxBlock))
    <3>1. Len(b.recs) \in 0 .. Len(b.recs)
      BY <1>2
    <3>2. restored(b.recs, appliedAt(b.recs, b.layout, Len(b.recs), maxBlock))[x]
            \in {ov[x], NoData}
      BY <3>1, RestoredGenuine
    <3> QED BY <2>1, <2>3, <3>2
  <2> QED BY <2>2, <2>3 DEF deserializeHeaderless
<1>5. CASE Deserialize(b, maxBlock) \in {Corrupt, UnsupportedTier}
  BY <1>1, <1>5
<1> QED BY <1>3, <1>4, <1>5 DEF Deserialize

-----------------------------------------------------------------------------
(* Every step keeps the invariant. *)

\* A damage that leaves a blob, its layout, and only genuine records and
\* header CRCs keeps the invariant.
LEMMA DamageKeeps ==
    ASSUME PInv, NEW kind \in Fault, NEW d \in Blob, Damage(kind, d),
           d.layout = blob.layout, d.hcrc \in {blob.hcrc, BadCrc},
           \A i \in 1 .. Len(d.recs) :
              Genuine(d.recs[i], blob.layout, faulted \cup {kind}, origin)
    PROVE  PInv'
<1>1. TypeOK'
  BY CycleAssumption DEF PInv, TypeOK, Damage
<1>2. GenuineRecords'
  BY DEF GenuineRecords, Damage
<1>3. GenuineHeader'
  BY DEF PInv, GenuineHeader, Damage, BadCrc, HeaderCrc
<1>4. NeverFabricates'
  BY DEF NeverFabricates, Damage
<1> QED BY <1>1, <1>2, <1>3, <1>4 DEF PInv

\* A record that is genuine stays so when more damage is known.
LEMMA GenuineMonotone ==
    ASSUME NEW r, NEW layout, NEW faults, NEW kind, NEW ov,
           Genuine(r, layout, faults, ov)
    PROVE  Genuine(r, layout, faults \cup {kind}, ov)
BY DEF Genuine

\* A damage that only drops, repeats or moves records.
LEMMA ReshapeKeeps ==
    ASSUME PInv, NEW kind \in Fault, NEW d \in Blob, Damage(kind, d),
           d.layout = blob.layout, d.hcrc \in {blob.hcrc, BadCrc},
           \A i \in 1 .. Len(d.recs) :
              \E j \in 1 .. Len(blob.recs) : d.recs[i] = blob.recs[j]
    PROVE  PInv'
<1>1. ASSUME NEW i \in 1 .. Len(d.recs)
      PROVE  Genuine(d.recs[i], blob.layout, faulted \cup {kind}, origin)
  <2>1. PICK j \in 1 .. Len(blob.recs) : d.recs[i] = blob.recs[j]
    OBVIOUS
  <2>2. Genuine(blob.recs[j], blob.layout, faulted, origin)
    BY DEF PInv, GenuineRecords
  <2> QED BY <2>1, <2>2, GenuineMonotone
<1> QED BY <1>1, DamageKeeps

\* A damage of one record, whose CRC becomes BadCrc (L1 only) or stays, its
\* index and data staying too unless the kind of the damage says so.
LEMMA FlipKeeps ==
    ASSUME PInv, NEW i \in 1 .. Len(blob.recs), NEW r \in Record, NEW kind \in Fault,
           Damage(kind, [blob EXCEPT !.recs = [blob.recs EXCEPT ![i] = r]]),
           \/ blob.layout = TierL1 /\ r.crc \in {blob.recs[i].crc, BadCrc}
           \/ kind \in {"index", "data"} /\ r.crc = blob.recs[i].crc
    PROVE  PInv'
<1> DEFINE recs == [blob.recs EXCEPT ![i] = r]
           d == [blob EXCEPT !.recs = recs]
<1>1. blob \in Blob /\ blob.recs \in Seq(Record)
  BY DEF PInv, TypeOK, Blob
<1>2. /\ recs \in Seq(Record) /\ Len(recs) = Len(blob.recs)
      /\ \A j \in 1 .. Len(blob.recs) : recs[j] = IF j = i THEN r ELSE blob.recs[j]
  BY <1>1, ExceptSeq
<1> HIDE DEF recs
<1>3. /\ d \in Blob /\ d.recs = recs /\ d.layout = blob.layout /\ d.hcrc = blob.hcrc
  BY <1>1, <1>2 DEF Blob
<1>4. Damage(kind, d)
  BY DEF recs
<1>5. ASSUME NEW j \in 1 .. Len(recs)
      PROVE  Genuine(recs[j], blob.layout, faulted \cup {kind}, origin)
  <2>1. Genuine(blob.recs[j], blob.layout, faulted, origin)
    BY <1>2 DEF PInv, GenuineRecords
  <2>2. CASE j # i
    BY <1>2, <2>1, <2>2, GenuineMonotone
  <2>3. CASE j = i
    <3>1. recs[j] = r
      BY <1>2, <2>3
    <3>2. Genuine(r, blob.layout, faulted \cup {kind}, origin)
      BY <2>1, <2>3 DEF Genuine
    <3> QED BY <3>1, <3>2
  <2> QED BY <2>2, <2>3
<1> HIDE DEF d
<1> QED BY <1>3, <1>4, <1>5, DamageKeeps

\* Changing a field outside the records keeps the invariant.
LEMMA FieldKeeps ==
    ASSUME PInv, NEW kind \in Fault, NEW d \in Blob, Damage(kind, d),
           d.layout = blob.layout, d.hcrc \in {blob.hcrc, BadCrc},
           d.recs = blob.recs
    PROVE  PInv'
BY ReshapeKeeps

\* Every damage of the medium keeps the invariant.
LEMMA MediumKeeps ==
    ASSUME PInv, Medium
    PROVE  PInv'
<1>1. blob \in Blob /\ blob.recs \in Seq(Record) /\ Len(blob.recs) \in Nat
  BY DEF PInv, TypeOK, Blob
<1>2. Fault = {"index", "data", "crc", "cut", "surplus", "copy", "swap", "header", "magic"}
  BY DEF Fault
<1>3. ASSUME NEW i \in 1 .. Len(blob.recs) PROVE blob.recs[i] \in Record
  BY <1>1, ElementOfSeq
<1>4. ASSUME NEW i \in 1 .. Len(blob.recs), NEW x \in WildIdx, FlipIndex(i, x)
      PROVE  PInv'
  <2> DEFINE r == [blob.recs[i] EXCEPT !.idx = x]
  <2>1. r \in Record /\ r.crc = blob.recs[i].crc
    BY <1>3, FormatAssumption DEF Record, WildIdx
  <2>2. Damage("index", [blob EXCEPT !.recs = [blob.recs EXCEPT ![i] = r]])
    BY <1>4 DEF FlipIndex
  <2> HIDE DEF r
  <2> QED BY <1>2, <2>1, <2>2, FlipKeeps
<1>5. ASSUME NEW i \in 1 .. Len(blob.recs), NEW c \in Content, FlipData(i, c)
      PROVE  PInv'
  <2> DEFINE r == [blob.recs[i] EXCEPT !.data = c]
  <2>1. r \in Record /\ r.crc = blob.recs[i].crc
    BY <1>3 DEF Record
  <2>2. Damage("data", [blob EXCEPT !.recs = [blob.recs EXCEPT ![i] = r]])
    BY <1>5 DEF FlipData
  <2> HIDE DEF r
  <2> QED BY <1>2, <2>1, <2>2, FlipKeeps
<1>6. ASSUME NEW i \in 1 .. Len(blob.recs), FlipCRC(i)
      PROVE  PInv'
  <2> DEFINE r == [blob.recs[i] EXCEPT !.crc = BadCrc]
  <2>1. r \in Record /\ r.crc = BadCrc
    BY <1>3 DEF Record
  <2>2. /\ blob.layout = TierL1
        /\ Damage("crc", [blob EXCEPT !.recs = [blob.recs EXCEPT ![i] = r]])
    BY <1>6 DEF FlipCRC
  <2> HIDE DEF r
  <2> QED BY <1>2, <2>1, <2>2, FlipKeeps
<1>7. ASSUME NEW i \in 1 .. Len(blob.recs), Truncate(i - 1)
      PROVE  PInv'
  <2> DEFINE recs == SubSeq(blob.recs, 1, i - 1)
  <2>1. PICK t \in {NoTail, ShortTail, IdxTail(blob.recs[(i - 1) + 1].idx)} :
          Damage("cut", [blob EXCEPT !.recs = recs, !.tail = t])
    BY <1>7 DEF Truncate
  <2>2. blob.recs[(i - 1) + 1].idx \in Int
    <3>1. (i - 1) + 1 = i
      OBVIOUS
    <3> QED BY <1>3, <3>1 DEF Record
  <2>3. t \in [kind : {"none", "short", "index"}, idx : Int]
    BY <2>2 DEF NoTail, ShortTail, IdxTail
  <2>4. /\ recs \in Seq(Record) /\ Len(recs) = i - 1
        /\ \A j \in 1 .. i - 1 : recs[j] = blob.recs[j]
    BY <1>1
  <2> HIDE DEF recs
  <2> DEFINE d == [blob EXCEPT !.recs = recs, !.tail = t]
  <2>5. /\ d \in Blob /\ d.recs = recs /\ d.layout = blob.layout /\ d.hcrc = blob.hcrc
    BY <1>1, <2>3, <2>4 DEF Blob
  <2>6. \A j \in 1 .. Len(d.recs) : \E k \in 1 .. Len(blob.recs) : d.recs[j] = blob.recs[k]
    BY <2>4, <2>5
  <2>7. Damage("cut", d)
    BY <2>1
  <2> HIDE DEF d
  <2> QED BY <1>2, <2>5, <2>6, <2>7, ReshapeKeeps
<1>8. ASSUME NEW i \in 1 .. Len(blob.recs), Duplicate(i)
      PROVE  PInv'
  <2> DEFINE recs == Append(blob.recs, blob.recs[i])
             d == [blob EXCEPT !.recs = recs]
  <2>1. /\ recs \in Seq(Record) /\ Len(recs) = Len(blob.recs) + 1
        /\ \A j \in 1 .. Len(blob.recs) : recs[j] = blob.recs[j]
        /\ recs[Len(blob.recs) + 1] = blob.recs[i]
    BY <1>1, <1>3, AppendProperties
  <2>2. Damage("copy", d)
    BY <1>8 DEF Duplicate
  <2> HIDE DEF recs
  <2>3. d \in Blob /\ d.recs = recs /\ d.layout = blob.layout /\ d.hcrc = blob.hcrc
    BY <1>1, <2>1 DEF Blob
  <2>4. ASSUME NEW j \in 1 .. Len(recs)
        PROVE  \E k \in 1 .. Len(blob.recs) : recs[j] = blob.recs[k]
    <3>1. j \in 1 .. Len(blob.recs) \/ j = Len(blob.recs) + 1
      BY <1>1, <2>1
    <3> QED BY <2>1, <3>1
  <2> HIDE DEF d
  <2> QED BY <1>2, <2>2, <2>3, <2>4, ReshapeKeeps
<1>9. ASSUME NEW i \in 1 .. Len(blob.recs), NEW j \in (i + 1) .. Len(blob.recs), Swap(i, j)
      PROVE  PInv'
  <2> DEFINE one == [blob.recs EXCEPT ![i] = blob.recs[j]]
             recs == [one EXCEPT ![j] = blob.recs[i]]
             d == [blob EXCEPT !.recs = recs]
  <2>1. i \in 1 .. Len(blob.recs) /\ j \in 1 .. Len(blob.recs)
    BY <1>1
  <2>2. /\ one \in Seq(Record) /\ Len(one) = Len(blob.recs)
        /\ \A k \in 1 .. Len(blob.recs) :
              one[k] = IF k = i THEN blob.recs[j] ELSE blob.recs[k]
    BY <1>1, <1>3, <2>1, ExceptSeq
  <2>3. Damage("swap", d)
    BY <1>9 DEF Swap
  <2> HIDE DEF one
  <2>4. /\ recs \in Seq(Record) /\ Len(recs) = Len(blob.recs)
        /\ \A k \in 1 .. Len(blob.recs) :
              recs[k] = IF k = j THEN blob.recs[i] ELSE one[k]
    BY <1>3, <2>1, <2>2, ExceptSeq
  <2> HIDE DEF recs
  <2>5. d \in Blob /\ d.recs = recs /\ d.layout = blob.layout /\ d.hcrc = blob.hcrc
    BY <1>1, <2>4 DEF Blob
  <2>6. \A k \in 1 .. Len(recs) : \E l \in 1 .. Len(blob.recs) : recs[k] = blob.recs[l]
    BY <2>1, <2>2, <2>4
  <2> HIDE DEF d
  <2> QED BY <1>2, <2>3, <2>5, <2>6, ReshapeKeeps
<1>10. ASSUME NEW kind \in {"index", "surplus"},
              NEW t \in [kind : {"none", "short", "index"}, idx : Int],
              Damage(kind, [blob EXCEPT !.tail = t])
       PROVE  PInv'
  <2> DEFINE d == [blob EXCEPT !.tail = t]
  <2>1. d \in Blob /\ d.recs = blob.recs /\ d.layout = blob.layout /\ d.hcrc = blob.hcrc
    BY <1>1 DEF Blob
  <2> HIDE DEF d
  <2>2. Damage(kind, d)
    BY <1>10 DEF d
  <2> QED BY <1>2, <2>1, <2>2, FieldKeeps
<1>11. ASSUME NEW x \in WildIdx, FlipTail(x) \/ Trail(IdxTail(x)) PROVE PInv'
  <2>1. IdxTail(x) \in [kind : {"none", "short", "index"}, idx : Int]
    BY FormatAssumption DEF IdxTail, WildIdx
  <2> QED BY <1>10, <1>11, <2>1 DEF FlipTail, Trail
<1>12. CASE Trail(ShortTail)
  <2>1. ShortTail \in [kind : {"none", "short", "index"}, idx : Int]
    BY DEF ShortTail
  <2> QED BY <1>10, <1>12, <2>1 DEF Trail
<1>13. ASSUME NEW t \in WildTier, FlipTier(t) PROVE PInv'
  <2> DEFINE d == [blob EXCEPT !.tier = t]
  <2>1. d \in Blob /\ d.recs = blob.recs /\ d.layout = blob.layout /\ d.hcrc = blob.hcrc
    BY <1>1 DEF Blob, WildTier
  <2>2. Damage("header", d)
    BY <1>13 DEF FlipTier
  <2> HIDE DEF d
  <2> QED BY <1>2, <2>1, <2>2, FieldKeeps
<1>14. ASSUME NEW k \in 0 .. (NBlocks + 1), FlipCount(k) PROVE PInv'
  <2> DEFINE d == [blob EXCEPT !.count = k]
  <2>1. d \in Blob /\ d.recs = blob.recs /\ d.layout = blob.layout /\ d.hcrc = blob.hcrc
    BY <1>1, FormatAssumption DEF Blob
  <2>2. Damage("header", d)
    BY <1>14 DEF FlipCount
  <2> HIDE DEF d
  <2> QED BY <1>2, <2>1, <2>2, FieldKeeps
<1>15. CASE FlipHeaderCRC
  <2> DEFINE d == [blob EXCEPT !.hcrc = BadCrc]
  <2>1. d \in Blob /\ d.recs = blob.recs /\ d.layout = blob.layout /\ d.hcrc = BadCrc
    BY <1>1 DEF Blob
  <2>2. Damage("header", d)
    BY <1>15 DEF FlipHeaderCRC
  <2> HIDE DEF d
  <2> QED BY <1>2, <2>1, <2>2, FieldKeeps
<1>16. CASE LoseMagic
  <2> DEFINE d == [blob EXCEPT !.magic = FALSE]
  <2>1. d \in Blob /\ d.recs = blob.recs /\ d.layout = blob.layout /\ d.hcrc = blob.hcrc
    BY <1>1 DEF Blob
  <2>2. Damage("magic", d)
    BY <1>16 DEF LoseMagic
  <2> HIDE DEF d
  <2> QED BY <1>2, <2>1, <2>2, FieldKeeps
<1> QED
  BY <1>4, <1>5, <1>6, <1>7, <1>8, <1>9, <1>11, <1>12, <1>13, <1>14, <1>15, <1>16
  DEF Medium

\* The blob of a device nobody has written is a blob with genuine parts.
LEMMA FirstBlobGenuine ==
    /\ FirstBlob \in Blob /\ FirstBlob.recs = <<>>
    /\ FirstBlob.layout = TierL0 /\ FirstBlob.hcrc = HeaderCrc(TierL0, 0)
BY DEF FirstBlob, Blob, HeaderCrc, TierL0, TierL1, NoTail

\* The initial state has the invariant.
LEMMA InitPInv == Init => PInv
<1> SUFFICES ASSUME Init PROVE PInv
  OBVIOUS
<1>1. TypeOK
  BY FirstBlobGenuine, CorruptType, EmptyType, FormatAssumption, CycleAssumption
  DEF Init, TypeOK
<1>2. GenuineRecords
  BY FirstBlobGenuine, EmptySeq DEF Init, GenuineRecords
<1>3. GenuineHeader
  BY FirstBlobGenuine DEF Init, GenuineHeader, HeaderCrc, TierL0
<1>4. NeverFabricates
  BY DEF Init, NeverFabricates
<1> QED BY <1>1, <1>2, <1>3, <1>4 DEF PInv

\* Every step of the cycle keeps the invariant.
LEMMA NextPInv == PInv /\ [Next]_vars => PInv'
<1> SUFFICES ASSUME PInv, [Next]_vars PROVE PInv'
  OBVIOUS
<1> USE DEF PInv
<1>1. ASSUME NEW b \in Block, NEW c \in Content, Write(b, c) PROVE PInv'
  <2>1. TypeOK'
    BY <1>1 DEF Write, TypeOK, Overlay
  <2>2. GenuineRecords' /\ GenuineHeader' /\ NeverFabricates'
    BY <1>1 DEF Write, GenuineRecords, GenuineHeader, NeverFabricates
  <2> QED BY <2>1, <2>2
<1>2. ASSUME NEW tier \in {TierL0, TierL1}, Pause(tier) PROVE PInv'
  <2>1. over \in Overlay
    BY DEF TypeOK
  <2>2. blob' \in SerializeTier(over, tier) /\ origin' = over /\ faulted' = {}
    BY <1>2 DEF Pause
  <2>3. /\ blob' \in Blob
        /\ \A i \in 1 .. Len(blob'.recs) : Genuine(blob'.recs[i], blob'.layout, {}, over)
        /\ \A t, c \in Nat : blob'.hcrc = HeaderCrc(t, c) => t = blob'.layout
    BY <2>1, <2>2, SerializeGenuine, Zenon
  <2>4. TypeOK'
    BY <1>2, <2>3, CycleAssumption DEF Pause, TypeOK
  <2>5. GenuineRecords'
    BY <2>2, <2>3 DEF GenuineRecords
  <2>6. GenuineHeader'
    BY <2>3 DEF GenuineHeader
  <2>7. NeverFabricates'
    BY <1>2 DEF Pause, NeverFabricates
  <2> QED BY <2>4, <2>5, <2>6, <2>7
<1>3. CASE Medium
  BY <1>3, MediumKeeps
<1>4. ASSUME NEW maxBlock \in ResumeBases, Resume(maxBlock) PROVE PInv'
  <2>1. maxBlock \in 0 .. NBlocks
    BY CycleAssumption
  <2>2. blob \in Blob /\ origin \in Overlay
    BY DEF TypeOK
  <2>3. /\ Deserialize(blob, maxBlock) \in Result
        /\ \A x \in Dirty(Deserialize(blob, maxBlock).over) \cup Deserialize(blob, maxBlock).bad :
              InBase(x, maxBlock)
    BY <2>1, <2>2, DeserializeType, DeserializeInBase
  <2>4. TypeOK'
    BY <1>4, <2>1, <2>3 DEF Resume, TypeOK
  <2>5. GenuineRecords' /\ GenuineHeader'
    BY <1>4 DEF Resume, GenuineRecords, GenuineHeader
  <2>6. ASSUME ContentProtected, NEW b \in Block
        PROVE  Deserialize(blob, maxBlock).over[b] \in {origin[b], NoData}
    <3>1. blob.layout = TierL1 \/ faulted \cap {"index", "data"} = {}
      BY <2>6 DEF ContentProtected
    <3>2. \A i \in 1 .. Len(blob.recs) : Genuine(blob.recs[i], blob.layout, faulted, origin)
      BY DEF GenuineRecords
    <3>3. \A t, c \in Nat : blob.hcrc = HeaderCrc(t, c) => t = blob.layout
      BY DEF GenuineHeader
    <3> QED BY <2>1, <2>2, <3>1, <3>2, <3>3, DeserializeGenuine
  <2>7. NeverFabricates'
    BY <1>4, <2>6 DEF Resume, NeverFabricates, ContentProtected
  <2> QED BY <2>4, <2>5, <2>7
<1>5. CASE Continue
  <2>1. blob' = FirstBlob /\ origin' = Empty /\ faulted' = {} /\ phase' = "live"
    BY <1>5 DEF Continue
  <2>2. over' \in Overlay
    BY <1>5, EmptyType DEF Continue, TypeOK, Result
  <2>3. TypeOK'
    BY <1>5, <2>2, FirstBlobGenuine, CorruptType, EmptyType, FormatAssumption, CycleAssumption
    DEF Continue, TypeOK
  <2>4. GenuineRecords'
    BY <2>1, FirstBlobGenuine, EmptySeq DEF GenuineRecords
  <2>5. GenuineHeader'
    BY <2>1, FirstBlobGenuine DEF GenuineHeader, HeaderCrc, TierL0
  <2>6. NeverFabricates'
    BY <2>1 DEF NeverFabricates
  <2> QED BY <2>3, <2>4, <2>5, <2>6
<1>6. CASE UNCHANGED vars
  BY <1>6 DEF vars, TypeOK, GenuineRecords, GenuineHeader, NeverFabricates, ContentProtected
<1> QED BY <1>1, <1>2, <1>3, <1>4, <1>5, <1>6 DEF Next

\* The invariant holds throughout.
LEMMA SpecPInv == Spec => []PInv
BY InitPInv, NextPInv, PTL DEF Spec

\* Everything the cycle produces is well formed: SerializeTier writes blobs,
\* and Deserialize, over any damaged blob, restores and blames only blocks of
\* the base.
THEOREM CycleTypeCorrect == Spec => []TypeOK
<1>1. PInv => TypeOK
  BY DEF PInv
<1> QED BY <1>1, SpecPInv, PTL

\* Deserialize fabricates nothing: for any number of blocks, any number of
\* damages and any base, a block it restores from an L1 blob has the content
\* it had when it was serialized.
THEOREM NothingFabricated == Spec => []NeverFabricates
<1>1. PInv => NeverFabricates
  BY DEF PInv
<1> QED BY <1>1, SpecPInv, PTL

-----------------------------------------------------------------------------
(* Where the records come from: the second inductive invariant. *)

\* Record r was made from block b of the overlay, and only the parts that some
\* damage was done to may be others than writeRecord wrote.
Descends(r, b, layout, faults, ov) ==
    /\ layout = TierL1 => r.crc = BadCrc \/ r.crc = Crc(b, ov[b])
    /\ layout = TierL1 /\ "crc" \notin faults => r.crc = Crc(b, ov[b])
    /\ "index" \notin faults => r.idx = b
    /\ "data" \notin faults => r.data = ov[b]

\* id[i] is the block the i-th record was made from: no block has two records
\* unless records were copied, every block has one unless some were cut off.
Lineage(recs, layout, faults, ov, id) ==
    /\ id \in [1 .. Len(recs) -> Dirty(ov)]
    /\ \A i \in 1 .. Len(recs) : Descends(recs[i], id[i], layout, faults, ov)
    /\ "copy" \notin faults => \A i, j \in 1 .. Len(recs) : id[i] = id[j] => i = j
    /\ "cut" \notin faults => \A b \in Dirty(ov) : \E i \in 1 .. Len(recs) : id[i] = b

\* The header counts the dirty blocks, or its CRC shows that it does not.
HeaderOf(b, faults, ov) ==
    /\ b.hcrc = BadCrc \/ b.hcrc = HeaderCrc(b.layout, Cardinality(Dirty(ov)))
    /\ "header" \notin faults => /\ b.tier = b.layout
                                 /\ b.count = Cardinality(Dirty(ov))
                                 /\ b.hcrc = HeaderCrc(b.layout, Cardinality(Dirty(ov)))
    /\ "magic" \notin faults => b.magic

\* A tail is the rest of a record that was cut off, or stray bytes.
TailOf(b, faults, ov) ==
    /\ "cut" \notin faults /\ "surplus" \notin faults => b.tail = NoTail
    /\ "index" \notin faults /\ "surplus" \notin faults /\ b.tail.kind = "index"
       => b.tail.idx \in Dirty(ov)

Traced(b, faults, ov) ==
    /\ \E id : Lineage(b.recs, b.layout, faults, ov, id)
    /\ HeaderOf(b, faults, ov)
    /\ TailOf(b, faults, ov)

LInv ==
    /\ Traced(blob, faulted, origin)
    /\ phase = "resumed" => res = Deserialize(blob, base)

-----------------------------------------------------------------------------
(* SerializeTier establishes it. *)

\* What SerializeTier writes has a record for each dirty block and no other.
LEMMA SerializeTraced ==
    ASSUME NEW ov \in Overlay, NEW tier \in {TierL0, TierL1},
           NEW b \in SerializeTier(ov, tier)
    PROVE  Traced(b, {}, ov)
<1> DEFINE n == Cardinality(Dirty(ov))
<1>1. n \in Nat
  BY DirtyFinite
<1>2. PICK s \in sortedIndices(ov) :
        b = [magic |-> TRUE, tier |-> tier, count |-> n,
             hcrc |-> HeaderCrc(tier, n), layout |-> tier,
             recs |-> [i \in DOMAIN s |-> writeRecord(ov, s[i], tier)],
             tail |-> NoTail]
  BY DEF SerializeTier
<1>3. /\ s \in [1 .. n -> Dirty(ov)]
      /\ \A x \in Dirty(ov) : \E i \in 1 .. n : s[i] = x
      /\ \A i, j \in 1 .. n : i < j => s[i] < s[j]
  BY DEF sortedIndices
<1> HIDE DEF n
<1>4. /\ b.recs = [i \in 1 .. n |-> writeRecord(ov, s[i], tier)]
      /\ b.layout = tier /\ b.hcrc = HeaderCrc(tier, n)
      /\ b.magic = TRUE /\ b.tier = tier /\ b.count = n /\ b.tail = NoTail
  BY <1>2, <1>3
<1>5. Len(b.recs) = n
  BY <1>1, <1>4
<1>6. ASSUME NEW i \in 1 .. n, NEW j \in 1 .. n, s[i] = s[j] PROVE i = j
  <2>1. s[i] \in Int /\ s[j] \in Int /\ i \in Int /\ j \in Int
    BY <1>3 DEF Dirty, Block
  <2>2. ~(i < j) /\ ~(j < i)
    BY <1>3, <1>6, <2>1
  <2> QED BY <2>1, <2>2
<1>7. ASSUME NEW i \in 1 .. n PROVE Descends(b.recs[i], s[i], tier, {}, ov)
  <2>1. b.recs[i] = writeRecord(ov, s[i], tier)
    BY <1>4
  <2> QED BY <2>1 DEF Descends, writeRecord
<1>8. Lineage(b.recs, b.layout, {}, ov, s)
  <2>1. s \in [1 .. Len(b.recs) -> Dirty(ov)]
    BY <1>3, <1>5
  <2>2. \A i \in 1 .. Len(b.recs) : Descends(b.recs[i], s[i], b.layout, {}, ov)
    BY <1>4, <1>5, <1>7, Zenon
  <2>3. \A i, j \in 1 .. Len(b.recs) : s[i] = s[j] => i = j
    BY <1>5, <1>6, Zenon
  <2>4. \A x \in Dirty(ov) : \E i \in 1 .. Len(b.recs) : s[i] = x
    BY <1>3, <1>5, Zenon
  <2> QED BY <2>1, <2>2, <2>3, <2>4, Zenon DEF Lineage
<1>9. HeaderOf(b, {}, ov)
  BY <1>4 DEF HeaderOf, n
<1>10. TailOf(b, {}, ov)
  BY <1>4 DEF TailOf, NoTail
<1> QED BY <1>8, <1>9, <1>10, Zenon DEF Traced

-----------------------------------------------------------------------------
(* Damage keeps it. *)

\* A record still descends from its block when more damage is known.
LEMMA DescendsMonotone ==
    ASSUME NEW r, NEW b, NEW layout, NEW faults, NEW kind, NEW ov,
           Descends(r, b, layout, faults, ov)
    PROVE  Descends(r, b, layout, faults \cup {kind}, ov)
BY DEF Descends

\* The k-th record of the new body is the from[k]-th of the old one: none is
\* there twice unless they were copied, none is missing unless they were cut.
Reshaped(recs, new, from, kind) ==
    /\ from \in [1 .. Len(new) -> 1 .. Len(recs)]
    /\ \A k \in 1 .. Len(new) : new[k] = recs[from[k]]
    /\ kind # "copy" => \A k, l \in 1 .. Len(new) : from[k] = from[l] => k = l
    /\ kind # "cut" => \A i \in 1 .. Len(recs) : \E k \in 1 .. Len(new) : from[k] = i

\* Records that are dropped, repeated or moved take their lineage with them.
LEMMA ReshapeLineage ==
    ASSUME NEW recs \in Seq(Record), NEW new \in Seq(Record), NEW layout, NEW faults, NEW ov,
           NEW kind, NEW id, Lineage(recs, layout, faults, ov, id),
           NEW from, Reshaped(recs, new, from, kind)
    PROVE  \E id2 : Lineage(new, layout, faults \cup {kind}, ov, id2)
<1> DEFINE id2 == [k \in 1 .. Len(new) |-> id[from[k]]]
           m == Len(new)
           o == Len(recs)
<1>1. /\ id \in [1 .. o -> Dirty(ov)]
      /\ \A i \in 1 .. o : Descends(recs[i], id[i], layout, faults, ov)
      /\ "copy" \notin faults => \A i, j \in 1 .. o : id[i] = id[j] => i = j
      /\ "cut" \notin faults => \A b \in Dirty(ov) : \E i \in 1 .. o : id[i] = b
  BY Zenon DEF Lineage
<1>2. \A k \in 1 .. m : from[k] \in 1 .. o /\ new[k] = recs[from[k]] /\ id2[k] = id[from[k]]
  BY Zenon DEF Reshaped
<1>3. id2 \in [1 .. m -> Dirty(ov)]
  BY <1>1, <1>2, Zenon
<1> HIDE DEF id2
<1>4. ASSUME NEW k \in 1 .. m PROVE Descends(new[k], id2[k], layout, faults \cup {kind}, ov)
  <2>1. Descends(recs[from[k]], id[from[k]], layout, faults, ov)
    BY <1>1, <1>2, Zenon
  <2>2. Descends(recs[from[k]], id[from[k]], layout, faults \cup {kind}, ov)
    BY <2>1, DescendsMonotone, Zenon
  <2> QED BY <1>2, <2>2, Zenon
<1>5. ASSUME "copy" \notin faults \cup {kind}, NEW k \in 1 .. m, NEW l \in 1 .. m, id2[k] = id2[l]
      PROVE  k = l
  <2>1. kind # "copy" /\ "copy" \notin faults
    BY <1>5
  <2>2. from[k] = from[l]
    BY <1>1, <1>2, <1>5, <2>1
  <2> QED BY <2>1, <2>2, Zenon DEF Reshaped
<1>6. ASSUME "cut" \notin faults \cup {kind}, NEW b \in Dirty(ov)
      PROVE  \E k \in 1 .. m : id2[k] = b
  <2>1. kind # "cut" /\ "cut" \notin faults
    BY <1>6
  <2>2. PICK i \in 1 .. o : id[i] = b
    BY <1>1, <2>1, Zenon
  <2>3. PICK k \in 1 .. m : from[k] = i
    BY <2>1, Zenon DEF Reshaped
  <2> QED BY <1>2, <2>2, <2>3, Zenon
<1>7. Lineage(new, layout, faults \cup {kind}, ov, id2)
  BY <1>3, <1>4, <1>5, <1>6, Zenon DEF Lineage
<1> QED BY <1>7, Zenon

\* So do records that change in place, as far as the kind of damage admits.
LEMMA FlipLineage ==
    ASSUME NEW recs \in Seq(Record), NEW new \in Seq(Record), NEW layout, NEW faults, NEW ov,
           NEW kind, NEW id, Lineage(recs, layout, faults, ov, id),
           Len(new) = Len(recs),
           \A k \in 1 .. Len(new) : \A b \in Dirty(ov) :
              Descends(recs[k], b, layout, faults, ov)
              => Descends(new[k], b, layout, faults \cup {kind}, ov)
    PROVE  Lineage(new, layout, faults \cup {kind}, ov, id)
<1>1. ASSUME NEW k \in 1 .. Len(new)
      PROVE  Descends(new[k], id[k], layout, faults \cup {kind}, ov)
  <2>1. id[k] \in Dirty(ov) /\ Descends(recs[k], id[k], layout, faults, ov)
    BY DEF Lineage
  <2> QED BY <2>1, Zenon
<1> QED BY <1>1 DEF Lineage
\* A damage elsewhere leaves the header as it was.
LEMMA HeaderKept ==
    ASSUME NEW b, NEW d, NEW faults, NEW kind, NEW ov, HeaderOf(b, faults, ov),
           d.layout = b.layout, d.hcrc = b.hcrc, d.tier = b.tier, d.count = b.count,
           d.magic = b.magic
    PROVE  HeaderOf(d, faults \cup {kind}, ov)
<1>1. \A f : f \notin faults \cup {kind} => f \notin faults
  OBVIOUS
<1> QED BY <1>1, Zenon DEF HeaderOf

\* And the tail.
LEMMA TailKept ==
    ASSUME NEW b, NEW d, NEW faults, NEW kind, NEW ov, TailOf(b, faults, ov), d.tail = b.tail
    PROVE  TailOf(d, faults \cup {kind}, ov)
<1>1. \A f : f \notin faults \cup {kind} => f \notin faults
  OBVIOUS
<1> QED BY <1>1, Zenon DEF TailOf

\* And the records.
LEMMA LineageKept ==
    ASSUME NEW b \in Blob, NEW d \in Blob, NEW faults, NEW kind, NEW ov,
           \E id : Lineage(b.recs, b.layout, faults, ov, id),
           d.recs = b.recs, d.layout = b.layout
    PROVE  \E id : Lineage(d.recs, d.layout, faults \cup {kind}, ov, id)
<1>1. b.recs \in Seq(Record)
  BY DEF Blob
<1>2. PICK id : Lineage(b.recs, b.layout, faults, ov, id)
  OBVIOUS
<1>3. ASSUME NEW k \in 1 .. Len(b.recs), NEW x \in Dirty(ov),
             Descends(b.recs[k], x, b.layout, faults, ov)
      PROVE  Descends(b.recs[k], x, b.layout, faults \cup {kind}, ov)
  BY <1>3, DescendsMonotone, Zenon
<1>4. Lineage(b.recs, b.layout, faults \cup {kind}, ov, id)
  BY <1>1, <1>2, <1>3, FlipLineage
<1> QED BY <1>4, Zenon

\* Records that are dropped, repeated or moved.
LEMMA ReshapeTraced ==
    ASSUME TypeOK, Traced(blob, faulted, origin), NEW kind, NEW d \in Blob,
           d.layout = blob.layout, d.hcrc = blob.hcrc, d.tier = blob.tier,
           d.count = blob.count, d.magic = blob.magic,
           TailOf(d, faulted \cup {kind}, origin),
           NEW from, Reshaped(blob.recs, d.recs, from, kind)
    PROVE  Traced(d, faulted \cup {kind}, origin)
<1>1. blob \in Blob /\ blob.recs \in Seq(Record) /\ d.recs \in Seq(Record)
  BY DEF TypeOK, Blob
<1>2. PICK id : Lineage(blob.recs, blob.layout, faulted, origin, id)
  BY DEF Traced
<1>3. \E id2 : Lineage(d.recs, blob.layout, faulted \cup {kind}, origin, id2)
  BY <1>1, <1>2, ReshapeLineage
<1>4. HeaderOf(d, faulted \cup {kind}, origin)
  BY HeaderKept DEF Traced
<1> QED BY <1>3, <1>4, Zenon DEF Traced

\* One record changes in place.
LEMMA FlipTraced ==
    ASSUME TypeOK, Traced(blob, faulted, origin), NEW kind, NEW i \in 1 .. Len(blob.recs),
           NEW r \in Record,
           \A x \in Dirty(origin) :
              Descends(blob.recs[i], x, blob.layout, faulted, origin)
              => Descends(r, x, blob.layout, faulted \cup {kind}, origin)
    PROVE  Traced([blob EXCEPT !.recs = [blob.recs EXCEPT ![i] = r]],
                  faulted \cup {kind}, origin)
<1> DEFINE recs == [blob.recs EXCEPT ![i] = r]
           d == [blob EXCEPT !.recs = recs]
<1>1. blob \in Blob /\ blob.recs \in Seq(Record)
  BY DEF TypeOK, Blob
<1>2. /\ recs \in Seq(Record) /\ Len(recs) = Len(blob.recs)
      /\ \A j \in 1 .. Len(blob.recs) : recs[j] = IF j = i THEN r ELSE blob.recs[j]
  BY <1>1, ExceptSeq
<1> HIDE DEF recs
<1>3. /\ d.recs = recs /\ d.layout = blob.layout /\ d.hcrc = blob.hcrc /\ d.tier = blob.tier
      /\ d.count = blob.count /\ d.magic = blob.magic /\ d.tail = blob.tail
  BY <1>1 DEF Blob
<1> HIDE DEF d
<1>4. PICK id : Lineage(blob.recs, blob.layout, faulted, origin, id)
  BY DEF Traced
<1>5. ASSUME NEW k \in 1 .. Len(recs), NEW x \in Dirty(origin),
             Descends(blob.recs[k], x, blob.layout, faulted, origin)
      PROVE  Descends(recs[k], x, blob.layout, faulted \cup {kind}, origin)
  <2>1. CASE k = i
    BY <1>2, <1>5, <2>1
  <2>2. CASE k # i
    BY <1>2, <1>5, <2>2, DescendsMonotone
  <2> QED BY <2>1, <2>2
<1>6. Lineage(recs, blob.layout, faulted \cup {kind}, origin, id)
  BY <1>1, <1>2, <1>4, <1>5, FlipLineage
<1>7. HeaderOf(d, faulted \cup {kind}, origin) /\ TailOf(d, faulted \cup {kind}, origin)
  BY <1>3, HeaderKept, TailKept DEF Traced
<1>8. Traced(d, faulted \cup {kind}, origin)
  BY <1>3, <1>6, <1>7, Zenon DEF Traced
<1> QED BY <1>8 DEF d, recs

\* The header or the tail changes.
LEMMA FieldTraced ==
    ASSUME TypeOK, Traced(blob, faulted, origin), NEW kind, NEW d \in Blob,
           d.recs = blob.recs, d.layout = blob.layout,
           HeaderOf(d, faulted \cup {kind}, origin), TailOf(d, faulted \cup {kind}, origin)
    PROVE  Traced(d, faulted \cup {kind}, origin)
<1>1. blob \in Blob /\ \E id : Lineage(blob.recs, blob.layout, faulted, origin, id)
  BY DEF TypeOK, Traced
<1>2. \E id : Lineage(d.recs, d.layout, faulted \cup {kind}, origin, id)
  BY <1>1, LineageKept
<1> QED BY <1>2, Zenon DEF Traced
\* Every damage of the medium keeps it.
LEMMA MediumTraced ==
    ASSUME TypeOK, Traced(blob, faulted, origin), Medium
    PROVE  Traced(blob', faulted', origin')
<1>1. blob \in Blob /\ blob.recs \in Seq(Record) /\ Len(blob.recs) \in Nat
  BY DEF TypeOK, Blob
<1>2. HeaderOf(blob, faulted, origin) /\ TailOf(blob, faulted, origin)
  BY DEF Traced
<1>3. ASSUME NEW i \in 1 .. Len(blob.recs) PROVE blob.recs[i] \in Record
  BY <1>1, ElementOfSeq
<1>4. ASSUME NEW kind, NEW d, Damage(kind, d), Traced(d, faulted \cup {kind}, origin)
      PROVE  Traced(blob', faulted', origin')
  BY <1>4 DEF Damage
<1>5. ASSUME NEW i \in 1 .. Len(blob.recs), NEW x \in WildIdx, FlipIndex(i, x)
      PROVE  Traced(blob', faulted', origin')
  <2> DEFINE r == [blob.recs[i] EXCEPT !.idx = x]
  <2>1. r \in Record /\ r.crc = blob.recs[i].crc /\ r.data = blob.recs[i].data
    BY <1>3, FormatAssumption DEF Record, WildIdx
  <2>2. Damage("index", [blob EXCEPT !.recs = [blob.recs EXCEPT ![i] = r]])
    BY <1>5 DEF FlipIndex
  <2> HIDE DEF r
  <2>3. ASSUME NEW y \in Dirty(origin), Descends(blob.recs[i], y, blob.layout, faulted, origin)
        PROVE  Descends(r, y, blob.layout, faulted \cup {"index"}, origin)
    BY <2>1, <2>3 DEF Descends
  <2> QED BY <1>4, <2>1, <2>2, <2>3, FlipTraced
<1>6. ASSUME NEW i \in 1 .. Len(blob.recs), NEW c \in Content, FlipData(i, c)
      PROVE  Traced(blob', faulted', origin')
  <2> DEFINE r == [blob.recs[i] EXCEPT !.data = c]
  <2>1. r \in Record /\ r.crc = blob.recs[i].crc /\ r.idx = blob.recs[i].idx
    BY <1>3 DEF Record
  <2>2. Damage("data", [blob EXCEPT !.recs = [blob.recs EXCEPT ![i] = r]])
    BY <1>6 DEF FlipData
  <2> HIDE DEF r
  <2>3. ASSUME NEW y \in Dirty(origin), Descends(blob.recs[i], y, blob.layout, faulted, origin)
        PROVE  Descends(r, y, blob.layout, faulted \cup {"data"}, origin)
    BY <2>1, <2>3 DEF Descends
  <2> QED BY <1>4, <2>1, <2>2, <2>3, FlipTraced
<1>7. ASSUME NEW i \in 1 .. Len(blob.recs), FlipCRC(i)
      PROVE  Traced(blob', faulted', origin')
  <2> DEFINE r == [blob.recs[i] EXCEPT !.crc = BadCrc]
  <2>1. r \in Record /\ r.crc = BadCrc /\ r.idx = blob.recs[i].idx /\ r.data = blob.recs[i].data
    BY <1>3 DEF Record
  <2>2. Damage("crc", [blob EXCEPT !.recs = [blob.recs EXCEPT ![i] = r]])
    BY <1>7 DEF FlipCRC
  <2> HIDE DEF r
  <2>3. ASSUME NEW y \in Dirty(origin), Descends(blob.recs[i], y, blob.layout, faulted, origin)
        PROVE  Descends(r, y, blob.layout, faulted \cup {"crc"}, origin)
    BY <2>1, <2>3 DEF Descends
  <2> QED BY <1>4, <2>1, <2>2, <2>3, FlipTraced
<1>8. ASSUME NEW i \in 1 .. Len(blob.recs), Truncate(i - 1)
      PROVE  Traced(blob', faulted', origin')
  <2> DEFINE recs == SubSeq(blob.recs, 1, i - 1)
             from == [k \in 1 .. (i - 1) |-> k]
  <2>1. PICK t \in {NoTail, ShortTail, IdxTail(blob.recs[(i - 1) + 1].idx)} :
          Damage("cut", [blob EXCEPT !.recs = recs, !.tail = t])
    BY <1>8 DEF Truncate
  <2>2. (i - 1) + 1 = i /\ blob.recs[i].idx \in Int
    BY <1>3 DEF Record
  <2>3. t \in [kind : {"none", "short", "index"}, idx : Int]
    BY <2>2 DEF NoTail, ShortTail, IdxTail
  <2>4. /\ recs \in Seq(Record) /\ Len(recs) = i - 1
        /\ \A j \in 1 .. (i - 1) : recs[j] = blob.recs[j]
    BY <1>1
  <2>5. Reshaped(blob.recs, recs, from, "cut")
    <3> HIDE DEF recs
    <3> QED BY <1>1, <2>4 DEF Reshaped
  <2> HIDE DEF recs, from
  <2> DEFINE d == [blob EXCEPT !.recs = recs, !.tail = t]
  <2>6. /\ d \in Blob /\ d.recs = recs /\ d.layout = blob.layout /\ d.hcrc = blob.hcrc
        /\ d.tier = blob.tier /\ d.count = blob.count /\ d.magic = blob.magic /\ d.tail = t
    BY <1>1, <2>3, <2>4 DEF Blob
  <2>7. Damage("cut", d)
    BY <2>1
  <2> HIDE DEF d
  <2>8. TailOf(d, faulted \cup {"cut"}, origin)
    <3>1. ASSUME "index" \notin faulted PROVE blob.recs[i].idx \in Dirty(origin)
      <4>1. PICK id : Lineage(blob.recs, blob.layout, faulted, origin, id)
        BY DEF Traced
      <4> QED BY <3>1, <4>1 DEF Lineage, Descends
    <3>2. t.kind = "index" => t.idx = blob.recs[i].idx
      BY <2>2, <2>1 DEF NoTail, ShortTail, IdxTail
    <3> QED BY <2>6, <3>1, <3>2 DEF TailOf
  <2> QED BY <1>4, <2>5, <2>6, <2>7, <2>8, ReshapeTraced
<1>9. ASSUME NEW i \in 1 .. Len(blob.recs), Duplicate(i)
      PROVE  Traced(blob', faulted', origin')
  <2> DEFINE recs == Append(blob.recs, blob.recs[i])
             from == [k \in 1 .. (Len(blob.recs) + 1) |-> IF k = Len(blob.recs) + 1 THEN i ELSE k]
             d == [blob EXCEPT !.recs = recs]
  <2>1. /\ recs \in Seq(Record) /\ Len(recs) = Len(blob.recs) + 1
        /\ \A j \in 1 .. Len(blob.recs) : recs[j] = blob.recs[j]
        /\ recs[Len(blob.recs) + 1] = blob.recs[i]
    BY <1>1, <1>3, AppendProperties
  <2>2. Damage("copy", d)
    BY <1>9 DEF Duplicate
  <2> HIDE DEF recs
  <2>3. Reshaped(blob.recs, recs, from, "copy")
    <3>1. from \in [1 .. Len(recs) -> 1 .. Len(blob.recs)]
      BY <1>1, <2>1
    <3>2. \A k \in 1 .. Len(recs) : recs[k] = blob.recs[from[k]]
      BY <1>1, <2>1
    <3>3. \A k \in 1 .. Len(blob.recs) : k \in 1 .. Len(recs) /\ from[k] = k
      BY <1>1, <2>1
    <3> HIDE DEF from
    <3> QED BY <3>1, <3>2, <3>3 DEF Reshaped
  <2>4. /\ d \in Blob /\ d.recs = recs /\ d.layout = blob.layout /\ d.hcrc = blob.hcrc
        /\ d.tier = blob.tier /\ d.count = blob.count /\ d.magic = blob.magic
        /\ d.tail = blob.tail
    BY <1>1, <2>1 DEF Blob
  <2> HIDE DEF d, from
  <2>5. TailOf(d, faulted \cup {"copy"}, origin)
    BY <1>2, <2>4, TailKept
  <2> QED BY <1>4, <2>2, <2>3, <2>4, <2>5, ReshapeTraced
<1>10. ASSUME NEW i \in 1 .. Len(blob.recs), NEW j \in (i + 1) .. Len(blob.recs), Swap(i, j)
       PROVE  Traced(blob', faulted', origin')
  <2> DEFINE one == [blob.recs EXCEPT ![i] = blob.recs[j]]
             recs == [one EXCEPT ![j] = blob.recs[i]]
             from == [k \in 1 .. Len(blob.recs) |-> IF k = i THEN j ELSE IF k = j THEN i ELSE k]
             d == [blob EXCEPT !.recs = recs]
  <2>1. i \in 1 .. Len(blob.recs) /\ j \in 1 .. Len(blob.recs) /\ i # j
    BY <1>1
  <2>2. /\ one \in Seq(Record) /\ Len(one) = Len(blob.recs)
        /\ \A k \in 1 .. Len(blob.recs) :
              one[k] = IF k = i THEN blob.recs[j] ELSE blob.recs[k]
    BY <1>1, <1>3, <2>1, ExceptSeq
  <2>3. Damage("swap", d)
    BY <1>10 DEF Swap
  <2> HIDE DEF one
  <2>4. /\ recs \in Seq(Record) /\ Len(recs) = Len(blob.recs)
        /\ \A k \in 1 .. Len(blob.recs) :
              recs[k] = IF k = j THEN blob.recs[i] ELSE one[k]
    BY <1>3, <2>1, <2>2, ExceptSeq
  <2> HIDE DEF recs
  <2>5. /\ d \in Blob /\ d.recs = recs /\ d.layout = blob.layout /\ d.hcrc = blob.hcrc
        /\ d.tier = blob.tier /\ d.count = blob.count /\ d.magic = blob.magic
        /\ d.tail = blob.tail
    BY <1>1, <2>4 DEF Blob
  <2>6. Reshaped(blob.recs, recs, from, "swap")
    <3>1. from \in [1 .. Len(recs) -> 1 .. Len(blob.recs)]
      BY <2>1, <2>4
    <3>2. \A k \in 1 .. Len(recs) : recs[k] = blob.recs[from[k]]
      BY <2>1, <2>2, <2>4
    <3>3. \A k, l \in 1 .. Len(recs) : from[k] = from[l] => k = l
      BY <2>1, <2>4
    <3>4. ASSUME NEW k \in 1 .. Len(blob.recs)
          PROVE  \E l \in 1 .. Len(recs) : from[l] = k
      <4>1. from[i] = j /\ from[j] = i /\ (k # i /\ k # j => from[k] = k)
        BY <2>1
      <4> HIDE DEF from
      <4> QED BY <2>1, <2>4, <4>1
    <3> HIDE DEF from
    <3> QED BY <3>1, <3>2, <3>3, <3>4 DEF Reshaped
  <2> HIDE DEF d, from
  <2>7. TailOf(d, faulted \cup {"swap"}, origin)
    BY <1>2, <2>5, TailKept
  <2> QED BY <1>4, <2>3, <2>5, <2>6, <2>7, ReshapeTraced
<1>11. ASSUME NEW kind \in {"index", "surplus"},
              NEW t \in [kind : {"none", "short", "index"}, idx : Int],
              kind = "index" => blob.tail.kind = "index",
              Damage(kind, [blob EXCEPT !.tail = t])
       PROVE  Traced(blob', faulted', origin')
  <2> DEFINE d == [blob EXCEPT !.tail = t]
  <2>1. /\ d \in Blob /\ d.recs = blob.recs /\ d.layout = blob.layout /\ d.hcrc = blob.hcrc
        /\ d.tier = blob.tier /\ d.count = blob.count /\ d.magic = blob.magic /\ d.tail = t
    BY <1>1 DEF Blob
  <2> HIDE DEF d
  <2>2. Damage(kind, d)
    BY <1>11 DEF d
  <2>3. HeaderOf(d, faulted \cup {kind}, origin)
    BY <1>2, <2>1, HeaderKept
  <2>4. TailOf(d, faulted \cup {kind}, origin)
    BY <1>2, <1>11 DEF TailOf, NoTail
  <2> QED BY <1>4, <2>1, <2>2, <2>3, <2>4, FieldTraced
<1>12. ASSUME NEW x \in WildIdx, FlipTail(x) \/ Trail(IdxTail(x))
       PROVE  Traced(blob', faulted', origin')
  <2>1. IdxTail(x) \in [kind : {"none", "short", "index"}, idx : Int]
    BY FormatAssumption DEF IdxTail, WildIdx
  <2> QED BY <1>11, <1>12, <2>1 DEF FlipTail, Trail
<1>13. ASSUME Trail(ShortTail) PROVE Traced(blob', faulted', origin')
  <2>1. ShortTail \in [kind : {"none", "short", "index"}, idx : Int]
    BY DEF ShortTail
  <2> QED BY <1>11, <1>13, <2>1 DEF Trail
<1>14. ASSUME NEW kind \in {"header", "magic"}, NEW d \in Blob, Damage(kind, d),
              d.recs = blob.recs, d.layout = blob.layout, d.tail = blob.tail,
              d.hcrc \in {blob.hcrc, BadCrc},
              kind = "header" => d.magic = blob.magic,
              kind = "magic" => d.tier = blob.tier /\ d.count = blob.count /\ d.hcrc = blob.hcrc
       PROVE  Traced(blob', faulted', origin')
  <2>1. HeaderOf(d, faulted \cup {kind}, origin)
    BY <1>2, <1>14 DEF HeaderOf
  <2>2. TailOf(d, faulted \cup {kind}, origin)
    BY <1>2, <1>14, TailKept
  <2> QED BY <1>4, <1>14, <2>1, <2>2, FieldTraced
<1>15. ASSUME NEW t \in WildTier, FlipTier(t) PROVE Traced(blob', faulted', origin')
  <2> DEFINE d == [blob EXCEPT !.tier = t]
  <2>1. /\ d \in Blob /\ d.recs = blob.recs /\ d.layout = blob.layout /\ d.tail = blob.tail
        /\ d.hcrc = blob.hcrc /\ d.magic = blob.magic
    BY <1>1 DEF Blob, WildTier
  <2>2. Damage("header", d)
    BY <1>15 DEF FlipTier
  <2> HIDE DEF d
  <2> QED BY <1>14, <2>1, <2>2
<1>16. ASSUME NEW k \in 0 .. (NBlocks + 1), FlipCount(k) PROVE Traced(blob', faulted', origin')
  <2> DEFINE d == [blob EXCEPT !.count = k]
  <2>1. /\ d \in Blob /\ d.recs = blob.recs /\ d.layout = blob.layout /\ d.tail = blob.tail
        /\ d.hcrc = blob.hcrc /\ d.magic = blob.magic
    BY <1>1, FormatAssumption DEF Blob
  <2>2. Damage("header", d)
    BY <1>16 DEF FlipCount
  <2> HIDE DEF d
  <2> QED BY <1>14, <2>1, <2>2
<1>17. ASSUME FlipHeaderCRC PROVE Traced(blob', faulted', origin')
  <2> DEFINE d == [blob EXCEPT !.hcrc = BadCrc]
  <2>1. /\ d \in Blob /\ d.recs = blob.recs /\ d.layout = blob.layout /\ d.tail = blob.tail
        /\ d.hcrc = BadCrc /\ d.magic = blob.magic
    BY <1>1 DEF Blob
  <2>2. Damage("header", d)
    BY <1>17 DEF FlipHeaderCRC
  <2> HIDE DEF d
  <2> QED BY <1>14, <2>1, <2>2
<1>18. ASSUME LoseMagic PROVE Traced(blob', faulted', origin')
  <2> DEFINE d == [blob EXCEPT !.magic = FALSE]
  <2>1. /\ d \in Blob /\ d.recs = blob.recs /\ d.layout = blob.layout /\ d.tail = blob.tail
        /\ d.hcrc = blob.hcrc /\ d.tier = blob.tier /\ d.count = blob.count
    BY <1>1 DEF Blob
  <2>2. Damage("magic", d)
    BY <1>18 DEF LoseMagic
  <2> HIDE DEF d
  <2> QED BY <1>14, <2>1, <2>2
<1> QED
  BY <1>5, <1>6, <1>7, <1>8, <1>9, <1>10, <1>12, <1>13, <1>15, <1>16, <1>17, <1>18
  DEF Medium

\* The blob of a device nobody has written.
LEMMA FirstTraced == Traced(FirstBlob, {}, Empty)
<1>1. Dirty(Empty) = {} /\ Cardinality(Dirty(Empty)) = 0
  BY EmptyType, FS_EmptySet DEF Dirty
<1>2. /\ FirstBlob.recs = <<>> /\ FirstBlob.layout = TierL0 /\ FirstBlob.tier = TierL0
      /\ FirstBlob.count = 0 /\ FirstBlob.hcrc = HeaderCrc(TierL0, 0)
      /\ FirstBlob.magic = TRUE /\ FirstBlob.tail = NoTail
  BY DEF FirstBlob
<1> DEFINE id == [i \in {} |-> 0]
<1>3. Lineage(FirstBlob.recs, FirstBlob.layout, {}, Empty, id)
  <2>1. 1 .. Len(FirstBlob.recs) = {}
    BY <1>2, EmptySeq
  <2>2. id \in [{} -> Dirty(Empty)]
    OBVIOUS
  <2> QED BY <1>1, <2>1, <2>2 DEF Lineage
<1>4. HeaderOf(FirstBlob, {}, Empty) /\ TailOf(FirstBlob, {}, Empty)
  BY <1>1, <1>2 DEF HeaderOf, TailOf, NoTail
<1> QED BY <1>3, <1>4, Zenon DEF Traced

\* The initial state has the invariant.
LEMMA InitLInv == Init => LInv
BY FirstTraced DEF Init, LInv

\* Every step keeps it.
LEMMA NextLInv == TypeOK /\ LInv /\ [Next]_vars => LInv'
<1> SUFFICES ASSUME TypeOK, LInv, [Next]_vars PROVE LInv'
  OBVIOUS
<1>1. ASSUME NEW b \in Block, NEW c \in Content, Write(b, c) PROVE LInv'
  BY <1>1 DEF Write, LInv
<1>2. ASSUME NEW tier \in {TierL0, TierL1}, Pause(tier) PROVE LInv'
  <2>1. blob' \in SerializeTier(over, tier) /\ over \in Overlay
    BY <1>2 DEF Pause, TypeOK
  <2>2. Traced(blob', {}, over)
    BY <2>1, SerializeTraced, Zenon
  <2> QED BY <1>2, <2>2 DEF Pause, LInv
<1>3. CASE Medium
  <2>1. Traced(blob', faulted', origin')
    BY <1>3, MediumTraced DEF LInv
  <2>2. phase' = "stored"
    BY <1>3 DEF Medium, FlipIndex, FlipData, FlipCRC, Truncate, Duplicate, Swap, FlipTail,
                Trail, FlipTier, FlipCount, FlipHeaderCRC, LoseMagic, Damage
  <2> QED BY <2>1, <2>2 DEF LInv
<1>4. ASSUME NEW maxBlock \in ResumeBases, Resume(maxBlock) PROVE LInv'
  BY <1>4 DEF Resume, LInv
<1>5. CASE Continue
  BY <1>5, FirstTraced DEF Continue, LInv
<1>6. CASE UNCHANGED vars
  BY <1>6 DEF vars, LInv
<1> QED BY <1>1, <1>2, <1>3, <1>4, <1>5, <1>6 DEF Next

\* The invariant holds throughout.
LEMMA SpecLInv == Spec => [](TypeOK /\ LInv)
<1>1. PInv => TypeOK
  BY DEF PInv
<1> QED BY <1>1, InitLInv, NextLInv, SpecPInv, PTL DEF Spec
-----------------------------------------------------------------------------
(* What a verdict is worth. *)

\* As many records as dirty blocks: unless records were copied and others cut
\* off, each dirty block has one.
LEMMA EachBlockHasRecord ==
    ASSUME NEW b \in Blob, NEW faults, NEW ov, NEW id,
           Lineage(b.recs, b.layout, faults, ov, id),
           Len(b.recs) = Cardinality(Dirty(ov)),
           "copy" \notin faults \/ "cut" \notin faults, NEW x \in Dirty(ov)
    PROVE  \E i \in 1 .. Len(b.recs) : id[i] = x
<1> DEFINE n == Len(b.recs)
<1>1. CASE "cut" \notin faults
  BY <1>1 DEF Lineage
<1>2. CASE "copy" \notin faults
  <2>1. n \in Nat /\ IsFiniteSet(Dirty(ov))
    BY DirtyFinite DEF Blob
  <2>2. id \in Injection(1 .. n, Dirty(ov))
    BY <1>2 DEF Lineage, Injection, IsInjective
  <2>3. Cardinality(1 .. n) = n
    BY <2>1, FS_Interval
  <2>4. id \in Surjection(1 .. n, Dirty(ov))
    BY <2>1, <2>2, <2>3, FS_Injection
  <2> QED BY <2>4 DEF Surjection
<1> QED BY <1>1, <1>2

\* A body that is complete and undamaged but for the order of its records.
LEMMA IntactBody ==
    ASSUME PInv, LInv, phase = "resumed", faulted \subseteq {"swap", "header"}, BaseLargeEnough
    PROVE  /\ Len(blob.recs) = Cardinality(Dirty(origin)) /\ blob.tail = NoTail /\ blob.magic
           /\ \A i \in 1 .. Len(blob.recs) : /\ blob.recs[i].idx \in Dirty(origin)
                                             /\ Verifies(blob.recs[i], blob.layout)
                                             /\ InBase(blob.recs[i].idx, base)
           /\ \A x \in Dirty(origin) : \E i \in 1 .. Len(blob.recs) : blob.recs[i].idx = x
<1>1. PICK id : Lineage(blob.recs, blob.layout, faulted, origin, id)
  BY DEF LInv, Traced
<1>2. \A f \in {"index", "data", "crc", "cut", "surplus", "copy", "magic"} : f \notin faulted
  OBVIOUS
<1>3. blob.tail = NoTail /\ blob.magic
  BY <1>2 DEF LInv, Traced, TailOf, HeaderOf
<1>4. ASSUME NEW i \in 1 .. Len(blob.recs)
      PROVE  /\ blob.recs[i].idx = id[i] /\ id[i] \in Dirty(origin)
             /\ Verifies(blob.recs[i], blob.layout)
             /\ InBase(blob.recs[i].idx, base)
  <2>1. id[i] \in Dirty(origin) /\ Descends(blob.recs[i], id[i], blob.layout, faulted, origin)
    BY <1>1 DEF Lineage
  <2>2. /\ blob.recs[i].idx = id[i]
        /\ Verifies(blob.recs[i], blob.layout)
    BY <1>2, <2>1 DEF Descends, Verifies
  <2>3. id[i] < base /\ 0 <= id[i]
    BY <2>1 DEF BaseLargeEnough, Dirty, Block
  <2> QED BY <2>1, <2>2, <2>3 DEF InBase
<1>5. \A x \in Dirty(origin) : \E i \in 1 .. Len(blob.recs) : id[i] = x
  BY <1>1, <1>2 DEF Lineage
<1>6. Len(blob.recs) = Cardinality(Dirty(origin))
  <2> DEFINE n == Len(blob.recs)
  <2>1. n \in Nat
    BY DEF PInv, TypeOK, Blob
  <2>2. id \in [1 .. n -> Dirty(origin)] /\ \A i, j \in 1 .. n : id[i] = id[j] => i = j
    BY <1>1, <1>2 DEF Lineage
  <2> HIDE DEF n
  <2>3. id \in Injection(1 .. n, Dirty(origin)) /\ id \in Surjection(1 .. n, Dirty(origin))
    BY <1>5, <2>2 DEF Injection, IsInjective, Surjection, n
  <2>4. ExistsBijection(1 .. n, Dirty(origin))
    BY <2>3 DEF ExistsBijection, Bijection
  <2> QED BY <2>1, <2>4, FS_CountingElements DEF n
<1> QED BY <1>3, <1>4, <1>5, <1>6

\* Records that only changed places restore the device without an error.
LEMMA ReorderFollows == PInv /\ LInv => ReorderHarmless
<1> SUFFICES ASSUME PInv, LInv, phase = "resumed", faulted \subseteq {"swap"}, BaseLargeEnough
             PROVE  res.err = "nil" /\ res.over = origin
  BY DEF ReorderHarmless
<1>1. /\ Len(blob.recs) = Cardinality(Dirty(origin)) /\ blob.tail = NoTail /\ blob.magic
      /\ \A i \in 1 .. Len(blob.recs) : /\ Verifies(blob.recs[i], blob.layout)
                                        /\ InBase(blob.recs[i].idx, base)
      /\ \A x \in Dirty(origin) : \E i \in 1 .. Len(blob.recs) : blob.recs[i].idx = x
  BY IntactBody
<1>2. /\ blob \in Blob /\ origin \in Overlay /\ blob.layout \in {TierL0, TierL1}
      /\ res = Deserialize(blob, base)
  BY DEF PInv, TypeOK, LInv, Blob
<1>3. "header" \notin faulted
  OBVIOUS
<1>4. headerIntact(blob) /\ blob.tier = blob.layout /\ blob.count = Len(blob.recs)
  BY <1>1, <1>3 DEF LInv, Traced, HeaderOf, headerIntact
<1>5. res.err = "nil" /\ res.over = restored(blob.recs, 1 .. Len(blob.recs))
  BY <1>1, <1>2, <1>4, WholeMeansNil
<1>6. ContentProtected
  BY DEF ContentProtected
<1>7. \A x \in Block : res.over[x] \in {origin[x], NoData}
  BY <1>6 DEF PInv, NeverFabricates
<1>8. res.over = origin
  <2>1. 1 .. Len(blob.recs) \in SUBSET (1 .. Len(blob.recs))
    OBVIOUS
  <2> QED BY <1>1, <1>2, <1>5, <1>7, <2>1, AllAppliedIsExact
<1> QED BY <1>5, <1>8

\* Without a header the records of an L1 blob restore the device.
LEMMA ExpendableFollows == PInv /\ LInv => HeaderExpendable
<1> SUFFICES ASSUME PInv, LInv, phase = "resumed", faulted \subseteq {"swap", "header"},
                    BaseLargeEnough, Dirty(origin) # {},
                    blob.layout = TierL1, blob.tier \notin {TierL0, TierL2}
             PROVE  res.over = origin /\ res.err \in {"nil", "Partial"}
  BY DEF HeaderExpendable
<1>1. /\ Len(blob.recs) = Cardinality(Dirty(origin)) /\ blob.tail = NoTail /\ blob.magic
      /\ \A i \in 1 .. Len(blob.recs) : /\ Verifies(blob.recs[i], blob.layout)
                                        /\ InBase(blob.recs[i].idx, base)
      /\ \A x \in Dirty(origin) : \E i \in 1 .. Len(blob.recs) : blob.recs[i].idx = x
  BY IntactBody
<1>2. /\ blob \in Blob /\ origin \in Overlay /\ blob.tier \in Nat
      /\ res = Deserialize(blob, base)
  BY DEF PInv, TypeOK, LInv, Blob
<1>3. ContentProtected
  BY DEF ContentProtected
<1>4. \A x \in Block : res.over[x] \in {origin[x], NoData}
  BY <1>3 DEF PInv, NeverFabricates
<1>5. CASE headerIntact(blob)
  <2>1. blob.tier = TierL1 /\ blob.count = Len(blob.recs)
    BY <1>1, <1>5 DEF LInv, Traced, HeaderOf, headerIntact, HeaderCrc, BadCrc
  <2>2. res.err = "nil" /\ res.over = restored(blob.recs, 1 .. Len(blob.recs))
    BY <1>1, <1>2, <1>5, <2>1, WholeMeansNil
  <2>3. res.over = origin
    BY <1>1, <1>2, <1>4, <2>2, AllAppliedIsExact
  <2> QED BY <2>2, <2>3
<1>6. CASE ~headerIntact(blob)
  <2> DEFINE at == appliedAt(blob.recs, TierL1, Len(blob.recs), base)
  <2>1. fallback(blob)
    BY <1>2 DEF fallback, TierL0, TierL1, TierL2
  <2>2. at = 1 .. Len(blob.recs)
    BY <1>1 DEF appliedAt
  <2>3. at # {}
    BY <1>1, <2>2
  <2>4. res = deserializeHeaderless(blob, base)
    BY <1>1, <1>2, <1>6, <2>1 DEF Deserialize
  <2>5. res.err = "Partial" /\ res.over = restored(blob.recs, 1 .. Len(blob.recs))
    BY <1>1, <2>2, <2>3, <2>4 DEF deserializeHeaderless
  <2>6. res.over = origin
    BY <1>1, <1>2, <1>4, <2>5, AllAppliedIsExact
  <2> QED BY <2>5, <2>6
<1> QED BY <1>5, <1>6

\* A blamed block was in the delta and is not restored.
LEMMA BlameFollows == PInv /\ LInv => BlameIsTrue
<1> SUFFICES ASSUME PInv, LInv, phase = "resumed", faulted \cap {"index", "surplus"} = {},
                    NEW x \in res.bad
             PROVE  origin[x] # NoData /\ res.over[x] = NoData
  BY DEF BlameIsTrue
<1>1. res = Deserialize(blob, base) /\ blob \in Blob /\ base \in 0 .. NBlocks
  BY DEF LInv, PInv, TypeOK
<1>2. Corrupt.bad = {} /\ UnsupportedTier.bad = {}
  BY DEF Corrupt, UnsupportedTier
<1>3. deserializeHeaderless(blob, base).bad = {}
  BY <1>2 DEF deserializeHeaderless
<1>4. res = applyRecords(blob.recs, blob.tail, blob.tier, blob.count, base)
  BY <1>1, <1>2, <1>3 DEF Deserialize
<1> DEFINE ext == Extent(blob.recs, blob.tail, blob.count, base)
           got == restored(blob.recs, appliedAt(blob.recs, blob.tier, ext.n, base))
<1>5. res.over = got /\ res.bad = ext.tail \ Dirty(got)
  <2>1. /\ ext = Extent(blob.recs, blob.tail, blob.count, base)
        /\ got = restored(blob.recs, appliedAt(blob.recs, blob.tier, ext.n, base))
    OBVIOUS
  <2> HIDE DEF ext, got
  <2> QED BY <1>4, <2>1, ApplyVerdict
<1>6. x \in ext.tail /\ x \notin Dirty(got)
  BY <1>5
<1>7. x \in Block /\ got[x] = NoData
  <2>1. ext.tail \subseteq Block
    BY <1>1, ExtentType
  <2> QED BY <1>6, <2>1 DEF Dirty
<1>8. x \in Dirty(origin)
  <2>1. CASE Len(blob.recs) >= blob.count
    BY <1>6, <2>1, ExtentFull
  <2>2. CASE ~(Len(blob.recs) >= blob.count)
    <3>1. blob.tail.kind = "index" /\ x = blob.tail.idx
      BY <1>6, <2>2, ExtentShort
    <3> QED BY <3>1 DEF LInv, Traced, TailOf
  <2> QED BY <2>1, <2>2
<1> QED BY <1>5, <1>7, <1>8 DEF Dirty
\* Behind a nil error, the block each record was made from is restored.
LEMMA NilRestoresEach ==
    ASSUME PInv, LInv, phase = "resumed", res.err = "nil", ContentProtected,
           ~("index" \in faulted /\ "data" \in faulted),
           "index" \in faulted =>
              \A b, c \in Dirty(origin) : origin[b] = origin[c] => b = c,
           NEW id, Lineage(blob.recs, blob.layout, faulted, origin, id),
           NEW i \in 1 .. Len(blob.recs)
    PROVE  res.over[id[i]] # NoData
<1> DEFINE r == blob.recs[i]
           at == appliedAt(blob.recs, blob.tier, Len(blob.recs), base)
<1>1. /\ blob \in Blob /\ base \in 0 .. NBlocks /\ res = Deserialize(blob, base)
      /\ blob.recs \in Seq(Record) /\ blob.layout \in {TierL0, TierL1}
  BY DEF PInv, TypeOK, LInv, Blob
<1>2. /\ headerIntact(blob) /\ blob.tier \in {TierL0, TierL1}
      /\ res.over = restored(blob.recs, at)
      /\ ~Foreign(blob.recs, blob.tier, Len(blob.recs), base)
      /\ ~Failing(blob.recs, blob.tier, Len(blob.recs), res.over, base)
  BY <1>1, NilMeans
<1>3. blob.tier = blob.layout
  BY <1>2 DEF LInv, Traced, HeaderOf, headerIntact, HeaderCrc, BadCrc
<1>4. r \in Record /\ r.data \in Content /\ r.idx \in Int
  <2>1. r \in Record
    BY <1>1, ElementOfSeq
  <2> QED BY <2>1 DEF Record
<1>5. /\ id[i] \in Dirty(origin) /\ id[i] \in Block /\ origin[id[i]] # NoData
      /\ Descends(r, id[i], blob.layout, faulted, origin)
  BY DEF Lineage, Dirty
<1>6. ASSUME Verifies(r, blob.tier) PROVE res.over[id[i]] # NoData
  <2>1. r.idx = id[i]
    <3>1. CASE blob.layout = TierL1
      <4>1. r.crc = <<r.idx, r.data>> /\ (r.crc = <<>> \/ r.crc = <<id[i], origin[id[i]]>>)
        BY <1>3, <1>5, <1>6, <3>1 DEF Verifies, Descends, Crc, BadCrc
      <4> QED BY <4>1
    <3>2. CASE blob.layout # TierL1
      BY <1>5, <3>2 DEF Descends, ContentProtected
    <3> QED BY <3>1, <3>2
  <2>2. InBase(r.idx, base)
    BY <1>2, <1>6 DEF Foreign
  <2>3. i \in at /\ at \in SUBSET (1 .. Len(blob.recs))
    BY <1>6, <2>2 DEF appliedAt
  <2> QED BY <1>1, <1>2, <1>5, <2>1, <2>3, RestoredCovers
<1>7. ASSUME ~Verifies(r, blob.tier) PROVE res.over[id[i]] # NoData
  <2>1. InBase(r.idx, base) /\ res.over[r.idx] = r.data
    BY <1>2, <1>7 DEF Failing, suppressed
  <2>2. r.idx \in Block /\ res.over[r.idx] # NoData
    BY <1>1, <1>4, <2>1, FormatAssumption DEF InBase, Block
  <2>3. r.idx = id[i]
    <3>1. CASE "index" \notin faulted
      BY <1>5, <3>1 DEF Descends
    <3>2. CASE "index" \in faulted
      <4>1. r.data = origin[id[i]]
        BY <1>5, <3>2 DEF Descends
      <4>2. res.over[r.idx] \in {origin[r.idx], NoData}
        BY <2>2 DEF PInv, NeverFabricates
      <4>3. r.idx \in Dirty(origin) /\ origin[r.idx] = origin[id[i]]
        BY <1>5, <2>1, <2>2, <4>1, <4>2 DEF Dirty
      <4> QED BY <1>5, <3>2, <4>3
    <3> QED BY <3>1, <3>2
  <2> QED BY <2>2, <2>3
<1> QED BY <1>6, <1>7

\* A nil error means that nothing was lost.
LEMMA SilentFollows == PInv /\ LInv => SilentMeansExact
<1> SUFFICES ASSUME PInv, LInv, phase = "resumed", res.err = "nil", ContentProtected,
                    ~("index" \in faulted /\ "data" \in faulted),
                    ~(/\ "index" \in faulted
                      /\ \E b, c \in Dirty(origin) : b # c /\ origin[b] = origin[c]),
                    ~("copy" \in faulted /\ "cut" \in faulted)
             PROVE  res.over = origin
  BY DEF SilentMeansExact
<1>1. /\ blob \in Blob /\ base \in 0 .. NBlocks /\ res = Deserialize(blob, base)
      /\ res.over \in Overlay /\ origin \in Overlay
  BY DEF PInv, TypeOK, LInv, Result
<1>2. PICK id : Lineage(blob.recs, blob.layout, faulted, origin, id)
  BY DEF LInv, Traced
<1>3. headerIntact(blob) /\ Len(blob.recs) = blob.count
  BY <1>1, NilMeans
<1>4. Len(blob.recs) = Cardinality(Dirty(origin))
  BY <1>3 DEF LInv, Traced, HeaderOf, headerIntact, HeaderCrc, BadCrc
<1>5. \A i \in 1 .. Len(blob.recs) : res.over[id[i]] # NoData
  <2> TAKE i \in 1 .. Len(blob.recs)
  <2>1. "index" \in faulted => \A b, c \in Dirty(origin) : origin[b] = origin[c] => b = c
    OBVIOUS
  <2> QED BY <1>2, <2>1, NilRestoresEach
<1>6. ASSUME NEW x \in Dirty(origin) PROVE res.over[x] # NoData
  <2>1. PICK i \in 1 .. Len(blob.recs) : id[i] = x
    BY <1>1, <1>2, <1>4, EachBlockHasRecord
  <2> QED BY <1>5, <2>1
<1>7. \A x \in Block : res.over[x] \in {origin[x], NoData}
  BY DEF PInv, NeverFabricates
<1> QED BY <1>1, <1>6, <1>7, TrueAndComplete

-----------------------------------------------------------------------------
(* Theorems about Deserialize. *)

\* Both invariants hold throughout.
LEMMA SpecBoth == Spec => [](PInv /\ LInv)
BY SpecPInv, SpecLInv, PTL

\* A nil error from Deserialize means that nothing was lost, but for the
\* windows the documentation of PartialRecoveryError grants: a CRC-failed
\* record passes as a repetition only if it is one, and no record that is
\* missing goes unnoticed.
THEOREM SilenceIsExact == Spec => []SilentMeansExact
BY SpecBoth, SilentFollows, PTL

\* BadBlocks of PartialRecoveryError never names a block that was not in the
\* delta or that was restored after all.
THEOREM BlameIsAlwaysTrue == Spec => []BlameIsTrue
BY SpecBoth, BlameFollows, PTL

\* Deserialize does not depend on the order of the records.
THEOREM OrderDoesNotMatter == Spec => []ReorderHarmless
BY SpecBoth, ReorderFollows, PTL

\* The scan behind a broken header recovers every block of an L1 blob.
THEOREM HeaderIsExpendable == Spec => []HeaderExpendable
BY SpecBoth, ExpendableFollows, PTL
-----------------------------------------------------------------------------
(* The two verdicts. *)

\* Every verdict of Deserialize concurs with Inspect's.
LEMMA InspectFollows == TypeOK /\ LInv => InspectAgrees /\ InspectReportsLoss
<1> SUFFICES ASSUME TypeOK, LInv, phase = "resumed"
             PROVE  InspectAgrees /\ InspectReportsLoss
  BY DEF InspectAgrees, InspectReportsLoss
<1>1. PICK b, maxBlock, d : b = blob /\ maxBlock = base /\ d = res
  OBVIOUS
<1>2. b \in Blob /\ maxBlock \in 0 .. NBlocks /\ d = Deserialize(b, maxBlock)
  BY <1>1 DEF TypeOK, LInv
<1>3. Concur(b, maxBlock, d, Inspect(b))
  BY <1>2, VerdictsConcur
<1>4. IndicesWithin(b, maxBlock) <=> IndicesInBase
  BY <1>1 DEF IndicesWithin, IndicesInBase
<1>5. Concur(blob, base, res, Inspect(blob)) /\ (IndicesWithin(blob, base) <=> IndicesInBase)
  BY <1>1, <1>3, <1>4
<1> QED BY <1>5 DEF InspectAgrees, InspectReportsLoss, Concur

\* Inspect and Deserialize, two copies of the same rules, agree on which blobs
\* are usable and which are whole.
THEOREM InspectAlwaysAgrees == Spec => []InspectAgrees
BY SpecLInv, InspectFollows, PTL

\* Inspect reports at least the loss Deserialize reports.
THEOREM InspectMissesNoLoss == Spec => []InspectReportsLoss
BY SpecLInv, InspectFollows, PTL
=============================================================================
