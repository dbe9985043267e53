---------------------------- MODULE FormatProofs ----------------------------
(***************************************************************************)
(* What the operators of DeltaFormat, DeltaInspect and RSFormat compute:   *)
(* the lemmas that the proofs about the two cycles and about the commands  *)
(* rest on. The first half is about the tiers L0 and L1. In the second,    *)
(* what SerializeRS wrote is followed through the shards, their places and *)
(* their reconstruction to every record that deserializeRS and inspectRS   *)
(* read.                                                                   *)
(***************************************************************************)
EXTENDS RSFormat, FiniteSetTheorems, SequenceTheorems, WellFoundedInduction, TLAPS

-----------------------------------------------------------------------------
(* The records that are applied. *)

\* A set of positions that is not empty has a largest one.
LEMMA LargestExists ==
    ASSUME NEW m \in Nat, NEW S \in SUBSET (1 .. m), S # {}
    PROVE  Largest(S) \in S
<1> DEFINE Above(i) == {j \in S : i < j}
           T == {Above(i) : i \in S}
           R == StrictSubsetOrdering(S)
<1>1. IsFiniteSet(S)
  <2>1. IsFiniteSet(1 .. m)
    BY FS_Interval, SMT
  <2> QED BY <2>1, FS_Subset, Zenon
<1>2. T \subseteq FiniteSubsetsOf(S) /\ T # {}
  <2>1. FiniteSubsetsOf(S) = SUBSET S
    BY <1>1, FS_FiniteSubsetsOfFinite, Zenon
  <2>2. T \subseteq SUBSET S /\ T # {}
    OBVIOUS
  <2> QED BY <2>1, <2>2
<1>3. IsWellFoundedOn(R, FiniteSubsetsOf(S))
  BY FS_StrictSubsetOrderingWellFounded
<1>4. PICK x \in T : \A y \in T : ~(<<y, x>> \in R)
  <2> HIDE DEF T, R
  <2> QED BY <1>2, <1>3, WFMin
<1>5. PICK i \in S : x = Above(i)
  BY <1>4
<1>6. ASSUME NEW j \in S, ~(j <= i) PROVE FALSE
  <2>1. i \in Int /\ j \in Int /\ i < j
    BY <1>6, <1>5
  <2>2. ASSUME NEW k \in Above(j) PROVE k \in Above(i)
    BY <2>1
  <2>3. j \in Above(i) /\ j \notin Above(j)
    BY <2>1
  <2>4. <<Above(j), Above(i)>> \in R
    BY <2>2, <2>3, Zenon DEF StrictSubsetOrdering
  <2> QED BY <1>4, <1>5, <2>4
<1> QED BY <1>5, <1>6 DEF Largest

\* A restored block carries the data of an applied record that names it.
LEMMA RestoredFromRecord ==
    ASSUME NEW recs, NEW m \in Nat, NEW at \in SUBSET (1 .. m), NEW b \in Block
    PROVE  \/ restored(recs, at)[b] = NoData
           \/ \E i \in at : recs[i].idx = b /\ restored(recs, at)[b] = recs[i].data
<1> DEFINE named == {i \in at : recs[i].idx = b}
<1>1. restored(recs, at)[b] = IF named = {} THEN NoData
                              ELSE recs[Largest(named)].data
  BY DEF restored
<1>2. named # {} => Largest(named) \in named
  BY LargestExists
<1> QED BY <1>1, <1>2

\* The same for the records of a blob.
LEMMA RestoredFromBlob ==
    ASSUME NEW b \in Blob, NEW at \in SUBSET (1 .. Len(b.recs)), NEW x \in Block
    PROVE  \/ restored(b.recs, at)[x] = NoData
           \/ \E i \in at : /\ b.recs[i].idx = x
                            /\ restored(b.recs, at)[x] = b.recs[i].data
<1>1. Len(b.recs) \in Nat
  BY LenProperties DEF Blob
<1> QED BY <1>1, RestoredFromRecord

\* Records with data in Content restore an overlay.
LEMMA RestoredContent ==
    ASSUME NEW recs, NEW m \in Nat, NEW at \in SUBSET (1 .. m),
           \A i \in at : recs[i].data \in Content
    PROVE  restored(recs, at) \in Overlay
<1>1. \A b \in Block : restored(recs, at)[b] \in Content \cup {NoData}
  <2> TAKE b \in Block
  <2>1. \/ restored(recs, at)[b] = NoData
        \/ \E i \in at : recs[i].idx = b /\ restored(recs, at)[b] = recs[i].data
    BY RestoredFromRecord, Zenon
  <2> QED BY <2>1, Zenon
<1>2. restored(recs, at) = [b \in Block |-> restored(recs, at)[b]]
  BY DEF restored
<1> QED BY <1>1, <1>2 DEF Overlay

\* So do the records of a blob.
LEMMA RestoredType ==
    ASSUME NEW recs \in Seq(Record), NEW at \in SUBSET (1 .. Len(recs))
    PROVE  restored(recs, at) \in Overlay
<1>1. ASSUME NEW i \in 1 .. Len(recs) PROVE recs[i].data \in Content
  <2>1. recs[i] \in Record
    BY ElementOfSeq
  <2> QED BY <2>1 DEF Record
<1>2. Len(recs) \in Nat
  BY LenProperties
<1> QED BY <1>1, <1>2, RestoredContent

\* A block that an applied record names is restored.
LEMMA NamedIsRestored ==
    ASSUME NEW recs, NEW m \in Nat, NEW at \in SUBSET (1 .. m), NEW x \in Block,
           NEW i \in at, recs[i].idx = x, \A j \in at : recs[j].data # NoData
    PROVE  restored(recs, at)[x] # NoData
<1> DEFINE named == {j \in at : recs[j].idx = x}
<1>1. restored(recs, at)[x] = IF named = {} THEN NoData ELSE recs[Largest(named)].data
  BY DEF restored
<1>2. named # {} /\ named \in SUBSET (1 .. m) /\ named \subseteq at
  OBVIOUS
<1>3. Largest(named) \in at
  <2> HIDE DEF named
  <2> QED BY <1>2, LargestExists
<1> HIDE DEF named
<1> QED BY <1>1, <1>2, <1>3

\* The fields of a record of a blob.
LEMMA RecordFields ==
    ASSUME NEW b \in Blob, NEW i \in 1 .. Len(b.recs)
    PROVE  b.recs[i].idx \in Int /\ b.recs[i].data \in Content /\ b.recs[i].data # NoData
<1>1. b.recs[i] \in Record
  BY ElementOfSeq DEF Blob
<1> QED BY <1>1, FormatAssumption DEF Record

\* The same for the records of a blob.
LEMMA RestoredCovers ==
    ASSUME NEW b \in Blob, NEW at \in SUBSET (1 .. Len(b.recs)), NEW x \in Block,
           NEW i \in at, b.recs[i].idx = x
    PROVE  restored(b.recs, at)[x] # NoData
<1>1. Len(b.recs) \in Nat
  BY DEF Blob
<1>2. ASSUME NEW j \in at PROVE b.recs[j].data # NoData
  BY RecordFields
<1> QED BY <1>1, <1>2, NamedIsRestored

\* The empty overlay is one.
LEMMA EmptyType == Empty \in Overlay /\ \A b \in Block : Empty[b] = NoData
BY DEF Empty, Overlay

\* ErrCorrupt is a result; it restores and blames nothing.
LEMMA CorruptType ==
    /\ Corrupt \in Result
    /\ Dirty(Corrupt.over) \cup Corrupt.bad = {}
BY EmptyType DEF Corrupt, Result, Dirty

\* Only blocks of the base are restored.
LEMMA RestoredInBase ==
    ASSUME NEW recs, NEW tier, NEW n \in Nat, NEW maxBlock,
           NEW at \in SUBSET appliedAt(recs, tier, n, maxBlock),
           NEW x \in Dirty(restored(recs, at))
    PROVE  InBase(x, maxBlock)
<1>1. at \in SUBSET (1 .. n) /\ \A i \in at : InBase(recs[i].idx, maxBlock)
  BY DEF appliedAt
<1>2. x \in Block /\ restored(recs, at)[x] # NoData
  BY DEF Dirty
<1>3. \E i \in at : recs[i].idx = x
  BY <1>1, <1>2, RestoredFromRecord
<1> QED BY <1>1, <1>3

\* The dirty blocks of an overlay are finitely many.
LEMMA DirtyFinite ==
    ASSUME NEW ov
    PROVE  /\ Dirty(ov) \subseteq Block
           /\ IsFiniteSet(Dirty(ov)) /\ Cardinality(Dirty(ov)) \in Nat
<1>1. IsFiniteSet(Block)
  BY FormatAssumption, FS_Interval DEF Block
<1>2. Dirty(ov) \in SUBSET Block
  BY DEF Dirty
<1>3. IsFiniteSet(Dirty(ov))
  BY <1>1, <1>2, FS_Subset, Zenon
<1> QED BY <1>2, <1>3, FS_CardinalityType

\* An overlay that restores only what was there, and all of it, is the same.
LEMMA TrueAndComplete ==
    ASSUME NEW r \in Overlay, NEW ov \in Overlay,
           \A x \in Block : r[x] \in {ov[x], NoData},
           \A x \in Dirty(ov) : r[x] # NoData
    PROVE  r = ov
<1>1. ASSUME NEW x \in Block PROVE r[x] = ov[x]
  BY DEF Dirty
<1> QED BY <1>1 DEF Overlay

\* Whatever restores only what was serialized is exact once each dirty block
\* has a record that was applied.
LEMMA AllAppliedIsExact ==
    ASSUME NEW b \in Blob, NEW ov \in Overlay, NEW at \in SUBSET (1 .. Len(b.recs)),
           NEW got, got = restored(b.recs, at),
           \A x \in Block : got[x] \in {ov[x], NoData},
           \A x \in Dirty(ov) : \E i \in at : b.recs[i].idx = x
    PROVE  got = ov
<1>1. b.recs \in Seq(Record)
  BY DEF Blob
<1>2. got \in Overlay
  BY <1>1, RestoredType
<1>3. ASSUME NEW x \in Dirty(ov) PROVE got[x] # NoData
  <2>1. x \in Block
    BY DEF Dirty
  <2>2. PICK i \in at : b.recs[i].idx = x
    OBVIOUS
  <2> QED BY <2>1, <2>2, RestoredCovers
<1> QED BY <1>2, <1>3, TrueAndComplete

-----------------------------------------------------------------------------
(* Deserialize. *)

\* applyRecords looks only at records that are there, and blames only blocks
\* of the base.
LEMMA ExtentType ==
    ASSUME NEW b \in Blob, NEW maxBlock \in 0 .. NBlocks
    PROVE  /\ Extent(b.recs, b.tail, b.count, maxBlock).n \in 0 .. Len(b.recs)
           /\ Extent(b.recs, b.tail, b.count, maxBlock).tail \subseteq Block
           /\ Extent(b.recs, b.tail, b.count, maxBlock).loss \in BOOLEAN
<1>1. b.recs \in Seq(Record) /\ b.count \in Nat /\ b.tail.idx \in Int
  BY DEF Blob
<1>2. Len(b.recs) \in Nat
  BY <1>1
<1> DEFINE named == b.tail.kind = "index" /\ InBase(b.tail.idx, maxBlock)
           surplus == Len(b.recs) > b.count \/ b.tail # NoTail
<1>3. CASE Len(b.recs) >= b.count
  <2>1. Extent(b.recs, b.tail, b.count, maxBlock)
          = [n |-> b.count, tail |-> {}, loss |-> surplus]
    BY <1>3, Zenon DEF Extent
  <2>2. surplus \in BOOLEAN
    BY Zenon
  <2>3. b.count \in 0 .. Len(b.recs)
    BY <1>1, <1>2, <1>3
  <2> HIDE DEF surplus
  <2> QED BY <2>1, <2>2, <2>3
<1>4. CASE ~(Len(b.recs) >= b.count)
  <2>1. Extent(b.recs, b.tail, b.count, maxBlock)
          = [n |-> Len(b.recs), tail |-> IF named THEN {b.tail.idx} ELSE {},
             loss |-> ~named]
    BY <1>4, Zenon DEF Extent
  <2>2. (~named) \in BOOLEAN
    BY Zenon
  <2>3. named => b.tail.idx \in Block
    BY <1>1, FormatAssumption DEF InBase, Block
  <2> HIDE DEF named
  <2> QED BY <1>2, <2>1, <2>2, <2>3
<1> QED BY <1>3, <1>4

\* Deserialize returns an error value, an overlay and a list of blocks.
LEMMA DeserializeType ==
    ASSUME NEW b \in Blob, NEW maxBlock \in 0 .. NBlocks
    PROVE  Deserialize(b, maxBlock) \in Result
<1>1. Corrupt \in Result /\ UnsupportedTier \in Result
  BY DEF Corrupt, UnsupportedTier, Result, Empty, Overlay
<1>2. b.recs \in Seq(Record) /\ Len(b.recs) \in Nat
  BY DEF Blob
<1>3. ASSUME NEW tier
      PROVE  applyRecords(b.recs, b.tail, tier, b.count, maxBlock) \in Result
  <2> DEFINE ext == Extent(b.recs, b.tail, b.count, maxBlock)
             at == appliedAt(b.recs, tier, ext.n, maxBlock)
  <2>1. /\ ext.n \in Nat /\ ext.n <= Len(b.recs)
        /\ ext.tail \subseteq Block /\ ext.loss \in BOOLEAN
    BY ExtentType
  <2> HIDE DEF ext
  <2>2. at \in SUBSET (1 .. Len(b.recs))
    BY <1>2, <2>1 DEF appliedAt
  <2>3. restored(b.recs, at) \in Overlay
    BY <1>2, <2>2, RestoredType
  <2>4. finalizeBad(restored(b.recs, at), ext.tail) \subseteq Block
    BY <2>1 DEF finalizeBad
  <2> QED BY <2>1, <2>3, <2>4 DEF applyRecords, Result, ext
<1>4. deserializeHeaderless(b, maxBlock) \in Result
  <2> DEFINE at == appliedAt(b.recs, TierL1, Len(b.recs), maxBlock)
  <2>1. at \in SUBSET (1 .. Len(b.recs))
    BY DEF appliedAt
  <2>2. restored(b.recs, at) \in Overlay
    BY <1>2, <2>1, RestoredType
  <2> QED BY <1>1, <2>2 DEF deserializeHeaderless, Result
<1> QED BY <1>1, <1>3, <1>4 DEF Deserialize

\* It restores and blames only blocks of the base.
LEMMA DeserializeInBase ==
    ASSUME NEW b \in Blob, NEW maxBlock \in 0 .. NBlocks, NEW d, d = Deserialize(b, maxBlock)
    PROVE  \A x \in Dirty(d.over) \cup d.bad : InBase(x, maxBlock)
<1> DEFINE InIt(e) == \A x \in Dirty(e.over) \cup e.bad : InBase(x, maxBlock)
<1>1. InIt(Corrupt) /\ InIt(UnsupportedTier)
  BY CorruptType DEF Corrupt, UnsupportedTier
<1>2. Len(b.recs) \in Nat
  BY DEF Blob
<1>3. ASSUME NEW tier PROVE InIt(applyRecords(b.recs, b.tail, tier, b.count, maxBlock))
  <2> DEFINE ext == Extent(b.recs, b.tail, b.count, maxBlock)
             at == appliedAt(b.recs, tier, ext.n, maxBlock)
             e == applyRecords(b.recs, b.tail, tier, b.count, maxBlock)
  <2>1. ext.n \in Nat
    BY <1>2, ExtentType
  <2>2. \A x \in ext.tail : InBase(x, maxBlock)
    BY DEF Extent
  <2>3. e.over = restored(b.recs, at) /\ e.bad = finalizeBad(restored(b.recs, at), ext.tail)
    BY DEF applyRecords
  <2>4. at \in SUBSET appliedAt(b.recs, tier, ext.n, maxBlock)
    OBVIOUS
  <2> HIDE DEF ext, at, e
  <2>5. \A x \in Dirty(e.over) : InBase(x, maxBlock)
    BY <2>1, <2>3, <2>4, RestoredInBase
  <2>6. \A x \in e.bad : InBase(x, maxBlock)
    BY <2>2, <2>3 DEF finalizeBad
  <2> QED BY <2>5, <2>6 DEF e
<1>4. InIt(deserializeHeaderless(b, maxBlock))
  <2> DEFINE at == appliedAt(b.recs, TierL1, Len(b.recs), maxBlock)
             e == deserializeHeaderless(b, maxBlock)
  <2>1. e = Corrupt \/ (e.over = restored(b.recs, at) /\ e.bad = {})
    BY DEF deserializeHeaderless
  <2>2. \A x \in Dirty(restored(b.recs, at)) : InBase(x, maxBlock)
    BY <1>2, RestoredInBase
  <2> HIDE DEF e, at
  <2> QED BY <1>1, <2>1, <2>2 DEF e
<1> HIDE DEF InIt
<1>5. InIt(d)
  BY <1>1, <1>3, <1>4 DEF Deserialize
<1> QED BY <1>5 DEF InIt

\* Among the first n records one verifies under an index the base has not.
Foreign(recs, tier, n, maxBlock) ==
    \E i \in 1 .. n : Verifies(recs[i], tier) /\ ~InBase(recs[i].idx, maxBlock)

\* Among the first n records one fails its CRC and repeats no applied one.
Failing(recs, tier, n, got, maxBlock) ==
    \E i \in 1 .. n : ~Verifies(recs[i], tier) /\ ~suppressed(recs[i], got, maxBlock)

\* applyRecords' verdict, part by part.
LEMMA ApplyVerdict ==
    ASSUME NEW recs, NEW tail, NEW tier, NEW count, NEW maxBlock,
           NEW ext, ext = Extent(recs, tail, count, maxBlock),
           NEW got, got = restored(recs, appliedAt(recs, tier, ext.n, maxBlock)),
           NEW a, a = applyRecords(recs, tail, tier, count, maxBlock)
    PROVE  /\ a.over = got
           /\ a.bad = ext.tail \ Dirty(got)
           /\ a.err = "nil" \/ a.err = "Partial"
           /\ a.err = "nil" <=> a.bad = {} /\ ~a.truncated
           /\ a.truncated <=> \/ ext.loss
                              \/ Foreign(recs, tier, ext.n, maxBlock)
                              \/ Failing(recs, tier, ext.n, got, maxBlock)
                              \/ ext.tail \cap Dirty(got) # {}
<1> DEFINE bad  == finalizeBad(got, ext.tail)
           un   == \/ ext.loss
                   \/ \E i \in 1 .. ext.n : /\ Verifies(recs[i], tier)
                                            /\ ~InBase(recs[i].idx, maxBlock)
                   \/ \E i \in 1 .. ext.n : /\ ~Verifies(recs[i], tier)
                                            /\ ~suppressed(recs[i], got, maxBlock)
                   \/ ext.tail \cap Dirty(got) # {}
<1>1. a = [err |-> IF bad = {} /\ ~un THEN "nil" ELSE "Partial",
           over |-> got, bad |-> bad, truncated |-> un]
  BY Zenon DEF applyRecords
<1>2. bad = ext.tail \ Dirty(got)
  BY DEF finalizeBad
<1>3. un <=> \/ ext.loss
             \/ Foreign(recs, tier, ext.n, maxBlock)
             \/ Failing(recs, tier, ext.n, got, maxBlock)
             \/ ext.tail \cap Dirty(got) # {}
  BY DEF Foreign, Failing
<1>4. /\ a.over = got /\ a.bad = bad /\ a.truncated = un
      /\ a.err = IF bad = {} /\ ~un THEN "nil" ELSE "Partial"
  <2>1. un \in BOOLEAN
    BY Zenon
  <2> HIDE DEF bad, un
  <2> QED BY <1>1, <2>1
<1> HIDE DEF bad, un
<1>5. /\ a.err = "nil" \/ a.err = "Partial"
      /\ a.err = "nil" <=> a.bad = {} /\ ~a.truncated
  BY <1>4
<1> QED BY <1>2, <1>3, <1>4, <1>5, Zenon

\* The extent of a body with the records the header counts, or more.
LEMMA ExtentFull ==
    ASSUME NEW recs, NEW tail, NEW count, NEW maxBlock, Len(recs) >= count
    PROVE  LET ext == Extent(recs, tail, count, maxBlock)
           IN  /\ ext.n = count /\ ext.tail = {}
               /\ ext.loss <=> Len(recs) > count \/ tail # NoTail
<1>1. Extent(recs, tail, count, maxBlock)
        = [n |-> count, tail |-> {}, loss |-> Len(recs) > count \/ tail # NoTail]
  BY Zenon DEF Extent
<1> DEFINE loss == Len(recs) > count \/ tail # NoTail
<1>2. loss \in BOOLEAN
  BY Zenon
<1> HIDE DEF loss
<1>3. LET ext == Extent(recs, tail, count, maxBlock)
      IN  ext.n = count /\ ext.tail = {} /\ ext.loss = loss
  BY <1>1, <1>2 DEF loss
<1> QED BY <1>3 DEF loss

\* And of a body with fewer.
LEMMA ExtentShort ==
    ASSUME NEW recs, NEW tail, NEW count, NEW maxBlock, ~(Len(recs) >= count)
    PROVE  LET ext == Extent(recs, tail, count, maxBlock)
               in  == tail.kind = "index" /\ InBase(tail.idx, maxBlock)
           IN  /\ ext.n = Len(recs)
               /\ in => ext.tail = {tail.idx}
               /\ ~in => ext.tail = {}
               /\ ext.loss <=> ~in
<1> DEFINE in == tail.kind = "index" /\ InBase(tail.idx, maxBlock)
           named == IF in THEN {tail.idx} ELSE {}
           loss == ~in
<1>1. Extent(recs, tail, count, maxBlock) = [n |-> Len(recs), tail |-> named, loss |-> loss]
  BY Zenon DEF Extent
<1>2. loss \in BOOLEAN
  BY Zenon
<1>3. LET ext == Extent(recs, tail, count, maxBlock)
      IN  ext.n = Len(recs) /\ ext.tail = named /\ ext.loss = loss
  <2> HIDE DEF named, loss
  <2> QED BY <1>1, <1>2
<1> QED BY <1>3

\* Behind a header that verifies, with tier L0 or L1, applyRecords decides.
LEMMA DeserializeBody ==
    ASSUME NEW b, NEW maxBlock, b.magic, headerIntact(b), b.tier \in {TierL0, TierL1}
    PROVE  Deserialize(b, maxBlock)
             = applyRecords(b.recs, b.tail, b.tier, b.count, maxBlock)
BY DEF Deserialize

\* A nil error means that the header verifies and counts the records that are
\* there, nothing follows them, and each one was applied or repeats one that
\* was.
LEMMA NilMeans ==
    ASSUME NEW b \in Blob, NEW maxBlock \in 0 .. NBlocks, Deserialize(b, maxBlock).err = "nil"
    PROVE  LET got == Deserialize(b, maxBlock).over
           IN  /\ b.magic /\ headerIntact(b) /\ b.tier \in {TierL0, TierL1}
               /\ Len(b.recs) = b.count /\ b.tail = NoTail
               /\ got = restored(b.recs, appliedAt(b.recs, b.tier, Len(b.recs), maxBlock))
               /\ ~Foreign(b.recs, b.tier, Len(b.recs), maxBlock)
               /\ ~Failing(b.recs, b.tier, Len(b.recs), got, maxBlock)
<1> DEFINE recs == b.recs
           a == applyRecords(recs, b.tail, b.tier, b.count, maxBlock)
           ext == Extent(recs, b.tail, b.count, maxBlock)
           got == restored(recs, appliedAt(recs, b.tier, ext.n, maxBlock))
<1>1. b.count \in Nat /\ Len(recs) \in Nat
  BY DEF Blob
<1>2. Corrupt.err # "nil" /\ UnsupportedTier.err # "nil"
  BY DEF Corrupt, UnsupportedTier
<1>3. deserializeHeaderless(b, maxBlock).err # "nil"
  BY <1>2 DEF deserializeHeaderless
<1>4. /\ b.magic /\ headerIntact(b) /\ b.tier \in {TierL0, TierL1}
      /\ Deserialize(b, maxBlock) = a
  BY <1>2, <1>3 DEF Deserialize
<1>5. /\ a.over = got /\ ~ext.loss /\ ext.tail = {}
      /\ ~Foreign(recs, b.tier, ext.n, maxBlock)
      /\ ~Failing(recs, b.tier, ext.n, got, maxBlock)
  <2>1. a.err = "nil"
    BY <1>4
  <2>2. /\ a.over = got
        /\ a.bad = ext.tail \ Dirty(got)
        /\ a.err = "nil" <=> a.bad = {} /\ ~a.truncated
        /\ a.truncated <=> \/ ext.loss
                           \/ Foreign(recs, b.tier, ext.n, maxBlock)
                           \/ Failing(recs, b.tier, ext.n, got, maxBlock)
                           \/ ext.tail \cap Dirty(got) # {}
    <3>1. /\ ext = Extent(recs, b.tail, b.count, maxBlock)
          /\ got = restored(recs, appliedAt(recs, b.tier, ext.n, maxBlock))
          /\ a = applyRecords(recs, b.tail, b.tier, b.count, maxBlock)
      OBVIOUS
    <3> HIDE DEF a, ext, got
    <3> QED BY <3>1, ApplyVerdict
  <2> HIDE DEF a, ext, got
  <2>3. ext.tail \ Dirty(got) = {} /\ ext.tail \cap Dirty(got) = {}
    BY <2>1, <2>2, Zenon
  <2> QED BY <2>1, <2>2, <2>3
<1>6. Len(recs) >= b.count
  <2> SUFFICES ASSUME ~(Len(recs) >= b.count) PROVE FALSE
    OBVIOUS
  <2>1. ext.loss \/ ext.tail = {b.tail.idx}
    BY ExtentShort
  <2> QED BY <1>5, <2>1
<1>7. ext.n = b.count /\ Len(recs) = b.count /\ b.tail = NoTail
  <2>1. ext.n = b.count /\ (ext.loss <=> Len(recs) > b.count \/ b.tail # NoTail)
    BY <1>6, ExtentFull
  <2> QED BY <1>1, <1>5, <1>6, <2>1
<1> QED BY <1>4, <1>5, <1>7

\* A body whose records all verify and fit the base, as many as the header
\* counts and with nothing behind them, is applied without an error.
LEMMA WholeMeansNil ==
    ASSUME NEW b \in Blob, NEW maxBlock, b.magic, headerIntact(b), b.tier \in {TierL0, TierL1},
           Len(b.recs) = b.count, b.tail = NoTail,
           \A i \in 1 .. Len(b.recs) :
              Verifies(b.recs[i], b.tier) /\ InBase(b.recs[i].idx, maxBlock)
    PROVE  /\ Deserialize(b, maxBlock).err = "nil"
           /\ Deserialize(b, maxBlock).over = restored(b.recs, 1 .. Len(b.recs))
<1> DEFINE recs == b.recs
           a == applyRecords(recs, b.tail, b.tier, b.count, maxBlock)
           ext == Extent(recs, b.tail, b.count, maxBlock)
           got == restored(recs, appliedAt(recs, b.tier, ext.n, maxBlock))
<1>1. Deserialize(b, maxBlock) = a
  BY DeserializeBody
<1>2. b.count \in Nat
  BY DEF Blob
<1>3. ext.n = Len(recs) /\ ext.tail = {} /\ ~ext.loss
  <2>1. /\ ext.n = b.count /\ ext.tail = {}
        /\ ext.loss <=> Len(recs) > b.count \/ b.tail # NoTail
    BY <1>2, ExtentFull
  <2> QED BY <1>2, <2>1
<1>4. /\ ~Foreign(recs, b.tier, ext.n, maxBlock)
      /\ ~Failing(recs, b.tier, ext.n, got, maxBlock)
  BY <1>3 DEF Foreign, Failing
<1>5. /\ a.over = got
      /\ a.bad = ext.tail \ Dirty(got)
      /\ a.err = "nil" <=> a.bad = {} /\ ~a.truncated
      /\ a.truncated <=> \/ ext.loss
                         \/ Foreign(recs, b.tier, ext.n, maxBlock)
                         \/ Failing(recs, b.tier, ext.n, got, maxBlock)
                         \/ ext.tail \cap Dirty(got) # {}
  <2>1. /\ ext = Extent(recs, b.tail, b.count, maxBlock)
        /\ got = restored(recs, appliedAt(recs, b.tier, ext.n, maxBlock))
        /\ a = applyRecords(recs, b.tail, b.tier, b.count, maxBlock)
    OBVIOUS
  <2> HIDE DEF a, ext, got
  <2> QED BY <2>1, ApplyVerdict
<1>6. a.err = "nil"
  <2> HIDE DEF a, ext, got
  <2> QED BY <1>3, <1>4, <1>5
<1>7. appliedAt(recs, b.tier, ext.n, maxBlock) = 1 .. Len(recs)
  BY <1>3 DEF appliedAt
<1> QED BY <1>1, <1>5, <1>6, <1>7

-----------------------------------------------------------------------------
(* Inspect. *)

\* Record r repeats the last of the first n records that verified under its
\* index: Inspect's test, without a base.
Repeats(recs, n, r) ==
    LET named == {i \in 1 .. n : Verifies(recs[i], TierL1) /\ recs[i].idx = r.idx /\ r.idx >= 0}
    IN  named # {} /\ recs[Largest(named)].data = r.data

\* For an index of the base it is Deserialize's test.
LEMMA RepeatsIsSuppressed ==
    ASSUME NEW recs, NEW n \in Nat, NEW maxBlock \in 0 .. NBlocks, NEW i \in Nat,
           recs[i].idx \in Int, recs[i].data # NoData, InBase(recs[i].idx, maxBlock),
           NEW got, got = restored(recs, appliedAt(recs, TierL1, n, maxBlock))
    PROVE  Repeats(recs, n, recs[i]) <=> suppressed(recs[i], got, maxBlock)
<1> DEFINE r == recs[i]
           x == recs[i].idx
           named == {j \in 1 .. n : Verifies(recs[j], TierL1) /\ recs[j].idx = x /\ x >= 0}
           at == appliedAt(recs, TierL1, n, maxBlock)
           found == {j \in at : recs[j].idx = x}
<1>2. x \in Int /\ r.data # NoData
  OBVIOUS
<1>3. x \in Block /\ x >= 0 /\ 0 <= x
  BY <1>2, FormatAssumption DEF Block, InBase
<1>4. found = named
  BY <1>3 DEF appliedAt
<1>5. got[x] = IF found = {} THEN NoData ELSE recs[Largest(found)].data
  BY <1>3 DEF restored
<1>6. Repeats(recs, n, r) <=> named # {} /\ recs[Largest(named)].data = r.data
  BY DEF Repeats
<1>7. suppressed(r, got, maxBlock) <=> got[x] = r.data
  BY DEF suppressed
<1> HIDE DEF named, found, r
<1> QED BY <1>4, <1>5, <1>6, <1>7, <1>2 DEF r

\* What scanL1Records reports of the first n records.
LEMMA ScanFacts ==
    ASSUME NEW recs, NEW n \in Nat, \A i \in 1 .. n : recs[i].idx \in Int,
           NEW scan, scan = scanL1Records(recs, n)
    PROVE  /\ scan.bad \subseteq Int /\ scan.unattributed \in Nat
           /\ \A x \in scan.bad : x < 0
           /\ scan.bad = {} <=> \A i \in 1 .. n : Verifies(recs[i], TierL1) => recs[i].idx >= 0
           /\ scan.unattributed = 0 <=>
                \A i \in 1 .. n : ~Verifies(recs[i], TierL1) => Repeats(recs, n, recs[i])
<1> DEFINE verified == {i \in 1 .. n : Verifies(recs[i], TierL1)}
           named(idx) == {i \in verified : recs[i].idx = idx /\ idx >= 0}
           duplicate(r) == named(r.idx) # {} /\ recs[Largest(named(r.idx))].data = r.data
           lost == {i \in (1 .. n) \ verified : ~duplicate(recs[i])}
           bad == {recs[i].idx : i \in {j \in verified : recs[j].idx < 0}}
<1>2. scan = [bad |-> bad, unattributed |-> Cardinality(lost)]
  BY DEF scanL1Records
<1>3. ASSUME NEW i \in 1 .. n PROVE recs[i].idx \in Int
  OBVIOUS
<1>4. lost \in SUBSET (1 .. n) /\ IsFiniteSet(1 .. n)
  BY FS_Interval
<1>5. IsFiniteSet(lost)
  <2> HIDE DEF lost
  <2> QED BY <1>4, FS_Subset, Zenon
<1>6. Cardinality(lost) \in Nat /\ (Cardinality(lost) = 0 <=> lost = {})
  <2> HIDE DEF lost
  <2> QED BY <1>5, FS_CardinalityType, FS_EmptySet
<1>7. ASSUME NEW i \in 1 .. n PROVE duplicate(recs[i]) <=> Repeats(recs, n, recs[i])
  <2>1. named(recs[i].idx)
          = {j \in 1 .. n : /\ Verifies(recs[j], TierL1)
                            /\ recs[j].idx = recs[i].idx /\ recs[i].idx >= 0}
    OBVIOUS
  <2> QED BY <2>1, Zenon DEF Repeats
<1>8. lost = {} <=> \A i \in 1 .. n :
                       ~Verifies(recs[i], TierL1) => Repeats(recs, n, recs[i])
  <2> HIDE DEF duplicate
  <2> QED BY <1>7
<1>9. /\ bad \subseteq Int /\ \A x \in bad : x < 0
      /\ bad = {} <=> \A i \in 1 .. n : Verifies(recs[i], TierL1) => recs[i].idx >= 0
  <2>1. bad \subseteq Int /\ \A x \in bad : x < 0
    BY <1>3
  <2>2. ASSUME bad = {}, NEW i \in 1 .. n, Verifies(recs[i], TierL1)
        PROVE  recs[i].idx >= 0
    <3>1. recs[i].idx < 0 => recs[i].idx \in bad
      BY <2>2
    <3> HIDE DEF bad
    <3> QED BY <1>3, <2>2, <3>1
  <2>3. ASSUME \A i \in 1 .. n : Verifies(recs[i], TierL1) => recs[i].idx >= 0,
               NEW x \in bad
        PROVE  FALSE
    <3>1. PICK i \in 1 .. n : Verifies(recs[i], TierL1) /\ recs[i].idx < 0
      BY <2>3
    <3> HIDE DEF bad
    <3> QED BY <1>3, <2>3, <3>1
  <2> HIDE DEF bad
  <2> QED BY <2>1, <2>2, <2>3
<1> HIDE DEF lost, bad
<1> QED BY <1>2, <1>6, <1>8, <1>9

\* Inspect's account of a body's length, against applyRecords'.
SameLayout(b, body, ext) ==
    /\ body.n = ext.n /\ body.n \in 0 .. Len(b.recs)
    /\ body.bad \subseteq Int /\ body.unattributed \in Nat
    /\ ext.tail \subseteq body.bad
    /\ body.truncated <=> Len(b.recs) # b.count \/ b.tail # NoTail
    /\ Len(b.recs) >= b.count => body.bad = {} /\ body.unattributed = 0

\* The two look at the same records and notice the same surplus or loss.
LEMMA LayoutFacts ==
    ASSUME NEW b \in Blob, NEW maxBlock
    PROVE  SameLayout(b, inspectBodyLayout(b.recs, b.tail, b.count),
                      Extent(b.recs, b.tail, b.count, maxBlock))
<1> DEFINE body == inspectBodyLayout(b.recs, b.tail, b.count)
           ext == Extent(b.recs, b.tail, b.count, maxBlock)
<1>1. b.count \in Nat /\ Len(b.recs) \in Nat /\ b.tail.idx \in Int
  BY DEF Blob
<1>2. CASE Len(b.recs) >= b.count
  <2> DEFINE more == Len(b.recs) > b.count \/ b.tail # NoTail
  <2>1. body = [n |-> b.count, bad |-> {}, unattributed |-> 0, truncated |-> more]
    BY <1>2, Zenon DEF inspectBodyLayout
  <2>2. more \in BOOLEAN
    BY Zenon
  <2>3. body.n = b.count /\ body.bad = {} /\ body.unattributed = 0 /\ body.truncated = more
    <3> HIDE DEF more
    <3> QED BY <2>1, <2>2
  <2>4. ext.n = b.count /\ ext.tail = {} /\ (ext.loss <=> more)
    BY <1>2, ExtentFull
  <2>5. body.truncated <=> Len(b.recs) # b.count \/ b.tail # NoTail
    <3>1. more <=> Len(b.recs) # b.count \/ b.tail # NoTail
      BY <1>1, <1>2
    <3> QED BY <2>3, <3>1, Zenon
  <2> HIDE DEF body, ext, more
  <2>6. SameLayout(b, body, ext)
    BY <1>1, <1>2, <2>3, <2>4, <2>5 DEF SameLayout
  <2> QED BY <2>6 DEF body, ext
<1>3. CASE ~(Len(b.recs) >= b.count)
  <2>1. /\ body.n = Len(b.recs) /\ body.truncated = TRUE
        /\ b.tail.kind = "index" => body.bad = {b.tail.idx} /\ body.unattributed = 0
        /\ b.tail.kind # "index" => body.bad = {} /\ body.unattributed = 1
    BY <1>3 DEF inspectBodyLayout
  <2>2. /\ ext.n = Len(b.recs)
        /\ ext.tail = {} \/ (b.tail.kind = "index" /\ ext.tail = {b.tail.idx})
    <3> DEFINE in == b.tail.kind = "index" /\ InBase(b.tail.idx, maxBlock)
    <3>1. ext.n = Len(b.recs) /\ (in => ext.tail = {b.tail.idx}) /\ (~in => ext.tail = {})
      BY <1>3, ExtentShort
    <3> QED BY <3>1, Zenon
  <2>3. Len(b.recs) # b.count
    BY <1>1, <1>3
  <2>4. ext.tail \subseteq body.bad
    BY <2>1, <2>2
  <2> HIDE DEF body, ext
  <2>5. SameLayout(b, body, ext)
    BY <1>1, <1>3, <2>1, <2>2, <2>3, <2>4 DEF SameLayout
  <2> QED BY <2>5 DEF body, ext
<1> QED BY <1>2, <1>3

\* A rejection is an Info.
LEMMA RejectedType ==
    ASSUME NEW err \in {"ErrCorrupt", "ErrUnsupportedTier"}
    PROVE  /\ Rejected(err) \in Info /\ Rejected(err).err = err
           /\ Rejected(err).BadBlocks = {} /\ ~Clean(Rejected(err))
BY DEF Rejected, Info, Clean

\* Inspect's verdict behind a header that verifies, with tier L0 or L1.
LEMMA InspectVerdict ==
    ASSUME NEW b \in Blob, NEW maxBlock \in 0 .. NBlocks,
           b.magic, headerIntact(b), b.tier \in {TierL0, TierL1},
           NEW info, info = Inspect(b), NEW n, n = Extent(b.recs, b.tail, b.count, maxBlock).n
    PROVE  /\ info \in Info /\ info.err = "nil"
           /\ Extent(b.recs, b.tail, b.count, maxBlock).tail \subseteq info.BadBlocks
           /\ Len(b.recs) = b.count =>
                (info.BadBlocks = {} <=>
                   (b.tier = TierL1 =>
                      \A i \in 1 .. n : Verifies(b.recs[i], TierL1) => b.recs[i].idx >= 0))
           /\ info.Truncated <=>
                \/ Len(b.recs) # b.count \/ b.tail # NoTail
                \/ /\ b.tier = TierL1
                   /\ \E i \in 1 .. n : /\ ~Verifies(b.recs[i], TierL1)
                                        /\ ~Repeats(b.recs, n, b.recs[i])
<1> DEFINE body == inspectBodyLayout(b.recs, b.tail, b.count)
           scan == scanL1Records(b.recs, body.n)
           ext == Extent(b.recs, b.tail, b.count, maxBlock)
<1>1. /\ body.n = n /\ body.n \in 0 .. Len(b.recs)
      /\ body.bad \subseteq Int /\ body.unattributed \in Nat
      /\ ext.tail \subseteq body.bad
      /\ body.truncated <=> Len(b.recs) # b.count \/ b.tail # NoTail
      /\ Len(b.recs) >= b.count => body.bad = {} /\ body.unattributed = 0
  <2>1. SameLayout(b, body, ext) /\ n = ext.n
    BY LayoutFacts
  <2> HIDE DEF body, ext
  <2> QED BY <2>1 DEF SameLayout
<1>2. /\ scan.bad \subseteq Int /\ scan.unattributed \in Nat
      /\ scan.bad = {} <=> \A i \in 1 .. n : Verifies(b.recs[i], TierL1) => b.recs[i].idx >= 0
      /\ scan.unattributed = 0 <=>
           \A i \in 1 .. n : ~Verifies(b.recs[i], TierL1) => Repeats(b.recs, n, b.recs[i])
  <2>1. scan = scanL1Records(b.recs, n)
    BY <1>1
  <2>2. n \in Nat /\ \A i \in 1 .. n : b.recs[i].idx \in Int
    <3>1. Len(b.recs) \in Nat /\ n \in 0 .. Len(b.recs)
      BY <1>1 DEF Blob
    <3> QED BY <3>1, RecordFields
  <2> HIDE DEF scan, body
  <2> QED BY <2>1, <2>2, ScanFacts
<1>3. b.count \in Nat /\ Len(b.recs) \in Nat
  BY DEF Blob
<1>4. ~(Len(b.recs) >= b.count) => Len(b.recs) # b.count
  BY <1>3
<1>5. ASSUME NEW bad \in SUBSET Int, NEW un \in Nat, info = finishInfo(bad, un, body.truncated)
      PROVE  /\ info \in Info /\ info.err = "nil" /\ info.BadBlocks = bad
             /\ info.Truncated <=> \/ Len(b.recs) # b.count \/ b.tail # NoTail
                                   \/ un > 0
  <2> DEFINE t == body.truncated \/ un > 0
  <2>1. info = [err |-> "nil", BadBlocks |-> bad, UnattributedLoss |-> un, Truncated |-> t]
    BY <1>5, Zenon DEF finishInfo
  <2>2. t \in BOOLEAN /\ (t <=> \/ Len(b.recs) # b.count \/ b.tail # NoTail \/ un > 0)
    BY <1>1, Zenon
  <2> HIDE DEF t
  <2>3. info.err = "nil" /\ info.BadBlocks = bad /\ info.Truncated = t /\ info \in Info
    BY <2>1, <2>2 DEF Info
  <2> QED BY <2>2, <2>3
<1>6. CASE b.tier = TierL0
  <2>1. info = finishInfo(body.bad, body.unattributed, body.truncated)
    BY <1>6 DEF Inspect
  <2>2. b.tier # TierL1
    BY <1>6 DEF TierL0, TierL1
  <2> HIDE DEF body, ext
  <2>3. /\ info \in Info /\ info.err = "nil" /\ info.BadBlocks = body.bad
        /\ info.Truncated <=> \/ Len(b.recs) # b.count \/ b.tail # NoTail
                              \/ body.unattributed > 0
    BY <1>1, <1>5, <2>1
  <2>4. body.unattributed > 0 => Len(b.recs) # b.count
    BY <1>1, <1>4
  <2>5. Len(b.recs) = b.count => body.bad = {}
    BY <1>1, <1>4
  <2> QED BY <1>1, <2>2, <2>3, <2>4, <2>5 DEF ext
<1>7. CASE b.tier = TierL1
  <2>1. info = finishInfo(body.bad \cup scan.bad, body.unattributed + scan.unattributed,
                          body.truncated)
    BY <1>7 DEF Inspect, TierL0, TierL1
  <2> HIDE DEF body, scan, ext
  <2>2. body.bad \cup scan.bad \in SUBSET Int /\ body.unattributed + scan.unattributed \in Nat
    BY <1>1, <1>2
  <2>3. /\ info \in Info /\ info.err = "nil" /\ info.BadBlocks = body.bad \cup scan.bad
        /\ info.Truncated <=> \/ Len(b.recs) # b.count \/ b.tail # NoTail
                              \/ body.unattributed + scan.unattributed > 0
    BY <1>5, <2>1, <2>2
  <2>4. body.unattributed + scan.unattributed > 0 =>
           Len(b.recs) # b.count \/ scan.unattributed # 0
    BY <1>1, <1>2, <1>4
  <2>5. scan.unattributed # 0 => body.unattributed + scan.unattributed > 0
    BY <1>1, <1>2
  <2>6. scan.unattributed # 0 <=> \E i \in 1 .. n : /\ ~Verifies(b.recs[i], TierL1)
                                                    /\ ~Repeats(b.recs, n, b.recs[i])
    BY <1>2, Zenon
  <2>7. Len(b.recs) = b.count => body.bad \cup scan.bad = scan.bad
    BY <1>1, <1>4
  <2>8. ext.tail \subseteq info.BadBlocks
    BY <1>1, <2>3
  <2>9. /\ info.Truncated <=>
             \/ Len(b.recs) # b.count \/ b.tail # NoTail
             \/ \E i \in 1 .. n : /\ ~Verifies(b.recs[i], TierL1)
                                  /\ ~Repeats(b.recs, n, b.recs[i])
        /\ Len(b.recs) = b.count =>
             (info.BadBlocks = {} <=>
                  \A i \in 1 .. n : Verifies(b.recs[i], TierL1) => b.recs[i].idx >= 0)
    BY <1>2, <2>3, <2>4, <2>5, <2>6, <2>7, Zenon
  <2> QED BY <1>7, <2>3, <2>8, <2>9, Zenon DEF ext
<1> QED BY <1>6, <1>7

-----------------------------------------------------------------------------
(* Inspect against Deserialize. *)

\* Every index in the body that counts, a cut-off one's included, is one of
\* the base; of records with a CRC those that verify do.
IndicesWithin(b, maxBlock) ==
    /\ \A i \in 1 .. Len(b.recs) :
          b.tier = TierL0 \/ Verifies(b.recs[i], TierL1) => InBase(b.recs[i].idx, maxBlock)
    /\ b.tail.kind = "index" => InBase(b.tail.idx, maxBlock)

\* An Info is to a result of Deserialize as two copies of the same rules have
\* to be: they agree on rejection, a nil error is echoed by a clean Info, what
\* is blamed is listed; and conversely if the base has every block named.
Concur(b, maxBlock, d, info) ==
    /\ info.err = "ErrCorrupt" => d.err = "ErrCorrupt"
    /\ info.err = "ErrUnsupportedTier" => d.err = "ErrUnsupportedTier"
    /\ d.err = "nil" => Clean(info)
    /\ IndicesWithin(b, maxBlock) =>
          /\ d.err = "ErrCorrupt" => info.err = "ErrCorrupt"
          /\ Clean(info) => d.err = "nil"
    /\ info \in Info
    /\ d.bad \subseteq info.BadBlocks
    /\ d.truncated /\ IndicesWithin(b, maxBlock) => info.Truncated

\* Both reject a blob.
LEMMA ConcurRejected ==
    ASSUME NEW b, NEW maxBlock, NEW d, d = Corrupt
    PROVE  Concur(b, maxBlock, d, Rejected("ErrCorrupt"))
<1>1. d.err = "ErrCorrupt" /\ d.bad = {} /\ ~d.truncated
  BY DEF Corrupt
<1>2. /\ Rejected("ErrCorrupt") \in Info /\ Rejected("ErrCorrupt").err = "ErrCorrupt"
      /\ Rejected("ErrCorrupt").BadBlocks = {} /\ ~Clean(Rejected("ErrCorrupt"))
  BY RejectedType
<1> QED BY <1>1, <1>2 DEF Concur

\* Both name a tier that is not theirs.
LEMMA ConcurUnsupported ==
    ASSUME NEW b, NEW maxBlock, NEW d, d = UnsupportedTier
    PROVE  Concur(b, maxBlock, d, Rejected("ErrUnsupportedTier"))
<1>1. d.err = "ErrUnsupportedTier" /\ d.bad = {} /\ ~d.truncated
  BY DEF UnsupportedTier
<1>2. LET info == Rejected("ErrUnsupportedTier")
      IN  /\ info \in Info /\ info.err = "ErrUnsupportedTier"
          /\ info.BadBlocks = {} /\ ~Clean(info)
  BY RejectedType
<1> QED BY <1>1, <1>2 DEF Concur

\* Both scan a body behind a header that failed.
LEMMA ConcurHeaderless ==
    ASSUME NEW b \in Blob, NEW maxBlock, NEW d, d = deserializeHeaderless(b, maxBlock)
    PROVE  Concur(b, maxBlock, d, inspectHeaderless(b))
<1> DEFINE recovered == {i \in 1 .. Len(b.recs) : Verifies(b.recs[i], TierL1)}
           at == appliedAt(b.recs, TierL1, Len(b.recs), maxBlock)
           refused == b.tail # NoTail \/ b.layout # TierL1
<1>1. Len(b.recs) \in Nat
  BY DEF Blob
<1>2. at \subseteq recovered /\ (IndicesWithin(b, maxBlock) => at = recovered)
  BY DEF appliedAt, IndicesWithin
<1>3. CASE refused \/ recovered = {}
  <2>1. at = {} \/ refused
    BY <1>2, <1>3
  <2>2. d = Corrupt
    BY <2>1 DEF deserializeHeaderless
  <2>3. inspectHeaderless(b) = Rejected("ErrCorrupt")
    BY <1>3 DEF inspectHeaderless
  <2> QED BY <2>2, <2>3, ConcurRejected
<1>4. CASE ~refused /\ recovered # {}
  <2> DEFINE un == Len(b.recs) - Cardinality(recovered)
             info == finishInfo({}, un, TRUE)
  <2>1. inspectHeaderless(b) = info
    BY <1>4 DEF inspectHeaderless
  <2>2. un \in Nat
    <3>1. recovered \in SUBSET (1 .. Len(b.recs))
      OBVIOUS
    <3> HIDE DEF recovered
    <3>2. IsFiniteSet(1 .. Len(b.recs)) /\ Cardinality(1 .. Len(b.recs)) = Len(b.recs)
      BY <1>1, FS_Interval
    <3>3. /\ IsFiniteSet(recovered)
          /\ Cardinality(recovered) <= Cardinality(1 .. Len(b.recs))
      BY <3>1, <3>2, FS_Subset
    <3>4. Cardinality(recovered) \in Nat
      BY <3>3, FS_CardinalityType
    <3> QED BY <1>1, <3>2, <3>3, <3>4
  <2> HIDE DEF un
  <2>3. info.err = "nil" /\ info.BadBlocks = {} /\ info.Truncated /\ info \in Info
    <3>1. info = [err |-> "nil", BadBlocks |-> {}, UnattributedLoss |-> un, Truncated |-> TRUE]
      BY DEF finishInfo
    <3> HIDE DEF info
    <3> QED BY <2>2, <3>1 DEF Info
  <2>4. ~Clean(info)
    <3> HIDE DEF info
    <3> QED BY <2>3 DEF Clean
  <2>5. /\ d.err = "ErrCorrupt" \/ d.err = "Partial"
        /\ d.bad = {}
        /\ d.err = "ErrCorrupt" => at = {}
    BY <1>4 DEF deserializeHeaderless, Corrupt
  <2>6. IndicesWithin(b, maxBlock) => d.err # "ErrCorrupt"
    BY <1>2, <1>4, <2>5
  <2> HIDE DEF info
  <2>7. Concur(b, maxBlock, d, info)
    BY <2>3, <2>4, <2>5, <2>6 DEF Concur
  <2> QED BY <2>1, <2>7
<1> QED BY <1>3, <1>4

\* Both judge the records behind a header that verifies.
LEMMA ConcurBody ==
    ASSUME NEW b \in Blob, NEW maxBlock \in 0 .. NBlocks, NEW d, d = Deserialize(b, maxBlock),
           b.magic, headerIntact(b), b.tier \in {TierL0, TierL1}
    PROVE  Concur(b, maxBlock, d, Inspect(b))
<1> DEFINE info == Inspect(b)
           ext == Extent(b.recs, b.tail, b.count, maxBlock)
           n == ext.n
           got == restored(b.recs, appliedAt(b.recs, b.tier, ext.n, maxBlock))
           lost == \E i \in 1 .. n : /\ ~Verifies(b.recs[i], TierL1)
                                     /\ ~Repeats(b.recs, n, b.recs[i])
<1>1. /\ b \in Blob /\ maxBlock \in 0 .. NBlocks
      /\ Len(b.recs) \in Nat /\ b.count \in Nat
  BY DEF Blob
<1>2. n \in 0 .. Len(b.recs)
  BY <1>1, ExtentType
<1>3. /\ info \in Info /\ info.err = "nil" /\ ext.tail \subseteq info.BadBlocks
      /\ Len(b.recs) = b.count =>
           (info.BadBlocks = {} <=>
              (b.tier = TierL1 =>
                 \A i \in 1 .. n : Verifies(b.recs[i], TierL1) => b.recs[i].idx >= 0))
      /\ info.Truncated <=> \/ Len(b.recs) # b.count \/ b.tail # NoTail
                            \/ b.tier = TierL1 /\ lost
  <2>1. info = Inspect(b) /\ n = Extent(b.recs, b.tail, b.count, maxBlock).n
    OBVIOUS
  <2> HIDE DEF info, n
  <2> QED BY <1>1, <2>1, InspectVerdict
<1>4. /\ d.over = got /\ d.bad = ext.tail \ Dirty(got)
      /\ d.err = "nil" \/ d.err = "Partial"
      /\ d.err = "nil" <=> d.bad = {} /\ ~d.truncated
      /\ d.truncated <=> \/ ext.loss
                           \/ Foreign(b.recs, b.tier, ext.n, maxBlock)
                           \/ Failing(b.recs, b.tier, ext.n, got, maxBlock)
                           \/ ext.tail \cap Dirty(got) # {}
  <2>1. d = applyRecords(b.recs, b.tail, b.tier, b.count, maxBlock)
    BY DeserializeBody
  <2>2. /\ ext = Extent(b.recs, b.tail, b.count, maxBlock)
        /\ got = restored(b.recs, appliedAt(b.recs, b.tier, ext.n, maxBlock))
    OBVIOUS
  <2> HIDE DEF ext, got
  <2> QED BY <2>1, <2>2, ApplyVerdict
<1>5. ASSUME b.tier = TierL1, NEW i \in 1 .. n, InBase(b.recs[i].idx, maxBlock)
      PROVE  Repeats(b.recs, n, b.recs[i]) <=> suppressed(b.recs[i], got, maxBlock)
  <2>1. got = restored(b.recs, appliedAt(b.recs, TierL1, n, maxBlock))
    BY <1>5
  <2>2. i \in 1 .. Len(b.recs)
    BY <1>1, <1>2, <1>5
  <2>3. b.recs[i].idx \in Int /\ b.recs[i].data # NoData
    BY <1>1, <2>2, RecordFields
  <2>4. n \in Nat /\ i \in Nat
    BY <1>1, <1>2, <1>5
  <2> HIDE DEF got, n
  <2> QED BY <1>1, <1>5, <2>1, <2>3, <2>4, RepeatsIsSuppressed
<1>6. ASSUME d.err = "nil" PROVE Clean(info)
  <2>1. /\ Len(b.recs) = b.count /\ b.tail = NoTail
        /\ ~Foreign(b.recs, b.tier, n, maxBlock)
        /\ ~Failing(b.recs, b.tier, n, got, maxBlock)
    BY <1>1, <1>4, <1>6, NilMeans
  <2>2. ASSUME b.tier = TierL1, NEW i \in 1 .. n, Verifies(b.recs[i], TierL1)
        PROVE  b.recs[i].idx >= 0
    <3>1. InBase(b.recs[i].idx, maxBlock)
      BY <2>1, <2>2 DEF Foreign
    <3>2. b.recs[i] \in Record
      <4>1. b.recs \in Seq(Record) /\ i \in 1 .. Len(b.recs)
        BY <1>1, <1>2 DEF Blob
      <4> QED BY <4>1, ElementOfSeq
    <3> QED BY <3>1, <3>2 DEF InBase, Record
  <2>3. ASSUME b.tier = TierL1, lost PROVE FALSE
    <3>1. PICK i \in 1 .. n : /\ ~Verifies(b.recs[i], TierL1)
                              /\ ~Repeats(b.recs, n, b.recs[i])
      BY <2>3
    <3>2. suppressed(b.recs[i], got, maxBlock)
      BY <2>1, <2>3, <3>1 DEF Failing
    <3>3. InBase(b.recs[i].idx, maxBlock)
      BY <3>2 DEF suppressed
    <3> QED BY <1>5, <2>3, <3>1, <3>2, <3>3
  <2>4. info.BadBlocks = {}
    BY <1>3, <2>1, <2>2
  <2>5. ~info.Truncated
    <3> HIDE DEF info, lost
    <3> QED BY <1>3, <2>1, <2>3
  <2> QED BY <1>3, <2>4, <2>5 DEF Clean
<1>7. ASSUME IndicesWithin(b, maxBlock), ~info.Truncated PROVE d.err = "nil" /\ ~d.truncated
  <2>1. Len(b.recs) = b.count /\ b.tail = NoTail /\ ~(b.tier = TierL1 /\ lost)
    <3> HIDE DEF info, lost
    <3> QED BY <1>3, <1>7
  <2>2. ext.tail = {} /\ ~ext.loss /\ n = Len(b.recs)
    <3>1. /\ ext.n = b.count /\ ext.tail = {}
          /\ ext.loss <=> Len(b.recs) > b.count \/ b.tail # NoTail
      BY <1>1, <2>1, ExtentFull
    <3> QED BY <1>1, <2>1, <3>1
  <2>3. \A i \in 1 .. n : b.tier = TierL0 \/ Verifies(b.recs[i], TierL1)
                            => InBase(b.recs[i].idx, maxBlock)
    BY <1>7, <2>2 DEF IndicesWithin
  <2>4. ~Foreign(b.recs, b.tier, n, maxBlock)
    BY <2>3 DEF Foreign
  <2>5. ASSUME NEW i \in 1 .. n, ~Verifies(b.recs[i], b.tier)
        PROVE  suppressed(b.recs[i], got, maxBlock)
    <3>1. b.tier = TierL1
      BY <2>5 DEF Verifies
    <3>2. Repeats(b.recs, n, b.recs[i])
      BY <2>1, <2>5, <3>1
    <3>3. InBase(b.recs[i].idx, maxBlock)
      <4> HIDE DEF n
      <4> QED BY <2>3, <3>2 DEF Repeats
    <3> QED BY <1>5, <3>1, <3>2, <3>3
  <2>6. ~Failing(b.recs, b.tier, n, got, maxBlock)
    BY <2>5 DEF Failing
  <2> HIDE DEF ext, got
  <2> QED BY <1>4, <2>2, <2>4, <2>6
<1>8. d.bad \subseteq info.BadBlocks
  <2> HIDE DEF info, ext, got
  <2> QED BY <1>3, <1>4
<1>9. Clean(info) => ~info.Truncated
  BY DEF Clean
<1> HIDE DEF info, ext, got, n, lost
<1>10. Concur(b, maxBlock, d, info)
  BY <1>3, <1>4, <1>6, <1>7, <1>8, <1>9 DEF Concur
<1> QED BY <1>10 DEF info

\* Every verdict of Deserialize concurs with Inspect's.
LEMMA VerdictsConcur ==
    ASSUME NEW b \in Blob, NEW maxBlock \in 0 .. NBlocks, NEW d, d = Deserialize(b, maxBlock)
    PROVE  Concur(b, maxBlock, d, Inspect(b))
<1>1. d = Deserialize(b, maxBlock)
  OBVIOUS
<1>2. CASE ~b.magic \/ (~headerIntact(b) /\ ~fallback(b))
  <2>1. d = Corrupt /\ Inspect(b) = Rejected("ErrCorrupt")
    BY <1>1, <1>2 DEF Deserialize, Inspect
  <2> QED BY <2>1, ConcurRejected
<1>3. CASE b.magic /\ ~headerIntact(b) /\ fallback(b)
  <2>1. d = deserializeHeaderless(b, maxBlock) /\ Inspect(b) = inspectHeaderless(b)
    BY <1>1, <1>3 DEF Deserialize, Inspect
  <2> QED BY <2>1, ConcurHeaderless
<1>4. CASE b.magic /\ headerIntact(b) /\ b.tier \in {TierL0, TierL1}
  BY <1>1, <1>4, ConcurBody
<1>5. CASE b.magic /\ headerIntact(b) /\ b.tier \notin {TierL0, TierL1}
  <2>1. d = UnsupportedTier /\ Inspect(b) = Rejected("ErrUnsupportedTier")
    BY <1>1, <1>5 DEF Deserialize, Inspect
  <2> QED BY <2>1, ConcurUnsupported
<1> QED BY <1>2, <1>3, <1>4, <1>5

-----------------------------------------------------------------------------
(* What an L2 blob was made from. *)

\* The payload is the L1 records of the dirty blocks.
Sourced(b, ov) ==
    \E s \in sortedIndices(ov) :
        /\ b.recs = [i \in 1 .. Cardinality(Dirty(ov)) |-> writeRecord(ov, s[i], TierL1)]
        /\ b.count = Cardinality(Dirty(ov)) /\ b.meta.len = RecCells * b.count

\* The geometry is one that SerializeRS accepts.
Measured(m) == m.data >= 1 /\ m.size = shardSizeOf(m.data, m.len) /\ encodable(m)

\* The shards that are there were written; each claims its own place unless an
\* index was hit, and each is there once unless one was copied.
Placed(b, faults) ==
    /\ \A k \in 1 .. Len(b.shards) : b.shards[k].of < Total(b.meta)
    /\ "index" \notin faults => \A k \in 1 .. Len(b.shards) : b.shards[k].idx = b.shards[k].of
    /\ "copy" \notin faults =>
          \A k, l \in 1 .. Len(b.shards) : b.shards[k].of = b.shards[l].of => k = l
    /\ "header" \notin faults => b.header
    /\ "meta" \notin faults => b.metaOK

Stored(b, faults, ov) == Sourced(b, ov) /\ Measured(b.meta) /\ Placed(b, faults)

-----------------------------------------------------------------------------
(* Arithmetic of cutting a payload into shards. *)

\* A cell of the payload has a shard and a place in it.
LEMMA DivMod ==
    ASSUME NEW q \in Nat, NEW S \in Nat, S >= 1
    PROVE  /\ q \div S \in Nat /\ q % S \in 0 .. (S - 1)
           /\ q = (q \div S) * S + (q % S)
OBVIOUS

\* A cell before the end of the data shards is in one of them.
LEMMA InData ==
    ASSUME NEW q \in Nat, NEW S \in Nat, NEW D \in Nat, q < D * S
    PROVE  S >= 1 /\ q \div S \in 0 .. (D - 1)
<1>1. S >= 1
  <2>1. S = 0 => D * S = 0 OBVIOUS
  <2> QED BY <2>1
<1>2. q \div S \in Nat /\ q = (q \div S) * S + (q % S) /\ q % S \in 0 .. (S - 1)
  BY <1>1, DivMod
<1> DEFINE i == q \div S
<1> HIDE DEF i
<1>3. i < D
  <2>1. SUFFICES ASSUME i >= D PROVE FALSE
    BY <1>2 DEF i
  <2>2. i * S >= D * S
    BY <2>1, <1>2 DEF i
  <2> QED BY <2>2, <1>2 DEF i
<1> QED BY <1>1, <1>2, <1>3 DEF i

\* The quotient rounded up is large enough, and zero only of zero.
LEMMA CeilDivFacts ==
    ASSUME NEW P \in Nat, NEW D \in Nat, D >= 1
    PROVE  /\ CeilDiv(P, D) \in Nat /\ P <= D * CeilDiv(P, D)
           /\ P > 0 => CeilDiv(P, D) >= 1
<1> DEFINE Q == P + D - 1
           S == Q \div D
           R == Q % D
<1>1. Q \in Nat
  OBVIOUS
<1>2. S \in Nat /\ R \in 0 .. (D - 1) /\ Q = S * D + R
  <2> HIDE DEF Q
  <2> QED BY <1>1, DivMod
<1>3. S = CeilDiv(P, D)
  BY DEF CeilDiv
<1> HIDE DEF S, R
<1>4. P <= D * S
  BY <1>2
<1>5. P > 0 => S >= 1
  BY <1>2, <1>4
<1> QED BY <1>2, <1>3, <1>4, <1>5

-----------------------------------------------------------------------------
(* Where a cell that is read comes from. *)

\* A cell that reads as part of a record is that part of a record written.
Authentic(recs, v) ==
    /\ v[1] = "lo" => \E k \in 1 .. Len(recs) : v[2] = recs[k].idx
    /\ v[1] = "data" => \E k \in 1 .. Len(recs) : v[2] = recs[k].data
    /\ v[1] = "crc" => \E k \in 1 .. Len(recs) : v[2] = recs[k].crc

\* The cells of a payload, one by one.
LEMMA PayloadCells ==
    ASSUME NEW recs, Len(recs) \in Nat, NEW k \in 1 .. Len(recs)
    PROVE  /\ payloadCell(recs, RecCells * (k - 1)) = <<"lo", recs[k].idx>>
           /\ payloadCell(recs, RecCells * (k - 1) + 1) = <<"hi">>
           /\ payloadCell(recs, RecCells * (k - 1) + 2) = <<"data", recs[k].data>>
           /\ payloadCell(recs, RecCells * (k - 1) + 3) = <<"crc", recs[k].crc>>
<1> DEFINE cells == << <<"lo", recs[k].idx>>, <<"hi">>, <<"data", recs[k].data>>,
                      <<"crc", recs[k].crc>> >>
<1>1. ASSUME NEW j \in 0 .. 3
      PROVE  payloadCell(recs, RecCells * (k - 1) + j) = cells[j + 1]
  <2> DEFINE p == RecCells * (k - 1) + j
  <2>1. p \div RecCells = k - 1 /\ p % RecCells = j /\ p < RecCells * Len(recs)
    BY <1>1 DEF RecCells
  <2>2. (p \div RecCells) + 1 = k
    BY <2>1
  <2> HIDE DEF p
  <2> QED BY <2>1, <2>2 DEF payloadCell, p
<1>2. RecCells * (k - 1) + 0 = RecCells * (k - 1)
  BY DEF RecCells
<1> QED BY <1>1, <1>2

\* Behind the records there are zeros.
LEMMA PayloadPad ==
    ASSUME NEW recs, NEW p, ~(p < RecCells * Len(recs))
    PROVE  payloadCell(recs, p) = Zero
BY DEF payloadCell

\* A cell of the payload is some cell of a record, or padding.
LEMMA PayloadPlace ==
    ASSUME NEW recs, Len(recs) \in Nat, NEW p \in Nat, p < RecCells * Len(recs)
    PROVE  \E k \in 1 .. Len(recs), j \in 0 .. 3 : p = RecCells * (k - 1) + j
<1> DEFINE k == (p \div RecCells) + 1
           j == p % RecCells
<1>1. k \in 1 .. Len(recs) /\ j \in 0 .. 3 /\ p = RecCells * (k - 1) + j
  BY DEF RecCells
<1> QED BY <1>1

\* A cell of the payload is authentic.
LEMMA PayloadAuthentic ==
    ASSUME NEW recs, Len(recs) \in Nat, NEW p \in Nat
    PROVE  Authentic(recs, payloadCell(recs, p))
<1>1. CASE ~(p < RecCells * Len(recs))
  <2>1. payloadCell(recs, p) = Zero
    BY <1>1, PayloadPad
  <2> QED BY <2>1 DEF Authentic, Zero
<1>2. CASE p < RecCells * Len(recs)
  <2>1. PICK k \in 1 .. Len(recs), j \in 0 .. 3 : p = RecCells * (k - 1) + j
    BY <1>2, PayloadPlace
  <2>2. \/ payloadCell(recs, p) = <<"lo", recs[k].idx>>
        \/ payloadCell(recs, p) = <<"hi">>
        \/ payloadCell(recs, p) = <<"data", recs[k].data>>
        \/ payloadCell(recs, p) = <<"crc", recs[k].crc>>
    <3>1. j = 0 \/ j = 1 \/ j = 2 \/ j = 3 OBVIOUS
    <3>2. RecCells * (k - 1) + 0 = RecCells * (k - 1) BY DEF RecCells
    <3> QED BY <2>1, <3>1, <3>2, PayloadCells
  <2> QED BY <2>2 DEF Authentic
<1> QED BY <1>1, <1>2

\* Whichever shard it is read from.
LEMMA ShardAuthentic ==
    ASSUME NEW m, m.size \in Nat, NEW recs, Len(recs) \in Nat, NEW s \in Nat, NEW c \in Nat
    PROVE  Authentic(recs, shardCell(m, recs, s, c))
<1>1. CASE s < m.data
  <2>1. s * m.size + c \in Nat OBVIOUS
  <2>2. shardCell(m, recs, s, c) = payloadCell(recs, s * m.size + c)
    BY <1>1 DEF shardCell
  <2> QED BY <2>1, <2>2, PayloadAuthentic
<1>2. CASE ~(s < m.data) /\ m.data = 1
  <2>1. shardCell(m, recs, s, c) = payloadCell(recs, c)
    BY <1>2 DEF shardCell
  <2> QED BY <2>1, PayloadAuthentic
<1>3. CASE ~(s < m.data) /\ m.data # 1
  <2>1. shardCell(m, recs, s, c)[1] = "parity"
    BY <1>3 DEF shardCell
  <2> QED BY <2>1 DEF Authentic
<1> QED BY <1>1, <1>2, <1>3

-----------------------------------------------------------------------------
(* The slots of the shard section. *)

\* A set of shards that is not empty has a first one.
LEMMA SmallestExists ==
    ASSUME NEW S \in SUBSET Nat, S # {}
    PROVE  Smallest(S) \in S
<1> DEFINE R == OpToRel(<, Nat)
<1>1. PICK x \in S : \A y \in S : ~(<<y, x>> \in R)
  <2>1. IsWellFoundedOn(R, Nat)
    BY NatLessThanWellFounded
  <2> HIDE DEF R
  <2> QED BY <2>1, WFMin
<1>2. ASSUME NEW y \in S PROVE x <= y
  <2>1. R = {ss \in Nat \X Nat : ss[1] < ss[2]}
    BY Zenon DEF OpToRel
  <2>2. ~(<<y, x>> \in R)
    BY <1>1
  <2> HIDE DEF R
  <2> QED BY <2>1, <2>2
<1> QED BY <1>2 DEF Smallest

\* What fills slot i: nothing, or a shard that is there and claims it.
LEMMA SlotFacts ==
    ASSUME NEW b \in RSBlob, NEW i \in 0 .. (Total(b.meta) - 1)
    PROVE  \/ /\ parseShardSection(b)[i] = Nil
              /\ \A k \in 1 .. Len(b.shards) : ~(b.shards[k].ok /\ b.shards[k].idx = i)
           \/ \E k \in 1 .. Len(b.shards) :
                 /\ b.shards[k].ok /\ b.shards[k].idx = i
                 /\ parseShardSection(b)[i] = b.shards[k].of /\ b.shards[k].of \in Nat
<1> DEFINE claims == {k \in DOMAIN b.shards : b.shards[k].ok /\ b.shards[k].idx = i}
<1>1. b.shards \in Seq(ShardHdr)
  BY DEF RSBlob
<1>2. DOMAIN b.shards = 1 .. Len(b.shards) /\ Len(b.shards) \in Nat
  BY <1>1
<1>3. parseShardSection(b)[i] = IF claims = {} THEN Nil ELSE b.shards[Smallest(claims)].of
  BY DEF parseShardSection
<1>4. claims \in SUBSET Nat /\ claims \subseteq 1 .. Len(b.shards)
  BY <1>2
<1>5. claims # {} => Smallest(claims) \in claims
  <2> HIDE DEF claims
  <2> QED BY <1>4, SmallestExists
<1>6. ASSUME NEW k \in 1 .. Len(b.shards) PROVE b.shards[k].of \in Nat
  <2>1. b.shards[k] \in ShardHdr
    BY <1>1, ElementOfSeq
  <2> QED BY <2>1 DEF ShardHdr
<1>7. CASE claims = {}
  BY <1>2, <1>3, <1>7
<1>8. CASE claims # {}
  <2> DEFINE k == Smallest(claims)
  <2>1. k \in claims /\ k \in 1 .. Len(b.shards)
    BY <1>4, <1>5, <1>8
  <2>2. b.shards[k].ok /\ b.shards[k].idx = i
    BY <2>1
  <2>3. parseShardSection(b)[i] = b.shards[k].of /\ b.shards[k].of \in Nat
    <3> HIDE DEF claims
    <3> QED BY <1>3, <1>6, <1>8, <2>1
  <2> HIDE DEF k
  <2> QED BY <2>1, <2>2, <2>3
<1> QED BY <1>7, <1>8

\* A cell of the payload that is read, with erasures reconstructed or not.
LEMMA ReadAuthentic ==
    ASSUME NEW b \in RSBlob, NEW slots, slots = parseShardSection(b),
           NEW p \in Nat, p < b.meta.data * b.meta.size
    PROVE  Authentic(b.recs, readCell(b, slots, p))
<1> DEFINE m == b.meta
           i == p \div m.size
           c == p % m.size
<1>1. m.data \in Nat /\ m.parity \in Nat /\ m.size \in Nat /\ Len(b.recs) \in Nat
  BY DEF RSBlob
<1>2. m.size >= 1 /\ i \in 0 .. (m.data - 1)
  BY <1>1, InData
<1>3. c \in Nat /\ i \in Nat /\ i \in 0 .. (Total(b.meta) - 1)
  <2>1. c \in 0 .. (m.size - 1)
    BY <1>1, <1>2, DivMod
  <2> HIDE DEF c, i
  <2> QED BY <1>1, <1>2, <2>1 DEF Total
<1> HIDE DEF c, i
<1>4. slots[i] = Nil \/ slots[i] \in Nat
  BY <1>3, SlotFacts
<1>5. Authentic(b.recs, Garbage)
  BY DEF Authentic, Garbage
<1>6. Authentic(b.recs, shardCell(b.meta, b.recs, i, c))
  BY <1>1, <1>3, ShardAuthentic
<1>7. slots[i] # Nil => Authentic(b.recs, shardCell(b.meta, b.recs, slots[i], c))
  BY <1>1, <1>3, <1>4, ShardAuthentic
<1>8. Authentic(b.recs, Reconstruct(b, slots, i, c))
  <2>1. \/ slots[i] # Nil /\ Reconstruct(b, slots, i, c) = shardCell(b.meta, b.recs, slots[i], c)
        \/ Reconstruct(b, slots, i, c) = shardCell(b.meta, b.recs, i, c)
        \/ Reconstruct(b, slots, i, c) = Garbage
    BY Zenon DEF Reconstruct
  <2> QED BY <2>1, <1>5, <1>6, <1>7
<1>9. \/ readCell(b, slots, p) = Reconstruct(b, slots, i, c)
      \/ readCell(b, slots, p) = Garbage
      \/ slots[i] # Nil /\ readCell(b, slots, p) = shardCell(b.meta, b.recs, slots[i], c)
  BY Zenon DEF readCell, i, c
<1> QED BY <1>5, <1>7, <1>8, <1>9

-----------------------------------------------------------------------------
(* The records that are read. *)

\* The cells of the payload, in a blob whose rsMeta passes the checks.
LEMMA CellsRead ==
    ASSUME NEW b \in RSBlob, NEW slots, b.meta.len <= b.meta.data * b.meta.size
    PROVE  /\ Len(payloadCells(b, slots)) = b.meta.len
           /\ \A p \in 1 .. b.meta.len :
                 payloadCells(b, slots)[p] = readCell(b, slots, p - 1)
<1> DEFINE M == b.meta.data * b.meta.size
           f == [p \in 1 .. M |-> readCell(b, slots, p - 1)]
<1>1. b.meta.len \in Nat /\ M \in Nat
  BY DEF RSBlob
<1>2. payloadCells(b, slots) = SubSeq(f, 1, b.meta.len)
  BY DEF payloadCells
<1> HIDE DEF M
<1>3. b.meta.len <= M
  BY DEF M
<1>4. f = [p \in 1 .. M |-> readCell(b, slots, p - 1)]
  OBVIOUS
<1> HIDE DEF f
<1> DEFINE g == [p \in 1 .. b.meta.len |-> f[1 + p - 1]]
<1>5. SubSeq(f, 1, b.meta.len) = g
  BY <1>1, SMT
<1>6. Len(g) = b.meta.len /\ \A p \in 1 .. b.meta.len : g[p] = readCell(b, slots, p - 1)
  BY <1>1, <1>3, <1>4
<1> QED BY <1>2, <1>5, <1>6

\* The blob's body has room for the records the header counts.
Sound(b) ==
    /\ b.meta.len = RecCells * b.count
    /\ b.meta.len <= b.meta.data * b.meta.size

\* Cell j of the i-th record, counted from zero.
Cell(b, slots, i, j) == readCell(b, slots, RecCells * (i - 1) + j)

\* The payload is read as so many records, four cells each.
LEMMA PayloadRead ==
    ASSUME NEW b \in RSBlob, NEW slots, NEW wd, Sound(b),
           NEW recs, recs = readPayload(b, slots, wd)
    PROVE  /\ recs = [i \in 1 .. b.count |-> recs[i]] /\ DOMAIN recs = 1 .. b.count
           /\ Len(recs) = b.count
           /\ \A i \in 1 .. b.count :
                 /\ recs[i].idx = readIndex(Cell(b, slots, i, 0), Cell(b, slots, i, 1), wd)
                 /\ recs[i].data = IF Cell(b, slots, i, 2)[1] = "data"
                                   THEN Cell(b, slots, i, 2)[2] ELSE Junk
                 /\ recs[i].crc = IF Cell(b, slots, i, 3)[1] = "crc"
                                  THEN Cell(b, slots, i, 3)[2] ELSE BadCrc
<1> DEFINE cells == payloadCells(b, slots)
<1>1. b.count \in Nat /\ b.meta.len \in Nat
  BY DEF RSBlob
<1>2. Len(cells) = b.meta.len /\ \A p \in 1 .. b.meta.len : cells[p] = readCell(b, slots, p - 1)
  BY CellsRead DEF Sound
<1> HIDE DEF cells
<1>3. b.meta.len \div RecCells = b.count
  BY <1>1 DEF Sound, RecCells
<1>4. recs = [i \in 1 .. b.count |-> readRecord(cells, i, wd)]
  BY <1>2, <1>3 DEF readPayload, cells
<1>5. DOMAIN recs = 1 .. b.count /\ recs = [i \in 1 .. b.count |-> recs[i]] /\ Len(recs) = b.count
  BY <1>1, <1>4
<1>6. ASSUME NEW i \in 1 .. b.count
      PROVE  /\ recs[i].idx = readIndex(Cell(b, slots, i, 0), Cell(b, slots, i, 1), wd)
             /\ recs[i].data = IF Cell(b, slots, i, 2)[1] = "data"
                               THEN Cell(b, slots, i, 2)[2] ELSE Junk
             /\ recs[i].crc = IF Cell(b, slots, i, 3)[1] = "crc"
                              THEN Cell(b, slots, i, 3)[2] ELSE BadCrc
  <2>1. ASSUME NEW j \in 0 .. 3 PROVE cells[RecCells * (i - 1) + (j + 1)] = Cell(b, slots, i, j)
    <3> DEFINE p == RecCells * (i - 1) + (j + 1)
    <3>1. p \in 1 .. b.meta.len /\ p - 1 = RecCells * (i - 1) + j
      BY <1>1 DEF Sound, RecCells
    <3> HIDE DEF p
    <3>2. cells[p] = Cell(b, slots, i, j)
      BY <1>2, <3>1 DEF Cell
    <3> QED BY <3>2 DEF p
  <2>2. /\ cells[RecCells * (i - 1) + 1] = Cell(b, slots, i, 0)
        /\ cells[RecCells * (i - 1) + 2] = Cell(b, slots, i, 1)
        /\ cells[RecCells * (i - 1) + 3] = Cell(b, slots, i, 2)
        /\ cells[RecCells * (i - 1) + 4] = Cell(b, slots, i, 3)
    <3>1. 0 + 1 = 1 /\ 1 + 1 = 2 /\ 2 + 1 = 3 /\ 3 + 1 = 4
      OBVIOUS
    <3> QED BY <2>1, <3>1
  <2>3. recs[i] = readRecord(cells, i, wd)
    BY <1>4
  <2> QED BY <2>2, <2>3 DEF readRecord
<1> QED BY <1>5, <1>6

\* If a record verifies, its CRC is that of a record written.
Vouched(written, r) ==
    Verifies(r, TierL1) => \E k \in 1 .. Len(written) : written[k].crc = <<r.idx, r.data>>

\* What a record that is read may hold; and if it verifies, its CRC is that of
\* a record written.
LEMMA RecordAuthentic ==
    ASSUME NEW b \in RSBlob, NEW slots, slots = parseShardSection(b), NEW wd \in Int, Sound(b),
           NEW recs, recs = readPayload(b, slots, wd), NEW i \in 1 .. b.count
    PROVE  /\ recs[i].idx \in Int
           /\ recs[i].data \in Content \cup {Junk} /\ recs[i].data # NoData
           /\ Vouched(b.recs, recs[i])
<1>1. /\ recs[i].idx = readIndex(Cell(b, slots, i, 0), Cell(b, slots, i, 1), wd)
      /\ recs[i].data = IF Cell(b, slots, i, 2)[1] = "data" THEN Cell(b, slots, i, 2)[2] ELSE Junk
      /\ recs[i].crc = IF Cell(b, slots, i, 3)[1] = "crc" THEN Cell(b, slots, i, 3)[2] ELSE BadCrc
  BY PayloadRead
<1>2. ASSUME NEW j \in 0 .. 3 PROVE Authentic(b.recs, Cell(b, slots, i, j))
  <2> DEFINE p == RecCells * (i - 1) + j
  <2>1. b.count \in Nat /\ b.meta.len \in Nat /\ b.meta.data * b.meta.size \in Nat
    BY DEF RSBlob
  <2>2. p \in Nat /\ p < b.meta.len
    BY <2>1 DEF Sound, RecCells
  <2> HIDE DEF p
  <2>3. p < b.meta.data * b.meta.size
    BY <2>1, <2>2 DEF Sound
  <2> QED BY <2>2, <2>3, ReadAuthentic DEF Cell, p
<1>3. ASSUME NEW k \in 1 .. Len(b.recs)
      PROVE  b.recs[k].idx \in Int /\ b.recs[k].data \in Content
  <2>1. b.recs[k] \in Record
    BY ElementOfSeq DEF RSBlob
  <2> QED BY <2>1 DEF Record
<1>4. recs[i].idx \in Int
  <2>1. CASE Cell(b, slots, i, 0)[1] = "lo" /\ Cell(b, slots, i, 1) = <<"hi">>
    <3>1. recs[i].idx = Cell(b, slots, i, 0)[2]
      BY <1>1, <2>1 DEF readIndex
    <3>2. Authentic(b.recs, Cell(b, slots, i, 0))
      BY <1>2
    <3> QED BY <3>1, <3>2, <2>1, <1>3 DEF Authentic
  <2>2. CASE ~(Cell(b, slots, i, 0)[1] = "lo" /\ Cell(b, slots, i, 1) = <<"hi">>)
    BY <1>1, <2>2 DEF readIndex
  <2> QED BY <2>1, <2>2
<1>5. recs[i].data \in Content \cup {Junk}
  <2>1. Authentic(b.recs, Cell(b, slots, i, 2))
    BY <1>2
  <2> QED BY <2>1, <1>1, <1>3 DEF Authentic
<1>6. recs[i].data # NoData
  BY <1>5, FormatAssumption, RSAssumption
<1>7. ASSUME Verifies(recs[i], TierL1)
      PROVE  \E k \in 1 .. Len(b.recs) : b.recs[k].crc = <<recs[i].idx, recs[i].data>>
  <2>1. recs[i].crc = <<recs[i].idx, recs[i].data>>
    BY <1>7 DEF Verifies, Crc
  <2>2. Cell(b, slots, i, 3)[1] = "crc" /\ recs[i].crc = Cell(b, slots, i, 3)[2]
    <3>1. \A x, y : <<x, y>> # BadCrc
      BY DEF BadCrc
    <3>2. recs[i].crc # BadCrc
      BY <2>1, <3>1, Zenon
    <3> QED BY <1>1, <3>2, Zenon
  <2>3. Authentic(b.recs, Cell(b, slots, i, 3))
    BY <1>2
  <2> QED BY <2>1, <2>2, <2>3 DEF Authentic
<1>8. Vouched(b.recs, recs[i])
  BY <1>7, Zenon DEF Vouched
<1> QED BY <1>4, <1>5, <1>6, <1>8

-----------------------------------------------------------------------------
(* The records that were written. *)

\* The k-th record of the blob is that of the block s[k].
IsSource(b, ov, s) ==
    /\ s \in [1 .. b.count -> Dirty(ov)] /\ b.count = Cardinality(Dirty(ov))
    /\ Len(b.recs) = b.count
    /\ \A x \in Dirty(ov) : \E k \in 1 .. b.count : s[k] = x
    /\ \A k, l \in 1 .. b.count : s[k] = s[l] => k = l
    /\ \A k \in 1 .. b.count : b.recs[k] = [idx |-> s[k], data |-> ov[s[k]], crc |-> <<s[k], ov[s[k]]>>]

\* There is such an order of the dirty blocks.
LEMMA SourceExists ==
    ASSUME NEW b \in RSBlob, NEW ov \in Overlay, Sourced(b, ov)
    PROVE  \E s : IsSource(b, ov, s)
<1>1. PICK s \in sortedIndices(ov) :
        /\ b.recs = [i \in 1 .. Cardinality(Dirty(ov)) |-> writeRecord(ov, s[i], TierL1)]
        /\ b.count = Cardinality(Dirty(ov))
  BY DEF Sourced
<1>2. b.count \in Nat
  BY DEF RSBlob
<1>3. /\ s \in [1 .. b.count -> Dirty(ov)]
      /\ \A x \in Dirty(ov) : \E k \in 1 .. b.count : s[k] = x
      /\ \A k, l \in 1 .. b.count : k < l => s[k] < s[l]
  BY <1>1 DEF sortedIndices
<1>4. ASSUME NEW k \in 1 .. b.count, NEW l \in 1 .. b.count, s[k] = s[l] PROVE k = l
  <2>1. s[k] \in Int /\ s[l] \in Int
    BY <1>3 DEF Dirty, Block
  <2> QED BY <2>1, <1>2, <1>3, <1>4
<1>5. ASSUME NEW k \in 1 .. b.count
      PROVE  b.recs[k] = [idx |-> s[k], data |-> ov[s[k]], crc |-> <<s[k], ov[s[k]]>>]
  BY <1>1 DEF writeRecord, Crc
<1>6. Len(b.recs) = b.count
  BY <1>1, <1>2
<1> QED BY <1>1, <1>3, <1>4, <1>5, <1>6 DEF IsSource

\* A record that verifies, wherever its cells were read, is one of a dirty
\* block and its content.
LEMMA VerifiedIsTrue ==
    ASSUME NEW b \in RSBlob, NEW ov \in Overlay, Sourced(b, ov), Sound(b),
           NEW slots, slots = parseShardSection(b), NEW wd \in Int,
           NEW recs, recs = readPayload(b, slots, wd), NEW i \in 1 .. b.count,
           Verifies(recs[i], TierL1)
    PROVE  recs[i].idx \in Dirty(ov) /\ recs[i].data = ov[recs[i].idx]
<1>1. PICK s : IsSource(b, ov, s)
  BY SourceExists
<1>2. PICK k \in 1 .. Len(b.recs) : b.recs[k].crc = <<recs[i].idx, recs[i].data>>
  <2>1. Vouched(b.recs, recs[i])
    BY RecordAuthentic
  <2> QED BY <2>1, Zenon DEF Vouched
<1>3. b.recs[k].crc = <<s[k], ov[s[k]]>> /\ s[k] \in Dirty(ov)
  <2>1. k \in 1 .. b.count
    BY <1>1 DEF IsSource
  <2>2. b.recs[k] = [idx |-> s[k], data |-> ov[s[k]], crc |-> <<s[k], ov[s[k]]>>]
    BY <1>1, <2>1 DEF IsSource
  <2>3. s[k] \in Dirty(ov)
    BY <1>1, <2>1 DEF IsSource
  <2> QED BY <2>2, <2>3
<1> QED BY <1>2, <1>3

\* So whatever is applied restores content of the overlay serialized.
LEMMA AppliedIsTrue ==
    ASSUME NEW b \in RSBlob, NEW ov \in Overlay, Sourced(b, ov), Sound(b),
           NEW slots, slots = parseShardSection(b), NEW wd \in Int,
           NEW recs, recs = readPayload(b, slots, wd), NEW maxBlock,
           NEW at \in SUBSET appliedAt(recs, TierL1, b.count, maxBlock)
    PROVE  /\ restored(recs, at) \in Overlay
           /\ \A x \in Block : restored(recs, at)[x] \in {ov[x], NoData}
<1>1. b.count \in Nat
  BY DEF RSBlob
<1>2. at \in SUBSET (1 .. b.count) /\ \A i \in at : Verifies(recs[i], TierL1)
  BY DEF appliedAt
<1>3. ASSUME NEW i \in at PROVE recs[i].idx \in Dirty(ov) /\ recs[i].data = ov[recs[i].idx]
  BY <1>2, VerifiedIsTrue
<1>4. ASSUME NEW i \in at PROVE recs[i].data \in Content
  BY <1>3 DEF Dirty, Overlay
<1>5. restored(recs, at) \in Overlay
  BY <1>1, <1>2, <1>4, RestoredContent
<1>6. ASSUME NEW x \in Block PROVE restored(recs, at)[x] \in {ov[x], NoData}
  <2>1. \/ restored(recs, at)[x] = NoData
        \/ \E i \in at : recs[i].idx = x /\ restored(recs, at)[x] = recs[i].data
    BY <1>1, <1>2, RestoredFromRecord
  <2> QED BY <2>1, <1>3
<1> QED BY <1>5, <1>6

-----------------------------------------------------------------------------
(* The verdict. *)

\* The blob gets past its two headers.
Accepted(b) == b.header /\ b.metaOK /\ parseRSMeta(b.meta, b.count, bodyLen(b))

\* Every record of the payload can be read.
Whole(b, slots) == b.meta.len = 0 \/ reconstructible(b.meta, slots)

\* The rsMeta and the header agree on the number of records.
LEMMA AcceptedIsSound ==
    ASSUME NEW b \in RSBlob, Accepted(b)
    PROVE  Sound(b)
<1>1. b.meta.len \in Nat /\ b.count \in Nat
  BY DEF RSBlob
<1>2. /\ b.meta.len % RecCells = 0 /\ b.meta.len \div RecCells = b.count
      /\ b.meta.len <= b.meta.data * b.meta.size
  BY DEF Accepted, parseRSMeta
<1>3. b.meta.len = RecCells * b.count
  BY <1>1, <1>2 DEF RecCells
<1> QED BY <1>2, <1>3 DEF Sound

\* deserializeRS rejects, applies all the records, or those it can read.
LEMMA L2Cases ==
    ASSUME NEW b, NEW maxBlock, NEW wd, NEW slots, slots = parseShardSection(b),
           NEW recs, recs = readPayload(b, slots, wd),
           NEW d, d = DeserializeL2(b, maxBlock, wd)
    PROVE  /\ ~Accepted(b) => d = Corrupt
           /\ Accepted(b) /\ Whole(b, slots) =>
                 d = applyRecords(recs, NoTail, TierL1, b.count, maxBlock)
           /\ Accepted(b) /\ ~Whole(b, slots) => d = rsSalvage(b, slots, recs, maxBlock)
BY Zenon DEF DeserializeL2, deserializeRS, Accepted, Whole

\* The records that are there in full; those that are not; those of these with
\* an index.
Read(b, slots) == {i \in 1 .. b.count : recordReadable(b, slots, i)}
Lost(b, slots) == {i \in 1 .. b.count : ~recordReadable(b, slots, i)}
Headed(b, slots) == {i \in Lost(b, slots) : indexReadable(b, slots, i)}

\* What the records at some positions restore, and the lost blocks with a name.
Got(b, recs, at, maxBlock) == restored(recs, appliedAt(recs, TierL1, b.count, maxBlock) \cap at)
Named(b, slots, recs, maxBlock) == lostNamed(recs, Lost(b, slots), Headed(b, slots), maxBlock)
Unnamed(b, slots, recs, maxBlock) == lostUnnamed(recs, Lost(b, slots), Headed(b, slots), maxBlock)

\* One of the records read verifies under an index the base has not, or fails
\* its CRC and repeats no applied one.
ForeignAt(recs, at, maxBlock) ==
    \E i \in at : Verifies(recs[i], TierL1) /\ ~InBase(recs[i].idx, maxBlock)
FailingAt(recs, at, got, maxBlock) ==
    \E i \in at : ~Verifies(recs[i], TierL1) /\ ~suppressed(recs[i], got, maxBlock)

\* A result that restores "got" and blames what of "named" is not in it.
Verdict(d, got, named) ==
    /\ d.over = got /\ d.bad = named \ Dirty(got) /\ d.truncated \in BOOLEAN
    /\ d.err = "nil" \/ d.err = "Partial"
    /\ d.err = "nil" <=> d.bad = {} /\ ~d.truncated
    /\ d = [err |-> d.err, over |-> got, bad |-> d.bad, truncated |-> d.truncated]

\* A result computed as both paths compute it is such a verdict.
LEMMA VerdictFrom ==
    ASSUME NEW d, NEW got, NEW named, NEW un \in BOOLEAN,
           d = [err |-> IF finalizeBad(got, named) = {} /\ ~un THEN "nil" ELSE "Partial",
                over |-> got, bad |-> finalizeBad(got, named), truncated |-> un]
    PROVE  Verdict(d, got, named) /\ d.truncated = un
<1> DEFINE bad == finalizeBad(got, named)
           e == IF bad = {} /\ ~un THEN "nil" ELSE "Partial"
<1>1. d = [err |-> e, over |-> got, bad |-> bad, truncated |-> un]
  BY Zenon
<1>2. bad = named \ Dirty(got)
  BY DEF finalizeBad
<1>3. /\ e = "nil" \/ e = "Partial"
      /\ e = "nil" <=> bad = {} /\ ~un
  OBVIOUS
<1> HIDE DEF bad, e
<1>4. d.err = e /\ d.over = got /\ d.bad = bad /\ d.truncated = un
  BY <1>1
<1>5. d = [err |-> d.err, over |-> got, bad |-> d.bad, truncated |-> d.truncated]
  BY <1>1, <1>4
<1> QED BY <1>2, <1>3, <1>4, <1>5, Zenon DEF Verdict

\* rsSalvage's verdict.
LEMMA SalvageVerdict ==
    ASSUME NEW b, NEW slots, NEW recs, NEW maxBlock,
           DOMAIN recs = 1 .. b.count, Len(recs) = b.count,
           NEW d, d = rsSalvage(b, slots, recs, maxBlock),
           NEW got, got = Got(b, recs, Read(b, slots), maxBlock)
    PROVE  /\ Verdict(d, got, Named(b, slots, recs, maxBlock))
           /\ d.truncated <=> \/ ForeignAt(recs, Read(b, slots), maxBlock)
                              \/ FailingAt(recs, Read(b, slots), got, maxBlock)
                              \/ Unnamed(b, slots, recs, maxBlock)
                              \/ Named(b, slots, recs, maxBlock) \cap Dirty(got) # {}
<1> DEFINE read == Read(b, slots)
           named == Named(b, slots, recs, maxBlock)
           un  == \/ \E i \in read : /\ Verifies(recs[i], TierL1)
                                     /\ ~InBase(recs[i].idx, maxBlock)
                  \/ \E i \in read : /\ ~Verifies(recs[i], TierL1)
                                     /\ ~suppressed(recs[i], got, maxBlock)
                  \/ Unnamed(b, slots, recs, maxBlock)
                  \/ named \cap Dirty(got) # {}
<1>1. d = [err |-> IF finalizeBad(got, named) = {} /\ ~un THEN "nil" ELSE "Partial",
           over |-> got, bad |-> finalizeBad(got, named), truncated |-> un]
  <2>1. {i \in DOMAIN recs : ~recordReadable(b, slots, i)} = Lost(b, slots)
    BY Zenon DEF Lost
  <2>2. {i \in Lost(b, slots) : indexReadable(b, slots, i)} = Headed(b, slots)
    BY Zenon DEF Headed
  <2>3. DOMAIN recs \ Lost(b, slots) = read
    <3>1. \A i : i \in DOMAIN recs \ Lost(b, slots) <=> i \in read
      BY Zenon DEF Lost, Read
    <3> QED BY <3>1, Zenon
  <2>4. restored(recs, appliedAt(recs, TierL1, Len(recs), maxBlock) \cap read) = got
    BY Zenon DEF Got
  <2> HIDE DEF read
  <2> QED BY <2>1, <2>2, <2>3, <2>4, Zenon DEF rsSalvage, Named, Unnamed
<1>2. un <=> \/ ForeignAt(recs, read, maxBlock)
             \/ FailingAt(recs, read, got, maxBlock)
             \/ Unnamed(b, slots, recs, maxBlock)
             \/ named \cap Dirty(got) # {}
  BY Zenon DEF ForeignAt, FailingAt
<1>3. un \in BOOLEAN
  BY Zenon
<1> HIDE DEF un
<1>4. Verdict(d, got, named) /\ d.truncated = un
  <2> HIDE DEF named
  <2> QED BY <1>1, <1>3, VerdictFrom
<1> QED BY <1>2, <1>4, Zenon

\* The verdict on a payload whose records can all be read.
LEMMA WholeVerdict ==
    ASSUME NEW b, b.count \in Nat, NEW recs, NEW maxBlock, Len(recs) = b.count,
           NEW d, d = applyRecords(recs, NoTail, TierL1, b.count, maxBlock),
           NEW got, got = Got(b, recs, 1 .. b.count, maxBlock)
    PROVE  /\ Verdict(d, got, {})
           /\ d.truncated <=> \/ ForeignAt(recs, 1 .. b.count, maxBlock)
                              \/ FailingAt(recs, 1 .. b.count, got, maxBlock)
<1> DEFINE n == b.count
           ext == Extent(recs, NoTail, n, maxBlock)
           un == \/ ext.loss
                 \/ \E i \in 1 .. ext.n : /\ Verifies(recs[i], TierL1)
                                          /\ ~InBase(recs[i].idx, maxBlock)
                 \/ \E i \in 1 .. ext.n : /\ ~Verifies(recs[i], TierL1)
                                          /\ ~suppressed(recs[i], got, maxBlock)
                 \/ ext.tail \cap Dirty(got) # {}
<1>1. ext.n = n /\ ext.tail = {} /\ ~ext.loss
  <2>1. /\ ext.n = n /\ ext.tail = {}
        /\ ext.loss <=> Len(recs) > n \/ NoTail # NoTail
    BY ExtentFull
  <2> QED BY <2>1
<1>2. got = restored(recs, appliedAt(recs, TierL1, ext.n, maxBlock))
  <2>1. appliedAt(recs, TierL1, n, maxBlock) \cap (1 .. n) = appliedAt(recs, TierL1, n, maxBlock)
    BY Zenon DEF appliedAt
  <2> QED BY <1>1, <2>1, Zenon DEF Got
<1>3. d = [err |-> IF finalizeBad(got, ext.tail) = {} /\ ~un THEN "nil" ELSE "Partial",
           over |-> got, bad |-> finalizeBad(got, ext.tail), truncated |-> un]
  BY <1>2, Zenon DEF applyRecords
<1>4. un <=> \/ ForeignAt(recs, 1 .. n, maxBlock)
             \/ FailingAt(recs, 1 .. n, got, maxBlock)
  <2> HIDE DEF ext
  <2> QED BY <1>1, Zenon DEF ForeignAt, FailingAt
<1>5. un \in BOOLEAN
  BY Zenon
<1> HIDE DEF un
<1>6. Verdict(d, got, ext.tail) /\ d.truncated = un
  <2> HIDE DEF ext
  <2> QED BY <1>3, <1>5, VerdictFrom
<1> QED BY <1>1, <1>4, <1>6, Zenon

\* Deserialize returns an error value, an overlay and blocks of the device;
\* and what it restores was serialized.
LEMMA L2Type ==
    ASSUME NEW b \in RSBlob, NEW ov \in Overlay, Sourced(b, ov),
           NEW maxBlock \in 0 .. NBlocks, NEW wd \in Int,
           NEW d, d = DeserializeL2(b, maxBlock, wd)
    PROVE  d \in Result /\ \A x \in Block : d.over[x] \in {ov[x], NoData}
<1> DEFINE slots == parseShardSection(b)
           recs == readPayload(b, slots, wd)
<1>1. CASE ~Accepted(b)
  <2>1. d = Corrupt
    BY <1>1, L2Cases
  <2>2. d.over = Empty
    BY <2>1 DEF Corrupt
  <2> QED BY <2>1, <2>2, CorruptType, EmptyType
<1> DEFINE got1 == Got(b, recs, 1 .. b.count, maxBlock)
           got2 == Got(b, recs, Read(b, slots), maxBlock)
           named == Named(b, slots, recs, maxBlock)
<1>2. ASSUME Accepted(b)
      PROVE  /\ b.count \in Nat /\ Len(recs) = b.count /\ DOMAIN recs = 1 .. b.count
             /\ got1 \in Overlay /\ \A x \in Block : got1[x] \in {ov[x], NoData}
             /\ got2 \in Overlay /\ \A x \in Block : got2[x] \in {ov[x], NoData}
             /\ named \subseteq Block
  <2>1. Sound(b) /\ b.count \in Nat
    BY <1>2, AcceptedIsSound DEF RSBlob
  <2>2. Len(recs) = b.count /\ DOMAIN recs = 1 .. b.count
    <3> HIDE DEF slots
    <3> QED BY <2>1, PayloadRead
  <2>3. ASSUME NEW at
        PROVE  LET got == Got(b, recs, at, maxBlock)
               IN  got \in Overlay /\ \A x \in Block : got[x] \in {ov[x], NoData}
    BY <2>1, AppliedIsTrue DEF Got
  <2>4. ASSUME NEW i \in Lost(b, slots) PROVE recs[i].idx \in Int
    <3>1. i \in 1 .. b.count
      BY DEF Lost
    <3> QED BY <2>1, <3>1, RecordAuthentic
  <2>5. named \subseteq Block
    <3> HIDE DEF recs, slots
    <3> QED BY <2>4, FormatAssumption DEF Named, lostNamed, InBase, Block
  <2> HIDE DEF recs, slots, named
  <2> QED BY <2>1, <2>2, <2>3, <2>5
<1>3. ASSUME NEW got \in Overlay, \A x \in Block : got[x] \in {ov[x], NoData},
             NEW blamed \in SUBSET Block, Verdict(d, got, blamed)
      PROVE  d \in Result /\ \A x \in Block : d.over[x] \in {ov[x], NoData}
  <2>1. /\ d.over = got /\ d.bad = blamed \ Dirty(got) /\ d.truncated \in BOOLEAN
        /\ d.err = "nil" \/ d.err = "Partial"
        /\ d = [err |-> d.err, over |-> got, bad |-> d.bad, truncated |-> d.truncated]
    BY <1>3 DEF Verdict
  <2>2. d \in Result
    BY <2>1 DEF Result
  <2> QED BY <1>3, <2>1, <2>2
<1>4. CASE Accepted(b) /\ Whole(b, slots)
  <2>1. d = applyRecords(recs, NoTail, TierL1, b.count, maxBlock)
    BY <1>4, L2Cases
  <2> HIDE DEF recs
  <2>2. Verdict(d, got1, {})
    BY <1>2, <1>4, <2>1, WholeVerdict
  <2> HIDE DEF got1
  <2> QED BY <1>2, <1>3, <1>4, <2>2
<1>5. CASE Accepted(b) /\ ~Whole(b, slots)
  <2>1. d = rsSalvage(b, slots, recs, maxBlock)
    BY <1>5, L2Cases
  <2> HIDE DEF recs, slots
  <2>2. Verdict(d, got2, named)
    BY <1>2, <1>5, <2>1, SalvageVerdict
  <2> HIDE DEF got2, named
  <2> QED BY <1>2, <1>3, <1>5, <2>2
<1> QED BY <1>1, <1>4, <1>5

-----------------------------------------------------------------------------
(* What SerializeRS writes, and what the medium makes of it. *)

\* A geometry for a payload of len cells.
MetaFor(m, len) ==
    /\ m \in [data : Nat, parity : Nat, size : Nat, len : Nat]
    /\ m.data >= 1 /\ m.len = len /\ m.size = shardSizeOf(m.data, m.len)

\* It is one.
LEMMA MetaType ==
    ASSUME NEW data \in Int, NEW parity \in Int, NEW len \in Nat
    PROVE  MetaFor(rsMeta(data, parity, len), len)
<1> DEFINE m == rsMeta(data, parity, len)
           q == len \div rsShardPayload
           D == AtMost(rsDefaultData, AtLeast(1, q))
           N == IF data <= 0 THEN D ELSE data
           K == IF parity <= 0 THEN rsDefaultParity ELSE parity
<1>1. q \in Nat /\ rsDefaultData \in Nat /\ rsDefaultData >= 1 /\ rsDefaultParity \in Nat
  <2>1. rsShardPayload \in Nat /\ rsShardPayload >= 1
    BY RSAssumption
  <2>2. q \in Nat
    BY <2>1, DivMod
  <2> QED BY <2>2, RSAssumption
<1>2. rsDefaultShards(len) = [data |-> D, parity |-> rsDefaultParity]
  BY DEF rsDefaultShards
<1> HIDE DEF q
<1>3. D \in Nat /\ D >= 1
  BY <1>1 DEF AtMost, AtLeast
<1>4. N \in Nat /\ N >= 1 /\ K \in Nat
  <2> HIDE DEF D
  <2> QED BY <1>1, <1>3
<1>5. m = [data |-> N, parity |-> K, size |-> shardSizeOf(N, len), len |-> len]
  <2> HIDE DEF D
  <2> QED BY <1>2 DEF rsMeta
<1> HIDE DEF N, K, m
<1>6. shardSizeOf(N, len) \in Nat
  BY <1>4, CeilDivFacts DEF shardSizeOf
<1>7. MetaFor(m, len)
  BY <1>4, <1>5, <1>6 DEF MetaFor
<1> QED BY <1>7 DEF m

\* The blob is as the invariant says.
LEMMA SerializedIsStored ==
    ASSUME NEW ov \in Overlay, NEW data \in Int, NEW parity \in Int,
           NEW b \in SerializeRS(ov, data, parity)
    PROVE  b \in RSBlob /\ Stored(b, {}, ov)
<1> DEFINE n == Cardinality(Dirty(ov))
           m == rsMeta(data, parity, RecCells * n)
<1>1. n \in Nat /\ RecCells * n \in Nat
  BY DirtyFinite DEF RecCells
<1>2. PICK s \in sortedIndices(ov) :
        /\ encodable(m)
        /\ b = [header |-> TRUE, count |-> n, metaOK |-> TRUE, meta |-> m,
                recs |-> [i \in DOMAIN s |-> writeRecord(ov, s[i], TierL1)],
                shards |-> [k \in 1 .. Total(m) |-> [idx |-> k - 1, ok |-> TRUE, of |-> k - 1]],
                rest |-> 0]
  BY DEF SerializeRS
<1>3. s \in [1 .. n -> Dirty(ov)]
  BY DEF sortedIndices
<1>4. /\ m \in [data : Nat, parity : Nat, size : Nat, len : Nat]
      /\ m.data >= 1 /\ m.len = RecCells * n /\ m.size = shardSizeOf(m.data, m.len)
  <2>1. MetaFor(m, RecCells * n)
    BY <1>1, MetaType
  <2> HIDE DEF m
  <2> QED BY <2>1 DEF MetaFor
<1> HIDE DEF n, m
<1> DEFINE rs == [i \in 1 .. n |-> writeRecord(ov, s[i], TierL1)]
           sh == [k \in 1 .. Total(m) |-> [idx |-> k - 1, ok |-> TRUE, of |-> k - 1]]
<1>5. b = [header |-> TRUE, count |-> n, metaOK |-> TRUE, meta |-> m,
           recs |-> rs, shards |-> sh, rest |-> 0]
  BY <1>2, <1>3
<1>6. rs \in Seq(Record)
  <2>1. ASSUME NEW i \in 1 .. n PROVE writeRecord(ov, s[i], TierL1) \in Record
    <3>1. s[i] \in Block /\ s[i] \in Int /\ ov[s[i]] \in Content
      BY <1>3 DEF Dirty, Overlay, Block
    <3> QED BY <3>1 DEF writeRecord, Record, Crc
  <2> QED BY <1>1, <2>1
<1>7. Total(m) \in Nat
  BY <1>4 DEF Total
<1>8. sh \in Seq(ShardHdr) /\ Len(sh) = Total(m)
  <2>1. ASSUME NEW k \in 1 .. Total(m)
        PROVE  [idx |-> k - 1, ok |-> TRUE, of |-> k - 1] \in ShardHdr
    BY <1>7 DEF ShardHdr
  <2> QED BY <1>7, <2>1
<1>9. \A k \in 1 .. Total(m) : sh[k].idx = k - 1 /\ sh[k].of = k - 1
  OBVIOUS
<1> HIDE DEF sh
<1>10. /\ b.count = n /\ b.meta = m /\ b.recs = rs /\ b.shards = sh
       /\ b.header = TRUE /\ b.metaOK = TRUE
  BY <1>5
<1>11. b \in RSBlob
  <2> HIDE DEF rs
  <2> QED BY <1>1, <1>4, <1>5, <1>6, <1>8 DEF RSBlob
<1>12. Sourced(b, ov)
  BY <1>4, <1>10 DEF Sourced, n
<1>13. Measured(b.meta)
  BY <1>2, <1>4, <1>10 DEF Measured
<1>14. Placed(b, {})
  <2>1. ASSUME NEW k \in 1 .. Len(b.shards)
        PROVE  b.shards[k].of = k - 1 /\ b.shards[k].idx = k - 1 /\ k - 1 < Total(b.meta)
    BY <1>7, <1>8, <1>9, <1>10
  <2>2. ASSUME NEW k \in 1 .. Len(b.shards), NEW l \in 1 .. Len(b.shards),
               b.shards[k].of = b.shards[l].of
        PROVE  k = l
    BY <2>1, <2>2, <1>7, <1>8, <1>10
  <2> QED BY <2>1, <2>2, <1>10 DEF Placed
<1> QED BY <1>11, <1>12, <1>13, <1>14 DEF Stored

\* A blob with other shards, or another end, or without one of its headers.
Redone(b, sh, rest, h, mok) ==
    [header |-> h, count |-> b.count, metaOK |-> mok, meta |-> b.meta,
     recs |-> b.recs, shards |-> sh, rest |-> rest]

\* Shards such as the invariant allows.
Fits(b, sh, faults) ==
    /\ \A k \in 1 .. Len(sh) : sh[k].of < Total(b.meta)
    /\ "index" \notin faults => \A k \in 1 .. Len(sh) : sh[k].idx = sh[k].of
    /\ "copy" \notin faults => \A k, l \in 1 .. Len(sh) : sh[k].of = sh[l].of => k = l

\* A blob with such shards is as the invariant says.
LEMMA RedoneIsStored ==
    ASSUME NEW b \in RSBlob, NEW ov, NEW faults, Stored(b, faults, ov), NEW kind,
           NEW sh \in Seq(ShardHdr), NEW rest \in Nat, NEW h \in BOOLEAN, NEW mok \in BOOLEAN,
           Fits(b, sh, faults \cup {kind}),
           h \/ ~b.header \/ kind = "header", mok \/ ~b.metaOK \/ kind = "meta",
           NEW b2, b2 = Redone(b, sh, rest, h, mok)
    PROVE  b2 \in RSBlob /\ Stored(b2, faults \cup {kind}, ov)
<1>1. b2 \in RSBlob
  <2>1. /\ b.count \in Nat /\ b.recs \in Seq(Record)
        /\ b.meta \in [data : Nat, parity : Nat, size : Nat, len : Nat]
    BY DEF RSBlob
  <2> QED BY <2>1 DEF RSBlob, Redone
<1>2. /\ b2.recs = b.recs /\ b2.meta = b.meta /\ b2.count = b.count
      /\ b2.shards = sh /\ b2.header = h /\ b2.metaOK = mok
  BY DEF Redone
<1>3. Sourced(b2, ov) /\ Measured(b2.meta)
  BY <1>2, Zenon DEF Stored, Sourced
<1>4. /\ "header" \notin faults \cup {kind} => b2.header
      /\ "meta" \notin faults \cup {kind} => b2.metaOK
  BY <1>2, Zenon DEF Stored, Placed
<1>5. Placed(b2, faults \cup {kind})
  <2>1. \A k \in 1 .. Len(b2.shards) : b2.shards[k].of < Total(b2.meta)
    BY <1>2 DEF Fits
  <2>2. "index" \notin faults \cup {kind} =>
           \A k \in 1 .. Len(b2.shards) : b2.shards[k].idx = b2.shards[k].of
    BY <1>2 DEF Fits
  <2>3. "copy" \notin faults \cup {kind} =>
           \A k, l \in 1 .. Len(b2.shards) : b2.shards[k].of = b2.shards[l].of => k = l
    BY <1>2 DEF Fits
  <2> QED BY <1>4, <2>1, <2>2, <2>3 DEF Placed
<1> QED BY <1>1, <1>3, <1>5 DEF Stored

\* The shards of a stored blob.
LEMMA StoredShards ==
    ASSUME NEW b \in RSBlob, NEW ov, NEW faults, Stored(b, faults, ov)
    PROVE  /\ b.shards \in Seq(ShardHdr) /\ Len(b.shards) \in Nat /\ b.rest \in Nat
           /\ DOMAIN b.shards = 1 .. Len(b.shards)
           /\ b.header \in BOOLEAN /\ b.metaOK \in BOOLEAN
           /\ b = Redone(b, b.shards, b.rest, b.header, b.metaOK)
           /\ \A k \in 1 .. Len(b.shards) :
                 /\ b.shards[k] \in ShardHdr /\ b.shards[k].of < Total(b.meta)
                 /\ "index" \notin faults => b.shards[k].idx = b.shards[k].of
           /\ "copy" \notin faults =>
                 \A k, l \in 1 .. Len(b.shards) : b.shards[k].of = b.shards[l].of => k = l
<1>1. /\ b.shards \in Seq(ShardHdr) /\ Len(b.shards) \in Nat /\ b.rest \in Nat
      /\ DOMAIN b.shards = 1 .. Len(b.shards)
      /\ b.header \in BOOLEAN /\ b.metaOK \in BOOLEAN
  BY DEF RSBlob
<1>2. b = Redone(b, b.shards, b.rest, b.header, b.metaOK)
  BY DEF RSBlob, Redone
<1>3. \A k \in 1 .. Len(b.shards) : b.shards[k] \in ShardHdr
  BY <1>1, ElementOfSeq
<1> QED BY <1>1, <1>2, <1>3, Zenon DEF Stored, Placed

-----------------------------------------------------------------------------
(* With every shard in its place. *)

\* A slot is empty or holds the shard that belongs there.
InPlace(b, slots) == \A i \in 0 .. (Total(b.meta) - 1) : slots[i] = Nil \/ slots[i] = i

\* So it is unless the index of a shard was hit.
LEMMA SlotsInPlace ==
    ASSUME NEW b \in RSBlob, NEW ov, NEW faults, Stored(b, faults, ov), "index" \notin faults
    PROVE  InPlace(b, parseShardSection(b))
<1>1. ASSUME NEW i \in 0 .. (Total(b.meta) - 1)
      PROVE  parseShardSection(b)[i] = Nil \/ parseShardSection(b)[i] = i
  <2>1. \A k \in 1 .. Len(b.shards) : b.shards[k].idx = b.shards[k].of
    BY StoredShards
  <2> QED BY <2>1, SlotFacts
<1> QED BY <1>1 DEF InPlace

\* Then a cell that can be read at all is the one written there.
LEMMA ReadInPlace ==
    ASSUME NEW b \in RSBlob, NEW slots, InPlace(b, slots),
           NEW p \in Nat, p < b.meta.data * b.meta.size,
           reconstructible(b.meta, slots) \/ slots[p \div b.meta.size] # Nil,
           DOMAIN slots = 0 .. (Total(b.meta) - 1)
    PROVE  readCell(b, slots, p) = payloadCell(b.recs, p)
<1> DEFINE m == b.meta
           i == p \div m.size
           c == p % m.size
<1>1. m.data \in Nat /\ m.parity \in Nat /\ m.size \in Nat
  BY DEF RSBlob
<1>2. m.size >= 1 /\ i \in 0 .. (m.data - 1)
  BY <1>1, InData
<1>3. c \in Nat /\ i \in Nat /\ i \in 0 .. (Total(b.meta) - 1) /\ i * m.size + c = p /\ i < m.data
  <2>1. c \in 0 .. (m.size - 1) /\ p = i * m.size + c
    BY <1>1, <1>2, DivMod
  <2> HIDE DEF c, i
  <2> QED BY <1>1, <1>2, <2>1 DEF Total
<1>4. reconstructible(b.meta, slots) \/ slots[i] # Nil
  OBVIOUS
<1>5. readCell(b, slots, p) = IF reconstructible(b.meta, slots) THEN Reconstruct(b, slots, i, c)
                              ELSE IF slots[i] = Nil THEN Garbage
                              ELSE shardCell(b.meta, b.recs, slots[i], c)
  BY DEF readCell
<1> HIDE DEF c, i
<1>6. slots[i] = Nil \/ slots[i] = i
  BY <1>3 DEF InPlace
<1>7. shardCell(b.meta, b.recs, i, c) = payloadCell(b.recs, p)
  BY <1>3 DEF shardCell
<1>8. Reconstruct(b, slots, i, c) = shardCell(b.meta, b.recs, i, c)
  <2>1. CASE slots[i] # Nil
    BY <2>1, <1>6 DEF Reconstruct
  <2>2. CASE slots[i] = Nil
    <3> DEFINE used == {s \in DOMAIN slots :
                    /\ slots[s] # Nil
                    /\ Cardinality({t \in 0 .. (s - 1) : slots[t] # Nil}) < b.meta.data}
    <3>1. \A s \in used : shardCell(b.meta, b.recs, slots[s], c) = shardCell(b.meta, b.recs, s, c)
      BY Zenon DEF InPlace
    <3> QED BY <2>2, <3>1, Zenon DEF Reconstruct
  <2> QED BY <2>1, <2>2
<1> QED BY <1>4, <1>5, <1>6, <1>7, <1>8

\* The cells that can be read at all are those written.
Faithful(b, slots) ==
    \A p \in Nat :
        /\ p < b.meta.data * b.meta.size
        /\ reconstructible(b.meta, slots) \/ slots[p \div b.meta.size] # Nil
        => readCell(b, slots, p) = payloadCell(b.recs, p)

\* They are unless the index of a shard was hit.
LEMMA StoredIsFaithful ==
    ASSUME NEW b \in RSBlob, NEW ov, NEW faults, Stored(b, faults, ov), "index" \notin faults
    PROVE  Faithful(b, parseShardSection(b))
<1> DEFINE slots == parseShardSection(b)
<1>1. InPlace(b, slots)
  BY SlotsInPlace
<1>2. DOMAIN slots = 0 .. (Total(b.meta) - 1)
  BY DEF parseShardSection
<1> HIDE DEF slots
<1>3. Faithful(b, slots)
  BY <1>1, <1>2, ReadInPlace DEF Faithful
<1> QED BY <1>3 DEF slots

\* With a single data shard, all shards are copies, and misplaced ones do no
\* harm.
LEMMA SingleIsFaithful ==
    ASSUME NEW b \in RSBlob, b.meta.data = 1, NEW slots, slots = parseShardSection(b)
    PROVE  Faithful(b, slots)
<1> SUFFICES ASSUME NEW p \in Nat, p < b.meta.data * b.meta.size,
                    reconstructible(b.meta, slots) \/ slots[p \div b.meta.size] # Nil
             PROVE  readCell(b, slots, p) = payloadCell(b.recs, p)
  BY Zenon DEF Faithful
<1> DEFINE m == b.meta
           i == p \div m.size
           c == p % m.size
<1>1. m.data \in Nat /\ m.parity \in Nat /\ m.size \in Nat
  BY DEF RSBlob
<1>2. m.size >= 1 /\ i \in 0 .. (m.data - 1) /\ p = i * m.size + c /\ c \in Nat
  <2>1. m.size >= 1 /\ i \in 0 .. (m.data - 1)
    BY <1>1, InData
  <2>2. c \in 0 .. (m.size - 1) /\ p = i * m.size + c
    BY <1>1, <2>1, DivMod
  <2> QED BY <2>1, <2>2
<1>3. readCell(b, slots, p) = IF reconstructible(b.meta, slots) THEN Reconstruct(b, slots, i, c)
                              ELSE IF slots[i] = Nil THEN Garbage
                              ELSE shardCell(b.meta, b.recs, slots[i], c)
  BY DEF readCell
<1>4. reconstructible(b.meta, slots) \/ slots[i] # Nil
  OBVIOUS
<1> HIDE DEF i, c
<1>5. i = 0 /\ c = p
  BY <1>1, <1>2
<1>6. ASSUME NEW x \in Nat PROVE shardCell(b.meta, b.recs, x, c) = payloadCell(b.recs, c)
  <2>1. x < m.data => x * m.size + c = c
    BY <1>1, <1>2
  <2> QED BY <2>1 DEF shardCell
<1>7. DOMAIN slots = 0 .. (Total(b.meta) - 1) /\ DOMAIN slots \subseteq Nat /\ 0 \in DOMAIN slots
  <2>1. DOMAIN slots = 0 .. (Total(b.meta) - 1)
    BY DEF parseShardSection
  <2>2. Total(b.meta) \in Nat /\ Total(b.meta) >= 1
    BY <1>1 DEF Total
  <2> QED BY <2>1, <2>2
<1>8. ASSUME NEW t \in DOMAIN slots PROVE slots[t] = Nil \/ slots[t] \in Nat
  BY <1>7, SlotFacts
<1>9. Reconstruct(b, slots, i, c) = payloadCell(b.recs, c)
  <2>1. CASE slots[i] # Nil
    <3>1. slots[i] \in Nat
      BY <1>5, <1>7, <1>8, <2>1
    <3> QED BY <1>6, <2>1, <3>1 DEF Reconstruct
  <2>2. CASE slots[i] = Nil
    <3> DEFINE used == {s \in DOMAIN slots :
                    /\ slots[s] # Nil
                    /\ Cardinality({t \in 0 .. (s - 1) : slots[t] # Nil}) < b.meta.data}
    <3>1. ASSUME NEW s \in used
          PROVE  shardCell(b.meta, b.recs, slots[s], c) = shardCell(b.meta, b.recs, s, c)
      <4>1. slots[s] \in Nat /\ s \in Nat
        BY <1>7, <1>8
      <4> QED BY <1>6, <4>1
    <3>2. Reconstruct(b, slots, i, c) = shardCell(b.meta, b.recs, i, c)
      BY <2>2, <3>1, Zenon DEF Reconstruct
    <3>3. i \in Nat
      BY <1>5
    <3> QED BY <1>6, <3>2, <3>3
  <2> QED BY <2>1, <2>2
<1>10. slots[i] # Nil => shardCell(b.meta, b.recs, slots[i], c) = payloadCell(b.recs, c)
  BY <1>5, <1>6, <1>7, <1>8
<1> QED BY <1>3, <1>4, <1>5, <1>9, <1>10

\* The i-th record that is read is that of the i-th dirty block.
AsWritten(recs, ov, s, i) ==
    recs[i].idx = s[i] /\ recs[i].data = ov[s[i]] /\ Verifies(recs[i], TierL1)

\* Such are the records that can be read faithfully; and such is the index of
\* a record of which no more can be read.
LEMMA RecordFaithful ==
    ASSUME NEW b \in RSBlob, NEW ov \in Overlay, NEW s, IsSource(b, ov, s), Sound(b),
           NEW slots, slots = parseShardSection(b), Faithful(b, slots),
           NEW wd, NEW recs, recs = readPayload(b, slots, wd), NEW i \in 1 .. b.count
    PROVE  /\ reconstructible(b.meta, slots) \/ recordReadable(b, slots, i) => AsWritten(recs, ov, s, i)
           /\ indexReadable(b, slots, i) => recs[i].idx = s[i]
<1>1. /\ recs[i].idx = readIndex(Cell(b, slots, i, 0), Cell(b, slots, i, 1), wd)
      /\ recs[i].data = IF Cell(b, slots, i, 2)[1] = "data" THEN Cell(b, slots, i, 2)[2] ELSE Junk
      /\ recs[i].crc = IF Cell(b, slots, i, 3)[1] = "crc" THEN Cell(b, slots, i, 3)[2] ELSE BadCrc
  BY PayloadRead
<1>2. /\ b.count \in Nat /\ b.meta.len \in Nat /\ b.meta.data * b.meta.size \in Nat
      /\ Len(b.recs) = b.count
      /\ b.recs[i] = [idx |-> s[i], data |-> ov[s[i]], crc |-> <<s[i], ov[s[i]]>>]
  BY DEF RSBlob, IsSource
<1>3. ASSUME NEW j \in 0 .. 3,
             \/ reconstructible(b.meta, slots)
             \/ recordReadable(b, slots, i)
             \/ j <= 1 /\ indexReadable(b, slots, i)
      PROVE  Cell(b, slots, i, j) = payloadCell(b.recs, RecCells * (i - 1) + j)
  <2> DEFINE off == RecCells * (i - 1)
             p == off + j
  <2>1. p \in Nat /\ p < b.meta.len
    BY <1>2 DEF Sound, RecCells
  <2>2. /\ p \in off .. (off + RecCells - 1)
        /\ j <= 1 => p \in off .. (off + 2 - 1)
    BY <1>2 DEF RecCells
  <2>3. reconstructible(b.meta, slots) \/ slots[p \div b.meta.size] # Nil
    <3> HIDE DEF p, off
    <3>1. recordReadable(b, slots, i) => slots[p \div b.meta.size] # Nil
      BY <2>2, Zenon DEF recordReadable, readShardSpan, off
    <3>2. j <= 1 /\ indexReadable(b, slots, i) => slots[p \div b.meta.size] # Nil
      BY <2>2, Zenon DEF indexReadable, readShardSpan, off
    <3> QED BY <1>3, <3>1, <3>2
  <2> HIDE DEF p
  <2>4. p < b.meta.data * b.meta.size
    BY <1>2, <2>1 DEF Sound
  <2>5. readCell(b, slots, p) = payloadCell(b.recs, p)
    BY <2>1, <2>3, <2>4 DEF Faithful
  <2> QED BY <2>5 DEF Cell, p, off
<1>4. /\ payloadCell(b.recs, RecCells * (i - 1) + 0) = <<"lo", s[i]>>
      /\ payloadCell(b.recs, RecCells * (i - 1) + 1) = <<"hi">>
      /\ payloadCell(b.recs, RecCells * (i - 1) + 2) = <<"data", ov[s[i]]>>
      /\ payloadCell(b.recs, RecCells * (i - 1) + 3) = <<"crc", <<s[i], ov[s[i]]>> >>
  <2>1. RecCells * (i - 1) + 0 = RecCells * (i - 1) /\ i \in 1 .. Len(b.recs) /\ Len(b.recs) \in Nat
    BY <1>2 DEF RecCells
  <2> QED BY <1>2, <2>1, PayloadCells
<1>5. ASSUME \/ reconstructible(b.meta, slots)
             \/ recordReadable(b, slots, i)
             \/ indexReadable(b, slots, i)
      PROVE  recs[i].idx = s[i]
  <2>1. Cell(b, slots, i, 0) = <<"lo", s[i]>> /\ Cell(b, slots, i, 1) = <<"hi">>
    <3>1. 0 \in 0 .. 3 /\ 1 \in 0 .. 3 /\ 0 <= 1 /\ 1 <= 1
      OBVIOUS
    <3> QED BY <1>3, <1>4, <1>5, <3>1
  <2> QED BY <1>1, <2>1 DEF readIndex
<1>6. ASSUME reconstructible(b.meta, slots) \/ recordReadable(b, slots, i)
      PROVE  AsWritten(recs, ov, s, i)
  <2>1. /\ Cell(b, slots, i, 2) = <<"data", ov[s[i]]>>
        /\ Cell(b, slots, i, 3) = <<"crc", <<s[i], ov[s[i]]>> >>
    <3>1. 2 \in 0 .. 3 /\ 3 \in 0 .. 3
      OBVIOUS
    <3> QED BY <1>3, <1>4, <1>6, <3>1
  <2>2. recs[i].data = ov[s[i]] /\ recs[i].crc = <<s[i], ov[s[i]]>>
    BY <1>1, <2>1
  <2> QED BY <1>5, <1>6, <2>2 DEF AsWritten, Verifies, Crc
<1> QED BY <1>5, <1>6

-----------------------------------------------------------------------------
(* The bounds of parseRSMeta. *)

\* The slots that are filled are no more than the shards that are there.
LEMMA FilledSlots ==
    ASSUME NEW b \in RSBlob, NEW slots, slots = parseShardSection(b)
    PROVE  /\ Missing(slots) \in Nat
           /\ Total(b.meta) <= Len(b.shards) + Missing(slots)
<1> DEFINE T == Total(b.meta)
           S == 0 .. (T - 1)
           gaps == {i \in S : slots[i] = Nil}
           full == S \ gaps
           L == 1 .. Len(b.shards)
<1>1. T \in Nat /\ Len(b.shards) \in Nat
  BY DEF RSBlob, Total
<1>2. IsFiniteSet(S) /\ Cardinality(S) = T /\ IsFiniteSet(L) /\ Cardinality(L) = Len(b.shards)
  <2> HIDE DEF T
  <2>1. T - 1 \in Int /\ IsFiniteSet(S)
        /\ Cardinality(S) = IF 0 > T - 1 THEN 0 ELSE (T - 1) - 0 + 1
    <3>1. T - 1 \in Int
      BY <1>1
    <3> QED BY <3>1, FS_Interval
  <2>2. IsFiniteSet(L) /\ Cardinality(L) = IF 1 > Len(b.shards) THEN 0 ELSE Len(b.shards) - 1 + 1
    <3> DEFINE n == Len(b.shards)
    <3>1. n \in Int
      BY <1>1
    <3> HIDE DEF n
    <3>2. IsFiniteSet(1 .. n) /\ Cardinality(1 .. n) = IF 1 > n THEN 0 ELSE n - 1 + 1
      BY <3>1, FS_Interval
    <3> QED BY <3>2 DEF n
  <2> HIDE DEF S, L
  <2> QED BY <1>1, <2>1, <2>2
<1>3. DOMAIN slots = S
  BY DEF parseShardSection
<1>4. Missing(slots) = Cardinality(gaps)
  BY <1>3, Zenon DEF Missing
<1>5. gaps \in SUBSET S /\ S \cap gaps = gaps
  OBVIOUS
<1>6. ASSUME NEW i \in full PROVE \E k \in L : b.shards[k].idx = i
  <2>1. i \in 0 .. (Total(b.meta) - 1) /\ slots[i] # Nil
    OBVIOUS
  <2> QED BY <2>1, SlotFacts
<1> HIDE DEF T, S, gaps
<1>7. /\ IsFiniteSet(gaps) /\ Cardinality(gaps) \in Nat
      /\ IsFiniteSet(full) /\ Cardinality(full) \in Nat
      /\ Cardinality(full) = Cardinality(S) - Cardinality(gaps)
  <2>1. IsFiniteSet(gaps)
    BY <1>2, <1>5, FS_Subset, Zenon
  <2>2. IsFiniteSet(full) /\ Cardinality(full) = Cardinality(S) - Cardinality(S \cap gaps)
    BY <1>2, FS_Difference, Zenon
  <2> QED BY <1>5, <2>1, <2>2, FS_CardinalityType
<1> HIDE DEF full, L
<1> DEFINE f == [i \in full |-> CHOOSE k \in L : b.shards[k].idx = i]
<1>8. ASSUME NEW i \in full PROVE f[i] \in L /\ b.shards[f[i]].idx = i
  BY <1>6
<1>9. f \in [full -> L]
  BY <1>8
<1> HIDE DEF f
<1>10. f \in Injection(full, L)
  <2>1. DOMAIN f = full
    BY <1>9
  <2>2. \A i, j \in DOMAIN f : f[i] = f[j] => i = j
    BY <1>8, <2>1
  <2> QED BY <1>9, <2>2, Zenon DEF Injection, IsInjective
<1>11. Cardinality(full) <= Cardinality(L)
  BY <1>2, <1>10, FS_Injection
<1> QED BY <1>1, <1>2, <1>4, <1>7, <1>11 DEF T

\* As long as the erasures can be reconstructed, the body is not too short
\* for the shards that parseRSMeta expects.
LEMMA BodyLongEnough ==
    ASSUME NEW b \in RSBlob, NEW slots, slots = parseShardSection(b), Measured(b.meta),
           reconstructible(b.meta, slots)
    PROVE  Total(b.meta) * Stride(b.meta) <= 4 * bodyLen(b)
<1> DEFINE m == b.meta
           L == Len(b.shards)
           S == Stride(m)
<1>1. /\ m.data \in Nat /\ m.parity \in Nat /\ m.size \in Nat /\ L \in Nat /\ b.rest \in Nat
      /\ m.data >= 1
  BY DEF RSBlob, Measured
<1>2. /\ rsMetaSize \in Nat /\ rsShardHdrSize \in Nat /\ rsDefaultParity \in Nat
      /\ rsDefaultParity <= 3
  BY RSAssumption
<1>3. S \in Nat
  BY <1>1, <1>2 DEF Stride
<1>4. m.parity <= rsDefaultParity \/ m.parity <= m.data
  BY <1>1, <1>2 DEF Measured, encodable, validRSGeometry, AtLeast
<1>5. m.data <= L
  <2>1. Missing(slots) \in Nat /\ Total(m) <= L + Missing(slots)
    BY FilledSlots
  <2> QED BY <1>1, <2>1 DEF reconstructible, Total
<1>6. Total(m) <= 4 * L
  BY <1>1, <1>2, <1>4, <1>5 DEF Total
<1>7. bodyLen(b) = rsMetaSize + L * S + b.rest
  BY DEF bodyLen
<1>8. Total(m) \in Nat
  BY <1>1 DEF Total
<1> HIDE DEF S
<1> DEFINE T == Total(m)
<1>9. T * S <= (4 * L) * S
  <2> HIDE DEF T, L
  <2>1. PICK e \in Nat : 4 * L = T + e
    <3>1. 4 * L - T \in Nat /\ 4 * L = T + (4 * L - T)
      BY <1>1, <1>6, <1>8 DEF T, L
    <3> QED BY <3>1
  <2>2. (T + e) * S = T * S + e * S /\ e * S \in Nat /\ T * S \in Nat
    BY <1>1, <1>3, <1>8 DEF T
  <2> QED BY <2>1, <2>2
<1>10. (4 * L) * S = 4 * (L * S) /\ L * S \in Nat
  BY <1>1, <1>3
<1> DEFINE X == L * S
<1>11. X \in Nat /\ T * S <= 4 * X /\ bodyLen(b) = rsMetaSize + X + b.rest
  BY <1>7, <1>9, <1>10 DEF S
<1>12. 4 * X <= 4 * (rsMetaSize + X + b.rest)
  <2> HIDE DEF X
  <2> QED BY <1>1, <1>2, <1>11
<1>13. T * S \in Nat
  BY <1>3, <1>8
<1>14. T * S <= 4 * bodyLen(b)
  <2> DEFINE Y == T * S
  <2>1. Y \in Nat /\ Y <= 4 * X
    BY <1>11, <1>13
  <2> HIDE DEF X, Y
  <2>2. Y <= 4 * (rsMetaSize + X + b.rest)
    BY <1>1, <1>2, <1>11, <1>12, <2>1
  <2> QED BY <1>11, <2>2 DEF Y
<1> QED BY <1>14 DEF S

\* So a blob that can be reconstructed is accepted.
LEMMA ReconstructibleIsAccepted ==
    ASSUME NEW b \in RSBlob, NEW ov, NEW faults, Stored(b, faults, ov),
           faults \cap {"header", "meta"} = {},
           Total(b.meta) * b.meta.size <= rsMaxDecodeAlloc,
           NEW slots, slots = parseShardSection(b), reconstructible(b.meta, slots)
    PROVE  Accepted(b)
<1> DEFINE m == b.meta
<1>1. m.data \in Nat /\ m.parity \in Nat /\ m.size \in Nat /\ m.len \in Nat /\ b.count \in Nat
  BY DEF RSBlob
<1>2. /\ m.data >= 1 /\ m.size = shardSizeOf(m.data, m.len) /\ encodable(m)
      /\ m.len = RecCells * b.count
  BY DEF Stored, Measured, Sourced
<1>3. b.header /\ b.metaOK
  BY DEF Stored, Placed
<1>4. Total(m) <= rsMaxTotalShards /\ validRSGeometry(m.data, m.parity, m.len)
  BY <1>2 DEF encodable, Total
<1>5. m.len % RecCells = 0 /\ m.len \div RecCells = b.count
  BY <1>1, <1>2 DEF RecCells
<1>6. /\ m.len <= m.data * m.size
      /\ m.len = 0 \/ (m.size # 0 /\ m.size = CeilDiv(m.len, m.data))
  <2>1. CASE m.len = 0
    BY <1>1, <2>1
  <2>2. CASE m.len # 0
    <3>1. m.size = CeilDiv(m.len, m.data) /\ m.len > 0
      BY <1>1, <1>2, <2>2 DEF shardSizeOf
    <3>2. m.len <= m.data * CeilDiv(m.len, m.data) /\ CeilDiv(m.len, m.data) >= 1
      BY <1>1, <1>2, <3>1, CeilDivFacts
    <3> QED BY <3>1, <3>2
  <2> QED BY <2>1, <2>2
<1>7. Total(m) * Stride(m) <= 4 * bodyLen(b)
  BY BodyLongEnough DEF Stored
<1> QED BY <1>2, <1>3, <1>4, <1>5, <1>6, <1>7, Zenon DEF Accepted, parseRSMeta

-----------------------------------------------------------------------------
(* What is restored and what is blamed. *)

\* A block named by a record that is applied is restored.
LEMMA AppliedIsRestored ==
    ASSUME NEW b \in RSBlob, NEW ov \in Overlay, Sourced(b, ov), Sound(b),
           NEW slots, slots = parseShardSection(b), NEW wd \in Int,
           NEW recs, recs = readPayload(b, slots, wd), NEW maxBlock, NEW at,
           NEW i \in (1 .. b.count) \cap at, Verifies(recs[i], TierL1), InBase(recs[i].idx, maxBlock)
    PROVE  Got(b, recs, at, maxBlock)[recs[i].idx] # NoData /\ recs[i].idx \in Block
<1> DEFINE S == appliedAt(recs, TierL1, b.count, maxBlock) \cap at
<1>1. b.count \in Nat /\ S \in SUBSET (1 .. b.count) /\ i \in S
  BY DEF RSBlob, appliedAt
<1>2. recs[i].idx \in Block
  BY VerifiedIsTrue DEF Dirty
<1>3. ASSUME NEW j \in S PROVE recs[j].data # NoData
  BY <1>1, RecordAuthentic
<1> HIDE DEF S
<1>4. restored(recs, S)[recs[i].idx] # NoData
  BY <1>1, <1>2, <1>3, NamedIsRestored
<1> QED BY <1>2, <1>4 DEF Got, S

\* A block that is restored is named by a record that is applied.
LEMMA RestoredIsApplied ==
    ASSUME NEW b \in RSBlob, NEW recs, NEW maxBlock, NEW at,
           NEW x \in Dirty(Got(b, recs, at, maxBlock))
    PROVE  \E i \in (1 .. b.count) \cap at :
              /\ Verifies(recs[i], TierL1) /\ InBase(recs[i].idx, maxBlock) /\ recs[i].idx = x
<1> DEFINE S == appliedAt(recs, TierL1, b.count, maxBlock) \cap at
<1>1. b.count \in Nat /\ S \in SUBSET (1 .. b.count)
  BY DEF RSBlob, appliedAt
<1>2. x \in Block /\ restored(recs, S)[x] # NoData
  BY DEF Dirty, Got
<1>3. \A i \in S : i \in (1 .. b.count) \cap at /\ Verifies(recs[i], TierL1) /\ InBase(recs[i].idx, maxBlock)
  BY DEF appliedAt
<1> HIDE DEF S
<1>4. \E i \in S : recs[i].idx = x
  BY <1>1, <1>2, RestoredFromRecord
<1> QED BY <1>3, <1>4

\* What a result is judged by: how the blob came about and was read.
Judged(b, ov, slots, wd, recs, s) ==
    /\ b \in RSBlob /\ ov \in Overlay /\ Sourced(b, ov) /\ IsSource(b, ov, s) /\ Sound(b)
    /\ slots = parseShardSection(b) /\ wd \in Int /\ recs = readPayload(b, slots, wd)

\* If every record at the positions read is genuine and all are in the base,
\* nothing is foreign or failing there, and each of these blocks is restored.
LEMMA GenuineIsApplied ==
    ASSUME NEW b, NEW ov, NEW slots, NEW wd, NEW recs, NEW s, Judged(b, ov, slots, wd, recs, s),
           NEW at \in SUBSET (1 .. b.count), \A i \in at : AsWritten(recs, ov, s, i),
           NEW maxBlock
    PROVE  /\ ~FailingAt(recs, at, Got(b, recs, at, maxBlock), maxBlock)
           /\ ForeignAt(recs, at, maxBlock) <=> \E i \in at : ~InBase(s[i], maxBlock)
           /\ \A i \in at : InBase(s[i], maxBlock) => s[i] \in Dirty(Got(b, recs, at, maxBlock))
           /\ \A x \in Dirty(Got(b, recs, at, maxBlock)) : \E i \in at : s[i] = x
<1>1. \A i \in at : recs[i].idx = s[i] /\ Verifies(recs[i], TierL1)
  BY DEF AsWritten
<1>2. ~FailingAt(recs, at, Got(b, recs, at, maxBlock), maxBlock)
  BY <1>1, Zenon DEF FailingAt
<1>3. ForeignAt(recs, at, maxBlock) <=> \E i \in at : ~InBase(s[i], maxBlock)
  BY <1>1, Zenon DEF ForeignAt
<1>4. ASSUME NEW i \in at, InBase(s[i], maxBlock)
      PROVE  s[i] \in Dirty(Got(b, recs, at, maxBlock))
  <2>1. i \in (1 .. b.count) \cap at /\ InBase(recs[i].idx, maxBlock) /\ Verifies(recs[i], TierL1)
    BY <1>1, <1>4
  <2>2. Got(b, recs, at, maxBlock)[recs[i].idx] # NoData /\ recs[i].idx \in Block
    BY <2>1, AppliedIsRestored DEF Judged
  <2> QED BY <1>1, <2>2 DEF Dirty
<1>5. ASSUME NEW x \in Dirty(Got(b, recs, at, maxBlock)) PROVE \E i \in at : s[i] = x
  <2>1. b \in RSBlob
    BY DEF Judged
  <2>2. PICK i \in (1 .. b.count) \cap at : recs[i].idx = x
    BY <1>5, <2>1, RestoredIsApplied
  <2> QED BY <1>1, <2>2
<1> QED BY <1>2, <1>3, <1>4, <1>5

\* Records that are read faithfully are genuine.
LEMMA ReadIsGenuine ==
    ASSUME NEW b, NEW ov, NEW slots, NEW wd, NEW recs, NEW s, Judged(b, ov, slots, wd, recs, s),
           Faithful(b, slots)
    PROVE  /\ \A i \in Read(b, slots) : AsWritten(recs, ov, s, i)
           /\ Whole(b, slots) => \A i \in 1 .. b.count : AsWritten(recs, ov, s, i)
           /\ \A i \in Headed(b, slots) : recs[i].idx = s[i]
<1>1. ASSUME NEW i \in 1 .. b.count
      PROVE  /\ reconstructible(b.meta, slots) \/ recordReadable(b, slots, i) =>
                   AsWritten(recs, ov, s, i)
             /\ indexReadable(b, slots, i) => recs[i].idx = s[i]
  BY RecordFaithful DEF Judged
<1>2. b.meta.len = 0 => 1 .. b.count = {}
  <2>1. b.count \in Nat /\ b.meta.len = RecCells * b.count
    BY DEF Judged, RSBlob, Sound
  <2> QED BY <2>1 DEF RecCells
<1>3. \A i \in Read(b, slots) : AsWritten(recs, ov, s, i)
  BY <1>1, Zenon DEF Read
<1>4. Whole(b, slots) => \A i \in 1 .. b.count : AsWritten(recs, ov, s, i)
  BY <1>1, <1>2 DEF Whole
<1>5. \A i \in Headed(b, slots) : recs[i].idx = s[i]
  BY <1>1, Zenon DEF Headed, Lost
<1> QED BY <1>3, <1>4, <1>5

\* The two verdicts of a blob that is accepted.
LEMMA JudgedVerdict ==
    ASSUME NEW b, NEW ov, NEW slots, NEW wd, NEW recs, NEW s, Judged(b, ov, slots, wd, recs, s),
           Accepted(b), NEW maxBlock, NEW d, d = DeserializeL2(b, maxBlock, wd)
    PROVE  /\ Whole(b, slots) =>
                LET got == Got(b, recs, 1 .. b.count, maxBlock)
                IN  /\ Verdict(d, got, {})
                    /\ d.truncated <=> \/ ForeignAt(recs, 1 .. b.count, maxBlock)
                                       \/ FailingAt(recs, 1 .. b.count, got, maxBlock)
           /\ ~Whole(b, slots) =>
                LET got == Got(b, recs, Read(b, slots), maxBlock)
                    named == Named(b, slots, recs, maxBlock)
                IN  /\ Verdict(d, got, named)
                    /\ d.truncated <=> \/ ForeignAt(recs, Read(b, slots), maxBlock)
                                       \/ FailingAt(recs, Read(b, slots), got, maxBlock)
                                       \/ Unnamed(b, slots, recs, maxBlock)
                                       \/ named \cap Dirty(got) # {}
<1>1. b.count \in Nat /\ Len(recs) = b.count /\ DOMAIN recs = 1 .. b.count
  BY PayloadRead DEF Judged, RSBlob
<1>2. CASE Whole(b, slots)
  <2>1. d = applyRecords(recs, NoTail, TierL1, b.count, maxBlock)
    BY <1>2, L2Cases DEF Judged
  <2> DEFINE got == Got(b, recs, 1 .. b.count, maxBlock)
  <2>2. /\ Verdict(d, got, {})
        /\ d.truncated <=> \/ ForeignAt(recs, 1 .. b.count, maxBlock)
                           \/ FailingAt(recs, 1 .. b.count, got, maxBlock)
    BY <1>1, <2>1, WholeVerdict
  <2> QED BY <1>2, <2>2
<1>3. CASE ~Whole(b, slots)
  <2>1. d = rsSalvage(b, slots, recs, maxBlock)
    BY <1>3, L2Cases DEF Judged
  <2> DEFINE got == Got(b, recs, Read(b, slots), maxBlock)
             named == Named(b, slots, recs, maxBlock)
  <2>2. /\ Verdict(d, got, named)
        /\ d.truncated <=> \/ ForeignAt(recs, Read(b, slots), maxBlock)
                           \/ FailingAt(recs, Read(b, slots), got, maxBlock)
                           \/ Unnamed(b, slots, recs, maxBlock)
                           \/ named \cap Dirty(got) # {}
    BY <1>1, <2>1, SalvageVerdict
  <2> QED BY <1>3, <2>2
<1> QED BY <1>2, <1>3

\* What a resume has at hand.
Resumed(b, faults, ov, maxBlock, wd, d) ==
    /\ b \in RSBlob /\ ov \in Overlay /\ Stored(b, faults, ov)
    /\ maxBlock \in 0 .. NBlocks /\ wd \in Int /\ d = DeserializeL2(b, maxBlock, wd)

\* A blob that is accepted is judged by records of known blocks.
LEMMA ResumedIsJudged ==
    ASSUME NEW b, NEW faults, NEW ov, NEW maxBlock, NEW wd, NEW d,
           Resumed(b, faults, ov, maxBlock, wd, d), Accepted(b),
           NEW slots, slots = parseShardSection(b),
           NEW recs, recs = readPayload(b, slots, wd)
    PROVE  \E s : Judged(b, ov, slots, wd, recs, s)
<1>1. b \in RSBlob /\ ov \in Overlay /\ Sourced(b, ov) /\ wd \in Int
  BY DEF Resumed, Stored
<1>2. Sound(b)
  BY <1>1, AcceptedIsSound
<1>3. \E s : IsSource(b, ov, s)
  BY <1>1, SourceExists
<1> QED BY <1>1, <1>2, <1>3, Zenon DEF Judged

\* A blob that is not accepted is reported corrupt.
LEMMA RejectedIsCorrupt ==
    ASSUME NEW b, NEW faults, NEW ov, NEW maxBlock, NEW wd, NEW d,
           Resumed(b, faults, ov, maxBlock, wd, d), ~Accepted(b)
    PROVE  d = Corrupt /\ d.err = "ErrCorrupt" /\ d.bad = {}
<1>1. d = Corrupt
  BY L2Cases DEF Resumed
<1> QED BY <1>1 DEF Corrupt

\* Wherever the shards are, only blocks of the base are restored or blamed, and
\* none is blamed without an error.
LEMMA L2InBase ==
    ASSUME NEW b, NEW faults, NEW ov, NEW maxBlock, NEW wd, NEW d,
           Resumed(b, faults, ov, maxBlock, wd, d)
    PROVE  /\ \A x \in Dirty(d.over) \cup d.bad : InBase(x, maxBlock)
           /\ d.err = "nil" => d.bad = {}
<1> DEFINE slots == parseShardSection(b)
           recs == readPayload(b, slots, wd)
           named == Named(b, slots, recs, maxBlock)
<1>1. b \in RSBlob /\ maxBlock \in 0 .. NBlocks /\ b.count \in Nat
      /\ d = DeserializeL2(b, maxBlock, wd)
  BY DEF Resumed, RSBlob
<1>2. CASE ~Accepted(b)
  <2>1. d = Corrupt
    BY <1>2, RejectedIsCorrupt
  <2>2. d.err # "nil"
    BY <2>1 DEF Corrupt
  <2> QED BY <2>1, <2>2, CorruptType
<1>3. CASE Accepted(b)
  <2>1. PICK s : Judged(b, ov, slots, wd, recs, s)
    BY <1>3, ResumedIsJudged
  <2> HIDE DEF slots, recs
  <2>2. \/ Verdict(d, Got(b, recs, 1 .. b.count, maxBlock), {})
        \/ Verdict(d, Got(b, recs, Read(b, slots), maxBlock), named)
    BY <1>1, <1>3, <2>1, JudgedVerdict
  <2>3. ASSUME NEW at, NEW blamed, blamed = {} \/ blamed = named,
               Verdict(d, Got(b, recs, at, maxBlock), blamed)
        PROVE  /\ \A x \in Dirty(d.over) \cup d.bad : InBase(x, maxBlock)
               /\ d.err = "nil" => d.bad = {}
    <3>1. /\ d.over = Got(b, recs, at, maxBlock) /\ d.bad \subseteq blamed
          /\ d.err = "nil" => d.bad = {}
      BY <2>3, Zenon DEF Verdict
    <3>2. \A x \in blamed : InBase(x, maxBlock)
      BY <2>3 DEF Named, lostNamed
    <3> DEFINE on == appliedAt(recs, TierL1, b.count, maxBlock) \cap at
    <3>3. on \in SUBSET appliedAt(recs, TierL1, b.count, maxBlock)
      BY Zenon
    <3>4. d.over = restored(recs, on)
      BY <3>1 DEF Got
    <3> HIDE DEF on, named
    <3>5. \A x \in Dirty(d.over) : InBase(x, maxBlock)
      BY <1>1, <3>3, <3>4, RestoredInBase
    <3> QED BY <3>1, <3>2, <3>5
  <2> HIDE DEF named
  <2> QED BY <2>2, <2>3
<1> QED BY <1>2, <1>3

\* With the shards in their places: the blame is just, and complete unless the
\* result says that it is not.
LEMMA LossAccounted ==
    ASSUME NEW b, NEW faults, NEW ov, NEW maxBlock, NEW wd, NEW d,
           Resumed(b, faults, ov, maxBlock, wd, d), d.err = "Partial", "index" \notin faults,
           NEW lost, lost = {x \in Dirty(ov) : d.over[x] = NoData}
    PROVE  d.bad \subseteq lost /\ (~d.truncated => d.bad = lost)
<1> DEFINE slots == parseShardSection(b)
           recs == readPayload(b, slots, wd)
<1>1. Accepted(b)
  BY RejectedIsCorrupt
<1>2. PICK s : Judged(b, ov, slots, wd, recs, s)
  BY <1>1, ResumedIsJudged
<1>3. Faithful(b, slots)
  BY StoredIsFaithful DEF Resumed
<1>4. /\ \A i \in Read(b, slots) : AsWritten(recs, ov, s, i)
      /\ \A i \in Headed(b, slots) : recs[i].idx = s[i]
  BY <1>2, <1>3, ReadIsGenuine
<1>5. d = DeserializeL2(b, maxBlock, wd)
  BY DEF Resumed
<1>6. /\ s \in [1 .. b.count -> Dirty(ov)]
      /\ \A x \in Dirty(ov) : \E k \in 1 .. b.count : s[k] = x
  BY <1>2 DEF Judged, IsSource
<1> HIDE DEF slots, recs
<1>7. CASE Whole(b, slots)
  <2> DEFINE got == Got(b, recs, 1 .. b.count, maxBlock)
  <2>1. Verdict(d, got, {})
    BY <1>1, <1>2, <1>5, <1>7, JudgedVerdict
  <2>2. d.bad = {} /\ d.truncated
    BY <2>1, Zenon DEF Verdict
  <2> QED BY <2>2
<1>8. CASE ~Whole(b, slots)
  <2> DEFINE at == Read(b, slots)
             got == Got(b, recs, at, maxBlock)
             named == Named(b, slots, recs, maxBlock)
  <2>1. /\ Verdict(d, got, named)
        /\ d.truncated <=> \/ ForeignAt(recs, at, maxBlock)
                           \/ FailingAt(recs, at, got, maxBlock)
                           \/ Unnamed(b, slots, recs, maxBlock)
                           \/ named \cap Dirty(got) # {}
    BY <1>1, <1>2, <1>5, <1>8, JudgedVerdict
  <2>2. d.over = got /\ d.bad = named \ Dirty(got)
    BY <2>1, Zenon DEF Verdict
  <2>3. at \in SUBSET (1 .. b.count)
    BY DEF Read
  <2>4. /\ ForeignAt(recs, at, maxBlock) <=> \E i \in at : ~InBase(s[i], maxBlock)
        /\ \A i \in at : InBase(s[i], maxBlock) => s[i] \in Dirty(got)
    BY <1>2, <1>4, <2>3, GenuineIsApplied
  <2>5. ASSUME NEW x \in named PROVE x \in Dirty(ov)
    <3>1. PICK i \in Headed(b, slots) : x = recs[i].idx
      BY Zenon DEF Named, lostNamed
    <3>2. i \in 1 .. b.count
      BY Zenon DEF Headed, Lost
    <3> QED BY <1>4, <1>6, <3>1, <3>2
  <2> HIDE DEF at, got, named
  <2>6. d.bad \subseteq lost
    <3>1. ASSUME NEW x \in d.bad PROVE x \in lost
      <4>1. x \in named /\ x \notin Dirty(got)
        BY <2>2
      <4>2. x \in Dirty(ov) /\ got[x] = NoData
        BY <2>5, <4>1 DEF Dirty
      <4> QED BY <2>2, <4>2
    <3> QED BY <3>1
  <2>7. ASSUME ~d.truncated, NEW x \in lost PROVE x \in d.bad
    <3>1. x \in Dirty(ov) /\ x \notin Dirty(got)
      BY <2>2 DEF Dirty
    <3>2. PICK k \in 1 .. b.count : s[k] = x
      BY <1>6, <3>1
    <3>3. k \notin at
      BY <2>1, <2>4, <2>7, <3>1, <3>2
    <3>4. k \in Lost(b, slots)
      BY <3>3, Zenon DEF at, Read, Lost
    <3>5. k \in Headed(b, slots) /\ InBase(recs[k].idx, maxBlock)
      BY <2>1, <2>7, <3>4, Zenon DEF Unnamed, lostUnnamed
    <3>6. recs[k].idx \in named
      BY <3>4, <3>5, Zenon DEF named, Named, lostNamed
    <3> QED BY <1>4, <2>2, <3>1, <3>2, <3>5, <3>6
  <2> QED BY <2>6, <2>7
<1> QED BY <1>7, <1>8

\* If nothing is lost, foreign or failing, every record was read and applied or
\* repeats one that was.
LEMMA SilenceMeans ==
    ASSUME NEW b, NEW ov, NEW slots, NEW wd, NEW recs, NEW s, Judged(b, ov, slots, wd, recs, s),
           Accepted(b), NEW maxBlock, NEW d, d = DeserializeL2(b, maxBlock, wd), d.err = "nil"
    PROVE  LET got == Got(b, recs, 1 .. b.count, maxBlock)
           IN  /\ d.over = got
               /\ ~ForeignAt(recs, 1 .. b.count, maxBlock)
               /\ ~FailingAt(recs, 1 .. b.count, got, maxBlock)
               /\ Whole(b, slots) \/ Read(b, slots) = 1 .. b.count
               /\ d.bad = {} /\ ~d.truncated
<1>1. CASE Whole(b, slots)
  <2> DEFINE got == Got(b, recs, 1 .. b.count, maxBlock)
  <2>1. /\ Verdict(d, got, {})
        /\ d.truncated <=> \/ ForeignAt(recs, 1 .. b.count, maxBlock)
                           \/ FailingAt(recs, 1 .. b.count, got, maxBlock)
    BY <1>1, JudgedVerdict
  <2> QED BY <1>1, <2>1, Zenon DEF Verdict
<1>2. CASE ~Whole(b, slots)
  <2> DEFINE at == Read(b, slots)
             got == Got(b, recs, at, maxBlock)
             named == Named(b, slots, recs, maxBlock)
  <2>1. /\ Verdict(d, got, named)
        /\ d.truncated <=> \/ ForeignAt(recs, at, maxBlock)
                           \/ FailingAt(recs, at, got, maxBlock)
                           \/ Unnamed(b, slots, recs, maxBlock)
                           \/ named \cap Dirty(got) # {}
    BY <1>2, JudgedVerdict
  <2>2. d.over = got /\ d.bad = named \ Dirty(got) /\ d.bad = {} /\ ~d.truncated
    BY <2>1, Zenon DEF Verdict
  <2>3. named = {}
    <3> HIDE DEF named, got, at
    <3> QED BY <2>1, <2>2
  <2>4. Lost(b, slots) = {}
    <3> SUFFICES ASSUME NEW i \in Lost(b, slots) PROVE FALSE
      OBVIOUS
    <3>1. i \in Headed(b, slots) /\ InBase(recs[i].idx, maxBlock)
      BY <2>1, <2>2, Zenon DEF Unnamed, lostUnnamed
    <3>2. recs[i].idx \in named
      BY <3>1, Zenon DEF Named, lostNamed
    <3> QED BY <2>3, <3>2
  <2>5. at = 1 .. b.count
    BY <2>4 DEF Read, Lost
  <2>6. /\ ~ForeignAt(recs, at, maxBlock) /\ ~FailingAt(recs, at, got, maxBlock)
        /\ d.over = got /\ d.bad = {} /\ ~d.truncated
    BY <2>1, <2>2, Zenon
  <2> HIDE DEF at
  <2>7. /\ ~ForeignAt(recs, 1 .. b.count, maxBlock)
        /\ ~FailingAt(recs, 1 .. b.count, Got(b, recs, 1 .. b.count, maxBlock), maxBlock)
        /\ d.over = Got(b, recs, 1 .. b.count, maxBlock) /\ Read(b, slots) = 1 .. b.count
    BY <2>5, <2>6 DEF at
  <2> QED BY <2>6, <2>7, Zenon
<1> QED BY <1>1, <1>2

\* Of a blob that is read faithfully, a nil error means that nothing is missing.
LEMMA SilentFaithful ==
    ASSUME NEW b, NEW faults, NEW ov, NEW maxBlock, NEW wd, NEW d,
           Resumed(b, faults, ov, maxBlock, wd, d), d.err = "nil",
           Faithful(b, parseShardSection(b))
    PROVE  d.over = ov
<1> DEFINE slots == parseShardSection(b)
           recs == readPayload(b, slots, wd)
           all == 1 .. b.count
           got == Got(b, recs, all, maxBlock)
<1>1. Accepted(b)
  BY RejectedIsCorrupt
<1>2. PICK s : Judged(b, ov, slots, wd, recs, s)
  BY <1>1, ResumedIsJudged
<1>3. Faithful(b, slots)
  OBVIOUS
<1>4. d = DeserializeL2(b, maxBlock, wd)
  BY DEF Resumed
<1>5. /\ d.over = got
      /\ ~ForeignAt(recs, all, maxBlock)
      /\ Whole(b, slots) \/ Read(b, slots) = all
  <2> HIDE DEF slots, recs
  <2> QED BY <1>1, <1>2, <1>4, SilenceMeans
<1>6. \A i \in all : AsWritten(recs, ov, s, i)
  <2> HIDE DEF slots, recs
  <2> QED BY <1>2, <1>3, <1>5, ReadIsGenuine
<1>7. \A i \in all : s[i] \in Dirty(got)
  <2> HIDE DEF slots, recs
  <2>1. /\ ForeignAt(recs, all, maxBlock) <=> \E i \in all : ~InBase(s[i], maxBlock)
        /\ \A i \in all : InBase(s[i], maxBlock) => s[i] \in Dirty(got)
    <3>1. all \in SUBSET (1 .. b.count)
      OBVIOUS
    <3> HIDE DEF all
    <3> QED BY <1>2, <1>6, <3>1, GenuineIsApplied
  <2> QED BY <1>5, <2>1
<1>8. \A x \in Dirty(ov) : got[x] # NoData
  BY <1>2, <1>7 DEF Judged, IsSource, Dirty
<1>9. d \in Result /\ \A x \in Block : d.over[x] \in {ov[x], NoData}
  BY L2Type DEF Resumed, Stored
<1>10. d.over \in Overlay /\ ov \in Overlay
  BY <1>9 DEF Result, Resumed
<1> HIDE DEF got
<1> QED BY <1>5, <1>8, <1>9, <1>10, TrueAndComplete

\* As many erasures as there are parity shards cost no block.
LEMMA ErasuresFree ==
    ASSUME NEW b, NEW faults, NEW ov, NEW maxBlock, NEW wd, NEW d,
           Resumed(b, faults, ov, maxBlock, wd, d), "index" \notin faults,
           faults \cap {"header", "meta"} = {},
           \A x \in Dirty(ov) : x < maxBlock,
           Total(b.meta) * b.meta.size <= rsMaxDecodeAlloc,
           Missing(parseShardSection(b)) <= b.meta.parity
    PROVE  d.err = "nil" /\ d.over = ov /\ d.bad = {}
<1> DEFINE slots == parseShardSection(b)
           recs == readPayload(b, slots, wd)
           all == 1 .. b.count
           got == Got(b, recs, all, maxBlock)
<1>1. reconstructible(b.meta, slots) /\ Whole(b, slots)
  BY DEF reconstructible, Whole
<1>2. Accepted(b)
  BY <1>1, ReconstructibleIsAccepted DEF Resumed
<1>3. PICK s : Judged(b, ov, slots, wd, recs, s)
  BY <1>2, ResumedIsJudged
<1>4. Faithful(b, slots)
  BY StoredIsFaithful DEF Resumed
<1>5. d = DeserializeL2(b, maxBlock, wd)
  BY DEF Resumed
<1>6. \A i \in all : AsWritten(recs, ov, s, i)
  <2> HIDE DEF slots, recs
  <2> QED BY <1>1, <1>3, <1>4, ReadIsGenuine
<1>7. \A i \in all : InBase(s[i], maxBlock)
  BY <1>3 DEF Judged, IsSource, InBase, Dirty, Block
<1>8. ~ForeignAt(recs, all, maxBlock) /\ ~FailingAt(recs, all, got, maxBlock)
  <2> HIDE DEF slots, recs
  <2>1. /\ ~FailingAt(recs, all, got, maxBlock)
        /\ ForeignAt(recs, all, maxBlock) <=> \E i \in all : ~InBase(s[i], maxBlock)
    <3>1. all \in SUBSET (1 .. b.count)
      OBVIOUS
    <3> HIDE DEF all
    <3> QED BY ONLY <1>3, <1>6, <3>1, GenuineIsApplied DEF got
  <2> QED BY <1>7, <2>1
<1>9. /\ Verdict(d, got, {})
      /\ d.truncated <=> \/ ForeignAt(recs, all, maxBlock)
                         \/ FailingAt(recs, all, got, maxBlock)
  <2> HIDE DEF slots, recs
  <2> QED BY <1>1, <1>2, <1>3, <1>5, JudgedVerdict
<1>10. d.err = "nil"
  <2> HIDE DEF got, slots, recs
  <2> QED BY <1>8, <1>9 DEF Verdict
<1> QED BY <1>4, <1>10, SilentFaithful, L2InBase

-----------------------------------------------------------------------------
(* With shards out of their places. *)

\* The data cells of the payload are where the records have them.
LEMMA DataCellPlace ==
    ASSUME NEW recs, Len(recs) \in Nat, NEW q \in Nat, payloadCell(recs, q)[1] = "data"
    PROVE  \E k \in 1 .. Len(recs) : /\ q = RecCells * (k - 1) + 2
                                     /\ payloadCell(recs, q) = <<"data", recs[k].data>>
<1>1. q < RecCells * Len(recs)
  <2> SUFFICES ASSUME ~(q < RecCells * Len(recs)) PROVE FALSE
    OBVIOUS
  <2>1. payloadCell(recs, q) = Zero
    BY PayloadPad
  <2> QED BY <2>1 DEF Zero
<1>2. PICK k \in 1 .. Len(recs), j \in 0 .. 3 : q = RecCells * (k - 1) + j
  BY <1>1, PayloadPlace
<1>3. /\ payloadCell(recs, RecCells * (k - 1)) = <<"lo", recs[k].idx>>
      /\ payloadCell(recs, RecCells * (k - 1) + 1) = <<"hi">>
      /\ payloadCell(recs, RecCells * (k - 1) + 2) = <<"data", recs[k].data>>
      /\ payloadCell(recs, RecCells * (k - 1) + 3) = <<"crc", recs[k].crc>>
  BY PayloadCells
<1>4. RecCells * (k - 1) + 0 = RecCells * (k - 1)
  BY DEF RecCells
<1>5. j = 2
  <2>1. j = 0 \/ j = 1 \/ j = 2 \/ j = 3
    OBVIOUS
  <2>2. j # 0
    BY <1>2, <1>3, <1>4
  <2>3. j # 1
    BY <1>2, <1>3
  <2>4. j # 3
    BY <1>2, <1>3
  <2> QED BY <2>1, <2>2, <2>3, <2>4
<1> QED BY <1>2, <1>3, <1>5

\* The shard whose cells slot t is read from.
From(slots, t) == IF slots[t] = Nil THEN t ELSE slots[t]

\* A data shard that is present is among the first N shards present, so a
\* reconstruction depends on its being right.
RightAt(b, slots, c) ==
    \A t \in 0 .. (b.meta.data - 1) :
        slots[t] # Nil => shardCell(b.meta, b.recs, slots[t], c) = shardCell(b.meta, b.recs, t, c)

\* A reconstruction that is no garbage had right data shards.
LEMMA ReconstructRight ==
    ASSUME NEW b \in RSBlob, NEW slots, slots = parseShardSection(b),
           NEW i, NEW c, slots[i] = Nil, Reconstruct(b, slots, i, c) # Garbage
    PROVE  RightAt(b, slots, c) /\ Reconstruct(b, slots, i, c) = shardCell(b.meta, b.recs, i, c)
<1> DEFINE used == {s \in DOMAIN slots :
                    /\ slots[s] # Nil
                    /\ Cardinality({t \in 0 .. (s - 1) : slots[t] # Nil}) < b.meta.data}
           right == \A s \in used :
                      shardCell(b.meta, b.recs, slots[s], c) = shardCell(b.meta, b.recs, s, c)
<1>1. Reconstruct(b, slots, i, c) = IF right THEN shardCell(b.meta, b.recs, i, c) ELSE Garbage
  BY Zenon DEF Reconstruct
<1>2. right
  BY <1>1, Zenon
<1>3. b.meta.data \in Nat /\ b.meta.parity \in Nat
  BY DEF RSBlob
<1>4. ASSUME NEW t \in 0 .. (b.meta.data - 1), slots[t] # Nil PROVE t \in used
  <2> DEFINE before == {u \in 0 .. (t - 1) : slots[u] # Nil}
  <2>1. t \in DOMAIN slots
    BY <1>3 DEF parseShardSection, Total
  <2>2. t \in Nat /\ t - 1 \in Int
    BY <1>3
  <2>3. /\ IsFiniteSet(0 .. (t - 1))
        /\ Cardinality(0 .. (t - 1)) = IF 0 > t - 1 THEN 0 ELSE (t - 1) - 0 + 1
    BY <2>2, FS_Interval
  <2>4. before \in SUBSET (0 .. (t - 1))
    OBVIOUS
  <2>5. Cardinality(0 .. (t - 1)) = t
    BY <2>2, <2>3
  <2> HIDE DEF before
  <2>6. Cardinality(before) <= t /\ Cardinality(before) \in Nat
    <3>1. IsFiniteSet(before) /\ Cardinality(before) <= Cardinality(0 .. (t - 1))
      BY <2>3, <2>4, FS_Subset
    <3> QED BY <2>5, <3>1, FS_CardinalityType
  <2>7. Cardinality(before) < b.meta.data
    BY <1>3, <2>6
  <2> QED BY <1>4, <2>1, <2>7 DEF before
<1>5. RightAt(b, slots, c)
  BY <1>2, <1>4, Zenon DEF RightAt
<1> QED BY <1>1, <1>2, <1>5, Zenon

\* The place in the payload of a place in a shard.
LEMMA PlaceType ==
    ASSUME NEW S \in Nat, NEW x \in Nat, NEW c \in 0 .. (S - 1)
    PROVE  x * S + c \in Nat
<1>1. x * S \in Nat
  OBVIOUS
<1> QED BY <1>1

\* Where a data cell that is read was written, with several data shards.
LEMMA DataFrom ==
    ASSUME NEW b \in RSBlob, b.meta.data # 1, NEW slots, slots = parseShardSection(b),
           NEW p \in Nat, p < b.meta.data * b.meta.size, readCell(b, slots, p)[1] = "data",
           NEW t, t = p \div b.meta.size, NEW c, c = p % b.meta.size
    PROVE  /\ t \in 0 .. (b.meta.data - 1) /\ c \in 0 .. (b.meta.size - 1)
           /\ p = t * b.meta.size + c
           /\ From(slots, t) \in 0 .. (b.meta.data - 1)
           /\ slots[t] = Nil => RightAt(b, slots, c)
           /\ \E k \in 1 .. Len(b.recs) :
                 /\ From(slots, t) * b.meta.size + c = RecCells * (k - 1) + 2
                 /\ readCell(b, slots, p) = <<"data", b.recs[k].data>>
<1>1. b.meta.data \in Nat /\ b.meta.parity \in Nat /\ b.meta.size \in Nat /\ Len(b.recs) \in Nat
  BY DEF RSBlob
<1>2. b.meta.size >= 1 /\ t \in 0 .. (b.meta.data - 1)
  BY <1>1, InData
<1>3. c \in 0 .. (b.meta.size - 1) /\ p = t * b.meta.size + c
  BY <1>1, <1>2, DivMod
<1>4. readCell(b, slots, p) = IF reconstructible(b.meta, slots) THEN Reconstruct(b, slots, t, c)
                              ELSE IF slots[t] = Nil THEN Garbage
                              ELSE shardCell(b.meta, b.recs, slots[t], c)
  BY Zenon DEF readCell
<1>5. Garbage[1] # "data"
  BY DEF Garbage
<1>6. readCell(b, slots, p) # Garbage
  BY <1>5
<1>7. slots[t] # Nil => readCell(b, slots, p) = shardCell(b.meta, b.recs, slots[t], c)
  <2>1. slots[t] # Nil => Reconstruct(b, slots, t, c) = shardCell(b.meta, b.recs, slots[t], c)
    BY Zenon DEF Reconstruct
  <2> QED BY <1>4, <2>1, Zenon
<1>8. slots[t] = Nil => /\ RightAt(b, slots, c)
                        /\ readCell(b, slots, p) = shardCell(b.meta, b.recs, t, c)
  <2> SUFFICES ASSUME slots[t] = Nil
               PROVE  /\ RightAt(b, slots, c)
                      /\ readCell(b, slots, p) = shardCell(b.meta, b.recs, t, c)
    OBVIOUS
  <2>1. readCell(b, slots, p) = Reconstruct(b, slots, t, c)
    BY <1>4, <1>6, Zenon
  <2> QED BY <1>6, <2>1, ReconstructRight
<1> DEFINE f == From(slots, t)
<1>9. readCell(b, slots, p) = shardCell(b.meta, b.recs, f, c) /\ f \in Nat
  <2>1. slots[t] = Nil \/ slots[t] \in Nat
    <3>1. t \in 0 .. (Total(b.meta) - 1)
      BY <1>1, <1>2 DEF Total
    <3> QED BY <3>1, SlotFacts
  <2> QED BY <1>2, <1>7, <1>8, <2>1 DEF From
<1> HIDE DEF f
<1>10. f < b.meta.data
  <2> SUFFICES ASSUME ~(f < b.meta.data) PROVE FALSE
    OBVIOUS
  <2>1. shardCell(b.meta, b.recs, f, c)[1] = "parity"
    BY DEF shardCell
  <2> QED BY <1>9, <2>1
<1>11. readCell(b, slots, p) = payloadCell(b.recs, f * b.meta.size + c)
  <2>1. shardCell(b.meta, b.recs, f, c) = payloadCell(b.recs, f * b.meta.size + c)
    BY <1>10, Zenon DEF shardCell
  <2> QED BY <1>9, <2>1, Zenon
<1>12. f * b.meta.size + c \in Nat
  BY <1>1, <1>3, <1>9, PlaceType
<1>13. \E k \in 1 .. Len(b.recs) :
         /\ f * b.meta.size + c = RecCells * (k - 1) + 2
         /\ readCell(b, slots, p) = <<"data", b.recs[k].data>>
  <2> DEFINE q == f * b.meta.size + c
  <2>1. q \in Nat /\ readCell(b, slots, p) = payloadCell(b.recs, q)
    BY <1>11, <1>12
  <2> HIDE DEF q
  <2>2. \E k \in 1 .. Len(b.recs) : /\ q = RecCells * (k - 1) + 2
                                    /\ payloadCell(b.recs, q) = <<"data", b.recs[k].data>>
    BY <1>1, <2>1, DataCellPlace
  <2> QED BY <2>1, <2>2 DEF q
<1>14. f \in 0 .. (b.meta.data - 1)
  BY <1>1, <1>9, <1>10
<1> QED BY <1>2, <1>3, <1>8, <1>13, <1>14 DEF f

\* Two numbers written with the same base are equal digit by digit.
LEMMA SameDigits ==
    ASSUME NEW S \in Nat, NEW x \in Nat, NEW y \in Nat,
           NEW c \in 0 .. (S - 1), NEW e \in 0 .. (S - 1), x * S + c = y * S + e
    PROVE  x = y /\ c = e
<1>1. ASSUME NEW u \in Nat, NEW v \in Nat, NEW f \in 0 .. (S - 1), NEW g \in 0 .. (S - 1),
             u * S + f = v * S + g, u < v
      PROVE  FALSE
  <2>1. PICK w \in Nat : v = u + 1 + w
    <3>1. v - u - 1 \in Nat /\ v = u + 1 + (v - u - 1)
      BY <1>1
    <3> QED BY <3>1
  <2>2. v * S = u * S + S + w * S /\ w * S \in Nat /\ u * S \in Nat
    BY <2>1
  <2> QED BY <1>1, <2>2
<1>2. ~(x < y) /\ ~(y < x)
  BY <1>1
<1>3. x = y
  BY <1>2
<1>4. x * S \in Nat /\ y * S = x * S
  BY <1>3
<1>5. c = e
  BY <1>4
<1> QED BY <1>3, <1>5

\* The same, of places in shards of size S.
Place(S, x, c) == x * S + c
LEMMA SamePlace ==
    ASSUME NEW S \in Nat, NEW x \in Nat, NEW y \in Nat,
           NEW c \in 0 .. (S - 1), NEW e \in 0 .. (S - 1), Place(S, x, c) = Place(S, y, e)
    PROVE  x = y /\ c = e
<1>1. x * S + c = y * S + e
  BY DEF Place
<1> QED BY <1>1, SameDigits

\* Without a copied shard, two slots are not filled with the same one.
LEMMA SlotsDiffer ==
    ASSUME NEW b \in RSBlob, NEW ov, NEW faults, Stored(b, faults, ov), "copy" \notin faults,
           NEW slots, slots = parseShardSection(b),
           NEW t \in 0 .. (Total(b.meta) - 1), NEW u \in 0 .. (Total(b.meta) - 1),
           slots[t] # Nil, slots[t] = slots[u]
    PROVE  t = u
<1>1. PICK k \in 1 .. Len(b.shards) : b.shards[k].idx = t /\ slots[t] = b.shards[k].of
  BY SlotFacts
<1>2. PICK l \in 1 .. Len(b.shards) : b.shards[l].idx = u /\ slots[u] = b.shards[l].of
  BY SlotFacts
<1>3. k = l
  BY <1>1, <1>2, StoredShards
<1> QED BY <1>1, <1>2, <1>3

\* A data cell is read at place p.
DataAt(b, slots, p) ==
    p \in Nat /\ p < b.meta.data * b.meta.size /\ readCell(b, slots, p)[1] = "data"

\* Place p is cell c of slot t, and what is read there is the data of record k.
CameFrom(b, slots, p, t, c, k) ==
    /\ t \in 0 .. (b.meta.data - 1) /\ c \in 0 .. (b.meta.size - 1)
    /\ p = t * b.meta.size + c
    /\ From(slots, t) \in 0 .. (b.meta.data - 1)
    /\ slots[t] = Nil => RightAt(b, slots, c)
    /\ k \in 1 .. Len(b.recs)
    /\ From(slots, t) * b.meta.size + c = RecCells * (k - 1) + 2
    /\ readCell(b, slots, p) = <<"data", b.recs[k].data>>

\* Every data cell that is read is that of some record.
LEMMA DataCameFrom ==
    ASSUME NEW b \in RSBlob, b.meta.data # 1, NEW slots, slots = parseShardSection(b),
           NEW p, DataAt(b, slots, p)
    PROVE  \E t, c, k : CameFrom(b, slots, p, t, c, k)
<1>1. p \in Nat /\ p < b.meta.data * b.meta.size /\ readCell(b, slots, p)[1] = "data"
  BY DEF DataAt
<1>2. PICK t, c : t = p \div b.meta.size /\ c = p % b.meta.size
  OBVIOUS
<1>3. /\ t \in 0 .. (b.meta.data - 1) /\ c \in 0 .. (b.meta.size - 1)
      /\ p = t * b.meta.size + c
      /\ From(slots, t) \in 0 .. (b.meta.data - 1)
      /\ slots[t] = Nil => RightAt(b, slots, c)
      /\ \E k \in 1 .. Len(b.recs) :
            /\ From(slots, t) * b.meta.size + c = RecCells * (k - 1) + 2
            /\ readCell(b, slots, p) = <<"data", b.recs[k].data>>
  BY <1>1, <1>2, DataFrom
<1> QED BY <1>3, Zenon DEF CameFrom

\* No two records have the same data.
DataDiffer(b) ==
    \A k, l \in 1 .. Len(b.recs) : b.recs[k].data = b.recs[l].data => k = l

\* That is so if all contents are different.
LEMMA DataOfSource ==
    ASSUME NEW b, NEW ov, NEW s, IsSource(b, ov, s),
           \A x, y \in Dirty(ov) : ov[x] = ov[y] => x = y
    PROVE  DataDiffer(b)
<1>1. /\ Len(b.recs) = b.count
      /\ s \in [1 .. b.count -> Dirty(ov)]
      /\ \A k, l \in 1 .. b.count : s[k] = s[l] => k = l
      /\ \A k \in 1 .. b.count :
            b.recs[k] = [idx |-> s[k], data |-> ov[s[k]], crc |-> <<s[k], ov[s[k]]>>]
  BY Zenon DEF IsSource
<1>2. ASSUME NEW k \in 1 .. b.count PROVE b.recs[k].data = ov[s[k]] /\ s[k] \in Dirty(ov)
  <2>1. b.recs[k] = [idx |-> s[k], data |-> ov[s[k]], crc |-> <<s[k], ov[s[k]]>>]
    BY <1>1, Zenon
  <2>2. b.recs[k].data = ov[s[k]]
    BY <2>1
  <2>3. s[k] \in Dirty(ov)
    BY <1>1
  <2> QED BY <2>2, <2>3
<1>3. ASSUME NEW k \in 1 .. b.count, NEW l \in 1 .. b.count, b.recs[k].data = b.recs[l].data
      PROVE  k = l
  <2>1. ov[s[k]] = ov[s[l]]
    BY <1>2, <1>3
  <2>2. s[k] \in Dirty(ov) /\ s[l] \in Dirty(ov)
    BY <1>2
  <2>3. s[k] = s[l]
    BY <2>1, <2>2, Zenon
  <2> QED BY <1>1, <2>3, Zenon
<1> QED BY <1>1, <1>3, Zenon DEF DataDiffer

\* A shard in the place of another that has the same data cell is that one.
LEMMA RightIsSame ==
    ASSUME NEW b \in RSBlob, DataDiffer(b), NEW slots, NEW c \in 0 .. (b.meta.size - 1),
           RightAt(b, slots, c), NEW v, NEW w \in 0 .. (b.meta.data - 1),
           v \in 0 .. (b.meta.data - 1), slots[w] = v, slots[w] # Nil,
           NEW k \in 1 .. Len(b.recs), Place(b.meta.size, v, c) = RecCells * (k - 1) + 2
    PROVE  v = w
<1>1. b.meta.size \in Nat /\ b.meta.data \in Nat /\ Len(b.recs) \in Nat
  BY DEF RSBlob
<1>2. shardCell(b.meta, b.recs, v, c) = shardCell(b.meta, b.recs, w, c)
  BY Zenon DEF RightAt
<1>3. v < b.meta.data /\ w < b.meta.data /\ v \in Nat /\ w \in Nat
  BY <1>1
<1>4. /\ shardCell(b.meta, b.recs, v, c) = payloadCell(b.recs, v * b.meta.size + c)
      /\ shardCell(b.meta, b.recs, w, c) = payloadCell(b.recs, w * b.meta.size + c)
  BY <1>3, Zenon DEF shardCell
<1>5. payloadCell(b.recs, RecCells * (k - 1) + 2) = <<"data", b.recs[k].data>>
  BY <1>1, PayloadCells
<1>6. PICK x : x = w * b.meta.size + c
  OBVIOUS
<1>7. x \in Nat
  BY <1>1, <1>3, <1>6, PlaceType
<1>8. payloadCell(b.recs, x) = <<"data", b.recs[k].data>>
  BY <1>2, <1>4, <1>5, <1>6, Zenon DEF Place
<1>9. PICK j \in 1 .. Len(b.recs) : /\ x = RecCells * (j - 1) + 2
                                    /\ payloadCell(b.recs, x) = <<"data", b.recs[j].data>>
  <2>1. payloadCell(b.recs, x)[1] = "data"
    BY <1>8
  <2> QED BY <1>1, <1>7, <2>1, DataCellPlace
<1>10. j = k
  <2>1. b.recs[j].data = b.recs[k].data
    BY <1>8, <1>9
  <2> QED BY <2>1, Zenon DEF DataDiffer
<1>11. v * b.meta.size + c = w * b.meta.size + c
  BY <1>6, <1>9, <1>10, Zenon DEF Place
<1>12. Place(b.meta.size, v, c) = Place(b.meta.size, w, c)
  BY <1>11, Zenon DEF Place
<1>13. c \in 0 .. (b.meta.size - 1)
  OBVIOUS
<1> QED BY ONLY <1>1, <1>3, <1>12, <1>13, SamePlace

\* So a data cell is read in one place only, if all contents are different.
LEMMA DataOnce ==
    ASSUME NEW b \in RSBlob, NEW ov, NEW faults, Stored(b, faults, ov), "copy" \notin faults,
           DataDiffer(b), b.meta.data # 1, NEW slots, slots = parseShardSection(b),
           NEW p, DataAt(b, slots, p), NEW q, DataAt(b, slots, q),
           readCell(b, slots, p) = readCell(b, slots, q)
    PROVE  p = q
<1>1. PICK t, c, k : CameFrom(b, slots, p, t, c, k)
  BY DataCameFrom
<1>2. PICK u, e, l : CameFrom(b, slots, q, u, e, l)
  BY DataCameFrom
<1>3. b.meta.size \in Nat /\ b.meta.data \in Nat /\ b.meta.parity \in Nat
  BY DEF RSBlob
<1> DEFINE S == b.meta.size
           D == b.meta.data
           f == From(slots, t)
           g == From(slots, u)
<1>4. /\ t \in 0 .. (D - 1) /\ c \in 0 .. (S - 1) /\ p = t * S + c /\ f \in 0 .. (D - 1)
      /\ slots[t] = Nil => RightAt(b, slots, c)
      /\ k \in 1 .. Len(b.recs) /\ f * S + c = RecCells * (k - 1) + 2
      /\ readCell(b, slots, p) = <<"data", b.recs[k].data>>
  BY <1>1, Zenon DEF CameFrom
<1>5. /\ u \in 0 .. (D - 1) /\ e \in 0 .. (S - 1) /\ q = u * S + e /\ g \in 0 .. (D - 1)
      /\ slots[u] = Nil => RightAt(b, slots, e)
      /\ l \in 1 .. Len(b.recs) /\ g * S + e = RecCells * (l - 1) + 2
      /\ readCell(b, slots, q) = <<"data", b.recs[l].data>>
  BY <1>2, Zenon DEF CameFrom
<1>6. t \in 0 .. (Total(b.meta) - 1) /\ u \in 0 .. (Total(b.meta) - 1)
  <2>1. t \in 0 .. (D - 1) /\ u \in 0 .. (D - 1)
    BY <1>4, <1>5
  <2> QED BY <1>3, <2>1 DEF Total
<1>7. k = l
  <2>1. b.recs[k].data = b.recs[l].data
    BY <1>4, <1>5
  <2> QED BY <1>4, <1>5, <2>1, Zenon DEF DataDiffer
<1>8. f = g /\ c = e
  <2>1. f \in Nat /\ g \in Nat
    <3>1. f \in 0 .. (D - 1) /\ g \in 0 .. (D - 1)
      BY <1>4, <1>5
    <3> QED BY <1>3, <3>1
  <2>2. f * S + c = g * S + e
    BY <1>4, <1>5, <1>7, Zenon
  <2> HIDE DEF S, D, f, g
  <2>3. S \in Nat
    BY <1>3 DEF S
  <2>4. c \in 0 .. (S - 1) /\ e \in 0 .. (S - 1)
    BY <1>4, <1>5, Zenon
  <2>5. Place(S, f, c) = Place(S, g, e)
    BY <2>2, Zenon DEF Place
  <2> QED BY <2>1, <2>3, <2>4, <2>5, SamePlace
<1>9. t = u
  <2>1. CASE slots[t] = Nil /\ slots[u] = Nil
    BY <1>8, <2>1, Zenon DEF From
  <2>2. CASE slots[t] # Nil /\ slots[u] # Nil
    <3>1. slots[t] = slots[u]
      BY <1>8, <2>2, Zenon DEF From
    <3> QED BY <1>6, <2>2, <3>1, SlotsDiffer
  <2>3. CASE slots[t] = Nil /\ slots[u] # Nil
    <3>1. slots[u] = t /\ f = t
      BY <1>8, <2>3, Zenon DEF From
    <3>2. RightAt(b, slots, c) /\ Place(b.meta.size, t, c) = RecCells * (k - 1) + 2
      BY <1>4, <2>3, <3>1, Zenon DEF Place
    <3>3. c \in 0 .. (b.meta.size - 1) /\ k \in 1 .. Len(b.recs)
      BY <1>4
    <3>4. t \in 0 .. (b.meta.data - 1) /\ u \in 0 .. (b.meta.data - 1)
      BY <1>4, <1>5
    <3> HIDE DEF f, g
    <3> QED BY <2>3, <3>1, <3>2, <3>3, <3>4, RightIsSame
  <2>4. CASE slots[t] # Nil /\ slots[u] = Nil
    <3>1. slots[t] = u /\ g = u
      BY <1>8, <2>4, Zenon DEF From
    <3>2. RightAt(b, slots, e) /\ Place(b.meta.size, u, e) = RecCells * (l - 1) + 2
      BY <1>5, <2>4, <3>1, Zenon DEF Place
    <3>3. e \in 0 .. (b.meta.size - 1) /\ l \in 1 .. Len(b.recs)
      BY <1>5
    <3>4. t \in 0 .. (b.meta.data - 1) /\ u \in 0 .. (b.meta.data - 1)
      BY <1>4, <1>5
    <3> HIDE DEF f, g
    <3> QED BY <2>4, <3>1, <3>2, <3>3, <3>4, RightIsSame
  <2> QED BY <2>1, <2>2, <2>3, <2>4
<1> QED BY <1>4, <1>5, <1>8, <1>9, Zenon

\* With all contents different and no shard copied, a nil error means that
\* nothing is missing, wherever the shards are: each record that is read has
\* the content of the block it restores or repeats, no content is read twice,
\* and there are as many records as dirty blocks.
LEMMA SilentMisplaced ==
    ASSUME NEW b, NEW faults, NEW ov, NEW maxBlock, NEW wd, NEW d,
           Resumed(b, faults, ov, maxBlock, wd, d), d.err = "nil", "copy" \notin faults,
           \A x, y \in Dirty(ov) : ov[x] = ov[y] => x = y
    PROVE  d.over = ov
<1>0. /\ b \in RSBlob /\ ov \in Overlay /\ Stored(b, faults, ov) /\ Sourced(b, ov)
      /\ maxBlock \in 0 .. NBlocks /\ wd \in Int /\ d = DeserializeL2(b, maxBlock, wd)
  BY DEF Resumed, Stored
<1> DEFINE slots == parseShardSection(b)
<1>1. CASE b.meta.data = 1
  <2>1. Faithful(b, slots)
    BY <1>0, <1>1, SingleIsFaithful
  <2> QED BY <2>1, SilentFaithful
<1>2. CASE b.meta.data # 1
  <2> DEFINE recs == readPayload(b, slots, wd)
             all == 1 .. b.count
             got == Got(b, recs, all, maxBlock)
  <2>1. Accepted(b)
    BY RejectedIsCorrupt
  <2>2. PICK s : Judged(b, ov, slots, wd, recs, s)
    BY <2>1, ResumedIsJudged
  <2>3. /\ d.over = got
        /\ ~ForeignAt(recs, all, maxBlock)
        /\ ~FailingAt(recs, all, got, maxBlock)
    <3> HIDE DEF slots, recs
    <3> QED BY <1>0, <2>1, <2>2, SilenceMeans
  <2>4. d \in Result /\ \A x \in Block : d.over[x] \in {ov[x], NoData}
    BY <1>0, L2Type
  <2>5. d.over \in Overlay
    BY <2>4 DEF Result
  <2>6. Sound(b) /\ IsSource(b, ov, s)
    BY <2>2, Zenon DEF Judged
  <2>7. slots = parseShardSection(b) /\ recs = readPayload(b, slots, wd)
    OBVIOUS
  <2>8. b.count \in Nat /\ b.meta.len \in Nat /\ b.meta.data * b.meta.size \in Nat
    BY <1>0 DEF RSBlob
  <2> HIDE DEF slots, recs, got
  <2>9. ASSUME NEW i \in all
        PROVE  /\ recs[i].idx \in Dirty(ov) /\ recs[i].data = ov[recs[i].idx]
               /\ got[recs[i].idx] # NoData
    <3>1. recs[i].data # NoData /\ recs[i].idx \in Int
      BY <1>0, <2>6, <2>7, RecordAuthentic
    <3>2. CASE Verifies(recs[i], TierL1)
      <4>1. InBase(recs[i].idx, maxBlock)
        BY <2>3, <3>2, Zenon DEF ForeignAt
      <4>2. got[recs[i].idx] # NoData
        BY <1>0, <2>6, <2>7, <3>2, <4>1, AppliedIsRestored DEF got
      <4>3. recs[i].idx \in Dirty(ov) /\ recs[i].data = ov[recs[i].idx]
        BY <1>0, <2>6, <2>7, <3>2, VerifiedIsTrue
      <4> QED BY <4>2, <4>3
    <3>3. CASE ~Verifies(recs[i], TierL1)
      <4>1. InBase(recs[i].idx, maxBlock) /\ got[recs[i].idx] = recs[i].data
        BY <2>3, <3>3, Zenon DEF FailingAt, suppressed
      <4>2. recs[i].idx \in Block
        BY <1>0, <3>1, <4>1, FormatAssumption DEF InBase, Block
      <4>3. got[recs[i].idx] \in {ov[recs[i].idx], NoData}
        BY <2>3, <2>4, <4>2
      <4>4. ov[recs[i].idx] # NoData /\ recs[i].data = ov[recs[i].idx]
        BY <3>1, <4>1, <4>3
      <4> QED BY <3>1, <4>1, <4>2, <4>4 DEF Dirty
    <3> QED BY <3>2, <3>3
  <2>10. DataDiffer(b)
    BY <2>6, DataOfSource
  <2> DEFINE at(i) == RecCells * (i - 1) + 2
  <2>11. ASSUME NEW i \in all
         PROVE  DataAt(b, slots, at(i)) /\ readCell(b, slots, at(i))[2] = recs[i].data
    <3>1. recs[i].data = IF Cell(b, slots, i, 2)[1] = "data" THEN Cell(b, slots, i, 2)[2] ELSE Junk
      BY <1>0, <2>6, <2>7, PayloadRead
    <3>2. recs[i].data # Junk
      <4>1. recs[i].idx \in Dirty(ov) /\ recs[i].data = ov[recs[i].idx]
        BY <2>9
      <4>2. recs[i].data \in Content
        BY <1>0, <4>1 DEF Dirty, Overlay
      <4> QED BY <4>2, RSAssumption
    <3>3. Cell(b, slots, i, 2)[1] = "data" /\ Cell(b, slots, i, 2)[2] = recs[i].data
      BY <3>1, <3>2
    <3>4. at(i) \in Nat /\ at(i) < b.meta.len
      BY <2>6, <2>8 DEF Sound, RecCells
    <3>5. at(i) < b.meta.data * b.meta.size
      <4>1. b.meta.len <= b.meta.data * b.meta.size
        BY <2>6 DEF Sound
      <4> HIDE DEF at
      <4> QED BY <2>8, <3>4, <4>1
    <3> QED BY <3>3, <3>4, <3>5, Zenon DEF DataAt, Cell
  <2> DEFINE f == [i \in all |-> recs[i].idx]
  <2>12. ASSUME NEW i \in all, NEW j \in all, recs[i].idx = recs[j].idx PROVE i = j
    <3>1. recs[i].data = recs[j].data
      BY <2>9, <2>12
    <3>2. PICK p, q : p = at(i) /\ q = at(j)
      OBVIOUS
    <3>3. DataAt(b, slots, p) /\ DataAt(b, slots, q)
      BY <2>11, <3>2, Zenon
    <3>4. readCell(b, slots, p)[2] = readCell(b, slots, q)[2]
      BY <2>11, <3>1, <3>2, Zenon
    <3>5. readCell(b, slots, p) = readCell(b, slots, q)
      <4>1. PICK t, c, k : CameFrom(b, slots, p, t, c, k)
        BY <1>0, <1>2, <2>7, <3>3, DataCameFrom
      <4>2. PICK u, e, l : CameFrom(b, slots, q, u, e, l)
        BY <1>0, <1>2, <2>7, <3>3, DataCameFrom
      <4>3. /\ readCell(b, slots, p) = <<"data", b.recs[k].data>>
            /\ readCell(b, slots, q) = <<"data", b.recs[l].data>>
        BY <4>1, <4>2, Zenon DEF CameFrom
      <4> QED BY <3>4, <4>3
    <3>6. p = q
      BY <1>0, <1>2, <2>7, <2>10, <3>3, <3>5, DataOnce
    <3> QED BY <2>8, <3>2, <3>6 DEF RecCells
  <2>13. f \in Injection(all, Dirty(ov))
    <3>1. f \in [all -> Dirty(ov)]
      BY <2>9
    <3>2. \A i, j \in all : f[i] = f[j] => i = j
      BY <2>12
    <3> HIDE DEF f, all
    <3> QED BY <3>1, <3>2, Zenon DEF Injection, IsInjective
  <2>14. Cardinality(all) = Cardinality(Dirty(ov)) /\ IsFiniteSet(Dirty(ov))
    <3>1. Cardinality(all) = b.count
      <4> DEFINE n == b.count
      <4>1. n \in Nat
        BY <2>8
      <4> HIDE DEF n
      <4>2. Cardinality(1 .. n) = n
        BY <4>1, FS_Interval
      <4> QED BY <4>2 DEF n
    <3>2. b.count = Cardinality(Dirty(ov))
      BY <2>6 DEF IsSource
    <3>3. IsFiniteSet(Dirty(ov))
      BY DirtyFinite
    <3> QED BY <3>1, <3>2, <3>3
  <2>15. f \in Surjection(all, Dirty(ov))
    <3> HIDE DEF f, all
    <3> QED BY <2>13, <2>14, FS_Injection
  <2>16. \A x \in Dirty(ov) : \E i \in all : f[i] = x
    <3> HIDE DEF f, all
    <3> QED BY <2>15, Zenon DEF Surjection
  <2>17. \A x \in Dirty(ov) : got[x] # NoData
    <3> SUFFICES ASSUME NEW x \in Dirty(ov) PROVE got[x] # NoData
      OBVIOUS
    <3>1. PICK i \in all : f[i] = x
      BY <2>16, Zenon
    <3>2. recs[i].idx = x
      BY <3>1
    <3> QED BY <2>9, <3>1, <3>2
  <2> QED BY <1>0, <2>3, <2>4, <2>5, <2>17, TrueAndComplete
<1> QED BY <1>1, <1>2

-----------------------------------------------------------------------------
(* Inspection. *)

\* inspectRS rejects, or scans all the records, or walks over those it can
\* read.
LEMMA InspectCases ==
    ASSUME NEW b, NEW wd, NEW slots, slots = parseShardSection(b),
           NEW recs, recs = readPayload(b, slots, wd), NEW info, info = InspectL2(b, wd)
    PROVE  /\ ~Accepted(b) => info = Rejected("ErrCorrupt")
           /\ Accepted(b) /\ b.meta.len = 0 => info = finishInfo({}, 0, FALSE)
           /\ Accepted(b) /\ b.meta.len # 0 /\ Whole(b, slots) =>
                 LET scan == scanL1Records(recs, b.count)
                 IN  info = finishInfo(scan.bad, scan.unattributed, FALSE)
           /\ Accepted(b) /\ ~Whole(b, slots) =>
                 LET walk == inspectWalk(b, slots, recs)
                 IN  info = finishInfo(walk.bad, walk.unattributed, FALSE)
BY Zenon DEF InspectL2, inspectRS, Accepted, Whole

\* An Info without surplus is clean if nothing is bad or unattributed.
LEMMA FinishFacts ==
    ASSUME NEW bad, NEW un \in Nat
    PROVE  /\ finishInfo(bad, un, FALSE).err = "nil"
           /\ finishInfo(bad, un, FALSE).BadBlocks = bad
           /\ Clean(finishInfo(bad, un, FALSE)) <=> bad = {} /\ un = 0
<1> DEFINE t == FALSE \/ un > 0
           info == [err |-> "nil", BadBlocks |-> bad, UnattributedLoss |-> un, Truncated |-> t]
<1>1. finishInfo(bad, un, FALSE) = info
  BY Zenon DEF finishInfo
<1>2. t \in BOOLEAN
  BY Zenon
<1>3. t <=> un # 0
  OBVIOUS
<1> HIDE DEF t
<1>4. info.err = "nil" /\ info.BadBlocks = bad /\ info.Truncated = t
  BY <1>2
<1> HIDE DEF info
<1> QED BY <1>1, <1>3, <1>4, Zenon DEF Clean

\* A record at a position read verified under this index.
Known(recs, at, idx) == \E i \in at : Verifies(recs[i], TierL1) /\ recs[i].idx = idx /\ idx >= 0

\* The lost records that name a block nothing was restored for.
Gone(b, slots, recs) ==
    {i \in Headed(b, slots) : ~Known(recs, Read(b, slots), recs[i].idx)}

\* A record repeats the last one at a position read that verified under its
\* index.
RepeatsAt(recs, at, r) ==
    LET named == {i \in at : Verifies(recs[i], TierL1) /\ recs[i].idx = r.idx /\ r.idx >= 0}
    IN  named # {} /\ recs[Largest(named)].data = r.data

\* What the walk reports.
LEMMA WalkFacts ==
    ASSUME NEW b, b.count \in Nat, NEW slots, NEW recs, DOMAIN recs = 1 .. b.count,
           NEW walk, walk = inspectWalk(b, slots, recs)
    PROVE  /\ walk.unattributed \in Nat
           /\ walk.bad = {recs[i].idx : i \in Gone(b, slots, recs) \cup
                             {j \in Read(b, slots) : Verifies(recs[j], TierL1) /\ recs[j].idx < 0}}
           /\ walk.unattributed = 0 <=>
                 /\ Lost(b, slots) \subseteq Gone(b, slots, recs)
                 /\ \A i \in Read(b, slots) :
                       ~Verifies(recs[i], TierL1) => RepeatsAt(recs, Read(b, slots), recs[i])
<1> DEFINE read == {i \in DOMAIN recs : recordReadable(b, slots, i)}
           verified == {i \in read : Verifies(recs[i], TierL1)}
           applied(idx) == {i \in verified : recs[i].idx = idx /\ idx >= 0}
           duplicate(r) == applied(r.idx) # {} /\ recs[Largest(applied(r.idx))].data = r.data
           named == {i \in DOMAIN recs \ read : indexReadable(b, slots, i)}
           gone == {i \in named : applied(recs[i].idx) = {}}
           bad == {recs[i].idx : i \in {j \in verified : recs[j].idx < 0} \cup gone}
           X == (DOMAIN recs \ read) \ gone
           Y == {i \in read \ verified : ~duplicate(recs[i])}
<1>1. walk = [bad |-> bad, unattributed |-> Cardinality(X) + Cardinality(Y)]
  BY Zenon DEF inspectWalk
<1>2. read = Read(b, slots)
  BY Zenon DEF Read
<1>3. DOMAIN recs \ read = Lost(b, slots)
  <2>1. \A i : i \in DOMAIN recs \ read <=> i \in Lost(b, slots)
    BY Zenon DEF Lost
  <2> QED BY <2>1, Zenon
<1>4. gone = Gone(b, slots, recs)
  <2>1. \A i : i \in gone <=> i \in Gone(b, slots, recs)
    BY <1>2, <1>3, Zenon DEF Gone, Headed, Known
  <2> QED BY <2>1, Zenon
<1>5. ASSUME NEW i \in read PROVE duplicate(recs[i]) <=> RepeatsAt(recs, read, recs[i])
  <2>1. applied(recs[i].idx)
          = {j \in read : /\ Verifies(recs[j], TierL1)
                          /\ recs[j].idx = recs[i].idx /\ recs[i].idx >= 0}
    OBVIOUS
  <2> QED BY <2>1, Zenon DEF RepeatsAt
<1>6. /\ Y = {} <=> \A i \in read : ~Verifies(recs[i], TierL1) => RepeatsAt(recs, read, recs[i])
      /\ X \in SUBSET (1 .. b.count) /\ Y \in SUBSET (1 .. b.count)
  <2>1. X \in SUBSET (1 .. b.count) /\ Y \in SUBSET (1 .. b.count)
    BY Zenon
  <2>2. Y = {} <=> \A i \in read : ~Verifies(recs[i], TierL1) => RepeatsAt(recs, read, recs[i])
    <3> HIDE DEF duplicate, read
    <3> QED BY <1>5
  <2> QED BY <2>1, <2>2
<1>7. X = {} <=> Lost(b, slots) \subseteq Gone(b, slots, recs)
  <2> HIDE DEF gone, read
  <2> QED BY <1>3, <1>4
<1>8. bad = {recs[i].idx : i \in Gone(b, slots, recs) \cup
                             {j \in Read(b, slots) : Verifies(recs[j], TierL1) /\ recs[j].idx < 0}}
  <2>1. {j \in verified : recs[j].idx < 0}
          = {j \in Read(b, slots) : Verifies(recs[j], TierL1) /\ recs[j].idx < 0}
    <3> HIDE DEF read
    <3> QED BY <1>2
  <2>2. {j \in verified : recs[j].idx < 0} \cup gone
          = Gone(b, slots, recs) \cup
              {j \in Read(b, slots) : Verifies(recs[j], TierL1) /\ recs[j].idx < 0}
    <3> HIDE DEF gone, verified
    <3> QED BY <1>4, <2>1
  <2> HIDE DEF gone, verified
  <2> QED BY <2>2
<1> HIDE DEF X, Y, bad
<1>9. IsFiniteSet(X) /\ IsFiniteSet(Y)
  <2>1. IsFiniteSet(1 .. b.count)
    <3> DEFINE n == b.count
    <3>1. n \in Int
      OBVIOUS
    <3> HIDE DEF n
    <3>2. IsFiniteSet(1 .. n)
      BY <3>1, FS_Interval
    <3> QED BY <3>2 DEF n
  <2> QED BY <1>6, <2>1, FS_Subset, Zenon
<1>10. /\ Cardinality(X) \in Nat /\ (Cardinality(X) = 0 <=> X = {})
       /\ Cardinality(Y) \in Nat /\ (Cardinality(Y) = 0 <=> Y = {})
  BY <1>9, FS_CardinalityType, FS_EmptySet
<1>11. walk.bad = bad /\ walk.unattributed = Cardinality(X) + Cardinality(Y)
  BY <1>1
<1>12. walk.unattributed \in Nat /\ (walk.unattributed = 0 <=> X = {} /\ Y = {})
  BY <1>10, <1>11
<1> QED BY <1>2, <1>6, <1>7, <1>8, <1>11, <1>12, Zenon

\* What is read of a blob that is accepted.
LEMMA JudgedRecords ==
    ASSUME NEW b, NEW ov, NEW slots, NEW wd, NEW recs, NEW s, Judged(b, ov, slots, wd, recs, s)
    PROVE  /\ b.count \in Nat /\ Len(recs) = b.count /\ DOMAIN recs = 1 .. b.count
           /\ \A i \in 1 .. b.count : recs[i].idx \in Int /\ recs[i].data # NoData
           /\ Read(b, slots) \in SUBSET (1 .. b.count) /\ Lost(b, slots) \in SUBSET (1 .. b.count)
           /\ Headed(b, slots) \in SUBSET Lost(b, slots)
           /\ Read(b, slots) \cap Lost(b, slots) = {}
           /\ Read(b, slots) \cup Lost(b, slots) = 1 .. b.count
<1>1. b.count \in Nat /\ Len(recs) = b.count /\ DOMAIN recs = 1 .. b.count
  BY PayloadRead DEF Judged, RSBlob
<1>2. \A i \in 1 .. b.count : recs[i].idx \in Int /\ recs[i].data # NoData
  BY RecordAuthentic DEF Judged
<1>3. /\ Read(b, slots) \in SUBSET (1 .. b.count) /\ Lost(b, slots) \in SUBSET (1 .. b.count)
      /\ Headed(b, slots) \in SUBSET Lost(b, slots)
  BY Zenon DEF Read, Lost, Headed
<1>4. /\ Read(b, slots) \cap Lost(b, slots) = {}
      /\ Read(b, slots) \cup Lost(b, slots) = 1 .. b.count
  BY DEF Read, Lost
<1> QED BY <1>1, <1>2, <1>3, <1>4

\* If nothing is foreign or failing, a scan of the same records finds nothing.
LEMMA QuietScan ==
    ASSUME NEW b, NEW ov, NEW slots, NEW wd, NEW recs, NEW s, Judged(b, ov, slots, wd, recs, s),
           NEW maxBlock \in 0 .. NBlocks,
           ~ForeignAt(recs, 1 .. b.count, maxBlock),
           ~FailingAt(recs, 1 .. b.count, Got(b, recs, 1 .. b.count, maxBlock), maxBlock)
    PROVE  \A i \in 1 .. b.count :
              /\ Verifies(recs[i], TierL1) => recs[i].idx >= 0
              /\ ~Verifies(recs[i], TierL1) => Repeats(recs, b.count, recs[i])
<1> DEFINE n == b.count
           got == restored(recs, appliedAt(recs, TierL1, n, maxBlock))
<1> TAKE i \in 1 .. b.count
<1>1. n \in Nat /\ i \in Nat /\ recs[i].idx \in Int /\ recs[i].data # NoData
  BY JudgedRecords
<1>2. Verifies(recs[i], TierL1) => recs[i].idx >= 0
  BY <1>1 DEF ForeignAt, InBase
<1>3. got = Got(b, recs, 1 .. b.count, maxBlock)
  <2>1. appliedAt(recs, TierL1, n, maxBlock) \cap (1 .. n) = appliedAt(recs, TierL1, n, maxBlock)
    BY Zenon DEF appliedAt
  <2> QED BY <2>1, Zenon DEF Got
<1>4. ASSUME ~Verifies(recs[i], TierL1) PROVE Repeats(recs, n, recs[i])
  <2>1. suppressed(recs[i], got, maxBlock)
    BY <1>3, <1>4, Zenon DEF FailingAt
  <2>2. InBase(recs[i].idx, maxBlock)
    BY <2>1 DEF suppressed
  <2>3. got = restored(recs, appliedAt(recs, TierL1, n, maxBlock))
    OBVIOUS
  <2> HIDE DEF got, n
  <2> QED BY <1>1, <2>1, <2>2, <2>3, RepeatsIsSuppressed
<1> QED BY <1>2, <1>4

\* Behind two headers that are accepted: a nil error is echoed by a clean
\* Info, and every block that is blamed is listed.
LEMMA InspectEchoes ==
    ASSUME NEW b, NEW ov, NEW slots, NEW wd, NEW recs, NEW s, Judged(b, ov, slots, wd, recs, s),
           Accepted(b), NEW maxBlock \in 0 .. NBlocks, NEW d, d = DeserializeL2(b, maxBlock, wd),
           NEW info, info = InspectL2(b, wd)
    PROVE  /\ info.err = "nil" /\ (d.err = "nil" \/ d.err = "Partial")
           /\ d.err = "nil" => Clean(info)
           /\ d.bad \subseteq info.BadBlocks
<1> DEFINE all == 1 .. b.count
<1>1. /\ b.count \in Nat /\ Len(recs) = b.count /\ DOMAIN recs = all
      /\ \A i \in all : recs[i].idx \in Int /\ recs[i].data # NoData
      /\ Read(b, slots) \in SUBSET all /\ Lost(b, slots) \in SUBSET all
      /\ Headed(b, slots) \in SUBSET Lost(b, slots)
      /\ Read(b, slots) \cap Lost(b, slots) = {}
  BY JudgedRecords
<1>2. slots = parseShardSection(b) /\ recs = readPayload(b, slots, wd)
  BY DEF Judged
<1>3. ASSUME d.err = "nil"
      PROVE  /\ Whole(b, slots) \/ Read(b, slots) = all
             /\ \A i \in all :
                  /\ Verifies(recs[i], TierL1) => recs[i].idx >= 0
                  /\ ~Verifies(recs[i], TierL1) => Repeats(recs, b.count, recs[i])
  <2>1. /\ ~ForeignAt(recs, all, maxBlock)
        /\ ~FailingAt(recs, all, Got(b, recs, all, maxBlock), maxBlock)
        /\ Whole(b, slots) \/ Read(b, slots) = all
    BY <1>3, SilenceMeans
  <2> QED BY <2>1, QuietScan
<1>4. CASE Whole(b, slots) /\ b.meta.len = 0
  <2>1. Verdict(d, Got(b, recs, all, maxBlock), {})
    BY <1>4, JudgedVerdict
  <2>2. d.bad = {} /\ (d.err = "nil" \/ d.err = "Partial")
    BY <2>1, Zenon DEF Verdict
  <2>3. info = finishInfo({}, 0, FALSE)
    BY <1>2, <1>4, InspectCases
  <2>4. info.err = "nil" /\ info.BadBlocks = {} /\ Clean(info)
    BY <2>3, FinishFacts
  <2> QED BY <2>2, <2>4
<1>5. CASE Whole(b, slots) /\ b.meta.len # 0
  <2> DEFINE scan == scanL1Records(recs, b.count)
  <2>1. Verdict(d, Got(b, recs, all, maxBlock), {})
    BY <1>5, JudgedVerdict
  <2>2. d.bad = {} /\ (d.err = "nil" \/ d.err = "Partial")
    BY <2>1, Zenon DEF Verdict
  <2>3. info = finishInfo(scan.bad, scan.unattributed, FALSE)
    BY <1>2, <1>5, InspectCases
  <2>4. /\ scan.unattributed \in Nat
        /\ scan.bad = {} <=> \A i \in all : Verifies(recs[i], TierL1) => recs[i].idx >= 0
        /\ scan.unattributed = 0 <=>
             \A i \in all : ~Verifies(recs[i], TierL1) => Repeats(recs, b.count, recs[i])
    BY <1>1, ScanFacts
  <2> HIDE DEF scan
  <2>5. info.err = "nil" /\ (Clean(info) <=> scan.bad = {} /\ scan.unattributed = 0)
    <3> DEFINE fin == finishInfo(scan.bad, scan.unattributed, FALSE)
    <3>1. /\ fin.err = "nil" /\ fin.BadBlocks = scan.bad
          /\ Clean(fin) <=> scan.bad = {} /\ scan.unattributed = 0
      BY <2>4, FinishFacts
    <3>2. info = fin
      BY <2>3
    <3> HIDE DEF fin
    <3> QED BY <3>1, <3>2
  <2>6. d.err = "nil" => Clean(info)
    BY <1>3, <2>4, <2>5, Zenon
  <2> QED BY <2>2, <2>5, <2>6
<1>6. CASE ~Whole(b, slots)
  <2> DEFINE walk == inspectWalk(b, slots, recs)
             read == Read(b, slots)
             got == Got(b, recs, read, maxBlock)
             gone == Gone(b, slots, recs)
             below == {j \in read : Verifies(recs[j], TierL1) /\ recs[j].idx < 0}
  <2>1. Verdict(d, got, Named(b, slots, recs, maxBlock))
    BY <1>6, JudgedVerdict
  <2>2. d.bad = Named(b, slots, recs, maxBlock) \ Dirty(got) /\ (d.err = "nil" \/ d.err = "Partial")
    BY <2>1, Zenon DEF Verdict
  <2>3. info = finishInfo(walk.bad, walk.unattributed, FALSE)
    BY <1>2, <1>6, InspectCases
  <2>4. /\ walk.unattributed \in Nat
        /\ walk.bad = {recs[i].idx : i \in gone \cup below}
        /\ walk.unattributed = 0 <=>
             /\ Lost(b, slots) \subseteq gone
             /\ \A i \in read : ~Verifies(recs[i], TierL1) => RepeatsAt(recs, read, recs[i])
    BY <1>1, WalkFacts
  <2> HIDE DEF walk
  <2>5. /\ info.err = "nil" /\ info.BadBlocks = walk.bad
        /\ Clean(info) <=> walk.bad = {} /\ walk.unattributed = 0
    <3> DEFINE fin == finishInfo(walk.bad, walk.unattributed, FALSE)
    <3>1. /\ fin.err = "nil" /\ fin.BadBlocks = walk.bad
          /\ Clean(fin) <=> walk.bad = {} /\ walk.unattributed = 0
      BY <2>4, FinishFacts
    <3>2. info = fin
      BY <2>3
    <3> HIDE DEF fin
    <3> QED BY <3>1, <3>2
  <2>6. ASSUME d.err = "nil" PROVE Clean(info)
    <3>1. read = all
      BY <1>3, <1>6, <2>6
    <3>2. Lost(b, slots) = {} /\ gone = {}
      BY <1>1, <3>1 DEF Gone
    <3>3. below = {}
      BY <1>1, <1>3, <2>6, <3>1
    <3>4. walk.bad = {}
      <4> HIDE DEF gone, below
      <4> QED BY <2>4, <3>2, <3>3
    <3>5. ASSUME NEW i \in read, ~Verifies(recs[i], TierL1) PROVE RepeatsAt(recs, read, recs[i])
      <4>1. Repeats(recs, b.count, recs[i])
        BY <1>3, <2>6, <3>1, <3>5
      <4> QED BY <3>1, <4>1, Zenon DEF Repeats, RepeatsAt
    <3> HIDE DEF gone, below, read
    <3> QED BY <2>4, <2>5, <3>2, <3>4, <3>5
  <2>7. ASSUME NEW x \in d.bad PROVE x \in info.BadBlocks
    <3>1. x \in Named(b, slots, recs, maxBlock) /\ x \notin Dirty(got)
      BY <2>2
    <3>2. PICK i \in Headed(b, slots) : x = recs[i].idx /\ InBase(x, maxBlock)
      BY <3>1, Zenon DEF Named, lostNamed
    <3>3. ASSUME Known(recs, read, x) PROVE FALSE
      <4>1. PICK j \in read : Verifies(recs[j], TierL1) /\ recs[j].idx = x
        BY <3>3 DEF Known
      <4>2. j \in all \cap read
        BY <1>1
      <4>3. got[x] # NoData /\ x \in Block
        BY <3>2, <4>1, <4>2, AppliedIsRestored DEF Judged
      <4> QED BY <3>1, <4>3 DEF Dirty
    <3>4. i \in gone
      BY <3>2, <3>3, Zenon DEF Gone
    <3> HIDE DEF gone, below
    <3> QED BY <2>4, <2>5, <3>2, <3>4
  <2> QED BY <2>2, <2>5, <2>6, <2>7
<1> QED BY <1>4, <1>5, <1>6

\* With the shards in their places and a base that is large enough, the two
\* say the same.
LEMMA InspectConcurs ==
    ASSUME NEW b, NEW ov, NEW slots, NEW wd, NEW recs, NEW s, Judged(b, ov, slots, wd, recs, s),
           Accepted(b), NEW maxBlock \in 0 .. NBlocks, NEW d, d = DeserializeL2(b, maxBlock, wd),
           NEW info, info = InspectL2(b, wd),
           Faithful(b, slots), \A x \in Dirty(ov) : x < maxBlock
    PROVE  (Clean(info) <=> d.err = "nil") /\ info.BadBlocks = d.bad
<1> DEFINE all == 1 .. b.count
<1>1. /\ b.count \in Nat /\ Len(recs) = b.count /\ DOMAIN recs = all
      /\ \A i \in all : recs[i].idx \in Int /\ recs[i].data # NoData
      /\ Read(b, slots) \in SUBSET all /\ Lost(b, slots) \in SUBSET all
      /\ Headed(b, slots) \in SUBSET Lost(b, slots)
      /\ Read(b, slots) \cap Lost(b, slots) = {}
  BY JudgedRecords
<1>2. slots = parseShardSection(b) /\ recs = readPayload(b, slots, wd)
  BY DEF Judged
<1>3. /\ \A i \in Read(b, slots) : AsWritten(recs, ov, s, i)
      /\ Whole(b, slots) => \A i \in all : AsWritten(recs, ov, s, i)
      /\ \A i \in Headed(b, slots) : recs[i].idx = s[i]
  BY ReadIsGenuine
<1>4. /\ \A i \in all : s[i] \in Dirty(ov) /\ s[i] \in Int /\ s[i] >= 0 /\ InBase(s[i], maxBlock)
      /\ \A i, j \in all : s[i] = s[j] => i = j
  BY DEF Judged, IsSource, Dirty, Block, InBase
<1>5. CASE Whole(b, slots)
  <2> DEFINE got == Got(b, recs, all, maxBlock)
  <2>1. ~ForeignAt(recs, all, maxBlock) /\ ~FailingAt(recs, all, got, maxBlock)
    <3>1. all \in SUBSET (1 .. b.count)
      OBVIOUS
    <3>2. /\ ~FailingAt(recs, all, got, maxBlock)
          /\ ForeignAt(recs, all, maxBlock) <=> \E i \in all : ~InBase(s[i], maxBlock)
      <4> HIDE DEF all
      <4> QED BY <1>3, <1>5, <3>1, GenuineIsApplied
    <3> QED BY <1>4, <3>2
  <2>2. /\ Verdict(d, got, {})
        /\ d.truncated <=> \/ ForeignAt(recs, all, maxBlock)
                           \/ FailingAt(recs, all, got, maxBlock)
    BY <1>5, JudgedVerdict
  <2>3. d.err = "nil" /\ d.bad = {}
    <3> HIDE DEF got, all
    <3> QED BY <2>1, <2>2 DEF Verdict
  <2>4. Clean(info)
    BY <2>3, InspectEchoes
  <2>5. info.BadBlocks = {}
    BY <2>4 DEF Clean
  <2> QED BY <2>3, <2>4, <2>5
<1>6. CASE ~Whole(b, slots)
  <2> DEFINE walk == inspectWalk(b, slots, recs)
             read == Read(b, slots)
             lost == Lost(b, slots)
             headed == Headed(b, slots)
             got == Got(b, recs, read, maxBlock)
             named == Named(b, slots, recs, maxBlock)
             gone == Gone(b, slots, recs)
             below == {j \in read : Verifies(recs[j], TierL1) /\ recs[j].idx < 0}
  <2>1. /\ Verdict(d, got, named)
        /\ d.truncated <=> \/ ForeignAt(recs, read, maxBlock)
                           \/ FailingAt(recs, read, got, maxBlock)
                           \/ Unnamed(b, slots, recs, maxBlock)
                           \/ named \cap Dirty(got) # {}
    BY <1>6, JudgedVerdict
  <2>2. d.bad = named \ Dirty(got) /\ (d.err = "nil" <=> d.bad = {} /\ ~d.truncated)
    BY <2>1, Zenon DEF Verdict
  <2>3. info = finishInfo(walk.bad, walk.unattributed, FALSE)
    BY <1>2, <1>6, InspectCases
  <2>4. /\ walk.unattributed \in Nat
        /\ walk.bad = {recs[i].idx : i \in gone \cup below}
        /\ walk.unattributed = 0 <=>
             /\ lost \subseteq gone
             /\ \A i \in read : ~Verifies(recs[i], TierL1) => RepeatsAt(recs, read, recs[i])
    BY <1>1, WalkFacts
  <2> HIDE DEF walk
  <2>5. /\ info.BadBlocks = walk.bad
        /\ Clean(info) <=> walk.bad = {} /\ walk.unattributed = 0
    <3> DEFINE fin == finishInfo(walk.bad, walk.unattributed, FALSE)
    <3>1. /\ fin.err = "nil" /\ fin.BadBlocks = walk.bad
          /\ Clean(fin) <=> walk.bad = {} /\ walk.unattributed = 0
      BY <2>4, FinishFacts
    <3>2. info = fin
      BY <2>3
    <3> HIDE DEF fin
    <3> QED BY <3>1, <3>2
  <2>6. /\ ~FailingAt(recs, read, got, maxBlock) /\ ~ForeignAt(recs, read, maxBlock)
        /\ \A x \in Dirty(got) : \E i \in read : s[i] = x
    <3>1. /\ ~FailingAt(recs, read, got, maxBlock)
          /\ ForeignAt(recs, read, maxBlock) <=> \E i \in read : ~InBase(s[i], maxBlock)
          /\ \A x \in Dirty(got) : \E i \in read : s[i] = x
      <4>1. read \in SUBSET (1 .. b.count) /\ \A i \in read : AsWritten(recs, ov, s, i)
        BY <1>1, <1>3
      <4> HIDE DEF read
      <4> QED BY <4>1, GenuineIsApplied
    <3> QED BY <1>1, <1>4, <3>1
  <2>7. \A i \in read : recs[i].idx = s[i] /\ Verifies(recs[i], TierL1)
    BY <1>3 DEF AsWritten
  <2>8. below = {}
    BY <1>1, <1>4, <2>7
  <2>9. gone = headed
    <3>1. ASSUME NEW i \in headed, Known(recs, read, recs[i].idx) PROVE FALSE
      <4>1. PICK j \in read : recs[j].idx = recs[i].idx
        BY <3>1 DEF Known
      <4>2. s[j] = s[i] /\ i \in all /\ j \in all
        BY <1>1, <1>3, <2>7, <4>1
      <4> QED BY <1>1, <1>4, <4>2
    <3> QED BY <3>1, Zenon DEF Gone
  <2>10. named = {recs[i].idx : i \in headed}
    <3>1. \A i \in headed : i \in lost /\ InBase(recs[i].idx, maxBlock)
      BY <1>1, <1>3, <1>4
    <3>2. {j \in lost \cap headed : InBase(recs[j].idx, maxBlock)} = headed
      BY <3>1
    <3> QED BY <3>2, Zenon DEF Named, lostNamed
  <2>11. named \cap Dirty(got) = {}
    <3> SUFFICES ASSUME NEW x \in named, x \in Dirty(got) PROVE FALSE
      OBVIOUS
    <3>1. PICK i \in headed : x = recs[i].idx
      BY <2>10
    <3>2. PICK j \in read : s[j] = x
      BY <2>6
    <3>3. s[j] = s[i] /\ i \in all /\ j \in all
      BY <1>1, <1>3, <3>1, <3>2
    <3> QED BY <1>1, <1>4, <3>3
  <2>12. Unnamed(b, slots, recs, maxBlock) <=> ~(lost \subseteq headed)
    <3>1. \A i \in headed : InBase(recs[i].idx, maxBlock)
      BY <1>1, <1>3, <1>4
    <3> QED BY <3>1, Zenon DEF Unnamed, lostUnnamed
  <2> HIDE DEF read, lost, headed, got, named, gone, below
  <2>13. walk.bad = named
    BY <2>4, <2>8, <2>9, <2>10
  <2>14. d.bad = named
    BY <2>2, <2>11
  <2>15. walk.unattributed = 0 <=> ~d.truncated
    BY <2>1, <2>4, <2>6, <2>7, <2>9, <2>11, <2>12, Zenon
  <2> QED BY <2>2, <2>5, <2>13, <2>14, <2>15, Zenon
<1> QED BY <1>5, <1>6

\* Wherever the shards are, a record that verifies names a dirty block. Over a
\* base that has those, no record at a position read is foreign, and one that
\* repeats another is not failing.
LEMMA RepeatsInBase ==
    ASSUME NEW b, NEW ov, NEW slots, NEW wd, NEW recs, NEW s, Judged(b, ov, slots, wd, recs, s),
           NEW maxBlock \in 0 .. NBlocks, \A x \in Dirty(ov) : x < maxBlock,
           NEW at \in SUBSET (1 .. b.count)
    PROVE  /\ ~ForeignAt(recs, at, maxBlock)
           /\ (\A i \in at : ~Verifies(recs[i], TierL1) => RepeatsAt(recs, at, recs[i]))
              => ~FailingAt(recs, at, Got(b, recs, at, maxBlock), maxBlock)
<1>1. b.count \in Nat /\ \A i \in 1 .. b.count : recs[i].idx \in Int /\ recs[i].data # NoData
  BY JudgedRecords
<1>2. ASSUME NEW i \in 1 .. b.count, Verifies(recs[i], TierL1)
      PROVE  recs[i].idx \in Block /\ recs[i].idx >= 0 /\ InBase(recs[i].idx, maxBlock)
  <2>1. recs[i].idx \in Dirty(ov)
    BY <1>2, VerifiedIsTrue DEF Judged
  <2> QED BY <2>1 DEF Dirty, Block, InBase
<1>3. ~ForeignAt(recs, at, maxBlock)
  BY <1>2 DEF ForeignAt
<1>4. ASSUME NEW i \in at, RepeatsAt(recs, at, recs[i])
      PROVE  suppressed(recs[i], Got(b, recs, at, maxBlock), maxBlock)
  <2> DEFINE x == recs[i].idx
             named == {j \in at : Verifies(recs[j], TierL1) /\ recs[j].idx = x /\ x >= 0}
             on == appliedAt(recs, TierL1, b.count, maxBlock) \cap at
             found == {j \in on : recs[j].idx = x}
  <2>1. named # {} /\ recs[Largest(named)].data = recs[i].data
    BY <1>4, Zenon DEF RepeatsAt
  <2>2. x \in Block /\ x >= 0 /\ InBase(x, maxBlock)
    BY <1>2, <2>1
  <2>3. found = named
    BY <1>2, <2>2 DEF appliedAt
  <2>4. Got(b, recs, at, maxBlock)[x] = IF found = {} THEN NoData ELSE recs[Largest(found)].data
    BY <2>2 DEF Got, restored
  <2> HIDE DEF named, found
  <2> QED BY <2>1, <2>2, <2>3, <2>4 DEF suppressed
<1> QED BY <1>3, <1>4 DEF FailingAt

\* So there a clean Info foretells a nil error.
LEMMA CleanMeansNil ==
    ASSUME NEW b, NEW ov, NEW slots, NEW wd, NEW recs, NEW s, Judged(b, ov, slots, wd, recs, s),
           Accepted(b), NEW maxBlock \in 0 .. NBlocks, NEW d, d = DeserializeL2(b, maxBlock, wd),
           NEW info, info = InspectL2(b, wd), \A x \in Dirty(ov) : x < maxBlock, Clean(info)
    PROVE  d.err = "nil"
<1> DEFINE all == 1 .. b.count
<1>1. /\ b.count \in Nat /\ Len(recs) = b.count /\ DOMAIN recs = all
      /\ \A i \in all : recs[i].idx \in Int /\ recs[i].data # NoData
      /\ Read(b, slots) \in SUBSET all /\ Lost(b, slots) \in SUBSET all
      /\ Headed(b, slots) \in SUBSET Lost(b, slots)
      /\ Read(b, slots) \cup Lost(b, slots) = all
  BY JudgedRecords
<1>2. slots = parseShardSection(b) /\ recs = readPayload(b, slots, wd)
  BY DEF Judged
<1>3. CASE Whole(b, slots)
  <2> DEFINE got == Got(b, recs, all, maxBlock)
             scan == scanL1Records(recs, b.count)
  <2>1. \A i \in all : ~Verifies(recs[i], TierL1) => RepeatsAt(recs, all, recs[i])
    <3>1. CASE b.meta.len = 0
      <4>1. b.meta.len = RecCells * b.count
        BY DEF Judged, Sound
      <4> QED BY <1>1, <3>1, <4>1 DEF RecCells
    <3>2. CASE b.meta.len # 0
      <4>1. info = finishInfo(scan.bad, scan.unattributed, FALSE)
        BY <1>2, <1>3, <3>2, InspectCases
      <4>2. /\ scan.unattributed \in Nat
            /\ scan.unattributed = 0 <=>
                 \A i \in all : ~Verifies(recs[i], TierL1) => Repeats(recs, b.count, recs[i])
        BY <1>1, ScanFacts
      <4> HIDE DEF scan
      <4>3. Clean(finishInfo(scan.bad, scan.unattributed, FALSE))
        BY <4>1
      <4>4. scan.unattributed = 0
        BY <4>2, <4>3, FinishFacts
      <4> QED BY <4>2, <4>4, Zenon DEF Repeats, RepeatsAt
    <3> QED BY <3>1, <3>2
  <2>2. ~ForeignAt(recs, all, maxBlock) /\ ~FailingAt(recs, all, got, maxBlock)
    <3>1. all \in SUBSET (1 .. b.count)
      OBVIOUS
    <3> HIDE DEF all
    <3> QED BY <2>1, <3>1, RepeatsInBase
  <2>3. /\ Verdict(d, got, {})
        /\ d.truncated <=> \/ ForeignAt(recs, all, maxBlock)
                           \/ FailingAt(recs, all, got, maxBlock)
    BY <1>3, JudgedVerdict
  <2> HIDE DEF got, all
  <2> QED BY <2>2, <2>3 DEF Verdict
<1>4. CASE ~Whole(b, slots)
  <2> DEFINE walk == inspectWalk(b, slots, recs)
             read == Read(b, slots)
             lost == Lost(b, slots)
             got == Got(b, recs, read, maxBlock)
             named == Named(b, slots, recs, maxBlock)
             gone == Gone(b, slots, recs)
  <2>1. info = finishInfo(walk.bad, walk.unattributed, FALSE)
    BY <1>2, <1>4, InspectCases
  <2>2. /\ walk.unattributed \in Nat
        /\ walk.bad = {recs[i].idx : i \in gone \cup
                          {j \in read : Verifies(recs[j], TierL1) /\ recs[j].idx < 0}}
        /\ walk.unattributed = 0 <=>
             /\ lost \subseteq gone
             /\ \A i \in read : ~Verifies(recs[i], TierL1) => RepeatsAt(recs, read, recs[i])
    BY <1>1, WalkFacts
  <2> HIDE DEF walk
  <2>3. walk.bad = {} /\ walk.unattributed = 0
    BY <2>1, <2>2, FinishFacts
  <2>4. gone = {} /\ lost = {}
    <3> HIDE DEF gone, lost
    <3> QED BY <2>2, <2>3
  <2>5. ~ForeignAt(recs, read, maxBlock) /\ ~FailingAt(recs, read, got, maxBlock)
    <3>1. read \in SUBSET (1 .. b.count)
      BY <1>1
    <3> HIDE DEF read
    <3> QED BY <2>2, <2>3, <3>1, RepeatsInBase
  <2>6. named = {} /\ ~Unnamed(b, slots, recs, maxBlock)
    BY <2>4 DEF Named, lostNamed, Unnamed, lostUnnamed
  <2>7. /\ Verdict(d, got, named)
        /\ d.truncated <=> \/ ForeignAt(recs, read, maxBlock)
                           \/ FailingAt(recs, read, got, maxBlock)
                           \/ Unnamed(b, slots, recs, maxBlock)
                           \/ named \cap Dirty(got) # {}
    BY <1>4, JudgedVerdict
  <2> HIDE DEF got, read, named
  <2> QED BY <2>5, <2>6, <2>7 DEF Verdict
<1> QED BY <1>3, <1>4

\* So inspectRS concurs with deserializeRS: over a base that is large enough
\* they agree whether anything is lost, and with shards in their places they
\* agree to the block.
LEMMA RSVerdictsConcur ==
    ASSUME NEW b, NEW faults, NEW ov, NEW maxBlock, NEW wd, NEW d,
           Resumed(b, faults, ov, maxBlock, wd, d), NEW info, info = InspectL2(b, wd)
    PROVE  /\ (info.err = "ErrCorrupt") = (d.err = "ErrCorrupt")
           /\ info.err = "nil" \/ info.err = "ErrCorrupt"
           /\ d.err = "nil" => Clean(info)
           /\ d.bad \subseteq info.BadBlocks
           /\ (\A x \in Dirty(ov) : x < maxBlock) => (Clean(info) <=> d.err = "nil")
           /\ "index" \notin faults /\ (\A x \in Dirty(ov) : x < maxBlock)
              => info.BadBlocks = d.bad
<1> DEFINE slots == parseShardSection(b)
           recs == readPayload(b, slots, wd)
<1>1. CASE ~Accepted(b)
  <2>1. d.err = "ErrCorrupt" /\ d.bad = {}
    BY <1>1, RejectedIsCorrupt
  <2>2. info = Rejected("ErrCorrupt")
    BY <1>1, Zenon DEF InspectL2, inspectRS, Accepted
  <2>3. info.err = "ErrCorrupt" /\ info.BadBlocks = {} /\ ~Clean(info)
    BY <2>2, RejectedType
  <2> QED BY <2>1, <2>3
<1>2. CASE Accepted(b)
  <2>1. PICK s : Judged(b, ov, slots, wd, recs, s)
    BY <1>2, ResumedIsJudged
  <2>2. maxBlock \in 0 .. NBlocks /\ d = DeserializeL2(b, maxBlock, wd)
    BY DEF Resumed
  <2>3. "index" \notin faults => Faithful(b, slots)
    BY StoredIsFaithful DEF Resumed
  <2> HIDE DEF slots, recs
  <2>4. /\ info.err = "nil" /\ (d.err = "nil" \/ d.err = "Partial")
        /\ d.err = "nil" => Clean(info)
        /\ d.bad \subseteq info.BadBlocks
    BY <1>2, <2>1, <2>2, InspectEchoes
  <2>5. "index" \notin faults /\ (\A x \in Dirty(ov) : x < maxBlock)
          => info.BadBlocks = d.bad
    BY <1>2, <2>1, <2>2, <2>3, InspectConcurs
  <2>6. (\A x \in Dirty(ov) : x < maxBlock) => (Clean(info) => d.err = "nil")
    BY <1>2, <2>1, <2>2, CleanMeansNil
  <2> QED BY <2>4, <2>5, <2>6
<1> QED BY <1>1, <1>2
=============================================================================
