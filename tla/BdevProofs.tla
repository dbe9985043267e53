----------------------------- MODULE BdevProofs -----------------------------
(***************************************************************************)
(* Proofs about Bdev, for any images, any number of commands at the same   *)
(* time, runs and edits, at every tier: that no file is ever anything but  *)
(* what its name says; what exit code 0 of apply promises about its        *)
(* output, and what exit codes 0 and 3 do; and that inspect foretells      *)
(* apply.                                                                  *)
(*                                                                         *)
(* The first part follows a blob from Serialize through Damages to what    *)
(* Deserialize and Inspect make of it; the second is the invariant.        *)
(***************************************************************************)
EXTENDS Bdev, FormatProofs

-----------------------------------------------------------------------------
(* The blobs of L0 and L1 that diff writes, undamaged or damaged.          *)

\* Two dirty blocks have the same content.
Alike(ov) == \E x, y \in Dirty(ov) : x # y /\ ov[x] = ov[y]

\* The i-th record is that of the dirty block s[i], its index or its data
\* perhaps hit; as many records as the header counts are those of all of them.
Plain(b, ov, tier, s, hit) ==
    /\ b \in Blob /\ b.layout = tier /\ b.tier = tier /\ b.count = Cardinality(Dirty(ov))
    /\ b.tail \in {NoTail, ShortTail} \cup {IdxTail(x) : x \in Dirty(ov)}
    /\ s \in [1 .. Len(b.recs) -> Dirty(ov)]
    /\ Len(b.recs) = b.count => \A x \in Dirty(ov) : \E i \in 1 .. Len(b.recs) : s[i] = x
    /\ \A i \in 1 .. Len(b.recs) :
          /\ hit # "index" => b.recs[i].idx = s[i]
          /\ hit # "data" => b.recs[i].data = ov[s[i]]
          /\ tier = TierL1 => b.recs[i].crc = Crc(s[i], ov[s[i]])

\* A record that verifies was not hit; and it is under an index of the base.
Covered(tier, hit) == tier = TierL1 \/ hit \notin {"index", "data"}
Inside(tier, hit)   == tier # TierL0 \/ hit # "index"

\* The order of the dirty blocks.
LEMMA SortedFacts ==
    ASSUME NEW ov, NEW s \in sortedIndices(ov), NEW n, n = Cardinality(Dirty(ov))
    PROVE  /\ n \in Nat /\ s \in [1 .. n -> Dirty(ov)]
           /\ \A x \in Dirty(ov) : \E i \in 1 .. n : s[i] = x
BY DirtyFinite DEF sortedIndices

\* A blob of L0 or L1 is told from one of L2.
LEMMA PlainHasNoShards ==
    ASSUME NEW b \in Blob
    PROVE  "shards" \notin DOMAIN b
BY DEF Blob

\* And the reverse.
LEMMA StoredHasShards ==
    ASSUME NEW b \in RSBlob
    PROVE  "shards" \in DOMAIN b
BY DEF RSBlob

\* What SerializeTier writes is plain, and no record is hit or missing.
LEMMA SerializedIsPlain ==
    ASSUME NEW ov \in Overlay, NEW tier \in {TierL0, TierL1}, NEW b \in SerializeTier(ov, tier)
    PROVE  \E s : Plain(b, ov, tier, s, "none") /\ Len(b.recs) = b.count
<1> DEFINE n == Cardinality(Dirty(ov))
<1>1. PICK s \in sortedIndices(ov) :
        b = [magic |-> TRUE, tier |-> tier, count |-> n,
             hcrc |-> HeaderCrc(tier, n), layout |-> tier,
             recs |-> [i \in DOMAIN s |-> writeRecord(ov, s[i], tier)],
             tail |-> NoTail]
  BY DEF SerializeTier
<1>2. n \in Nat /\ s \in [1 .. n -> Dirty(ov)] /\ \A x \in Dirty(ov) : \E i \in 1 .. n : s[i] = x
  BY SortedFacts
<1> HIDE DEF n
<1> DEFINE recs == [i \in 1 .. n |-> writeRecord(ov, s[i], tier)]
<1>3. b = [magic |-> TRUE, tier |-> tier, count |-> n, hcrc |-> HeaderCrc(tier, n),
           layout |-> tier, recs |-> recs, tail |-> NoTail]
  BY <1>1, <1>2
<1>4. ASSUME NEW i \in 1 .. n
      PROVE  /\ writeRecord(ov, s[i], tier) \in Record
             /\ writeRecord(ov, s[i], tier).idx = s[i]
             /\ writeRecord(ov, s[i], tier).data = ov[s[i]]
             /\ tier = TierL1 => writeRecord(ov, s[i], tier).crc = Crc(s[i], ov[s[i]])
  <2>1. s[i] \in Int /\ ov[s[i]] \in Content
    BY <1>2 DEF Dirty, Overlay, Block
  <2> QED BY <2>1 DEF writeRecord, Record, Crc
<1>5. /\ recs \in Seq(Record) /\ Len(recs) = n
      /\ \A i \in 1 .. n : recs[i] = writeRecord(ov, s[i], tier)
  <2>1. recs \in [1 .. n -> Record]
    BY <1>4
  <2>2. \A i \in 1 .. n : recs[i] = writeRecord(ov, s[i], tier)
    OBVIOUS
  <2> HIDE DEF recs
  <2> QED BY <1>2, <2>1, <2>2
<1>6. tier \in Nat /\ HeaderCrc(tier, n) \in Nat \X Nat
      /\ NoTail \in [kind : {"none", "short", "index"}, idx : Int]
  BY <1>2 DEF TierL0, TierL1, HeaderCrc, NoTail
<1> HIDE DEF recs
<1>7. b \in Blob /\ b.recs = recs /\ b.layout = tier /\ b.tier = tier /\ b.tail = NoTail
      /\ b.count = n
  BY <1>2, <1>3, <1>5, <1>6 DEF Blob
<1>8. Plain(b, ov, tier, s, "none")
  BY <1>2, <1>4, <1>5, <1>7 DEF Plain, n
<1> QED BY <1>5, <1>7, <1>8

\* A blob with another header CRC, other records or another tail.
Reworked(b, hcrc, recs, tail) ==
    [magic |-> b.magic, tier |-> b.tier, count |-> b.count, hcrc |-> hcrc,
     layout |-> b.layout, recs |-> recs, tail |-> tail]

\* Records of a blob that counts count, such as Plain wants them.
Fitting(recs, count, ov, tier, s, hit) ==
    /\ recs \in Seq(Record) /\ s \in [1 .. Len(recs) -> Dirty(ov)]
    /\ Len(recs) = count => \A x \in Dirty(ov) : \E i \in 1 .. Len(recs) : s[i] = x
    /\ \A i \in 1 .. Len(recs) :
          /\ hit # "index" => recs[i].idx = s[i]
          /\ hit # "data" => recs[i].data = ov[s[i]]
          /\ tier = TierL1 => recs[i].crc = Crc(s[i], ov[s[i]])

\* It is plain if the header CRC is wrong rather than another's and the records
\* and the tail are such as Plain wants them.
LEMMA ReworkedIsPlain ==
    ASSUME NEW b \in Blob, NEW ov, NEW tier, NEW hit,
           b.layout = tier, b.tier = tier, b.count = Cardinality(Dirty(ov)),
           NEW hcrc, hcrc = b.hcrc \/ hcrc = BadCrc,
           NEW recs, NEW s, Fitting(recs, b.count, ov, tier, s, hit),
           NEW tail, tail \in {NoTail, ShortTail} \cup {IdxTail(x) : x \in Dirty(ov)}
    PROVE  Plain(Reworked(b, hcrc, recs, tail), ov, tier, s, hit)
<1> DEFINE d == Reworked(b, hcrc, recs, tail)
<1>1. tail \in [kind : {"none", "short", "index"}, idx : Int]
  BY DEF NoTail, ShortTail, IdxTail, Dirty, Block
<1>2. d \in Blob
  BY <1>1 DEF Reworked, Blob, Fitting
<1>3. d.layout = b.layout /\ d.tier = b.tier /\ d.count = b.count /\ d.recs = recs
      /\ d.tail = tail
  BY DEF Reworked
<1> HIDE DEF d
<1>4. Plain(d, ov, tier, s, hit)
  BY <1>2, <1>3 DEF Plain, Fitting
<1> QED BY <1>4 DEF d

\* The hits of a blob of L0 or L1, by kind.
LEMMA PlainDamages ==
    ASSUME NEW b \in Blob, NEW h \in Damages(b)
    PROVE  \/ h = Hit("header", Garbled(b), 0)
           \/ \E i \in DOMAIN b.recs, x \in -1 .. NBlocks : h = Hit("index", Renamed(b, i, x), 0)
           \/ \E i \in DOMAIN b.recs, c \in Content : h = Hit("data", Flipped(b, i, c), 0)
           \/ \E t \in Remains(b) : h = Hit("cut", Cut(b, t), 0)
           \/ \E i \in DOMAIN b.recs : h = Hit("copy", Again(b, i), 0)
<1>1. "shards" \notin DOMAIN b
  BY PlainHasNoShards
<1> DEFINE header == {Hit("header", Garbled(b), 0)}
           index == {Hit("index", Renamed(b, i, x), 0) : i \in DOMAIN b.recs, x \in -1 .. NBlocks}
           data == {Hit("data", Flipped(b, i, c), 0) : i \in DOMAIN b.recs, c \in Content}
           cut == {Hit("cut", Cut(b, t), 0) : t \in Remains(b)}
           copy == {Hit("copy", Again(b, i), 0) : i \in DOMAIN b.recs}
<1>2. Damages(b) = header \cup index \cup data \cup cut \cup copy
  BY <1>1 DEF Damages
<1>3. h \in header => h = Hit("header", Garbled(b), 0)
  BY Zenon
<1>4. h \in index => \E i \in DOMAIN b.recs, x \in -1 .. NBlocks :
                        h = Hit("index", Renamed(b, i, x), 0)
  OBVIOUS
<1>5. h \in data => \E i \in DOMAIN b.recs, c \in Content : h = Hit("data", Flipped(b, i, c), 0)
  OBVIOUS
<1>6. h \in cut => \E t \in Remains(b) : h = Hit("cut", Cut(b, t), 0)
  BY Zenon
<1>7. h \in copy => \E i \in DOMAIN b.recs : h = Hit("copy", Again(b, i), 0)
  BY Zenon
<1> HIDE DEF header, index, data, cut, copy
<1> QED BY <1>2, <1>3, <1>4, <1>5, <1>6, <1>7, Zenon

\* Damage leaves a plain blob plain, but for what is hit.
LEMMA DamagedIsPlain ==
    ASSUME NEW b, NEW ov, NEW tier, NEW s, Plain(b, ov, tier, s, "none"), Len(b.recs) = b.count,
           NEW h \in Damages(b)
    PROVE  \E t : Plain(h.blob, ov, tier, t, h.hit)
<1> DEFINE n == Len(b.recs)
<1>1. b \in Blob /\ b.recs \in Seq(Record) /\ n \in Nat /\ DOMAIN b.recs = 1 .. n
      /\ b.layout = tier /\ b.tier = tier /\ b.count = Cardinality(Dirty(ov)) /\ n = b.count
  BY DEF Plain, Blob
<1>2. /\ b.tail \in {NoTail, ShortTail} \cup {IdxTail(x) : x \in Dirty(ov)}
      /\ s \in [1 .. n -> Dirty(ov)] /\ \A x \in Dirty(ov) : \E i \in 1 .. n : s[i] = x
      /\ \A i \in 1 .. n : /\ b.recs[i].idx = s[i] /\ b.recs[i].data = ov[s[i]]
                           /\ tier = TierL1 => b.recs[i].crc = Crc(s[i], ov[s[i]])
  BY DEF Plain
<1>3. \A hit, blob : Hit(hit, blob, 0).hit = hit /\ Hit(hit, blob, 0).blob = blob
  BY DEF Hit
<1>4. b.tail \in {NoTail, ShortTail} \cup {IdxTail(x) : x \in Dirty(ov)}
  BY <1>2
<1> HIDE DEF n
<1>5. CASE h = Hit("header", Garbled(b), 0)
  <2>1. Garbled(b) = Reworked(b, BadCrc, b.recs, b.tail)
    BY <1>1 DEF Blob, Reworked, Garbled
  <2> DEFINE hit == "header"
  <2> HIDE DEF hit
  <2>2. Fitting(b.recs, b.count, ov, tier, s, hit)
    BY <1>1, <1>2 DEF Fitting, n
  <2>3. Plain(Garbled(b), ov, tier, s, hit)
    BY <1>1, <1>4, <2>1, <2>2, ReworkedIsPlain
  <2> QED BY <1>3, <1>5, <2>3 DEF hit
<1>6. ASSUME NEW i \in DOMAIN b.recs, NEW r, NEW hit, NEW d, r \in Record,
             d = [b EXCEPT !.recs = [b.recs EXCEPT ![i] = r]],
             hit # "index" => r.idx = s[i], hit # "data" => r.data = ov[s[i]],
             tier = TierL1 => r.crc = Crc(s[i], ov[s[i]])
      PROVE  Plain(d, ov, tier, s, hit)
  <2> DEFINE recs == [b.recs EXCEPT ![i] = r]
  <2>1. /\ recs \in Seq(Record) /\ Len(recs) = n
        /\ \A j \in 1 .. n : recs[j] = IF j = i THEN r ELSE b.recs[j]
    BY <1>1, <1>6, ExceptSeq DEF n
  <2>2. d = [b EXCEPT !.recs = recs]
    BY <1>6
  <2> HIDE DEF recs
  <2>3. d = Reworked(b, b.hcrc, recs, b.tail)
    BY <1>1, <2>2 DEF Blob, Reworked
  <2>4. \A j \in 1 .. Len(recs) :
           /\ hit # "index" => recs[j].idx = s[j]
           /\ hit # "data" => recs[j].data = ov[s[j]]
           /\ tier = TierL1 => recs[j].crc = Crc(s[j], ov[s[j]])
    BY <1>2, <1>6, <2>1
  <2>5. s \in [1 .. Len(recs) -> Dirty(ov)]
        /\ \A x \in Dirty(ov) : \E j \in 1 .. Len(recs) : s[j] = x
    BY <1>2, <2>1
  <2>6. Fitting(recs, b.count, ov, tier, s, hit)
    BY <2>1, <2>4, <2>5 DEF Fitting
  <2> QED BY <1>1, <1>2, <2>3, <2>6, ReworkedIsPlain
<1>7. ASSUME NEW i \in DOMAIN b.recs
      PROVE  b.recs[i] \in Record /\ b.recs[i].idx = s[i] /\ b.recs[i].data = ov[s[i]]
             /\ (tier = TierL1 => b.recs[i].crc = Crc(s[i], ov[s[i]]))
  BY <1>1, <1>2, ElementOfSeq DEF n
<1>8. ASSUME NEW i \in DOMAIN b.recs, NEW x \in -1 .. NBlocks,
             h = Hit("index", Renamed(b, i, x), 0)
      PROVE  Plain(h.blob, ov, tier, s, h.hit)
  <2> DEFINE r == [b.recs[i] EXCEPT !.idx = x]
  <2>1. r \in Record /\ r.data = b.recs[i].data /\ r.crc = b.recs[i].crc
    BY <1>7, FormatAssumption DEF Record
  <2>2. Renamed(b, i, x) = [b EXCEPT !.recs = [b.recs EXCEPT ![i] = r]]
    BY DEF Renamed
  <2> HIDE DEF r
  <2>3. Plain(Renamed(b, i, x), ov, tier, s, "index")
    BY <1>6, <1>7, <2>1, <2>2
  <2> QED BY <1>3, <1>8, <2>3
<1>9. ASSUME NEW i \in DOMAIN b.recs, NEW c \in Content, h = Hit("data", Flipped(b, i, c), 0)
      PROVE  Plain(h.blob, ov, tier, s, h.hit)
  <2> DEFINE r == [b.recs[i] EXCEPT !.data = c]
  <2>1. r \in Record /\ r.idx = b.recs[i].idx /\ r.crc = b.recs[i].crc
    BY <1>7 DEF Record
  <2>2. Flipped(b, i, c) = [b EXCEPT !.recs = [b.recs EXCEPT ![i] = r]]
    BY DEF Flipped
  <2> HIDE DEF r
  <2>3. Plain(Flipped(b, i, c), ov, tier, s, "data")
    BY <1>6, <1>7, <2>1, <2>2
  <2> QED BY <1>3, <1>9, <2>3
<1>10. ASSUME NEW t \in Remains(b), h = Hit("cut", Cut(b, t), 0)
      PROVE  \E u : Plain(h.blob, ov, tier, u, h.hit)
  <2> DEFINE recs == SubSeq(b.recs, 1, n - 1)
             u == [j \in 1 .. (n - 1) |-> s[j]]
  <2>1. b.recs # <<>> /\ t \in {NoTail, ShortTail, IdxTail(b.recs[Len(b.recs)].idx)}
    BY <1>10 DEF Remains
  <2>2. n >= 1
    BY <1>1, <2>1, EmptySeq DEF n
  <2>3. \A j \in 1 .. n - 1 : b.recs[j] \in Record
    BY <1>1, <1>7
  <2>4. /\ recs \in Seq(Record) /\ Len(recs) = n - 1
        /\ \A j \in 1 .. n - 1 : recs[j] = b.recs[j]
    BY <1>1, <2>2, <2>3, SubSeqProperties
  <2>5. u \in [1 .. (n - 1) -> Dirty(ov)] /\ \A j \in 1 .. (n - 1) : u[j] = s[j]
    BY <1>1, <1>2
  <2>6. t \in {NoTail, ShortTail} \cup {IdxTail(x) : x \in Dirty(ov)}
    <3>1. n \in 1 .. n
      BY <1>1, <2>2
    <3>2. b.recs[n].idx \in Dirty(ov)
      BY <1>2, <3>1
    <3> QED BY <2>1, <3>2 DEF n
  <2> HIDE DEF u
  <2> DEFINE hit == "cut"
  <2>7. Cut(b, t) = [b EXCEPT !.recs = recs, !.tail = t]
    BY Zenon DEF Cut, n
  <2> HIDE DEF recs, hit
  <2>8. Cut(b, t) = Reworked(b, b.hcrc, recs, t)
    BY <1>1, <2>7 DEF Blob, Reworked
  <2>9. Len(recs) # b.count
    BY <1>1, <2>4
  <2>10. ASSUME NEW j \in 1 .. Len(recs)
         PROVE  /\ recs[j].idx = u[j] /\ recs[j].data = ov[u[j]]
                /\ tier = TierL1 => recs[j].crc = Crc(u[j], ov[u[j]])
    <3>1. j \in 1 .. n - 1 /\ j \in 1 .. n
      BY <1>1, <2>2, <2>4
    <3>2. recs[j] = b.recs[j] /\ u[j] = s[j]
      BY <2>4, <2>5, <3>1
    <3> QED BY <1>2, <3>1, <3>2
  <2>11. u \in [1 .. Len(recs) -> Dirty(ov)]
    BY <2>4, <2>5
  <2>12. Fitting(recs, b.count, ov, tier, u, hit)
    BY <2>4, <2>9, <2>10, <2>11 DEF Fitting
  <2>13. Plain(Cut(b, t), ov, tier, u, hit)
    BY <1>1, <2>6, <2>8, <2>12, ReworkedIsPlain
  <2> QED BY <1>3, <1>10, <2>13 DEF hit
<1>11. ASSUME NEW i \in DOMAIN b.recs, h = Hit("copy", Again(b, i), 0)
       PROVE  \E u : Plain(h.blob, ov, tier, u, h.hit)
  <2> DEFINE recs == Append(b.recs, b.recs[i])
             u == [j \in 1 .. (n + 1) |-> IF j = n + 1 THEN s[i] ELSE s[j]]
  <2>1. /\ recs \in Seq(Record) /\ Len(recs) = n + 1
        /\ \A j \in 1 .. n : recs[j] = b.recs[j]
        /\ recs[n + 1] = b.recs[i]
    BY <1>1, <1>7, AppendProperties DEF n
  <2>2. /\ u \in [1 .. (n + 1) -> Dirty(ov)] /\ u[n + 1] = s[i]
        /\ \A j \in 1 .. n : u[j] = s[j]
    BY <1>1, <1>2
  <2> HIDE DEF u
  <2> DEFINE hit == "copy"
  <2>3. Again(b, i) = [b EXCEPT !.recs = recs]
    BY Zenon DEF Again
  <2> HIDE DEF recs, hit
  <2>4. Again(b, i) = Reworked(b, b.hcrc, recs, b.tail)
    BY <1>1, <2>3 DEF Blob, Reworked
  <2>5. Len(recs) # b.count
    BY <1>1, <2>1
  <2>6. ASSUME NEW j \in 1 .. Len(recs)
        PROVE  /\ recs[j].idx = u[j] /\ recs[j].data = ov[u[j]]
               /\ tier = TierL1 => recs[j].crc = Crc(u[j], ov[u[j]])
    <3>1. j \in 1 .. n \/ j = n + 1
      BY <1>1, <2>1
    <3>2. CASE j \in 1 .. n
      BY <1>2, <2>1, <2>2, <3>2
    <3>3. CASE j = n + 1
      BY <1>7, <2>1, <2>2, <3>3
    <3> QED BY <3>1, <3>2, <3>3
  <2>7. u \in [1 .. Len(recs) -> Dirty(ov)]
    BY <2>1, <2>2
  <2>8. Fitting(recs, b.count, ov, tier, u, hit)
    BY <2>1, <2>5, <2>6, <2>7 DEF Fitting
  <2>9. Plain(Again(b, i), ov, tier, u, hit)
    BY <1>1, <1>4, <2>4, <2>8, ReworkedIsPlain
  <2> QED BY <1>3, <1>11, <2>9 DEF hit
<1> QED BY <1>1, <1>5, <1>8, <1>9, <1>10, <1>11, PlainDamages

\* A record that verifies at L1 is one of a block and its content; at L0 so is
\* any, unless records were hit.
LEMMA PlainRecordTrue ==
    ASSUME NEW b, NEW ov, NEW tier, NEW s, NEW hit, Plain(b, ov, tier, s, hit), Covered(tier, hit)
    PROVE  \A i \in 1 .. Len(b.recs) :
              Verifies(b.recs[i], tier)
              => b.recs[i].idx = s[i] /\ b.recs[i].data = ov[s[i]] /\ s[i] \in Dirty(ov)
<1> TAKE i \in 1 .. Len(b.recs)
<1> HAVE Verifies(b.recs[i], tier)
<1>1. s[i] \in Dirty(ov)
  BY DEF Plain
<1>2. CASE tier = TierL1
  <2>1. b.recs[i].crc = <<s[i], ov[s[i]]>> /\ b.recs[i].crc = <<b.recs[i].idx, b.recs[i].data>>
    BY <1>2 DEF Plain, Verifies, Crc
  <2> QED BY <1>1, <2>1
<1>3. CASE hit \notin {"index", "data"}
  BY <1>1, <1>3 DEF Plain
<1> QED BY <1>2, <1>3 DEF Covered

\* A blob restores nothing, or some records in full that verify at its tier.
LEMMA PlainRestores ==
    ASSUME NEW b, NEW ov, NEW tier \in {TierL0, TierL1}, NEW s, NEW hit, Plain(b, ov, tier, s, hit),
           NEW maxBlock \in 0 .. NBlocks, NEW d, d = Deserialize(b, maxBlock)
    PROVE  \/ d.over = Empty
           \/ \E n \in 0 .. Len(b.recs) :
                 d.over = restored(b.recs, appliedAt(b.recs, tier, n, maxBlock))
<1>1. b \in Blob /\ b.tier = tier /\ b.layout = tier /\ Len(b.recs) \in Nat
  BY DEF Plain, Blob
<1>2. CASE d \in {Corrupt, UnsupportedTier}
  BY <1>2 DEF Corrupt, UnsupportedTier
<1>3. CASE d = applyRecords(b.recs, b.tail, b.tier, b.count, maxBlock)
  <2> DEFINE ext == Extent(b.recs, b.tail, b.count, maxBlock)
  <2>1. ext.n \in 0 .. Len(b.recs)
    BY <1>1, ExtentType
  <2>2. d.over = restored(b.recs, appliedAt(b.recs, tier, ext.n, maxBlock))
    BY <1>1, <1>3 DEF applyRecords
  <2> HIDE DEF ext
  <2> QED BY <2>1, <2>2, Zenon
<1>4. CASE d = deserializeHeaderless(b, maxBlock)
  <2> DEFINE at == appliedAt(b.recs, TierL1, Len(b.recs), maxBlock)
  <2>1. d = Corrupt \/ (tier = TierL1 /\ d.over = restored(b.recs, at))
    BY <1>1, <1>4 DEF deserializeHeaderless
  <2>2. d = Corrupt => d.over = Empty
    BY DEF Corrupt
  <2>3. Len(b.recs) \in 0 .. Len(b.recs)
    BY <1>1
  <2> QED BY <2>1, <2>2, <2>3, Zenon
<1> QED BY <1>2, <1>3, <1>4 DEF Deserialize

\* What Deserialize makes of a plain blob over a base of maxBlock blocks.
Unpacked(b, ov, tier, s, hit, maxBlock, d) ==
    /\ ov \in Overlay /\ tier \in {TierL0, TierL1} /\ Plain(b, ov, tier, s, hit)
    /\ maxBlock \in 0 .. NBlocks /\ d = Deserialize(b, maxBlock)

\* What Deserialize makes of it: an overlay of blocks of the base; and unless
\* a hit goes unnoticed for want of a CRC, one of the content there was,
\* complete if no error is reported, but for the residual window.
LEMMA PlainDecoded ==
    ASSUME NEW b, NEW ov, NEW tier, NEW s, NEW hit, NEW maxBlock, NEW d,
           Unpacked(b, ov, tier, s, hit, maxBlock, d)
    PROVE  /\ d \in Result /\ \A x \in Dirty(d.over) : InBase(x, maxBlock)
           /\ Covered(tier, hit) =>
                 /\ \A x \in Block : d.over[x] \in {ov[x], NoData}
                 /\ d.err = "nil" => d.over = ov \/ (hit = "index" /\ Alike(ov))
<1> ov \in Overlay /\ tier \in {TierL0, TierL1} /\ Plain(b, ov, tier, s, hit)
    /\ maxBlock \in 0 .. NBlocks /\ d = Deserialize(b, maxBlock)
  BY DEF Unpacked
<1>1. b \in Blob /\ b.tier = tier /\ Len(b.recs) \in Nat /\ b.count = Cardinality(Dirty(ov))
  BY DEF Plain, Blob
<1>2. d \in Result /\ d.over \in Overlay
  BY <1>1, DeserializeType DEF Result
<1>3. \/ d.over = Empty
      \/ \E n \in 0 .. Len(b.recs) :
            d.over = restored(b.recs, appliedAt(b.recs, tier, n, maxBlock))
  BY PlainRestores
<1>4. \A x \in Dirty(d.over) : InBase(x, maxBlock)
  BY <1>1, DeserializeInBase
<1>5. ASSUME Covered(tier, hit), NEW i \in 1 .. Len(b.recs), Verifies(b.recs[i], tier)
      PROVE  b.recs[i].idx = s[i] /\ b.recs[i].data = ov[s[i]]
  BY <1>5, PlainRecordTrue
<1>6. ASSUME Covered(tier, hit), NEW x \in Block
      PROVE  d.over[x] \in {ov[x], NoData}
  <2>1. CASE d.over = Empty
    BY <2>1, EmptyType
  <2>2. ASSUME NEW n \in 0 .. Len(b.recs),
               d.over = restored(b.recs, appliedAt(b.recs, tier, n, maxBlock))
        PROVE  d.over[x] \in {ov[x], NoData}
    <3> DEFINE at == appliedAt(b.recs, tier, n, maxBlock)
    <3>1. at \in SUBSET (1 .. Len(b.recs)) /\ \A i \in at : Verifies(b.recs[i], tier)
      BY <1>1 DEF appliedAt
    <3> HIDE DEF at
    <3>2. ASSUME NEW i \in at PROVE b.recs[i].data = ov[b.recs[i].idx]
      <4>1. i \in 1 .. Len(b.recs) /\ Verifies(b.recs[i], tier)
        BY <3>1
      <4>2. b.recs[i].idx = s[i] /\ b.recs[i].data = ov[s[i]]
        BY <1>6, <1>5, <4>1
      <4> QED BY <4>2
    <3>3. d.over = restored(b.recs, at)
      BY <2>2 DEF at
    <3>4. \/ restored(b.recs, at)[x] = NoData
          \/ \E i \in at : b.recs[i].idx = x /\ restored(b.recs, at)[x] = b.recs[i].data
      BY <1>1, <3>1, RestoredFromBlob
    <3> QED BY <3>2, <3>3, <3>4
  <2> QED BY <1>3, <2>1, <2>2
<1>7. ASSUME Covered(tier, hit), d.err = "nil",
             ~(hit = "index" /\ Alike(ov))
      PROVE  d.over = ov
  <2> DEFINE at == appliedAt(b.recs, tier, Len(b.recs), maxBlock)
  <2>1. /\ Len(b.recs) = b.count /\ d.over = restored(b.recs, at)
        /\ ~Foreign(b.recs, tier, Len(b.recs), maxBlock)
        /\ ~Failing(b.recs, tier, Len(b.recs), d.over, maxBlock)
    BY <1>1, <1>7, NilMeans
  <2>2. at \in SUBSET (1 .. Len(b.recs))
    BY DEF appliedAt
  <2>3. ASSUME NEW x \in Dirty(ov) PROVE d.over[x] # NoData
    <3>1. PICK i \in 1 .. Len(b.recs) : s[i] = x
      BY <1>1, <2>1 DEF Plain
    <3>2. x \in Block /\ ov[x] # NoData
      BY DEF Dirty
    <3>3. CASE Verifies(b.recs[i], tier)
      <4>1. i \in at
        BY <2>1, <3>3 DEF Foreign, appliedAt
      <4>2. b.recs[i].idx = x
        BY <1>7, <1>5, <3>1, <3>3
      <4> HIDE DEF at
      <4> QED BY <1>1, <2>1, <2>2, <3>2, <4>1, <4>2, RestoredCovers
    <3>4. CASE ~Verifies(b.recs[i], tier)
      <4> DEFINE y == b.recs[i].idx
      <4>1. InBase(y, maxBlock) /\ d.over[y] = b.recs[i].data
        BY <2>1, <3>4 DEF Failing, suppressed
      <4>2. b.recs[i].data # NoData /\ y \in Block
        BY <1>1, <4>1, RecordFields, FormatAssumption DEF InBase, Block
      <4>3. CASE y = x
        BY <4>1, <4>2, <4>3
      <4>4. CASE y # x
        <5>1. hit = "index"
          BY <3>1, <4>4 DEF Plain
        <5>2. b.recs[i].data = ov[x]
          BY <3>1, <5>1 DEF Plain
        <5>3. d.over[y] \in {ov[y], NoData}
          BY <1>6, <1>7, <4>2
        <5>4. ov[y] = ov[x] /\ y \in Dirty(ov)
          BY <3>2, <4>1, <4>2, <5>2, <5>3 DEF Dirty
        <5> HIDE DEF y
        <5>5. Alike(ov)
          BY <4>4, <5>4 DEF Alike
        <5> QED BY <1>7, <5>1, <5>5
      <4> QED BY <4>3, <4>4
    <3> QED BY <3>3, <3>4
  <2> QED BY <1>2, <1>6, <1>7, <2>3, TrueAndComplete
<1> QED BY <1>2, <1>4, <1>6, <1>7

\* What Inspect says of it, and Deserialize over a base that has each of its
\* blocks. At L0 an index that was hit may be in no base.
LEMMA PlainForetold ==
    ASSUME NEW b, NEW ov, NEW tier, NEW s, NEW hit, NEW maxBlock, NEW d,
           Unpacked(b, ov, tier, s, hit, maxBlock, d), Inside(tier, hit),
           \A x \in Dirty(ov) : InBase(x, maxBlock), d.err = "nil" \/ d.err = "Partial"
    PROVE  Inspect(b).err = "nil" /\ (Clean(Inspect(b)) <=> d.err = "nil")
<1> ov \in Overlay /\ tier \in {TierL0, TierL1} /\ Plain(b, ov, tier, s, hit)
    /\ maxBlock \in 0 .. NBlocks /\ d = Deserialize(b, maxBlock)
  BY DEF Unpacked
<1> DEFINE info == Inspect(b)
<1>1. b \in Blob /\ b.tier = tier /\ Len(b.recs) \in Nat
      /\ b.tail \in {NoTail, ShortTail} \cup {IdxTail(x) : x \in Dirty(ov)}
  BY DEF Plain, Blob
<1>2. ASSUME NEW i \in 1 .. Len(b.recs), b.tier = TierL0 \/ Verifies(b.recs[i], TierL1)
      PROVE  InBase(b.recs[i].idx, maxBlock)
  <2>1. CASE hit # "index"
    BY <2>1 DEF Plain
  <2>2. CASE tier = TierL1
    <3>1. Verifies(b.recs[i], tier)
      BY <1>1, <1>2, <2>2 DEF TierL0, TierL1
    <3>2. Covered(tier, hit)
      BY <2>2 DEF Covered
    <3>3. b.recs[i].idx \in Dirty(ov)
      BY <3>1, <3>2, PlainRecordTrue, Zenon
    <3> QED BY <3>3
  <2> QED BY <2>1, <2>2 DEF Inside, TierL0, TierL1
<1>3. b.tail.kind = "index" => InBase(b.tail.idx, maxBlock)
  BY <1>1 DEF NoTail, ShortTail, IdxTail
<1>4. IndicesWithin(b, maxBlock)
  BY <1>2, <1>3 DEF IndicesWithin
<1>5. Concur(b, maxBlock, d, info)
  BY <1>1, VerdictsConcur
<1> HIDE DEF info
<1>6. info.err # "ErrCorrupt" /\ info.err # "ErrUnsupportedTier" /\ info \in Info
  BY <1>5 DEF Concur
<1>7. info.err = "nil" /\ (Clean(info) <=> d.err = "nil")
  BY <1>4, <1>5, <1>6 DEF Concur, Info
<1> QED BY <1>7 DEF info

-----------------------------------------------------------------------------
(* The blobs of L2. *)

\* What Deserialize makes of them.
LEMMA StoredDecoded ==
    ASSUME NEW b, NEW faults, NEW ov, NEW maxBlock, NEW wd, NEW d,
           Resumed(b, faults, ov, maxBlock, wd, d), "copy" \notin faults
    PROVE  /\ d \in Result /\ \A x \in Dirty(d.over) : InBase(x, maxBlock)
           /\ \A x \in Block : d.over[x] \in {ov[x], NoData}
           /\ d.err = "nil" => d.over = ov \/ ("index" \in faults /\ Alike(ov))
<1>1. b \in RSBlob /\ ov \in Overlay /\ Sourced(b, ov) /\ maxBlock \in 0 .. NBlocks
      /\ d = DeserializeL2(b, maxBlock, wd) /\ wd \in Int
  BY DEF Resumed, Stored
<1>2. d \in Result /\ \A x \in Block : d.over[x] \in {ov[x], NoData}
  BY <1>1, L2Type
<1>3. ASSUME d.err = "nil", "index" \notin faults PROVE d.over = ov
  <2>1. Faithful(b, parseShardSection(b))
    BY <1>3, StoredIsFaithful DEF Resumed
  <2> QED BY <1>3, <2>1, SilentFaithful
<1>4. ASSUME d.err = "nil", ~Alike(ov) PROVE d.over = ov
  <2>1. \A x, y \in Dirty(ov) : ov[x] = ov[y] => x = y
    BY <1>4 DEF Alike
  <2> QED BY <1>4, <2>1, SilentMisplaced
<1>5. \A x \in Dirty(d.over) : InBase(x, maxBlock)
  BY L2InBase
<1> QED BY <1>2, <1>3, <1>4, <1>5

\* What Inspect says of one that is not rejected.
LEMMA StoredForetold ==
    ASSUME NEW b, NEW faults, NEW ov, NEW maxBlock, NEW wd, NEW d,
           Resumed(b, faults, ov, maxBlock, wd, d),
           \A x \in Dirty(ov) : InBase(x, maxBlock), d.err = "nil" \/ d.err = "Partial"
    PROVE  InspectL2(b, wd).err = "nil" /\ (Clean(InspectL2(b, wd)) <=> d.err = "nil")
<1> DEFINE info == InspectL2(b, wd)
<1>1. /\ (info.err = "ErrCorrupt") = (d.err = "ErrCorrupt")
      /\ info.err = "nil" \/ info.err = "ErrCorrupt"
      /\ (\A x \in Dirty(ov) : x < maxBlock) => (Clean(info) <=> d.err = "nil")
  BY RSVerdictsConcur
<1> HIDE DEF info
<1>2. \A x \in Dirty(ov) : x < maxBlock
  BY DEF InBase
<1>3. d.err # "ErrCorrupt"
  OBVIOUS
<1>4. info.err = "nil" /\ (Clean(info) <=> d.err = "nil")
  BY <1>1, <1>2, <1>3
<1> QED BY <1>4 DEF info

\* Other headers of the same shards, which differ in what is hit, leave a stored
\* blob stored.
LEMMA HitIsStored ==
    ASSUME NEW b \in RSBlob, NEW ov, Stored(b, {}, ov), NEW kind,
           NEW sh \in [DOMAIN b.shards -> ShardHdr],
           \A k \in DOMAIN b.shards : /\ sh[k].of = b.shards[k].of
                                      /\ kind # "index" => sh[k].idx = b.shards[k].idx,
           NEW d, d = [b EXCEPT !.shards = sh]
    PROVE  d \in RSBlob /\ Stored(d, {kind}, ov)
<1>1. /\ b.shards \in Seq(ShardHdr) /\ Len(b.shards) \in Nat /\ b.rest \in Nat
      /\ DOMAIN b.shards = 1 .. Len(b.shards) /\ b.header \in BOOLEAN /\ b.metaOK \in BOOLEAN
      /\ \A k \in 1 .. Len(b.shards) :
            /\ b.shards[k] \in ShardHdr /\ b.shards[k].of < Total(b.meta)
            /\ b.shards[k].idx = b.shards[k].of
      /\ \A k, l \in 1 .. Len(b.shards) : b.shards[k].of = b.shards[l].of => k = l
  BY StoredShards
<1> DEFINE none == {}
           rest == b.rest
           head == b.header
           mok == b.metaOK
<1>2. d = Redone(b, sh, rest, head, mok)
  BY DEF Redone, RSBlob
<1>3. rest \in Nat /\ head \in BOOLEAN /\ mok \in BOOLEAN
  BY <1>1
<1>4. head \/ ~b.header \/ kind = "header"
  BY Zenon
<1>5. mok \/ ~b.metaOK \/ kind = "meta"
  BY Zenon
<1>6. none \cup {kind} = {kind} /\ Stored(b, none, ov)
  OBVIOUS
<1>7. sh \in [1 .. Len(b.shards) -> ShardHdr]
  BY <1>1
<1>8. sh \in Seq(ShardHdr) /\ Len(sh) = Len(b.shards)
  BY <1>1, <1>7
<1> HIDE DEF none, rest, head, mok
<1>9. Fits(b, sh, none \cup {kind})
  BY <1>1, <1>6, <1>8 DEF Fits
<1>10. d \in RSBlob /\ Stored(d, none \cup {kind}, ov)
  BY <1>2, <1>3, <1>4, <1>5, <1>6, <1>8, <1>9, RedoneIsStored
<1> QED BY <1>6, <1>10, Zenon

\* The loss of shards does.
LEMMA WithoutIsStored ==
    ASSUME NEW b \in RSBlob, NEW ov, Stored(b, {}, ov), NEW lost
    PROVE  Without(b, lost) \in RSBlob /\ Stored(Without(b, lost), {"shard"}, ov)
<1> DEFINE sh == [k \in DOMAIN b.shards |-> [b.shards[k] EXCEPT !.ok = k \notin lost]]
<1>1. \A k \in DOMAIN b.shards : b.shards[k] \in ShardHdr
  BY StoredShards
<1>2. ASSUME NEW q \in ShardHdr, NEW v \in BOOLEAN
      PROVE  /\ [q EXCEPT !.ok = v] \in ShardHdr
             /\ [q EXCEPT !.ok = v].idx = q.idx /\ [q EXCEPT !.ok = v].of = q.of
  BY DEF ShardHdr
<1>3. ASSUME NEW k \in DOMAIN b.shards
      PROVE  sh[k] \in ShardHdr /\ sh[k].idx = b.shards[k].idx /\ sh[k].of = b.shards[k].of
  <2> DEFINE v == k \notin lost
  <2>1. v \in BOOLEAN
    BY Zenon
  <2>2. sh[k] = [b.shards[k] EXCEPT !.ok = v]
    BY Zenon
  <2> HIDE DEF v, sh
  <2> QED BY <1>1, <1>2, <2>1, <2>2
<1>4. DOMAIN sh = DOMAIN b.shards
  BY Zenon
<1>5. sh \in [DOMAIN b.shards -> ShardHdr]
  BY <1>3, <1>4, Zenon
<1>6. Without(b, lost) = [b EXCEPT !.shards = sh]
  BY Zenon DEF Without
<1> HIDE DEF sh
<1> QED BY <1>3, <1>5, <1>6, HitIsStored

\* So does a shard that claims another place.
LEMMA MisplacedIsStored ==
    ASSUME NEW b \in RSBlob, NEW ov, Stored(b, {}, ov), NEW k \in DOMAIN b.shards, NEW x \in Nat
    PROVE  Misplaced(b, k, x) \in RSBlob /\ Stored(Misplaced(b, k, x), {"index"}, ov)
<1> DEFINE q == [b.shards[k] EXCEPT !.idx = x]
           sh == [b.shards EXCEPT ![k] = q]
<1>1. /\ b.shards \in Seq(ShardHdr) /\ DOMAIN b.shards = 1 .. Len(b.shards)
      /\ \A l \in DOMAIN b.shards : b.shards[l] \in ShardHdr
  BY StoredShards
<1>2. q \in ShardHdr /\ q.of = b.shards[k].of
  BY <1>1 DEF ShardHdr
<1>3. Misplaced(b, k, x) = [b EXCEPT !.shards = sh]
  BY DEF Misplaced
<1> HIDE DEF q
<1>4. b.shards \in [DOMAIN b.shards -> ShardHdr]
  BY <1>1
<1>5. sh \in [DOMAIN b.shards -> ShardHdr] /\ \A l \in DOMAIN b.shards : sh[l].of = b.shards[l].of
  BY <1>2, <1>4
<1> HIDE DEF sh
<1> QED BY <1>3, <1>5, HitIsStored

\* Whatever of Damages it takes.
LEMMA DamagedIsStored ==
    ASSUME NEW b \in RSBlob, NEW ov, Stored(b, {}, ov), NEW h \in Damages(b)
    PROVE  /\ h = Hit(h.hit, h.blob, h.wild) /\ h.hit \in {"shard", "index"} /\ h.wild \in Int
           /\ h.blob \in RSBlob /\ Stored(h.blob, {h.hit}, ov)
<1> DEFINE losses == {k .. l : k, l \in DOMAIN b.shards}
           loss == {Hit("shard", Without(b, lost), 0) : lost \in losses}
           index == {Hit("index", Misplaced(b, k, x), w) :
                        k \in DOMAIN b.shards, x \in Stray, w \in Wild}
<1>1. Damages(b) = loss \cup index
  BY StoredHasShards DEF Damages
<1>2. h \in loss => \E lost \in losses : h = Hit("shard", Without(b, lost), 0)
  OBVIOUS
<1>3. h \in index => \E k \in DOMAIN b.shards, x \in Stray, w \in Wild :
                        h = Hit("index", Misplaced(b, k, x), w)
  OBVIOUS
<1> HIDE DEF losses, loss, index
<1>4. ASSUME NEW lost, h = Hit("shard", Without(b, lost), 0)
      PROVE  /\ h = Hit(h.hit, h.blob, h.wild) /\ h.hit \in {"shard", "index"} /\ h.wild \in Int
             /\ h.blob \in RSBlob /\ Stored(h.blob, {h.hit}, ov)
  <2>1. h.hit = "shard" /\ h.blob = Without(b, lost) /\ h.wild = 0
    BY <1>4 DEF Hit
  <2> QED BY <1>4, <2>1, WithoutIsStored
<1>5. ASSUME NEW k \in DOMAIN b.shards, NEW x \in Stray, NEW w \in Wild,
             h = Hit("index", Misplaced(b, k, x), w)
      PROVE  /\ h = Hit(h.hit, h.blob, h.wild) /\ h.hit \in {"shard", "index"} /\ h.wild \in Int
             /\ h.blob \in RSBlob /\ Stored(h.blob, {h.hit}, ov)
  <2>1. h.hit = "index" /\ h.blob = Misplaced(b, k, x) /\ h.wild = w
    BY <1>5 DEF Hit
  <2>2. x \in Nat /\ w \in Int
    BY BdevAssumption
  <2>3. Misplaced(b, k, x) \in RSBlob /\ Stored(Misplaced(b, k, x), {"index"}, ov)
    BY <2>2, MisplacedIsStored
  <2> QED BY <1>5, <2>1, <2>2, <2>3
<1> QED BY <1>1, <1>2, <1>3, <1>4, <1>5, Zenon

-----------------------------------------------------------------------------
(* Deltas. *)

\* A delta, with what it was made from, undamaged or damaged once.
Made(d) ==
    /\ d.tier \in {TierL0, TierL1, TierL2} /\ d.wild \in Int
    /\ d.base \in Image /\ d.mod \in Image /\ d.base.len = d.mod.len
    /\ d = [kind |-> "delta", blob |-> d.blob, hit |-> d.hit, wild |-> d.wild,
            tier |-> d.tier, base |-> d.base, mod |-> d.mod]
    /\ \E b \in Serialize(changed(d.base, d.mod), d.tier) :
          IF d.hit = "none" THEN d.blob = b ELSE Hit(d.hit, d.blob, d.wild) \in Damages(b)

\* The blocks that differ form an overlay within the images.
LEMMA ChangedType ==
    ASSUME NEW i \in Image, NEW j \in Image
    PROVE  /\ changed(i, j) \in Overlay
           /\ \A x \in Dirty(changed(i, j)) : InBase(x, i.len)
<1>1. changed(i, j) \in Overlay
  BY DEF changed, Image, Overlay
<1>2. ASSUME NEW x \in Dirty(changed(i, j)) PROVE InBase(x, i.len)
  BY DEF changed, Dirty, InBase, Block
<1> QED BY <1>1, <1>2

\* The two forms a blob may have, by tier.
Flat(d, ov) ==
    /\ d.tier \in {TierL0, TierL1} /\ d.blob \in Blob
    /\ \E s : Plain(d.blob, ov, d.tier, s, d.hit)
Coded(d, ov) ==
    /\ d.tier = TierL2 /\ d.blob \in RSBlob
    /\ \E faults : /\ Stored(d.blob, faults, ov) /\ "copy" \notin faults
                   /\ "index" \in faults => d.hit = "index"

\* At each tier the blob is as the lemmas above have it.
LEMMA MadeForm ==
    ASSUME NEW d, Made(d), NEW ov, ov = changed(d.base, d.mod)
    PROVE  Flat(d, ov) \/ Coded(d, ov)
<1>1. ov \in Overlay
  BY ChangedType DEF Made
<1>2. PICK b \in Serialize(ov, d.tier) :
        IF d.hit = "none" THEN d.blob = b ELSE Hit(d.hit, d.blob, d.wild) \in Damages(b)
  BY DEF Made
<1> DEFINE h == Hit(d.hit, d.blob, d.wild)
<1>3. h.hit = d.hit /\ h.blob = d.blob /\ h.wild = d.wild
  BY DEF Hit
<1>4. d.hit # "none" => h \in Damages(b)
  BY <1>2
<1> HIDE DEF h
<1>5. CASE d.tier \in {TierL0, TierL1}
  <2>1. b \in SerializeTier(ov, d.tier)
    BY <1>2, <1>5 DEF Serialize, TierL0, TierL1, TierL2
  <2>2. PICK s : Plain(b, ov, d.tier, s, "none") /\ Len(b.recs) = b.count
    BY <1>1, <1>5, <2>1, SerializedIsPlain
  <2>3. \E t : Plain(d.blob, ov, d.tier, t, d.hit)
    <3>1. CASE d.hit = "none"
      BY <1>2, <2>2, <3>1
    <3>2. CASE d.hit # "none"
      <4>1. \E t : Plain(h.blob, ov, d.tier, t, h.hit)
        BY <1>4, <2>2, <3>2, DamagedIsPlain
      <4> QED BY <1>3, <4>1
    <3> QED BY <3>1, <3>2
  <2>4. d.blob \in Blob
    BY <2>3 DEF Plain
  <2> QED BY <1>5, <2>3, <2>4 DEF Flat
<1>6. CASE d.tier = TierL2
  <2>1. b \in SerializeRS(ov, 0, 0) /\ 0 \in Int
    BY <1>2, <1>6 DEF Serialize
  <2>2. b \in RSBlob /\ Stored(b, {}, ov)
    BY <1>1, <2>1, SerializedIsStored
  <2>3. CASE d.hit = "none"
    BY <1>2, <1>6, <2>2, <2>3 DEF Coded
  <2>4. CASE d.hit # "none"
    <3>1. h.hit \in {"shard", "index"} /\ h.blob \in RSBlob /\ Stored(h.blob, {h.hit}, ov)
      BY <1>4, <2>2, <2>4, DamagedIsStored
    <3>2. Stored(d.blob, {d.hit}, ov) /\ d.blob \in RSBlob
      BY <1>3, <3>1
    <3>3. "copy" \notin {d.hit} /\ ("index" \in {d.hit} => d.hit = "index")
      BY <1>3, <3>1
    <3> QED BY <1>6, <3>2, <3>3 DEF Coded
  <2> QED BY <2>3, <2>4
<1> QED BY <1>5, <1>6 DEF Made

\* What apply gets of a delta over a base of maxBlock blocks.
Decoded(d, maxBlock, res) ==
    /\ Made(d) /\ maxBlock \in 0 .. NBlocks /\ res = Decode(d, maxBlock)

\* An overlay for that base; of a delta whose damage a CRC covers, of blocks
\* as in the modified image, and of all of them if there is no error, but for
\* the residual window.
LEMMA DecodedFacts ==
    ASSUME NEW d, NEW maxBlock, NEW res, Decoded(d, maxBlock, res),
           NEW ov, ov = changed(d.base, d.mod)
    PROVE  /\ res \in Result /\ \A x \in Dirty(res.over) : InBase(x, maxBlock)
           /\ Trusted(d) => /\ \A x \in Block : res.over[x] \in {ov[x], NoData}
                            /\ res.err = "nil" => res.over = ov \/ Residual(d)
<1>1. Made(d) /\ ov \in Overlay /\ maxBlock \in 0 .. NBlocks /\ d.wild \in Int
  BY ChangedType DEF Made, Decoded
<1>2. d.hit = "index" /\ Alike(ov) => Residual(d)
  BY DEF Residual, Alike
<1>3. CASE Flat(d, ov)
  <2>1. PICK s : Plain(d.blob, ov, d.tier, s, d.hit)
    BY <1>3 DEF Flat
  <2>2. d.blob \in Blob /\ d.tier \in {TierL0, TierL1}
    BY <1>3 DEF Flat
  <2>3. res = Deserialize(d.blob, maxBlock)
    BY <2>2, PlainHasNoShards DEF Decoded, Decode
  <2>4. Trusted(d) => Covered(d.tier, d.hit)
    BY <2>2 DEF Trusted, Covered
  <2>5. Unpacked(d.blob, ov, d.tier, s, d.hit, maxBlock, res)
    BY <1>1, <2>1, <2>2, <2>3 DEF Unpacked
  <2>6. /\ res \in Result /\ \A x \in Dirty(res.over) : InBase(x, maxBlock)
        /\ Covered(d.tier, d.hit) =>
              /\ \A x \in Block : res.over[x] \in {ov[x], NoData}
              /\ res.err = "nil" => res.over = ov \/ (d.hit = "index" /\ Alike(ov))
    BY <2>5, PlainDecoded
  <2> QED BY <1>2, <2>4, <2>6, Zenon
<1>4. CASE Coded(d, ov)
  <2>1. PICK faults : /\ Stored(d.blob, faults, ov) /\ "copy" \notin faults
                      /\ "index" \in faults => d.hit = "index"
    BY <1>4 DEF Coded
  <2>2. d.blob \in RSBlob
    BY <1>4 DEF Coded
  <2>3. res = DeserializeL2(d.blob, maxBlock, d.wild)
    BY <2>2, StoredHasShards DEF Decoded, Decode
  <2>4. Resumed(d.blob, faults, ov, maxBlock, d.wild, res)
    BY <1>1, <2>1, <2>2, <2>3 DEF Resumed
  <2>5. /\ res \in Result /\ \A x \in Dirty(res.over) : InBase(x, maxBlock)
        /\ \A x \in Block : res.over[x] \in {ov[x], NoData}
        /\ res.err = "nil" => res.over = ov \/ ("index" \in faults /\ Alike(ov))
    BY <2>1, <2>4, StoredDecoded
  <2> QED BY <1>2, <2>1, <2>5, Zenon
<1> QED BY <1>1, <1>3, <1>4, MadeForm

\* Over the base it was made from, or one of that length, its exit code is
\* what inspect says, unless an index was hit at L0.
LEMMA DecodedForetold ==
    ASSUME NEW d, NEW res, Decoded(d, d.base.len, res), applyCode(res) \in {0, 3},
           d.tier # TierL0 \/ d.hit # "index"
    PROVE  inspectCode(Examine(d)) = applyCode(res)
<1> DEFINE ov == changed(d.base, d.mod)
           info == Examine(d)
<1>1. Made(d) /\ d.base.len \in 0 .. NBlocks /\ res = Decode(d, d.base.len) /\ d.wild \in Int
  BY DEF Decoded, Made
<1>2. \A x \in Dirty(ov) : InBase(x, d.base.len)
  BY <1>1, ChangedType DEF Made
<1>3. ov \in Overlay
  BY <1>1, ChangedType DEF Made
<1>4. res.err = "nil" \/ res.err = "Partial"
  BY DEF applyCode
<1>5. Flat(d, ov) \/ Coded(d, ov)
  BY <1>1, MadeForm
<1> HIDE DEF ov
<1>6. CASE Flat(d, ov)
  <2>1. PICK s : Plain(d.blob, ov, d.tier, s, d.hit)
    BY <1>6 DEF Flat
  <2>2. d.blob \in Blob /\ d.tier \in {TierL0, TierL1}
    BY <1>6 DEF Flat
  <2>3. res = Deserialize(d.blob, d.base.len) /\ info = Inspect(d.blob)
    BY <1>1, <2>2, PlainHasNoShards DEF Decode, Examine
  <2> HIDE DEF info
  <2>4. Unpacked(d.blob, ov, d.tier, s, d.hit, d.base.len, res) /\ Inside(d.tier, d.hit)
    BY <1>1, <1>3, <2>1, <2>2, <2>3 DEF Unpacked, Inside
  <2>5. info.err = "nil" /\ (Clean(info) <=> res.err = "nil")
    BY <1>2, <1>4, <2>3, <2>4, PlainForetold
  <2> QED BY <1>4, <2>5 DEF inspectCode, applyCode, info
<1>7. CASE Coded(d, ov)
  <2>1. PICK faults : Stored(d.blob, faults, ov)
    BY <1>7 DEF Coded
  <2>2. d.blob \in RSBlob
    BY <1>7 DEF Coded
  <2>3. res = DeserializeL2(d.blob, d.base.len, d.wild) /\ info = InspectL2(d.blob, d.wild)
    BY <1>1, <2>2, StoredHasShards DEF Decode, Examine
  <2>4. Resumed(d.blob, faults, ov, d.base.len, d.wild, res)
    BY <1>1, <1>3, <2>1, <2>2, <2>3 DEF Resumed
  <2> HIDE DEF info
  <2>5. info.err = "nil" /\ (Clean(info) <=> res.err = "nil")
    BY <1>2, <1>4, <2>3, <2>4, StoredForetold
  <2> QED BY <1>4, <2>5 DEF inspectCode, applyCode, info
<1> QED BY <1>5, <1>6, <1>7

\* The image apply writes is one.
LEMMA MaterializeType ==
    ASSUME NEW i \in Image, NEW over \in Overlay, \A x \in Dirty(over) : InBase(x, i.len)
    PROVE  materialize(i, over) \in Image
<1> DEFINE blk == [b \in Block |-> IF over[b] # NoData THEN over[b] ELSE i.blk[b]]
<1>1. i.len \in 0 .. NBlocks /\ i.blk \in Overlay /\ Dirty(i.blk) = 0 .. (i.len - 1)
  BY DEF Image
<1>2. blk \in Overlay
  BY <1>1 DEF Overlay
<1>3. ASSUME NEW x \in Block PROVE blk[x] # NoData <=> x \in 0 .. (i.len - 1)
  <2>1. blk[x] = IF over[x] # NoData THEN over[x] ELSE i.blk[x]
    OBVIOUS
  <2>2. over[x] # NoData => x \in 0 .. (i.len - 1)
    <3>1. over[x] # NoData => InBase(x, i.len)
      BY DEF Dirty
    <3> QED BY <1>1, <3>1 DEF InBase, Block
  <2>3. i.blk[x] # NoData <=> x \in 0 .. (i.len - 1)
    BY <1>1 DEF Dirty
  <2> QED BY <2>1, <2>2, <2>3
<1>4. \A x \in 0 .. (i.len - 1) : x \in Block
  BY <1>1, FormatAssumption DEF Block
<1> HIDE DEF blk
<1>5. Dirty(blk) = 0 .. (i.len - 1)
  BY <1>3, <1>4 DEF Dirty
<1>6. materialize(i, over) = [len |-> i.len, blk |-> blk]
  BY DEF materialize, blk
<1> QED BY <1>1, <1>2, <1>5, <1>6 DEF Image

-----------------------------------------------------------------------------
(* The inductive invariant. *)

ImageFile == {None} \cup {Img(i) : i \in Image}

\* Each file is what its name says, and the delta came about as Made says.
Files(f) ==
    /\ f = [base |-> f.base, mod |-> f.mod, delta |-> f.delta, out |-> f.out]
    /\ f.base \in ImageFile /\ f.mod \in ImageFile /\ f.out \in ImageFile
    /\ f.delta = None \/ Made(f.delta)

\* The states of a command: it has read nothing yet, or its base, or both
\* inputs; or it has exited, with what it wrote or said and of what.
Started(r) ==
    \E c \in Commands : r = [pc |-> "first", cmd |-> c.cmd, tier |-> c.tier, out |-> c.out]
HasBase(r) ==
    \E c \in Commands, i \in Image :
       /\ c.cmd # "inspect"
       /\ r = [pc |-> "second", cmd |-> c.cmd, tier |-> c.tier, out |-> c.out, base |-> i]
Diffing(r) ==
    \E c \in Commands, i, j \in Image :
       /\ c.cmd = "diff" /\ i.len = j.len
       /\ r = [pc |-> "write", cmd |-> c.cmd, tier |-> c.tier, out |-> c.out, base |-> i,
               other |-> Img(j)]
Applying(r) ==
    /\ Made(r.other)
    /\ \E c \in Commands, i \in Image :
          /\ c.cmd = "apply"
          /\ r = [pc |-> "write", cmd |-> c.cmd, tier |-> c.tier, out |-> c.out, base |-> i,
                  other |-> r.other]
Written(r) ==
    /\ r.base \in Image /\ Made(r.delta)
    /\ LET res == Decode(r.delta, r.base.len)
       IN  /\ applyCode(res) \in {0, 3}
           /\ r = [pc |-> "exit", code |-> applyCode(res), base |-> r.base, delta |-> r.delta,
                   img |-> materialize(r.base, res.over)]
Inspected(r) ==
    /\ Made(r.saw)
    /\ r = [pc |-> "exit", code |-> inspectCode(Examine(r.saw)), saw |-> r.saw]

Running(r) ==
    \/ r = Idle \/ r = Failed \/ r = [pc |-> "exit", code |-> 0]
    \/ Started(r) \/ HasBase(r) \/ Diffing(r) \/ Applying(r) \/ Written(r) \/ Inspected(r)

BInv == Files(file) /\ DOMAIN run = Proc /\ \A p \in Proc : Running(run[p])

\* The fields of a command line.
LEMMA CommandFields ==
    ASSUME NEW c \in Commands
    PROVE  /\ c.cmd \in {"diff", "apply", "inspect"} /\ c.tier \in {TierL0, TierL1, TierL2}
           /\ c.cmd = "apply" => c.out \in {"out", "base"}
BY DEF Commands

\* The exit codes are those documented.
LEMMA Codes ==
    ASSUME NEW info, NEW res
    PROVE  inspectCode(info) \in {0, 1, 3} /\ applyCode(res) \in {0, 1, 3}
BY DEF inspectCode, applyCode

\* Which state it is the program counter and the fields tell.
LEMMA StateOf ==
    ASSUME NEW r, Running(r)
    PROVE  /\ r.pc = "first" => Started(r)
           /\ r.pc = "second" => HasBase(r)
           /\ r.pc = "write" /\ r.cmd = "diff" => Diffing(r)
           /\ r.pc = "write" /\ r.cmd = "apply" => Applying(r)
           /\ r.pc = "exit" /\ "img" \in DOMAIN r => Written(r)
           /\ r.pc = "exit" /\ "saw" \in DOMAIN r => Inspected(r)
           /\ r.pc = "exit" => r.code \in {0, 1, 3}
<1>1. CASE r = Idle \/ r = Failed \/ r = [pc |-> "exit", code |-> 0]
  BY <1>1 DEF Idle, Failed
<1>2. ASSUME Started(r) PROVE r.pc = "first"
  BY <1>2 DEF Started
<1>3. ASSUME HasBase(r) PROVE r.pc = "second"
  BY <1>3 DEF HasBase
<1>4. ASSUME Diffing(r) PROVE r.pc = "write" /\ r.cmd = "diff"
  BY <1>4 DEF Diffing
<1>5. ASSUME Applying(r) PROVE r.pc = "write" /\ r.cmd = "apply"
  BY <1>5 DEF Applying
<1>6. ASSUME Written(r) PROVE r.pc = "exit" /\ "saw" \notin DOMAIN r /\ r.code \in {0, 3}
  <2> DEFINE res == Decode(r.delta, r.base.len)
             code == applyCode(res)
             img == materialize(r.base, res.over)
  <2>1. /\ code \in {0, 3}
        /\ r = [pc |-> "exit", code |-> code, base |-> r.base, delta |-> r.delta, img |-> img]
    BY <1>6 DEF Written
  <2> HIDE DEF code, img
  <2> QED BY <2>1
<1>7. ASSUME Inspected(r) PROVE r.pc = "exit" /\ "img" \notin DOMAIN r /\ r.code \in {0, 1, 3}
  <2> DEFINE code == inspectCode(Examine(r.saw))
  <2>1. code \in {0, 1, 3} /\ r = [pc |-> "exit", code |-> code, saw |-> r.saw]
    BY <1>7, Codes DEF Inspected
  <2> HIDE DEF code
  <2> QED BY <2>1
<1> QED BY <1>1, <1>2, <1>3, <1>4, <1>5, <1>6, <1>7 DEF Running

\* Another image or another delta in place.
LEMMA FilesKept ==
    ASSUME NEW f, Files(f)
    PROVE  /\ \A x \in ImageFile, k \in {"base", "mod", "out"} : Files([f EXCEPT ![k] = x])
           /\ \A d : Made(d) => Files([f EXCEPT !.delta = d])
<1>1. /\ f = [base |-> f.base, mod |-> f.mod, delta |-> f.delta, out |-> f.out]
      /\ f.base \in ImageFile /\ f.mod \in ImageFile /\ f.out \in ImageFile
      /\ f.delta = None \/ Made(f.delta)
  BY DEF Files
<1>2. ASSUME NEW x \in ImageFile PROVE Files([f EXCEPT !["base"] = x])
  <2> DEFINE g == [f EXCEPT !["base"] = x]
  <2>1. g = [f EXCEPT !["base"] = x]
    OBVIOUS
  <2> HIDE DEF g
  <2>2. g = [base |-> x, mod |-> f.mod, delta |-> f.delta, out |-> f.out]
    BY <1>1, <2>1
  <2>3. Files(g)
    BY <1>1, <2>2 DEF Files
  <2> QED BY <2>1, <2>3
<1>3. ASSUME NEW x \in ImageFile PROVE Files([f EXCEPT !["mod"] = x])
  <2> DEFINE g == [f EXCEPT !["mod"] = x]
  <2>1. g = [f EXCEPT !["mod"] = x]
    OBVIOUS
  <2> HIDE DEF g
  <2>2. g = [base |-> f.base, mod |-> x, delta |-> f.delta, out |-> f.out]
    BY <1>1, <2>1
  <2>3. Files(g)
    BY <1>1, <2>2 DEF Files
  <2> QED BY <2>1, <2>3
<1>4. ASSUME NEW x \in ImageFile PROVE Files([f EXCEPT !["out"] = x])
  <2> DEFINE g == [f EXCEPT !["out"] = x]
  <2>1. g = [f EXCEPT !["out"] = x]
    OBVIOUS
  <2> HIDE DEF g
  <2>2. g = [base |-> f.base, mod |-> f.mod, delta |-> f.delta, out |-> x]
    BY <1>1, <2>1
  <2>3. Files(g)
    BY <1>1, <2>2 DEF Files
  <2> QED BY <2>1, <2>3
<1>5. ASSUME NEW d, Made(d) PROVE Files([f EXCEPT !.delta = d])
  <2>1. [f EXCEPT !.delta = d] = [base |-> f.base, mod |-> f.mod, delta |-> d, out |-> f.out]
    BY <1>1
  <2> QED BY <1>1, <1>5, <2>1 DEF Files
<1> QED BY <1>2, <1>3, <1>4, <1>5

\* An image in a file.
LEMMA ImageRead ==
    ASSUME NEW f \in ImageFile, loadImage(f)
    PROVE  f.img \in Image /\ f = Img(f.img)
BY DEF ImageFile, loadImage, None, Img

\* A step of one command that leaves the files and itself in order.
LEMMA StepKeeps ==
    ASSUME BInv, NEW p \in Proc, NEW r, Running(r), Becomes(p, r), Files(file')
    PROVE  BInv'
<1>1. /\ DOMAIN run = Proc /\ run' = [run EXCEPT ![p] = r]
      /\ \A q \in Proc : Running(run[q])
  BY DEF BInv, Becomes
<1>2. DOMAIN run' = Proc
  BY <1>1
<1>3. ASSUME NEW q \in Proc PROVE Running(run'[q])
  <2>1. run'[q] = IF q = p THEN r ELSE run[q]
    BY <1>1
  <2> QED BY <1>1, <2>1
<1> QED BY <1>2, <1>3 DEF BInv

\* It holds at first.
LEMMA InitBInv == Init => BInv
<1> SUFFICES ASSUME Init PROVE BInv
  OBVIOUS
<1>1. PICK b \in Images.base, m \in Images.mod :
        file = [base |-> Img(b), mod |-> Img(m), delta |-> None, out |-> None]
  BY DEF Init
<1>2. b \in Image /\ m \in Image
  BY BdevAssumption
<1>3. Files(file)
  <2>1. None \in ImageFile /\ Img(b) \in ImageFile /\ Img(m) \in ImageFile
    BY <1>2 DEF ImageFile
  <2> QED BY <1>1, <2>1 DEF Files
<1>4. DOMAIN run = Proc /\ \A p \in Proc : run[p] = Idle
  BY DEF Init
<1> QED BY <1>3, <1>4 DEF BInv, Running

\* A delta that diff has just made.
LEMMA FreshMade ==
    ASSUME NEW tier \in {TierL0, TierL1, TierL2}, NEW i \in Image, NEW j \in Image,
           i.len = j.len, NEW blob \in Serialize(changed(i, j), tier)
    PROVE  Made(Delta(Intact(blob), tier, i, j))
<1> DEFINE d == Delta(Intact(blob), tier, i, j)
<1>1. /\ d.blob = blob /\ d.tier = tier /\ d.base = i /\ d.mod = j /\ d.hit = "none"
      /\ d.wild = 0
      /\ d = [kind |-> "delta", blob |-> d.blob, hit |-> d.hit, wild |-> d.wild,
              tier |-> d.tier, base |-> d.base, mod |-> d.mod]
  BY DEF Delta, Intact, Hit
<1> HIDE DEF d
<1>2. Made(d)
  BY <1>1 DEF Made
<1> QED BY <1>2 DEF d

\* A hit names what it does to the blob.
LEMMA DamageKinds ==
    ASSUME NEW d, Made(d), d.hit = "none", NEW h \in Damages(d.blob)
    PROVE  h = Hit(h.hit, h.blob, h.wild) /\ h.hit # "none" /\ h.wild \in Int
<1> DEFINE ov == changed(d.base, d.mod)
<1>1. CASE d.blob \in Blob
  <2>1. \E hit, blob : h = Hit(hit, blob, 0) /\ hit # "none"
    BY <1>1, PlainDamages
  <2> QED BY <2>1 DEF Hit
<1>2. CASE d.tier = TierL2
  <2>1. ov \in Overlay /\ d.blob \in SerializeRS(ov, 0, 0) /\ 0 \in Int
    BY <1>2, ChangedType DEF Made, Serialize
  <2> HIDE DEF ov
  <2>2. d.blob \in RSBlob /\ Stored(d.blob, {}, ov)
    BY <2>1, SerializedIsStored
  <2>3. h = Hit(h.hit, h.blob, h.wild) /\ h.hit \in {"shard", "index"} /\ h.wild \in Int
    BY <2>2, DamagedIsStored
  <2> QED BY <2>3
<1>3. d.blob \in Blob \/ d.tier = TierL2
  BY MadeForm DEF Flat, Coded
<1> QED BY <1>1, <1>2, <1>3

\* And one that is then damaged.
LEMMA DamagedMade ==
    ASSUME NEW d, Made(d), d.hit = "none", NEW h \in Damages(d.blob)
    PROVE  Made(Delta(h, d.tier, d.base, d.mod))
<1> DEFINE e == Delta(h, d.tier, d.base, d.mod)
<1>1. /\ e.blob = h.blob /\ e.tier = d.tier /\ e.base = d.base /\ e.mod = d.mod
      /\ e.hit = h.hit /\ e.wild = h.wild
      /\ e = [kind |-> "delta", blob |-> e.blob, hit |-> e.hit, wild |-> e.wild,
              tier |-> e.tier, base |-> e.base, mod |-> e.mod]
  BY DEF Delta
<1>2. h = Hit(h.hit, h.blob, h.wild) /\ h.hit # "none" /\ h.wild \in Int
  BY DamageKinds
<1>3. d.blob \in Serialize(changed(d.base, d.mod), d.tier)
  BY DEF Made
<1> HIDE DEF e
<1>4. Hit(e.hit, e.blob, e.wild) \in Damages(d.blob) /\ e.hit # "none" /\ e.wild \in Int
  BY <1>1, <1>2
<1>5. Made(e)
  BY <1>1, <1>3, <1>4 DEF Made
<1> QED BY <1>5 DEF e

\* Every action of a command keeps the invariant.
LEMMA BeginKeeps ==
    ASSUME BInv, NEW p \in Proc, NEW c \in Commands, Begin(p, c)
    PROVE  BInv'
<1> DEFINE r == [pc |-> "first", cmd |-> c.cmd, tier |-> c.tier, out |-> c.out]
<1>1. Running(r)
  BY DEF Running, Started
<1>2. Becomes(p, r) /\ Files(file')
  BY DEF Begin, BInv
<1> HIDE DEF r
<1> QED BY <1>1, <1>2, StepKeeps

LEMMA ReadFirstKeeps ==
    ASSUME BInv, NEW p \in Proc, ReadFirst(p)
    PROVE  BInv'
<1>1. Files(file) /\ Running(run[p]) /\ run[p].pc = "first" /\ run[p].cmd # "inspect"
      /\ Files(file') /\ file.base \in ImageFile
  BY DEF BInv, ReadFirst, Files
<1>2. PICK c \in Commands :
        run[p] = [pc |-> "first", cmd |-> c.cmd, tier |-> c.tier, out |-> c.out]
  BY <1>1, StateOf DEF Started
<1> DEFINE r == [pc |-> "second", cmd |-> c.cmd, tier |-> c.tier, out |-> c.out,
                 base |-> file.base.img]
<1>3. Becomes(p, IF loadImage(file.base) THEN r ELSE Failed)
  BY <1>2 DEF ReadFirst
<1>4. CASE loadImage(file.base)
  <2>1. Running(r)
    BY <1>1, <1>2, <1>4, ImageRead DEF Running, HasBase
  <2> HIDE DEF r
  <2> QED BY <1>1, <1>3, <1>4, <2>1, StepKeeps
<1>5. CASE ~loadImage(file.base)
  <2>1. Running(Failed)
    BY DEF Running
  <2>2. Becomes(p, Failed)
    BY <1>3, <1>5
  <2> QED BY <1>1, <2>1, <2>2, StepKeeps
<1> QED BY <1>4, <1>5

LEMMA ReadSecondKeeps ==
    ASSUME BInv, NEW p \in Proc, ReadSecond(p)
    PROVE  BInv'
<1>1. Files(file) /\ Running(run[p]) /\ run[p].pc = "second" /\ Files(file')
      /\ file.mod \in ImageFile /\ (file.delta = None \/ Made(file.delta))
  BY DEF BInv, ReadSecond, Files
<1>2. PICK c \in Commands, i \in Image :
        /\ c.cmd # "inspect"
        /\ run[p] = [pc |-> "second", cmd |-> c.cmd, tier |-> c.tier, out |-> c.out, base |-> i]
  BY <1>1, StateOf DEF HasBase
<1>3. run[p].cmd = c.cmd /\ run[p].tier = c.tier /\ run[p].out = c.out /\ run[p].base = i
  BY <1>2
<1> DEFINE f == IF c.cmd = "diff" THEN file.mod ELSE file.delta
           ok == IF c.cmd = "diff" THEN loadImage(f) /\ f.img.len = i.len ELSE loadBlob(f)
           r == [pc |-> "write", cmd |-> c.cmd, tier |-> c.tier, out |-> c.out,
                 base |-> i, other |-> f]
<1>4. Becomes(p, IF ok THEN r ELSE Failed)
  BY <1>3 DEF ReadSecond
<1>5. CASE ~ok
  <2>1. Running(Failed)
    BY DEF Running
  <2>2. Becomes(p, Failed)
    BY <1>4, <1>5
  <2> QED BY <1>1, <2>1, <2>2, StepKeeps
<1>6. CASE ok /\ c.cmd = "diff"
  <2>1. f \in ImageFile /\ loadImage(f) /\ f.img.len = i.len
    BY <1>1, <1>6
  <2> HIDE DEF f
  <2>2. f.img \in Image /\ f = Img(f.img)
    BY <2>1, ImageRead
  <2>3. Diffing(r)
    BY <1>6, <2>1, <2>2 DEF Diffing
  <2>4. Running(r)
    BY <2>3 DEF Running
  <2>5. Becomes(p, r)
    BY <1>4, <1>6
  <2> HIDE DEF r
  <2> QED BY <1>1, <2>4, <2>5, StepKeeps
<1>7. CASE ok /\ c.cmd = "apply"
  <2>1. Made(f)
    BY <1>1, <1>7 DEF loadBlob, None
  <2> HIDE DEF f
  <2>2. r.other = f
    OBVIOUS
  <2>3. Applying(r)
    BY <1>7, <2>1, <2>2 DEF Applying
  <2>4. Running(r)
    BY <2>3 DEF Running
  <2>5. Becomes(p, r)
    BY <1>4, <1>7
  <2> HIDE DEF r
  <2> QED BY <1>1, <2>4, <2>5, StepKeeps
<1> QED BY <1>2, <1>5, <1>6, <1>7, CommandFields

LEMMA WriteDeltaKeeps ==
    ASSUME BInv, NEW p \in Proc, WriteDelta(p)
    PROVE  BInv'
<1>1. Files(file) /\ Running(run[p]) /\ run[p].pc = "write" /\ run[p].cmd = "diff"
  BY DEF BInv, WriteDelta
<1>2. PICK c \in Commands, i \in Image, j \in Image :
        /\ i.len = j.len
        /\ run[p] = [pc |-> "write", cmd |-> c.cmd, tier |-> c.tier, out |-> c.out, base |-> i,
                     other |-> Img(j)]
  <2>1. Diffing(run[p])
    BY <1>1, StateOf
  <2> QED BY <2>1, Zenon DEF Diffing
<1>3. run[p].tier = c.tier /\ run[p].base = i /\ run[p].other.img = j
  BY <1>2 DEF Img
<1> DEFINE new == {Delta(Intact(blob), c.tier, i, j) : blob \in Serialize(changed(i, j), c.tier)}
           r == [pc |-> "exit", code |-> 0]
<1>4. \/ /\ \E d \in new : file' = [file EXCEPT !.delta = d]
         /\ Becomes(p, r)
      \/ UNCHANGED file /\ Becomes(p, Failed)
  BY <1>3 DEF WriteDelta
<1>5. ASSUME NEW d \in new PROVE Made(d)
  BY <1>2, <1>5, CommandFields, FreshMade
<1>6. Running(Failed) /\ Running(r)
  BY DEF Running
<1> HIDE DEF new, r
<1>7. CASE UNCHANGED file /\ Becomes(p, Failed)
  <2>1. Files(file')
    BY <1>1, <1>7
  <2> QED BY <1>6, <1>7, <2>1, StepKeeps
<1>8. ASSUME NEW d \in new, file' = [file EXCEPT !.delta = d], Becomes(p, r)
      PROVE  BInv'
  <2>1. \A f : Files(f) => Files([f EXCEPT !.delta = d])
    BY <1>5, FilesKept
  <2>2. Files(file')
    BY <1>1, <1>8, <2>1
  <2> QED BY <1>6, <1>8, <2>2, StepKeeps
<1> QED BY <1>4, <1>7, <1>8

LEMMA WriteImageKeeps ==
    ASSUME BInv, NEW p \in Proc, WriteImage(p)
    PROVE  BInv'
<1>1. Files(file) /\ Running(run[p]) /\ run[p].pc = "write" /\ run[p].cmd = "apply"
  BY DEF BInv, WriteImage
<1>2. PICK c \in Commands, i \in Image :
        /\ c.cmd = "apply" /\ Made(run[p].other)
        /\ run[p] = [pc |-> "write", cmd |-> c.cmd, tier |-> c.tier, out |-> c.out, base |-> i,
                     other |-> run[p].other]
  <2>1. Applying(run[p])
    BY <1>1, StateOf
  <2> QED BY <2>1, Zenon DEF Applying
<1> DEFINE d == run[p].other
           res == Decode(d, i.len)
           img == materialize(i, res.over)
           code == applyCode(res)
           r == [pc |-> "exit", code |-> code, base |-> i, delta |-> d, img |-> img]
<1>3. run[p].base = i /\ run[p].out = c.out /\ c.out \in {"out", "base"} /\ Made(d)
  BY <1>2, CommandFields
<1>4. \/ /\ code \in {0, 3} /\ file' = [file EXCEPT ![c.out] = Img(img)] /\ Becomes(p, r)
      \/ UNCHANGED file /\ Becomes(p, Failed)
  BY <1>3 DEF WriteImage
<1>5. i.len \in 0 .. NBlocks
  BY DEF Image
<1>6. img \in Image
  <2>1. Decoded(d, i.len, res)
    BY <1>3, <1>5 DEF Decoded
  <2> HIDE DEF res, d
  <2>2. res \in Result /\ \A x \in Dirty(res.over) : InBase(x, i.len)
    BY <2>1, DecodedFacts
  <2>3. res.over \in Overlay
    BY <2>2 DEF Result
  <2> QED BY <2>2, <2>3, MaterializeType
<1>7. CASE UNCHANGED file /\ Becomes(p, Failed)
  <2>1. Files(file') /\ Running(Failed)
    BY <1>1, <1>7 DEF Running
  <2> QED BY <1>7, <2>1, StepKeeps
<1>8. CASE code \in {0, 3} /\ file' = [file EXCEPT ![c.out] = Img(img)] /\ Becomes(p, r)
  <2> HIDE DEF d, r, img, code, res
  <2>1. r.base = i /\ r.delta = d /\ r = [pc |-> "exit", code |-> code, base |-> r.base,
                                          delta |-> r.delta, img |-> img]
    BY DEF r
  <2>2. Written(r)
    BY <1>3, <1>8, <2>1 DEF Written, code, img, res
  <2>3. Running(r)
    BY <2>2 DEF Running
  <2>4. Img(img) \in ImageFile
    BY <1>6 DEF ImageFile
  <2>5. \A f, x, k : Files(f) /\ x \in ImageFile /\ k \in {"base", "mod", "out"}
                        => Files([f EXCEPT ![k] = x])
    BY FilesKept
  <2>6. Files(file')
    BY <1>1, <1>3, <1>8, <2>4, <2>5
  <2> QED BY <1>8, <2>3, <2>6, StepKeeps
<1> QED BY <1>4, <1>7, <1>8

LEMMA InspectDeltaKeeps ==
    ASSUME BInv, NEW p \in Proc, InspectDelta(p)
    PROVE  BInv'
<1>1. Files(file) /\ Files(file') /\ (file.delta = None \/ Made(file.delta))
  BY DEF BInv, InspectDelta, Files
<1> DEFINE r == [pc |-> "exit", code |-> inspectCode(Examine(file.delta)),
                 saw |-> file.delta]
<1>2. Becomes(p, IF ~loadBlob(file.delta) THEN Failed ELSE r)
  BY DEF InspectDelta
<1>3. CASE ~loadBlob(file.delta)
  <2>1. Running(Failed) /\ Becomes(p, Failed)
    BY <1>2, <1>3 DEF Running
  <2> QED BY <1>1, <2>1, StepKeeps
<1>4. CASE loadBlob(file.delta)
  <2>1. Made(file.delta)
    BY <1>1, <1>4 DEF loadBlob, None
  <2>2. r.saw = file.delta
    OBVIOUS
  <2>3. Running(r)
    BY <2>1, <2>2 DEF Running, Inspected
  <2>4. Becomes(p, r)
    BY <1>2, <1>4
  <2> HIDE DEF r
  <2> QED BY <1>1, <2>3, <2>4, StepKeeps
<1> QED BY <1>3, <1>4

LEMMA KillKeeps ==
    ASSUME BInv, NEW p \in Proc, Kill(p)
    PROVE  BInv'
<1>1. Running(Idle) /\ Becomes(p, Idle) /\ Files(file')
  BY DEF Running, Kill, BInv
<1> QED BY <1>1, StepKeeps

\* So does every change of the files from outside.
LEMMA EditKeeps ==
    ASSUME BInv, NEW f \in {"base", "mod"}, NEW c \in ImageFile, Edit(f, c)
    PROVE  BInv'
<1>1. Files(file) /\ file' = [file EXCEPT ![f] = c] /\ run' = run
  BY DEF BInv, Edit
<1>2. \A g : Files(g) => Files([g EXCEPT ![f] = c])
  BY FilesKept
<1>3. Files(file')
  BY <1>1, <1>2
<1> QED BY <1>1, <1>3 DEF BInv

LEMMA DamageDeltaKeeps ==
    ASSUME BInv, DamageDelta
    PROVE  BInv'
<1> DEFINE d == file.delta
<1>1. PICK h \in Damages(d.blob) :
        file' = [file EXCEPT !.delta = Delta(h, d.tier, d.base, d.mod)]
  BY DEF DamageDelta
<1>2. run' = run /\ Files(file) /\ d.kind = "delta" /\ d.hit = "none"
  BY DEF DamageDelta, BInv
<1>3. Made(d)
  BY <1>2 DEF Files, None
<1>4. Made(Delta(h, d.tier, d.base, d.mod))
  <2> HIDE DEF d
  <2> QED BY <1>2, <1>3, DamagedMade
<1>5. \A f, e : Files(f) /\ Made(e) => Files([f EXCEPT !.delta = e])
  BY FilesKept
<1>6. Files(file')
  BY <1>1, <1>2, <1>4, <1>5
<1> QED BY <1>2, <1>6 DEF BInv

LEMMA RestoreDeltaKeeps ==
    ASSUME BInv, RestoreDelta
    PROVE  BInv'
<1> DEFINE d == file.delta
<1>1. PICK b \in Serialize(changed(d.base, d.mod), d.tier) :
        file' = [file EXCEPT !.delta = Delta(Intact(b), d.tier, d.base, d.mod)]
  BY DEF RestoreDelta
<1>2. run' = run /\ Files(file) /\ d.kind = "delta"
  BY DEF RestoreDelta, BInv
<1>3. Made(d)
  BY <1>2 DEF Files, None
<1>4. Made(Delta(Intact(b), d.tier, d.base, d.mod))
  <2>1. /\ d.tier \in {TierL0, TierL1, TierL2}
        /\ d.base \in Image /\ d.mod \in Image /\ d.base.len = d.mod.len
    BY <1>3 DEF Made
  <2> HIDE DEF d
  <2> QED BY <2>1, FreshMade
<1>5. \A f, e : Files(f) /\ Made(e) => Files([f EXCEPT !.delta = e])
  BY FilesKept
<1>6. Files(file')
  BY <1>1, <1>2, <1>4, <1>5
<1> QED BY <1>2, <1>6 DEF BInv

LEMMA NextBInv == BInv /\ [Next]_vars => BInv'
<1> SUFFICES ASSUME BInv, [Next]_vars PROVE BInv'
  OBVIOUS
<1>1. CASE UNCHANGED vars
  BY <1>1 DEF vars, BInv
<1>2. ASSUME NEW p \in Proc, NEW c \in Commands, Begin(p, c) PROVE BInv'
  BY <1>2, BeginKeeps
<1>3. ASSUME NEW p \in Proc, Step(p) PROVE BInv'
  BY <1>3, ReadFirstKeeps, ReadSecondKeeps, WriteDeltaKeeps, WriteImageKeeps,
     InspectDeltaKeeps, Zenon DEF Step
<1>4. ASSUME NEW p \in Proc, Kill(p) PROVE BInv'
  BY <1>4, KillKeeps
<1>5. ASSUME NEW f \in {"base", "mod"},
             Edit(f, None) \/ \E i \in Images[f] : Edit(f, Img(i))
      PROVE  BInv'
  <2>1. Images[f] \subseteq Image
    <3>1. CASE f = "base"
      BY <3>1, BdevAssumption
    <3>2. CASE f = "mod"
      BY <3>2, BdevAssumption
    <3> QED BY <3>1, <3>2
  <2>2. None \in ImageFile /\ \A i \in Images[f] : Img(i) \in ImageFile
    BY <2>1 DEF ImageFile
  <2> QED BY <1>5, <2>2, EditKeeps
<1> QED BY <1>1, <1>2, <1>3, <1>4, <1>5, DamageDeltaKeeps, RestoreDeltaKeeps DEF Next

LEMMA SpecBInv == Spec => []BInv
BY InitBInv, NextBInv, PTL DEF Spec

-----------------------------------------------------------------------------
(* What the invariant implies. *)

LEMMA TypeFollows == BInv => TypeOK
<1> SUFFICES ASSUME BInv PROVE TypeOK
  OBVIOUS
<1>1. Files(file) /\ \A p \in Proc : Running(run[p])
  BY DEF BInv
<1>2. file.base \in ImageFile /\ file.mod \in ImageFile /\ file.out \in ImageFile
  BY <1>1 DEF Files
<1>3. ASSUME NEW f \in {"base", "mod", "out"} PROVE file[f] \in ImageFile
  BY <1>2
<1>4. file.delta.kind \in {"none", "delta"}
  BY <1>1 DEF Files, None, Made
<1>5. ASSUME NEW p \in Proc, run[p].pc = "exit" PROVE run[p].code \in {0, 1, 3}
  BY <1>1, <1>5, StateOf
<1> QED BY <1>3, <1>4, <1>5 DEF TypeOK, ImageFile

\* What an apply that wrote its output has decoded.
LEMMA WrittenFacts ==
    ASSUME NEW r, Written(r), NEW res, res = Decode(r.delta, r.base.len)
    PROVE  /\ Decoded(r.delta, r.base.len, res) /\ Made(r.delta) /\ r.base \in Image
           /\ r.code = applyCode(res) /\ applyCode(res) \in {0, 3}
           /\ r.img = materialize(r.base, res.over)
<1>1. /\ r.base \in Image /\ Made(r.delta) /\ applyCode(res) \in {0, 3}
      /\ r = [pc |-> "exit", code |-> applyCode(res), base |-> r.base, delta |-> r.delta,
              img |-> materialize(r.base, res.over)]
  BY DEF Written
<1>2. r.base.len \in 0 .. NBlocks
  BY <1>1 DEF Image
<1> DEFINE code == applyCode(res)
           img == materialize(r.base, res.over)
<1>3. r = [pc |-> "exit", code |-> code, base |-> r.base, delta |-> r.delta, img |-> img]
  BY <1>1
<1> HIDE DEF code, img
<1>4. r.code = code /\ r.img = img
  BY <1>3
<1> QED BY <1>1, <1>2, <1>4 DEF Decoded, code, img

\* A base that has the base's or the modified image's content in each block
\* becomes the modified image under the blocks that differ.
LEMMA MaterializedIsMod ==
    ASSUME NEW i \in Image, NEW d, Made(d), Related(i, d)
    PROVE  materialize(i, changed(d.base, d.mod)) = d.mod
<1> DEFINE ov == changed(d.base, d.mod)
           blk == [x \in Block |-> IF ov[x] # NoData THEN ov[x] ELSE i.blk[x]]
<1>1. /\ d.base \in Image /\ d.mod \in Image /\ d.base.len = d.mod.len /\ i.len = d.base.len
      /\ \A x \in 0 .. (i.len - 1) : i.blk[x] \in {d.base.blk[x], d.mod.blk[x]}
  BY DEF Made, Related
<1>2. /\ d.mod = [len |-> d.mod.len, blk |-> d.mod.blk] /\ d.mod.blk \in Overlay
      /\ i.len \in 0 .. NBlocks
      /\ Dirty(d.mod.blk) = 0 .. (i.len - 1) /\ Dirty(i.blk) = 0 .. (i.len - 1)
  BY <1>1 DEF Image
<1>3. ASSUME NEW x \in Block PROVE blk[x] = d.mod.blk[x]
  <2>1. blk[x] = IF ov[x] # NoData THEN ov[x] ELSE i.blk[x]
    OBVIOUS
  <2>2. ov[x] = IF x < i.len /\ d.base.blk[x] # d.mod.blk[x] THEN d.mod.blk[x] ELSE NoData
    BY <1>1 DEF changed
  <2>3. x \in 0 .. (i.len - 1) <=> x < i.len
    BY <1>2 DEF Block
  <2> HIDE DEF ov, blk
  <2>4. CASE x < i.len
    <3>1. d.mod.blk[x] # NoData /\ i.blk[x] \in {d.base.blk[x], d.mod.blk[x]}
      BY <1>1, <1>2, <2>3, <2>4 DEF Dirty
    <3> QED BY <2>1, <2>2, <2>4, <3>1
  <2>5. CASE ~(x < i.len)
    <3>1. d.mod.blk[x] = NoData /\ i.blk[x] = NoData
      BY <1>2, <2>3, <2>5 DEF Dirty
    <3> QED BY <2>1, <2>2, <2>5, <3>1
  <2> QED BY <2>4, <2>5
<1>4. blk = d.mod.blk
  <2>1. blk \in [Block -> Content \cup {NoData}]
    BY <1>2, <1>3 DEF Overlay
  <2>2. d.mod.blk \in [Block -> Content \cup {NoData}]
    BY <1>2 DEF Overlay
  <2> HIDE DEF blk
  <2> QED BY <1>3, <2>1, <2>2
<1>5. materialize(i, ov) = [len |-> i.len, blk |-> blk]
  BY DEF materialize
<1> HIDE DEF blk, ov
<1>6. materialize(i, ov) = d.mod
  BY <1>1, <1>2, <1>4, <1>5
<1> QED BY <1>6 DEF ov

LEMMA RoundTripFollows == BInv => RoundTrip
<1> SUFFICES ASSUME BInv, NEW p \in Proc, Applied(p, {0}),
                    Related(run[p].base, run[p].delta), Trusted(run[p].delta)
             PROVE  run[p].img = run[p].delta.mod \/ Residual(run[p].delta)
  BY DEF RoundTrip
<1>1. Written(run[p]) /\ run[p].code = 0
  BY StateOf DEF BInv, Applied
<1>2. ASSUME NEW r, Written(r), r.code = 0, Related(r.base, r.delta), Trusted(r.delta)
      PROVE  r.img = r.delta.mod \/ Residual(r.delta)
  <2> DEFINE res == Decode(r.delta, r.base.len)
             ov == changed(r.delta.base, r.delta.mod)
  <2>1. /\ Decoded(r.delta, r.base.len, res) /\ Made(r.delta) /\ r.base \in Image
        /\ r.code = applyCode(res) /\ r.img = materialize(r.base, res.over)
    BY <1>2, WrittenFacts
  <2> HIDE DEF res
  <2>2. res.err = "nil"
    BY <1>2, <2>1 DEF applyCode
  <2>3. res.over = ov \/ Residual(r.delta)
    BY <1>2, <2>1, <2>2, DecodedFacts
  <2>4. materialize(r.base, ov) = r.delta.mod
    BY <1>2, <2>1, MaterializedIsMod
  <2> QED BY <2>1, <2>3, <2>4
<1> QED BY <1>1, <1>2

LEMMA PartialFollows == BInv => PartialIsMix
<1> SUFFICES ASSUME BInv, NEW p \in Proc, Applied(p, {0, 3}), Trusted(run[p].delta)
             PROVE  /\ run[p].img.len = run[p].base.len
                    /\ \A b \in 0 .. (run[p].img.len - 1) :
                          run[p].img.blk[b] \in {run[p].delta.mod.blk[b], run[p].base.blk[b]}
  BY DEF PartialIsMix
<1>1. Written(run[p])
  BY StateOf DEF BInv, Applied
<1>2. ASSUME NEW r, Written(r), Trusted(r.delta)
      PROVE  /\ r.img.len = r.base.len
             /\ \A b \in 0 .. (r.img.len - 1) : r.img.blk[b] \in {r.delta.mod.blk[b], r.base.blk[b]}
  <2> DEFINE res == Decode(r.delta, r.base.len)
             ov == changed(r.delta.base, r.delta.mod)
  <2>1. /\ Decoded(r.delta, r.base.len, res) /\ r.base \in Image
        /\ r.img = materialize(r.base, res.over)
    BY <1>2, WrittenFacts
  <2> HIDE DEF res
  <2>2. \A b \in Block : res.over[b] \in {ov[b], NoData}
    BY <1>2, <2>1, DecodedFacts
  <2>3. /\ r.img.len = r.base.len
        /\ \A b \in Block :
              r.img.blk[b] = IF res.over[b] # NoData THEN res.over[b] ELSE r.base.blk[b]
    BY <2>1 DEF materialize
  <2>4. ASSUME NEW b \in 0 .. (r.img.len - 1)
        PROVE  r.img.blk[b] \in {r.delta.mod.blk[b], r.base.blk[b]}
    <3>1. b \in Block
      BY <2>1, <2>3, FormatAssumption DEF Image, Block
    <3>2. ov[b] \in {r.delta.mod.blk[b], NoData}
      BY <3>1 DEF changed
    <3> QED BY <2>2, <2>3, <3>1, <3>2
  <2> QED BY <2>3, <2>4
<1> QED BY <1>1, <1>2

LEMMA InspectFollowsApply == BInv => InspectForetells
<1> SUFFICES ASSUME BInv, NEW p \in Proc, NEW q \in Proc,
                    run[p].pc = "exit", "saw" \in DOMAIN run[p], Applied(q, {0, 3}),
                    run[q].delta = run[p].saw, Related(run[q].base, run[q].delta),
                    run[q].delta.tier # TierL0 \/ run[q].delta.hit # "index"
             PROVE  run[p].code = run[q].code
  BY DEF InspectForetells
<1>1. Inspected(run[p]) /\ Written(run[q])
  BY StateOf DEF BInv, Applied
<1>2. ASSUME NEW s, NEW w, Inspected(s), Written(w), w.delta = s.saw, Related(w.base, w.delta),
             w.delta.tier # TierL0 \/ w.delta.hit # "index"
      PROVE  s.code = w.code
  <2> DEFINE d == w.delta
             res == Decode(d, w.base.len)
             code == inspectCode(Examine(d))
  <2>1. Decoded(d, w.base.len, res) /\ w.code = applyCode(res) /\ applyCode(res) \in {0, 3}
    BY <1>2, WrittenFacts
  <2>2. s = [pc |-> "exit", code |-> code, saw |-> s.saw]
    BY <1>2 DEF Inspected
  <2>3. s.code = code
    <3> HIDE DEF code
    <3> QED BY <2>2
  <2>4. w.base.len = d.base.len
    BY <1>2 DEF Related
  <2>5. Decoded(d, d.base.len, res) /\ (d.tier # TierL0 \/ d.hit # "index")
    BY <1>2, <2>1, <2>4
  <2> HIDE DEF res, d
  <2>6. code = applyCode(res)
    BY <2>1, <2>5, DecodedForetold
  <2> QED BY <2>1, <2>3, <2>6
<1> QED BY <1>1, <1>2

-----------------------------------------------------------------------------
(* The theorems. *)

\* Whatever commands run, are killed or fail, and whatever happens to the
\* files meanwhile, each file is what its name says, whole, and a command
\* exits with a code that is documented.
THEOREM FilesAreWhole == Spec => []TypeOK
BY SpecBInv, TypeFollows, PTL

\* Exit code 0 of apply: the output is the modified image, at every tier, over
\* the base the delta was made from or what an apply has made of it before,
\* with the delta intact or hit in its header, in the index, the data, the end
\* or the number of its records, or in its shards. Excepted are the index and
\* the data of an L0 record, which no CRC covers, and an index that is hit
\* while two changed blocks are alike: the residual window of format.go:61.
THEOREM ExitZeroIsExact == Spec => []RoundTrip
BY SpecBInv, RoundTripFollows, PTL

\* Exit codes 0 and 3 of apply: each block of the output is the modified one
\* or that of the base read, for the same hits and without that window.
THEOREM ExitThreeIsMix == Spec => []PartialIsMix
BY SpecBInv, PartialFollows, PTL

\* inspect's exit code for a delta is that of the apply that writes an image
\* from it over a base of its length, whichever hit the delta has taken but
\* that of an index at L0.
THEOREM InspectForetellsApply == Spec => []InspectForetells
BY SpecBInv, InspectFollowsApply, PTL
=============================================================================
