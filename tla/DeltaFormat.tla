----------------------------- MODULE DeltaFormat -----------------------------
(***************************************************************************)
(* The L0 and L1 delta formats of format.go: what SerializeTier writes and *)
(* what Deserialize makes of a blob, intact or damaged.                    *)
(*                                                                         *)
(* A blob is a header, the records that are there in full, and what is     *)
(* left of the one after them. A CRC is taken to be ideal: it is the value *)
(* it covers, so it verifies exactly when neither side was changed.        *)
(***************************************************************************)
EXTENDS Integers, Sequences, FiniteSets

CONSTANTS
    NBlocks,     \* length of the device's base in blocks
    Content,     \* what a block may hold
    NoData       \* the absence of an overlay entry

ASSUME FormatAssumption == NBlocks \in Nat /\ NoData \notin Content

Block == 0 .. (NBlocks - 1)

TierL0 == 0
TierL1 == 1
TierL2 == 2

\* An overlay: the content of each dirty block, NoData for the others.
Overlay   == [Block -> Content \cup {NoData}]
Empty     == [b \in Block |-> NoData]
Dirty(ov) == {b \in Block : ov[b] # NoData}

Crc(idx, data) == <<idx, data>>
BadCrc         == <<>>           \* a CRC field nothing verifies against
HeaderCrc(tier, count) == <<tier, count>>

Record == [idx : Int, data : Content, crc : (Int \X Content) \cup {BadCrc}]

\* What follows the last full record: nothing, less than an index field, or
\* the index field of a record that is cut off.
NoTail       == [kind |-> "none", idx |-> 0]
ShortTail    == [kind |-> "short", idx |-> 0]
IdxTail(idx) == [kind |-> "index", idx |-> idx]

\* "magic" says that at least a header is there, with its magic and version;
\* "layout" is the tier whose record stride the body has.
Blob ==
    [magic  : BOOLEAN,
     tier   : Nat,
     count  : Nat,
     hcrc   : (Nat \X Nat) \cup {BadCrc},
     layout : {TierL0, TierL1},
     recs   : Seq(Record),
     tail   : [kind : {"none", "short", "index"}, idx : Int]]

-----------------------------------------------------------------------------
(* Serialization. *)

\* The dirty indices in ascending order (the only such sequence).
sortedIndices(ov) ==
    LET n == Cardinality(Dirty(ov))
    IN  {s \in [1 .. n -> Dirty(ov)] :
            /\ \A b \in Dirty(ov) : \E i \in 1 .. n : s[i] = b
            /\ \A i, j \in 1 .. n : i < j => s[i] < s[j]}

\* One iteration of writeRecordRange: index, data, and the CRC of both.
writeRecord(ov, idx, tier) ==
    [idx |-> idx, data |-> ov[idx],
     crc |-> IF tier = TierL1 THEN Crc(idx, ov[idx]) ELSE BadCrc]

\* SerializeTier for L0 and L1.
SerializeTier(ov, tier) ==
    {[magic  |-> TRUE,
      tier   |-> tier,
      count  |-> Cardinality(Dirty(ov)),
      hcrc   |-> HeaderCrc(tier, Cardinality(Dirty(ov))),
      layout |-> tier,
      recs   |-> [i \in DOMAIN s |-> writeRecord(ov, s[i], tier)],
      tail   |-> NoTail] : s \in sortedIndices(ov)}

-----------------------------------------------------------------------------
(* Deserialization onto a base of maxBlock blocks. *)

Verifies(rec, tier) == tier = TierL1 => rec.crc = Crc(rec.idx, rec.data)
InBase(idx, maxBlock) == 0 <= idx /\ idx < maxBlock

\* Mutant: L1 records are applied without looking at their CRC.
appliedAt_NoCRC(recs, tier, n, maxBlock) ==
    {i \in 1 .. n : InBase(recs[i].idx, maxBlock)}

\* Mutant: records beyond the base are applied as well.
appliedAt_AnyIndex(recs, tier, n, maxBlock) == {i \in 1 .. n : Verifies(recs[i], tier)}

\* Mutant: the records are taken to be in ascending order.
appliedAt_Ascending(recs, tier, n, maxBlock) ==
    {i \in 1 .. n : /\ Verifies(recs[i], tier) /\ InBase(recs[i].idx, maxBlock)
                    /\ \A j \in 1 .. (i - 1) : recs[j].idx < recs[i].idx}

\* The positions, among the first n records, that are copied to the overlay.
appliedAt(recs, tier, n, maxBlock) ==
    {i \in 1 .. n : Verifies(recs[i], tier) /\ InBase(recs[i].idx, maxBlock)}

\* The overlay after the records at those positions: the last one of a block
\* wins.
Largest(S) == CHOOSE i \in S : \A j \in S : j <= i

restored(recs, at) ==
    [b \in Block |->
        LET named == {i \in at : recs[i].idx = b}
        IN  IF named = {} THEN NoData ELSE recs[Largest(named)].data]

Result ==
    [err : {"nil", "Partial", "ErrCorrupt", "ErrUnsupportedTier"},
     over : Overlay, bad : SUBSET Block, truncated : BOOLEAN]

Corrupt == [err |-> "ErrCorrupt", over |-> Empty, bad |-> {}, truncated |-> FALSE]
UnsupportedTier ==
    [err |-> "ErrUnsupportedTier", over |-> Empty, bad |-> {}, truncated |-> FALSE]

\* Mutant: a blamed block stays on the list though it was restored.
finalizeBad_Keep(ov, bad) == bad

\* A blamed block that was restored after all is not bad.
finalizeBad(ov, bad) == bad \ Dirty(ov)

\* Mutant: a CRC-failed record counts as a duplicate on its index alone.
suppressed_ByIndex(rec, ov, maxBlock) ==
    InBase(rec.idx, maxBlock) /\ ov[rec.idx] # NoData

\* A CRC-failed record that carries the data applied for its index is no loss.
suppressed(rec, ov, maxBlock) ==
    InBase(rec.idx, maxBlock) /\ ov[rec.idx] = rec.data

\* applyRecords' judgement of the body's length against the header: the
\* records to apply, the block a cut-off tail names, loss nobody can name.
Extent(recs, tail, count, maxBlock) ==
    LET named == tail.kind = "index" /\ InBase(tail.idx, maxBlock)
    IN  IF Len(recs) >= count
        THEN [n |-> count, tail |-> {},
              loss |-> Len(recs) > count \/ tail # NoTail]
        ELSE [n |-> Len(recs), tail |-> IF named THEN {tail.idx} ELSE {},
              loss |-> ~named]

applyRecords(recs, tail, tier, count, maxBlock) ==
    LET ext  == Extent(recs, tail, count, maxBlock)
        over == restored(recs, appliedAt(recs, tier, ext.n, maxBlock))
        bad  == finalizeBad(over, ext.tail)
        unattributed ==
            \/ ext.loss
            \/ \E i \in 1 .. ext.n : /\ Verifies(recs[i], tier)
                                     /\ ~InBase(recs[i].idx, maxBlock)
            \/ \E i \in 1 .. ext.n : /\ ~Verifies(recs[i], tier)
                                     /\ ~suppressed(recs[i], over, maxBlock)
            \/ ext.tail \cap Dirty(over) # {}
    IN  [err |-> IF bad = {} /\ ~unattributed THEN "nil" ELSE "Partial",
         over |-> over, bad |-> bad, truncated |-> unattributed]

\* The scan of L1 records behind a header that failed its CRC. A body of
\* another layout read at L1 stride shows no record that verifies.
deserializeHeaderless(blob, maxBlock) ==
    LET at == appliedAt(blob.recs, TierL1, Len(blob.recs), maxBlock)
    IN  IF blob.tail # NoTail \/ blob.layout # TierL1 \/ at = {}
        THEN Corrupt
        ELSE [err |-> "Partial", over |-> restored(blob.recs, at),
              bad |-> {}, truncated |-> TRUE]

headerIntact(blob) == blob.hcrc = HeaderCrc(blob.tier, blob.count)

\* Mutant: the fallback scan runs only when the tier byte still reads L1.
fallback_OnlyL1(blob) == blob.tier = TierL1

\* The tier byte of a failed header reads L1 or is itself out of range.
fallback(blob) == blob.tier = TierL1 \/ blob.tier > TierL2

\* Deserialize, for the blobs SerializeTier writes at L0 and L1, damaged or
\* not. (A header that verifies with tier L2 belongs to rs.go.)
Deserialize(blob, maxBlock) ==
    IF ~blob.magic THEN Corrupt
    ELSE IF ~headerIntact(blob)
    THEN IF fallback(blob) THEN deserializeHeaderless(blob, maxBlock) ELSE Corrupt
    ELSE IF blob.tier \in {TierL0, TierL1}
    THEN applyRecords(blob.recs, blob.tail, blob.tier, blob.count, maxBlock)
    ELSE UnsupportedTier
=============================================================================
