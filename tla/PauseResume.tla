----------------------------- MODULE PauseResume -----------------------------
(***************************************************************************)
(* The pause/resume cycle of a device over the L0 and L1 formats: write,   *)
(* serialize, store the blob on a medium that damages it, deserialize over *)
(* a base that may be the wrong one, go on with what was recovered.        *)
(*                                                                         *)
(* The damage is the environment's: bytes of one record, of the header or  *)
(* of the tail change, the blob is cut, bytes or copies of records are     *)
(* appended, records change places. "faulted" remembers the kinds of       *)
(* damage and "origin" the overlay that was serialized, to state what      *)
(* Deserialize owes its caller; neither is visible to the code.            *)
(***************************************************************************)
EXTENDS DeltaFormat

CONSTANTS
    MaxFaults,   \* damages of one stored blob
    ResumeBases  \* lengths, in blocks, of the bases a blob is resumed over

ASSUME CycleAssumption ==
    /\ MaxFaults \in Nat
    /\ ResumeBases \subseteq 0 .. NBlocks

VARIABLES
    phase,       \* "live", "stored" or "resumed"
    over,        \* the live device's overlay
    blob,        \* the stored blob
    origin,      \* the overlay the blob was made from
    faulted,     \* kinds of damage the blob has taken
    nfaults,     \* how many
    base,        \* length of the base it was called with
    res          \* what Deserialize returned

vars == <<phase, over, blob, origin, faulted, nfaults, base, res>>

Fault == {"index", "data", "crc", "cut", "surplus", "copy", "swap", "header", "magic"}

\* A damaged index field: some block, or a value out of range either way.
WildIdx  == -1 .. NBlocks
WildTier == 0 .. 3

\* The blob of a device nobody has written.
FirstBlob ==
    [magic |-> TRUE, tier |-> TierL0, count |-> 0,
     hcrc |-> HeaderCrc(TierL0, 0), layout |-> TierL0,
     recs |-> <<>>, tail |-> NoTail]

Init ==
    /\ phase = "live" /\ over = Empty
    /\ blob = FirstBlob /\ origin = Empty
    /\ faulted = {} /\ nfaults = 0 /\ base = NBlocks /\ res = Corrupt

-----------------------------------------------------------------------------
Write(b, c) ==
    /\ phase = "live"
    /\ over' = [over EXCEPT ![b] = c]
    /\ UNCHANGED <<phase, blob, origin, faulted, nfaults, base, res>>

Pause(tier) ==
    /\ phase = "live" /\ phase' = "stored"
    /\ blob' \in SerializeTier(over, tier)
    /\ origin' = over /\ faulted' = {} /\ nfaults' = 0
    /\ UNCHANGED <<over, base, res>>

Resume(maxBlock) ==
    /\ phase = "stored" /\ phase' = "resumed"
    /\ base' = maxBlock /\ res' = Deserialize(blob, maxBlock)
    /\ UNCHANGED <<over, blob, origin, faulted, nfaults>>

\* The caller takes the device Deserialize returned, or a new one if it
\* returned none, and drops the blob.
Continue ==
    /\ phase = "resumed" /\ phase' = "live"
    /\ over' = IF res.err \in {"nil", "Partial"} THEN res.over ELSE Empty
    /\ blob' = FirstBlob /\ origin' = Empty
    /\ faulted' = {} /\ nfaults' = 0 /\ base' = NBlocks /\ res' = Corrupt

-----------------------------------------------------------------------------
(* Damage. *)

Damage(kind, damaged) ==
    /\ phase = "stored" /\ nfaults < MaxFaults
    /\ blob' = damaged
    /\ faulted' = faulted \cup {kind} /\ nfaults' = nfaults + 1
    /\ UNCHANGED <<phase, over, origin, base, res>>

FlipIndex(i, x) == Damage("index", [blob EXCEPT !.recs[i].idx = x])
FlipData(i, c)  == Damage("data", [blob EXCEPT !.recs[i].data = c])
FlipCRC(i)      == /\ blob.layout = TierL1
                   /\ Damage("crc", [blob EXCEPT !.recs[i].crc = BadCrc])

\* The index field of a record already cut off changes.
FlipTail(x) == /\ blob.tail.kind = "index"
               /\ Damage("index", [blob EXCEPT !.tail = IdxTail(x)])

\* The blob ends after m records, or inside the next one.
Truncate(m) ==
    \E t \in {NoTail, ShortTail, IdxTail(blob.recs[m + 1].idx)} :
        Damage("cut", [blob EXCEPT !.recs = SubSeq(blob.recs, 1, m), !.tail = t])

\* Stray bytes follow the last record.
Trail(t) == /\ blob.tail = NoTail
            /\ Damage("surplus", [blob EXCEPT !.tail = t])

\* A record is stored a second time, after the others.
Duplicate(i) == /\ blob.tail = NoTail
                /\ Damage("copy", [blob EXCEPT !.recs = Append(@, blob.recs[i])])

Swap(i, j) == Damage("swap", [blob EXCEPT !.recs[i] = blob.recs[j],
                                          !.recs[j] = blob.recs[i]])

FlipTier(t)   == Damage("header", [blob EXCEPT !.tier = t])
FlipCount(k)  == Damage("header", [blob EXCEPT !.count = k])
FlipHeaderCRC == Damage("header", [blob EXCEPT !.hcrc = BadCrc])

\* The magic or the version changes, or less than a header is left.
LoseMagic == Damage("magic", [blob EXCEPT !.magic = FALSE])

Medium ==
    \/ \E i \in 1 .. Len(blob.recs) :
          \/ \E x \in WildIdx : FlipIndex(i, x)
          \/ \E c \in Content : FlipData(i, c)
          \/ FlipCRC(i)
          \/ Truncate(i - 1)
          \/ Duplicate(i)
          \/ \E j \in (i + 1) .. Len(blob.recs) : Swap(i, j)
    \/ \E x \in WildIdx : FlipTail(x) \/ Trail(IdxTail(x))
    \/ Trail(ShortTail)
    \/ \E t \in WildTier : FlipTier(t)
    \/ \E k \in 0 .. (NBlocks + 1) : FlipCount(k)
    \/ FlipHeaderCRC
    \/ LoseMagic

Next ==
    \/ \E b \in Block, c \in Content : Write(b, c)
    \/ \E tier \in {TierL0, TierL1} : Pause(tier)
    \/ Medium
    \/ \E maxBlock \in ResumeBases : Resume(maxBlock)
    \/ Continue

Spec == Init /\ [][Next]_vars

-----------------------------------------------------------------------------
(* Properties. *)

\* Every variable has its type; Deserialize restores and blames only blocks of
\* the base it was called with, whatever an index says.
TypeOK ==
    /\ phase \in {"live", "stored", "resumed"}
    /\ over \in Overlay /\ origin \in Overlay
    /\ blob \in Blob
    /\ faulted \subseteq Fault /\ nfaults \in 0 .. MaxFaults
    /\ base \in 0 .. NBlocks
    /\ res \in Result /\ \A b \in Dirty(res.over) \cup res.bad : InBase(b, base)

\* The damage did not touch the content or the index of a record where no
\* CRC would show it (an L0 body has none).
ContentProtected == blob.layout = TierL1 \/ faulted \cap {"index", "data"} = {}

\* Whatever the damage, every block Deserialize restores from an L1 blob has
\* the content it had when it was serialized; all others read as base.
NeverFabricates ==
    phase = "resumed" /\ ContentProtected =>
        \A b \in Block : res.over[b] \in {origin[b], NoData}

\* A nil error means nothing was lost. The exceptions are the ones the
\* documentation of PartialRecoveryError grants (a record read under another
\* block's index with that block's very content), and a blob in which copies
\* of records make up for the number of those cut off.
SilentMeansExact ==
    phase = "resumed" /\ res.err = "nil" /\ ContentProtected =>
        \/ res.over = origin
        \/ "index" \in faulted /\ "data" \in faulted
        \/ /\ "index" \in faulted
           /\ \E b, c \in Dirty(origin) : b # c /\ origin[b] = origin[c]
        \/ "copy" \in faulted /\ "cut" \in faulted

\* A block that is blamed was in the delta and reads as base, unless its
\* index field was itself damaged or is stray bytes.
BlameIsTrue ==
    phase = "resumed" /\ faulted \cap {"index", "surplus"} = {} =>
        \A b \in res.bad : origin[b] # NoData /\ res.over[b] = NoData

\* The base holds every block the delta has a record for.
BaseLargeEnough == \A b \in Dirty(origin) : b < base

\* "Every record carries its own block index, so a decoder survives
\* reordering": a blob whose records only changed places restores the device
\* exactly and without an error.
ReorderHarmless ==
    phase = "resumed" /\ faulted \subseteq {"swap"} /\ BaseLargeEnough =>
        res.err = "nil" /\ res.over = origin

\* The header of an L1 blob can be spared: as long as the tier byte does not
\* read as another tier, every block is restored from the records alone.
HeaderExpendable ==
    /\ phase = "resumed" /\ faulted \subseteq {"swap", "header"}
    /\ BaseLargeEnough /\ Dirty(origin) # {}
    /\ blob.layout = TierL1 /\ blob.tier \notin {TierL0, TierL2}
    => res.over = origin /\ res.err \in {"nil", "Partial"}

\* What PartialRecoveryError says of itself: a loss that is not listed in
\* BadBlocks sets Truncated.
LossIsListedOrFlagged ==
    phase = "resumed" /\ res.err = "Partial" /\ faulted \subseteq {"cut"} =>
        \/ res.truncated
        \/ {b \in Dirty(origin) : res.over[b] = NoData} \subseteq res.bad
=============================================================================
