----------------------------- MODULE RSRecovery -----------------------------
(***************************************************************************)
(* The pause/resume cycle of a device at tier L2, on a medium that damages *)
(* shards, loses or adds some, moves them, cuts the blob, or hits one of   *)
(* the two headers. As in PauseResume, "origin" and "faulted" are history. *)
(***************************************************************************)
EXTENDS RSFormat

CONSTANTS
    Requests,    \* pairs dataShards, parityShards passed to SerializeRS
    MaxFaults,   \* damages of one stored blob
    ResumeBases  \* lengths, in blocks, of the bases a blob is resumed over

ASSUME RecoveryAssumption ==
    /\ Requests \subseteq Int \X Int
    /\ MaxFaults \in Nat
    /\ ResumeBases \subseteq 0 .. NBlocks

VARIABLES
    phase,       \* "live", "stored" or "resumed"
    over,        \* the live device's overlay
    blob,        \* the stored blob
    origin,      \* the overlay the blob was made from
    faulted,     \* kinds of damage the blob has taken
    nfaults,     \* how many
    base,        \* length of the base it was called with
    wild,        \* what bytes that are no index happened to read as
    res          \* what Deserialize returned

vars == <<phase, over, blob, origin, faulted, nfaults, base, wild, res>>

Fault   == {"shard", "index", "cut", "surplus", "copy", "swap", "header", "meta"}
WildIdx == -1 .. NBlocks

NoBlob ==
    [header |-> FALSE, count |-> 0, metaOK |-> FALSE,
     meta |-> [data |-> 0, parity |-> 0, size |-> 0, len |-> 0],
     recs |-> <<>>, shards |-> <<>>, rest |-> 0]

Init ==
    /\ phase = "live" /\ over = Empty /\ blob = NoBlob /\ origin = Empty
    /\ faulted = {} /\ nfaults = 0 /\ base = NBlocks /\ wild = 0 /\ res = Corrupt

-----------------------------------------------------------------------------
Write(b, c) ==
    /\ phase = "live"
    /\ over' = [over EXCEPT ![b] = c]
    /\ UNCHANGED <<phase, blob, origin, faulted, nfaults, base, wild, res>>

\* A request SerializeRS refuses leaves everything as it is.
Pause(data, parity) ==
    /\ phase = "live" /\ phase' = "stored"
    /\ blob' \in SerializeRS(over, data, parity)
    /\ origin' = over /\ faulted' = {} /\ nfaults' = 0
    /\ UNCHANGED <<over, base, wild, res>>

\* No bytes are read as something else than they were written as unless some
\* shard is not in its place.
Resume(maxBlock) ==
    /\ phase = "stored" /\ phase' = "resumed" /\ base' = maxBlock
    /\ wild' \in IF "index" \in faulted THEN WildIdx ELSE {0}
    /\ res' = DeserializeL2(blob, maxBlock, wild')
    /\ UNCHANGED <<over, blob, origin, faulted, nfaults>>

Continue ==
    /\ phase = "resumed" /\ phase' = "live"
    /\ over' = IF res.err \in {"nil", "Partial"} THEN res.over ELSE Empty
    /\ blob' = NoBlob /\ origin' = Empty /\ faulted' = {} /\ nfaults' = 0
    /\ base' = NBlocks /\ wild' = 0 /\ res' = Corrupt

-----------------------------------------------------------------------------
(* Damage. *)

Damage(kind, damaged) ==
    /\ phase = "stored" /\ nfaults < MaxFaults
    /\ blob' = damaged
    /\ faulted' = faulted \cup {kind} /\ nfaults' = nfaults + 1
    /\ UNCHANGED <<phase, over, origin, base, wild, res>>

\* The data or the CRC of a shard changes.
SpoilShard(k) == /\ blob.shards[k].ok
                 /\ Damage("shard", [blob EXCEPT !.shards[k].ok = FALSE])

\* The index of a shard changes, which no CRC shows.
FlipShardIndex(k, x) == /\ blob.shards[k].ok /\ blob.shards[k].idx # x
                        /\ Damage("index", [blob EXCEPT !.shards[k].idx = x])

\* The blob ends after m shards, or inside the next one.
Truncate(m) ==
    \E r \in {0, Stride(blob.meta) - 1} :
        Damage("cut", [blob EXCEPT !.shards = SubSeq(@, 1, m), !.rest = r])

\* Stray bytes, or a shard a second time, follow the last one.
Trail == Damage("surplus", [blob EXCEPT !.rest = @ + 1])
CopyShard(k) == /\ blob.rest = 0
                /\ Damage("copy", [blob EXCEPT !.shards = Append(@, blob.shards[k])])

SwapShards(k, l) == Damage("swap", [blob EXCEPT !.shards[k] = blob.shards[l],
                                                !.shards[l] = blob.shards[k]])

SpoilHeader == blob.header /\ Damage("header", [blob EXCEPT !.header = FALSE])
SpoilMeta   == blob.metaOK /\ Damage("meta", [blob EXCEPT !.metaOK = FALSE])

Medium ==
    \/ \E k \in DOMAIN blob.shards :
          \/ SpoilShard(k)
          \/ \E x \in 0 .. Total(blob.meta) : FlipShardIndex(k, x)
          \/ Truncate(k - 1)
          \/ CopyShard(k)
          \/ \E l \in (k + 1) .. Len(blob.shards) : SwapShards(k, l)
    \/ Trail \/ SpoilHeader \/ SpoilMeta

Next ==
    \/ \E b \in Block, c \in Content : Write(b, c)
    \/ \E r \in Requests : Pause(r[1], r[2])
    \/ Medium
    \/ \E maxBlock \in ResumeBases : Resume(maxBlock)
    \/ Continue

Spec == Init /\ [][Next]_vars

-----------------------------------------------------------------------------
(* Properties. *)

\* Every variable has its type; only blocks of the base are restored or
\* blamed, whatever an index read from a misplaced shard says.
TypeOK ==
    /\ phase \in {"live", "stored", "resumed"}
    /\ over \in Overlay /\ origin \in Overlay
    /\ blob \in RSBlob
    /\ faulted \subseteq Fault /\ nfaults \in 0 .. MaxFaults
    /\ base \in 0 .. NBlocks /\ wild \in WildIdx
    /\ res \in Result /\ \A b \in Dirty(res.over) \cup res.bad : InBase(b, base)

BaseLargeEnough == \A b \in Dirty(origin) : b < base
HeadersIntact   == faulted \cap {"header", "meta"} = {}

\* The shard memory is within what the decoder grants.
AllocGranted == Total(blob.meta) * blob.meta.size <= rsMaxDecodeAlloc

Erasures == Missing(parseShardSection(blob))

\* "Up to K erasures are fully reconstructed": whatever was done to the shard
\* section other than to the index of a shard, K missing shards cost no block,
\* and none of the bounds of parseRSMeta on the body's length gets in the way.
\* Nor is any loss reported, unless the blob has grown: the documentation of
\* Deserialize wants a surplus reported, though the code does not at L2.
ErasuresCostNothing ==
    /\ phase = "resumed" /\ HeadersIntact /\ "index" \notin faulted
    /\ BaseLargeEnough /\ AllocGranted /\ Erasures <= blob.meta.parity
    => /\ res.over = origin /\ res.bad = {} /\ res.err \in {"nil", "Partial"}
       /\ faulted \cap {"surplus", "copy"} = {} => res.err = "nil"

\* Whatever the damage, misplaced shards and reconstructions from them
\* included, a restored block has the content it was serialized with.
RSNeverFabricates ==
    phase = "resumed" => \A b \in Block : res.over[b] \in {origin[b], NoData}

\* A nil error means that nothing was lost. The exceptions need a shard whose
\* index was hit: it may pair the index of one block with the content of
\* another, unnoticed if both have the same content (the documented residual
\* window), or be a copy of a shard that takes the place of another one.
RSSilentMeansExact ==
    phase = "resumed" /\ res.err = "nil" =>
        \/ res.over = origin
        \/ /\ "index" \in faulted
           /\ \/ "copy" \in faulted
              \/ \E b, c \in Dirty(origin) : b # c /\ origin[b] = origin[c]

\* "Lost regions are never zero-filled into the record stream": with shards in
\* their places, the blocks that are blamed are lost ones, and if none of the
\* loss is left unattributed, they are all of them.
RSLossAccounted ==
    phase = "resumed" /\ res.err = "Partial" /\ "index" \notin faulted =>
        LET lost == {b \in Dirty(origin) : res.over[b] = NoData}
        IN  res.bad \subseteq lost /\ (~res.truncated => res.bad = lost)

\* Inspect and Deserialize agree on L2 blobs as they do on the others: on
\* rejection, on whether anything is lost, and on the blocks that are; after
\* damage to the index of a shard Inspect may list more of them.
RSInspectAgrees ==
    phase = "resumed" =>
        LET info == InspectL2(blob, wild)
        IN  /\ (info.err = "ErrCorrupt") = (res.err = "ErrCorrupt")
            /\ res.err = "nil" => Clean(info)
            /\ res.bad \subseteq info.BadBlocks
            /\ BaseLargeEnough => (Clean(info) <=> res.err = "nil")
            /\ "index" \notin faulted /\ BaseLargeEnough => info.BadBlocks = res.bad

\* What the comment on parseShardSection says: "anything missing, truncated,
\* misindexed or CRC-bad becomes a nil erasure", and up to K of these are
\* reconstructed.
MisindexedIsErasure ==
    /\ phase = "resumed" /\ faulted \subseteq {"index"}
    /\ BaseLargeEnough /\ nfaults <= blob.meta.parity
    => res.err = "nil" /\ res.over = origin

\* What the comment on validRSGeometry says: "every blob SerializeRS can
\* produce is one Deserialize/Inspect accepts".
EncodableIsDecodable ==
    phase = "resumed" /\ faulted = {} => res.err # "ErrCorrupt"
=============================================================================
