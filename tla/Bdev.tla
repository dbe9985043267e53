-------------------------------- MODULE Bdev --------------------------------
(***************************************************************************)
(* The commands diff, apply and inspect of bdev as processes that share    *)
(* four files: a base image, a modified image, a delta and an output. A    *)
(* command reads its inputs one after the other and ends with one write,   *)
(* which replaces a file as AtomicFile says. Meanwhile other commands run, *)
(* the user puts other images in place, and the delta is damaged.          *)
(*                                                                         *)
(* An apply may write its output over its own base.                        *)
(***************************************************************************)
EXTENDS RSFormat

CONSTANTS
    Proc,        \* commands that run at the same time
    Images,      \* Images.base and Images.mod: what the user puts in place
    MaxRuns,     \* commands started
    MaxEdits,    \* images put in place after the first ones
    Stray,       \* what a shard index that is hit may become
    Wild         \* what bytes of a misplaced shard that are no index may read as

\* An image is a length in blocks and the blocks.
Image == {i \in [len : 0 .. NBlocks, blk : Overlay] : Dirty(i.blk) = 0 .. (i.len - 1)}

ASSUME BdevAssumption ==
    /\ Images.base \cup Images.mod \subseteq Image
    /\ MaxRuns \in Nat /\ MaxEdits \in Nat /\ Stray \subseteq Nat /\ Wild \subseteq Int

VARIABLES
    file,        \* the files
    run,         \* run[p]: the command process p executes
    nruns, nedits

vars == <<file, run, nruns, nedits>>

\* A file: none (or, for an image, one of a length that is no multiple of the
\* block size), an image, or a delta. With a delta goes, as history, what it
\* was made from and what has hit it since; and "wild", what bytes that are no
\* index happen to read as.
None     == [kind |-> "none"]
Img(i)   == [kind |-> "image", img |-> i]
Hit(hit, blob, wild) == [hit |-> hit, blob |-> blob, wild |-> wild]
Intact(blob) == Hit("none", blob, 0)
Delta(h, tier, base, mod) ==
    [kind |-> "delta", blob |-> h.blob, hit |-> h.hit, wild |-> h.wild,
     tier |-> tier, base |-> base, mod |-> mod]

Idle == [pc |-> "idle"]

Init ==
    /\ \E b \in Images.base, m \in Images.mod :
          file = [base |-> Img(b), mod |-> Img(m), delta |-> None, out |-> None]
    /\ run = [p \in Proc |-> Idle] /\ nruns = 0 /\ nedits = 0

-----------------------------------------------------------------------------
(* The commands. *)

loadImage(f) == f.kind = "image"      \* it can be read and has whole blocks
loadBlob(f)  == f.kind # "none"

\* The device diff writes: each block that differs.
changed(base, mod) ==
    [b \in Block |-> IF b < base.len /\ base.blk[b] # mod.blk[b] THEN mod.blk[b] ELSE NoData]

Serialize(ov, tier) ==
    IF tier = TierL2 THEN SerializeRS(ov, 0, 0) ELSE SerializeTier(ov, tier)

Decode(d, maxBlock) ==
    IF "shards" \in DOMAIN d.blob THEN DeserializeL2(d.blob, maxBlock, d.wild)
    ELSE Deserialize(d.blob, maxBlock)

\* Mutant: the blocks that were not restored are left out of the image.
materialize_OnlyDelta(base, ov) == [len |-> base.len, blk |-> ov]

\* Mutant: the image is as long as the device's last dirty block.
materialize_ToLast(base, ov) ==
    [len |-> Cardinality(Dirty(ov)),
     blk |-> [b \in Block |-> IF ov[b] # NoData THEN ov[b] ELSE base.blk[b]]]

\* ReadAt of the whole device.
materialize(base, ov) ==
    [len |-> base.len,
     blk |-> [b \in Block |-> IF ov[b] # NoData THEN ov[b] ELSE base.blk[b]]]

\* Mutant: loss that no block can be named for does not count.
inspectCode_Named(info) == IF info.err # "nil" THEN 1 ELSE IF info.BadBlocks # {} THEN 3 ELSE 0

\* The exit code of inspect, and of apply.
inspectCode(info) == IF info.err # "nil" THEN 1 ELSE IF Clean(info) THEN 0 ELSE 3
applyCode(res) ==
    IF res.err = "nil" THEN 0 ELSE IF res.err = "Partial" THEN 3 ELSE 1

Examine(d) ==
    IF "shards" \in DOMAIN d.blob THEN InspectL2(d.blob, d.wild) ELSE Inspect(d.blob)

\* A command line that parses: diff with a tier, apply with an output.
Commands ==
    [cmd : {"diff"}, tier : {TierL0, TierL1, TierL2}, out : {"delta"}]
      \cup [cmd : {"apply"}, tier : {TierL0}, out : {"out", "base"}]
      \cup [cmd : {"inspect"}, tier : {TierL0}, out : {"out"}]

\* Process p goes on as r; of one that exits r is what the properties need.
Becomes(p, r) == run' = [run EXCEPT ![p] = r]
Failed        == [pc |-> "exit", code |-> 1]

Begin(p, c) ==
    /\ run[p].pc \in {"idle", "exit"} /\ nruns < MaxRuns /\ nruns' = nruns + 1
    /\ Becomes(p, [pc |-> "first", cmd |-> c.cmd, tier |-> c.tier, out |-> c.out])
    /\ UNCHANGED <<file, nedits>>

ReadFirst(p) ==
    /\ run[p].pc = "first" /\ run[p].cmd # "inspect"
    /\ LET r == run[p]
       IN  Becomes(p, IF loadImage(file.base)
                      THEN [pc |-> "second", cmd |-> r.cmd, tier |-> r.tier, out |-> r.out,
                            base |-> file.base.img]
                      ELSE Failed)
    /\ UNCHANGED <<file, nruns, nedits>>

\* The other input, and for diff the comparison of the lengths.
ReadSecond(p) ==
    /\ run[p].pc = "second"
    /\ LET r  == run[p]
           f  == IF r.cmd = "diff" THEN file.mod ELSE file.delta
           ok == IF r.cmd = "diff" THEN loadImage(f) /\ f.img.len = r.base.len ELSE loadBlob(f)
       IN  Becomes(p, IF ok THEN [pc |-> "write", cmd |-> r.cmd, tier |-> r.tier, out |-> r.out,
                                  base |-> r.base, other |-> f]
                      ELSE Failed)
    /\ UNCHANGED <<file, nruns, nedits>>

\* The rest of diff: writeFile may fail.
WriteDelta(p) ==
    /\ run[p].pc = "write" /\ run[p].cmd = "diff"
    /\ LET mod == run[p].other.img
           new == {Delta(Intact(blob), run[p].tier, run[p].base, mod) :
                      blob \in Serialize(changed(run[p].base, mod), run[p].tier)}
       IN  \/ /\ \E d \in new : file' = [file EXCEPT !.delta = d]
              /\ Becomes(p, [pc |-> "exit", code |-> 0])
           \/ UNCHANGED file /\ Becomes(p, Failed)
    /\ UNCHANGED <<nruns, nedits>>

\* The rest of apply: a partial recovery is written, too.
WriteImage(p) ==
    /\ run[p].pc = "write" /\ run[p].cmd = "apply"
    /\ LET base == run[p].base
           res  == Decode(run[p].other, base.len)
           img  == materialize(base, res.over)
       IN  \/ /\ applyCode(res) \in {0, 3}
              /\ file' = [file EXCEPT ![run[p].out] = Img(img)]
              /\ Becomes(p, [pc |-> "exit", code |-> applyCode(res), base |-> base,
                             delta |-> run[p].other, img |-> img])
           \/ UNCHANGED file /\ Becomes(p, Failed)
    /\ UNCHANGED <<nruns, nedits>>

InspectDelta(p) ==
    /\ run[p].pc = "first" /\ run[p].cmd = "inspect"
    /\ Becomes(p, IF ~loadBlob(file.delta) THEN Failed
                  ELSE [pc |-> "exit", code |-> inspectCode(Examine(file.delta)),
                        saw |-> file.delta])
    /\ UNCHANGED <<file, nruns, nedits>>

-----------------------------------------------------------------------------
(* The rest of the world. *)

Kill(p) == /\ run[p].pc \notin {"idle", "exit"} /\ Becomes(p, Idle)
           /\ UNCHANGED <<file, nruns, nedits>>

Edit(f, c) ==
    /\ nedits < MaxEdits /\ nedits' = nedits + 1
    /\ file[f] # c /\ file' = [file EXCEPT ![f] = c] /\ UNCHANGED <<run, nruns>>

\* One thing happens to a blob. A record: its index or its data changes, it is
\* the last one and cut off, or it is there once more; or the header changes.
Garbled(b)       == [b EXCEPT !.hcrc = BadCrc]
Renamed(b, i, x) == [b EXCEPT !.recs[i].idx = x]
Flipped(b, i, c) == [b EXCEPT !.recs[i].data = c]
Cut(b, t)        == [b EXCEPT !.recs = SubSeq(@, 1, Len(@) - 1), !.tail = t]
Again(b, i)      == [b EXCEPT !.recs = Append(@, b.recs[i])]

\* What a cut leaves of the last record.
Remains(b) ==
    IF b.recs = <<>> THEN {}
    ELSE {NoTail, ShortTail, IdxTail(b.recs[Len(b.recs)].idx)}

\* Of an L2 blob some shards are lost, or the index of one changes.
Without(b, lost)    == [b EXCEPT !.shards = [k \in DOMAIN b.shards |->
                                               [b.shards[k] EXCEPT !.ok = k \notin lost]]]
Misplaced(b, k, x)  == [b EXCEPT !.shards[k].idx = x]

Damages(b) ==
    IF "shards" \in DOMAIN b
    THEN {Hit("shard", Without(b, lost), 0) : lost \in {k .. l : k, l \in DOMAIN b.shards}}
         \cup {Hit("index", Misplaced(b, k, x), w) :
                  k \in DOMAIN b.shards, x \in Stray, w \in Wild}
    ELSE {Hit("header", Garbled(b), 0)}
         \cup {Hit("index", Renamed(b, i, x), 0) : i \in DOMAIN b.recs, x \in -1 .. NBlocks}
         \cup {Hit("data", Flipped(b, i, c), 0) : i \in DOMAIN b.recs, c \in Content}
         \cup {Hit("cut", Cut(b, t), 0) : t \in Remains(b)}
         \cup {Hit("copy", Again(b, i), 0) : i \in DOMAIN b.recs}

DamageDelta ==
    /\ file.delta.kind = "delta" /\ file.delta.hit = "none"
    /\ LET d == file.delta
       IN  \E h \in Damages(d.blob) :
              /\ h.blob # d.blob
              /\ file' = [file EXCEPT !.delta = Delta(h, d.tier, d.base, d.mod)]
    /\ UNCHANGED <<run, nruns, nedits>>

\* The delta is fetched again.
RestoreDelta ==
    /\ file.delta.kind = "delta" /\ file.delta.hit # "none"
    /\ nedits < MaxEdits /\ nedits' = nedits + 1
    /\ LET d == file.delta
       IN  \E b \in Serialize(changed(d.base, d.mod), d.tier) :
              file' = [file EXCEPT !.delta = Delta(Intact(b), d.tier, d.base, d.mod)]
    /\ UNCHANGED <<run, nruns>>

Step(p) == ReadFirst(p) \/ ReadSecond(p) \/ WriteDelta(p) \/ WriteImage(p) \/ InspectDelta(p)

Next ==
    \/ \E p \in Proc : (\E c \in Commands : Begin(p, c)) \/ Step(p) \/ Kill(p)
    \/ \E f \in {"base", "mod"} : Edit(f, None) \/ \E i \in Images[f] : Edit(f, Img(i))
    \/ RestoreDelta
    \/ DamageDelta

Spec == Init /\ [][Next]_vars

-----------------------------------------------------------------------------
(* Properties. *)

\* Every file is what its name says, whole; exit codes are those documented.
TypeOK ==
    /\ \A f \in {"base", "mod", "out"} :
          file[f] \in {None} \cup {Img(i) : i \in Image}
    /\ file.delta.kind \in {"none", "delta"}
    /\ \A p \in Proc : run[p].pc = "exit" => run[p].code \in {0, 1, 3}

Applied(p, codes) == run[p].pc = "exit" /\ run[p].code \in codes /\ "img" \in DOMAIN run[p]

\* The blocks of the base that was read are those of the base or of the
\* modified image the delta was made from: it is that base, or that base with
\* the delta applied to it before, in whole or in part.
Related(base, d) ==
    /\ base.len = d.base.len
    /\ \A b \in 0 .. (base.len - 1) : base.blk[b] \in {d.base.blk[b], d.mod.blk[b]}

\* A record of an L0 delta has no CRC: damage to it is not noticed.
Trusted(d) == d.tier # TierL0 \/ d.hit \notin {"index", "data"}

\* The residual window that the comment on Truncated (format.go:61) states: with
\* its index hit, the record of a block may pass for a repetition of that of
\* another block, if their contents are the same. At L2 the index of a shard does
\* as much: garbage rebuilt from a misplaced one may name that other block.
Residual(d) ==
    LET ov == changed(d.base, d.mod)
    IN  d.hit = "index" /\ \E b, c \in Dirty(ov) : b # c /\ ov[b] = ov[c]

\* "bdev apply materializes base + delta": exit code 0 means that the output
\* is the modified image the delta was made from, whatever happened to the
\* images meanwhile and whichever of Damages the delta has taken, and also when
\* an apply over its own base is repeated after one that was killed, failed or
\* recovered only a part. Excepted is what the format leaves unprotected.
RoundTrip ==
    \A p \in Proc :
        Applied(p, {0}) /\ Related(run[p].base, run[p].delta) /\ Trusted(run[p].delta)
        => run[p].img = run[p].delta.mod \/ Residual(run[p].delta)

\* "On partial recovery the image is still written and the exit code is 3":
\* then, and when it is 0, every block of it is the modified one or degraded to
\* that of the base read.
PartialIsMix ==
    \A p \in Proc :
        Applied(p, {0, 3}) /\ Related(run[p].base, run[p].delta) /\ Trusted(run[p].delta)
        => /\ run[p].img.len = run[p].base.len
           /\ \A b \in 0 .. (run[p].img.len - 1) :
                 run[p].img.blk[b] \in {run[p].delta.mod.blk[b], run[p].base.blk[b]}

\* What inspect says of a delta foretells what apply makes of it over the base
\* it was made from: exit code 0 or not. Only an index that was hit at L0 may
\* be outside of that base, which inspect does not know.
InspectForetells ==
    \A p, q \in Proc :
        /\ run[p].pc = "exit" /\ "saw" \in DOMAIN run[p]
        /\ Applied(q, {0, 3}) /\ run[q].delta = run[p].saw
        /\ Related(run[q].base, run[q].delta)
        /\ run[q].delta.tier # TierL0 \/ run[q].delta.hit # "index"
        => run[p].code = run[q].code
=============================================================================
