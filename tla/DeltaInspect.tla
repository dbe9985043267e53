---------------------------- MODULE DeltaInspect ----------------------------
(***************************************************************************)
(* Inspect of inspect.go for L0 and L1 blobs: what it reports of a blob    *)
(* without a base. The branch for L2 is in RSFormat.                       *)
(***************************************************************************)
EXTENDS DeltaFormat

Info ==
    [err : {"nil", "ErrCorrupt", "ErrUnsupportedTier"},
     BadBlocks : SUBSET Int, UnattributedLoss : Nat, Truncated : BOOLEAN]

Rejected(err) ==
    [err |-> err, BadBlocks |-> {}, UnattributedLoss |-> 0, Truncated |-> FALSE]

\* Unattributed loss always shows as Truncated.
finishInfo(bad, unattributed, truncated) ==
    [err |-> "nil", BadBlocks |-> bad, UnattributedLoss |-> unattributed,
     Truncated |-> truncated \/ unattributed > 0]

\* Mutant: bytes after the last record the header counts go unnoticed.
inspectBodyLayout_NoSurplus(recs, tail, count) ==
    [n |-> IF Len(recs) >= count THEN count ELSE Len(recs),
     bad |-> IF Len(recs) < count /\ tail.kind = "index" THEN {tail.idx} ELSE {},
     unattributed |-> IF Len(recs) < count /\ tail.kind # "index" THEN 1 ELSE 0,
     truncated |-> Len(recs) < count]

\* Mutant: a cut-off record is counted but its index is not read.
inspectBodyLayout_NoIndex(recs, tail, count) ==
    [n |-> IF Len(recs) >= count THEN count ELSE Len(recs),
     bad |-> {}, unattributed |-> IF Len(recs) < count THEN 1 ELSE 0,
     truncated |-> Len(recs) # count \/ tail # NoTail]

\* The records to scan, and what the body's length says against the header.
inspectBodyLayout(recs, tail, count) ==
    IF Len(recs) >= count
    THEN [n |-> count, bad |-> {}, unattributed |-> 0,
          truncated |-> Len(recs) > count \/ tail # NoTail]
    ELSE [n |-> Len(recs), truncated |-> TRUE,
          bad |-> IF tail.kind = "index" THEN {tail.idx} ELSE {},
          unattributed |-> IF tail.kind = "index" THEN 0 ELSE 1]

\* The first n records at L1: those that verify under an index no base has,
\* and how many fail without repeating a record that verified.
scanL1Records(recs, n) ==
    LET verified == {i \in 1 .. n : Verifies(recs[i], TierL1)}
        named(idx) == {i \in verified : recs[i].idx = idx /\ idx >= 0}
        duplicate(r) == /\ named(r.idx) # {}
                        /\ recs[Largest(named(r.idx))].data = r.data
    IN  [bad |-> {recs[i].idx : i \in {j \in verified : recs[j].idx < 0}},
         unattributed |->
            Cardinality({i \in (1 .. n) \ verified : ~duplicate(recs[i])})]

inspectHeaderless(b) ==
    LET recovered == {i \in 1 .. Len(b.recs) : Verifies(b.recs[i], TierL1)}
    IN  IF b.tail # NoTail \/ b.layout # TierL1 \/ recovered = {}
        THEN Rejected("ErrCorrupt")
        ELSE finishInfo({}, Len(b.recs) - Cardinality(recovered), TRUE)

Inspect(b) ==
    LET body == inspectBodyLayout(b.recs, b.tail, b.count)
        scan == scanL1Records(b.recs, body.n)
    IN  IF ~b.magic THEN Rejected("ErrCorrupt")
        ELSE IF ~headerIntact(b)
        THEN IF fallback(b) THEN inspectHeaderless(b) ELSE Rejected("ErrCorrupt")
        ELSE IF b.tier = TierL0
        THEN finishInfo(body.bad, body.unattributed, body.truncated)
        ELSE IF b.tier = TierL1
        THEN finishInfo(body.bad \cup scan.bad, body.unattributed + scan.unattributed,
                        body.truncated)
        ELSE Rejected("ErrUnsupportedTier")

-----------------------------------------------------------------------------
\* The exit code 0 of "bdev inspect".
Clean(info) == info.err = "nil" /\ info.BadBlocks = {} /\ ~info.Truncated
=============================================================================
