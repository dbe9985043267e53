---------------------------- MODULE PauseInspect ----------------------------
(***************************************************************************)
(* Inspect and Deserialize judge the same blob with two copies of the same *)
(* rules. Their verdicts are compared in the states of PauseResume.        *)
(***************************************************************************)
EXTENDS PauseResume, DeltaInspect

\* Every index in the body that counts, a cut-off one's included, is one of
\* the base; of records with a CRC those that verify do.
IndicesInBase ==
    /\ \A i \in 1 .. Len(blob.recs) :
          blob.tier = TierL0 \/ Verifies(blob.recs[i], TierL1) => InBase(blob.recs[i].idx, base)
    /\ blob.tail.kind = "index" => InBase(blob.tail.idx, base)

\* Inspect and Deserialize agree on whether a blob is usable and whether it
\* is whole, though they judge it with different code: what Inspect rejects
\* Deserialize rejects, what Deserialize takes without an error Inspect calls
\* clean, and both conversely when the base has the blocks the blob names.
InspectAgrees ==
    phase = "resumed" =>
        LET info == Inspect(blob)
        IN  /\ info.err = "ErrCorrupt" => res.err = "ErrCorrupt"
            /\ res.err = "nil" => Clean(info)
            /\ IndicesInBase =>
                  /\ res.err = "ErrCorrupt" => info.err = "ErrCorrupt"
                  /\ Clean(info) => res.err = "nil"

\* Inspect reports at least the loss Deserialize reports: every block that is
\* blamed, and Truncated when the base is not the reason for it.
InspectReportsLoss ==
    phase = "resumed" =>
        LET info == Inspect(blob)
        IN  /\ info \in Info
            /\ res.bad \subseteq info.BadBlocks
            /\ res.truncated /\ IndicesInBase => info.Truncated
=============================================================================
