--------------------------- MODULE MCBlockDevice ---------------------------
(* Instances of BlockDevice for TLC. *)
EXTENDS BlockDevice, TLC

CONSTANTS d1, d2, h1, h2, h3

\* Neighbouring blocks of the base hold different content.
MCBase == [b \in Block |-> b % 2]

\* Two devices, one block per call: the two blocks, the end of the base, an
\* offset near MaxInt and a negative one.
MCOffsetTwo == {0, 2, 4, 6, -2}
MCLengthTwo == {2}

\* One device, several blocks per call: aligned and unaligned arguments, both
\* ends of int64, and off+n past MaxInt.
MCOffsetOne == {-(MaxInt + 1), 0, 1, 2, 4, 6}
MCLengthOne == {0, 2, 3, 4}

MCSymmetry == Permutations(Heap) \cup Permutations(Device)
=============================================================================
