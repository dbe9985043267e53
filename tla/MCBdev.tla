------------------------------- MODULE MCBdev -------------------------------
(* Instance of Bdev for TLC: images of two blocks, and a shorter one.        *)
EXTENDS Bdev, TLC

CONSTANTS c1, c2, c3, p1, p2

Two(a, b) == [len |-> 2, blk |-> (0 :> a @@ 1 :> b)]
One(a)    == [len |-> 1, blk |-> (0 :> a @@ 1 :> NoData)]
MCImages  == [base |-> {Two(c1, c1), One(c1)}, mod |-> {Two(c2, c2), Two(c2, c3)}]

MCSymmetry == Permutations(Proc)
=============================================================================
