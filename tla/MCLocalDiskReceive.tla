------------------------- MODULE MCLocalDiskReceive -------------------------
(* Model-checking instance of LocalDiskReceive: two receivers, one blob    *)
(* (calls interact only through a shared blob's names), two partitions.   *)
EXTENDS LocalDiskReceive, TLC

CONSTANTS r1, r2, r3, b1, p1, p2

MCMirrorLists == {<<>>, <<p1>>, <<p1, p2>>}
MCOneMirrorLists == {<<>>, <<p1>>}
MCRetryMirrorLists == {<<p1>>}

(* The corrupt bytes have the blob's length (a flipped bit), a torn file   *)
(* is shorter: the post-rename size check tells torn data apart only.      *)
MCSize == [d \in {b1, Garbage, Partial} |-> IF d = Partial THEN 1 ELSE 2]

ReceiverSymmetry == Permutations(Receivers)
=============================================================================
