------------------------- MODULE MCReceiveWithHub -------------------------
(* Model-checking instance of ReceiveWithHub: receivers of one blob, one  *)
(* mirror partition, subscribers with a queue of one event.               *)
EXTENDS ReceiveWithHub, TLC

CONSTANTS r1, r2, b1, p1, s1, s2

MCOneMirrorLists == {<<>>, <<p1>>}
MCSize == [d \in {b1, Garbage, Partial} |-> IF d = Partial THEN 1 ELSE 2]
=============================================================================
