---------------------------- MODULE MCIndexBatch ----------------------------
(* Model-checking instance of IndexBatch: two writers, two keys.           *)
EXTENDS IndexBatch
CONSTANTS w1, w2, k1, k2, v1, Empty
=============================================================================
