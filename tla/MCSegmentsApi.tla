--------------------------- MODULE MCSegmentsApi ---------------------------
(* SegmentsApi for TLC: requests are interchangeable.                      *)
EXTENDS SegmentsApi, TLC

RequestSymmetry == Permutations(Requests)

=============================================================================
