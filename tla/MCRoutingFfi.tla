--------------------------- MODULE MCRoutingFfi ---------------------------
(* Calls of two threads for TLC.                                           *)
EXTENDS RoutingFfi, TLC

(* Invariants alone are checked: threads, packs, storage and addresses may *)
(* trade places.                                                           *)
Symmetry ==
    Permutations(Threads) \cup Permutations(Packs) \cup Permutations(Slots)
      \cup Permutations(Addresses)

=============================================================================
