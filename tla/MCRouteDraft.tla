---------------------------- MODULE MCRouteDraft ----------------------------
(***************************************************************************)
(* RouteDraft on small instances.                                          *)
(***************************************************************************)
EXTENDS RouteDraft, TLC

PointSymmetry == Permutations(Points)

=============================================================================
