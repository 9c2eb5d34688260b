--------------------------- MODULE MCLiveVerifier ---------------------------
(* LiveVerifier for TLC: sizes of rows, and resolvers.                     *)
EXTENDS LiveVerifier

CONSTANT Heavy

MCBytes == [b \in Bodies \cup {Seed} |-> IF b = Heavy THEN 2 ELSE 1]

=============================================================================
