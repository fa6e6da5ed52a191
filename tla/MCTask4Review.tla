--------------------------- MODULE MCTask4Review ---------------------------
(* Instances of Task4Review for TLC: one manager request at a time and two. *)
EXTENDS Task4Review, TLC

Symmetry == Permutations(Tasks) \cup Permutations(Users)

=============================================================================
