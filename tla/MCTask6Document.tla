-------------------------- MODULE MCTask6Document --------------------------
(* Two pages, three requests on their way, two versions. *)
EXTENDS Task6Document, TLC

Symmetry == Permutations(Pages) \cup Permutations(Requests) \cup Permutations(Contents)

=============================================================================
