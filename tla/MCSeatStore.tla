---------------------------- MODULE MCSeatStore ----------------------------
(* Two seats, an orderly call and one that is not, two requests at a time. *)
EXTENDS SeatStore, TLC

Symmetry == Permutations(Seats) \cup Permutations(Slots)

=============================================================================
