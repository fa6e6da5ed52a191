---------------------------- MODULE MCTask2Alloc ----------------------------
(* Every request for up to four tasks and three persons. *)
EXTENDS Task2Alloc

MCNumbers == 0..4

=============================================================================
