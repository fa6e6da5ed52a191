------------------------- MODULE MCTask5Concurrent -------------------------
(* The pool under overlapping requests of different people, each cut off   *)
(* anywhere.  A labeller sends one request at a time (Clicks = {1}).       *)
EXTENDS Task5Pool, TLC

CONSTANTS s1, s2

MCBatches == {<<[session |-> s1, version |-> 1]>>,
              <<[session |-> s2, version |-> 1]>>}
MCMayAbort == {"findSessions", "findTask", "decrement", "insert",
               "increment", "removeOther", "removeReturned"}
MCSymmetry == Permutations(Users) \cup Permutations(Docs) \cup Permutations(Copies)
                \cup Permutations(Deleters)

=============================================================================
