--------------------------- MODULE MCTask5Serial ---------------------------
(* The pool served one request at a time: any request may be cut off, save *)
(* a deletion that has returned its slot.                                  *)
EXTENDS Task5Pool

CONSTANTS s1, s2

MCBatches == {<<[session |-> s1, version |-> 1]>>,
              <<[session |-> s2, version |-> 1], [session |-> s1, version |-> 0]>>}
MCMayAbort == {"findSessions", "findTask", "decrement", "insert",
               "increment", "removeOther"}

=============================================================================
