----------------------------- MODULE SlotLedger -----------------------------
(***************************************************************************)
(* What the session pool promises, request by request: every task has a    *)
(* fixed number of claims; a claim takes one, deleting an unfinished copy  *)
(* gives one back, a finished copy uses its claim up for good, and a claim *)
(* that is cut off after it took its slot forfeits it.                     *)
(***************************************************************************)
EXTENDS Integers

CONSTANTS Tasks, Copies, Unpublished, Nobody

VARIABLES
  free,  \* claims left on each task, or Unpublished
  held   \* the task each copy was claimed from and whether it is handed in

vars == <<free, held>>

Init ==
  /\ free = [t \in Tasks |-> Unpublished]
  /\ held = [c \in Copies |-> Nobody]

Publish ==
  /\ free' \in [Tasks -> Nat \cup {Unpublished}]
  /\ \A t \in Tasks : free[t] # Unpublished => free'[t] = free[t]
  /\ UNCHANGED held

Take(t) ==
  /\ free[t] # Unpublished
  /\ free[t] > 0
  /\ free' = [free EXCEPT ![t] = @ - 1]

Claim(t, c) ==
  /\ Take(t)
  /\ held[c] = Nobody
  /\ held' = [held EXCEPT ![c] = [task |-> t, done |-> FALSE]]

Forfeit(t) == Take(t) /\ UNCHANGED held

HandIn(c) ==
  /\ held[c] # Nobody
  /\ held' = [held EXCEPT ![c].done = TRUE]
  /\ UNCHANGED free

GiveBack(c) ==
  /\ held[c] # Nobody
  /\ ~held[c].done
  /\ held' = [held EXCEPT ![c] = Nobody]
  /\ free' = [free EXCEPT ![held[c].task] = @ + 1]

Retire(c) ==
  /\ held[c] # Nobody
  /\ held[c].done
  /\ held' = [held EXCEPT ![c] = Nobody]
  /\ UNCHANGED free

Next ==
  \/ Publish
  \/ \E t \in Tasks : Forfeit(t) \/ \E c \in Copies : Claim(t, c)
  \/ \E c \in Copies : HandIn(c) \/ GiveBack(c) \/ Retire(c)

Spec == Init /\ [][Next]_vars

=============================================================================
