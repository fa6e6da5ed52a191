------------------------------ MODULE TaskLife ------------------------------
(***************************************************************************)
(* What every version of a labelling task promises: it is given out while  *)
(* it is free, handed in (by whom is not said here), reviewed by somebody  *)
(* else after it was handed in, and taken from its holder only by making   *)
(* it free again or by deleting it.  The promise is suspended for a task   *)
(* that was written on the strength of a read that no longer held, until   *)
(* the task is made free.                                                  *)
(***************************************************************************)
CONSTANTS Tasks, Users, Nobody

VARIABLE
  life   \* by task: the stage it is at, who holds it, who reviews it

Present == {"free", "held", "handed", "review", "suspended"}

At(stage, holder, reviewer) ==
  [stage |-> stage, holder |-> holder, reviewer |-> reviewer]

Init == life = [t \in Tasks |-> At("none", Nobody, Nobody)]

\* Task t, at one of the stages in from, comes to be now.
Move(t, from, now) == life[t].stage \in from /\ life'[t] = now

Upload(t) == Move(t, {"none"}, At("free", Nobody, Nobody))

Give(t) ==
  \E u \in Users : Move(t, {"none", "free"}, At("held", u, Nobody))

\* A manager may hand in a task that nobody holds.
HandIn(t) ==
  Move(t, {"free", "held"}, At("handed", life[t].holder, Nobody))

Review(t) ==
  \E u \in (Users \cup {Nobody}) \ ({life[t].holder} \cap Users) :
    Move(t, {"handed"}, At("review", life[t].holder, u))

Free(t) == Move(t, Present, At("free", Nobody, Nobody))

Remove(t) == Move(t, Present, At("gone", Nobody, Nobody))

Suspend(t) == Move(t, Present, At("suspended", Nobody, Nobody))

\* One task moves at a time.
Next ==
  \E t \in Tasks :
    /\ life'[t] # life[t]
    /\ \A o \in Tasks \ {t} : life'[o] = life[o]
    /\ \/ Upload(t) \/ Give(t) \/ HandIn(t) \/ Review(t)
       \/ Free(t) \/ Remove(t) \/ Suspend(t)

Spec == Init /\ [][Next]_life

=============================================================================
