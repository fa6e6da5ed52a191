----------------------------- MODULE Task2Alloc -----------------------------
(***************************************************************************)
(* Task2BatchAllocChecker (service/task2.go): share the tasks handed in    *)
(* among checkers so that nobody checks his own.  A counter (counter.go)   *)
(* holds, for every person not served yet, how many of the tasks still to  *)
(* be given are his own; the person with most of them is served next,      *)
(* because for him the fewest tasks are left to choose from.               *)
(*                                                                         *)
(* The loop walks the tasks in the order the database returned them, and   *)
(* the map of the counter has no order: both orders are arbitrary here.    *)
(* One request runs; those it races with are the subject of Task4Review.   *)
(***************************************************************************)
EXTENDS Integers, FiniteSets

CONSTANTS
  Tasks,     \* task ids
  Users,     \* labellers and checkers
  Numbers,   \* values of req.Number, the ones refused included
  Unserved   \* no person is being served

ASSUME AllocAssumption ==
  /\ IsFiniteSet(Tasks)
  /\ IsFiniteSet(Users)
  /\ Numbers \subseteq Int
  /\ Unserved \notin Users

VARIABLES
  phase,    \* "start", "share", "save", then "done", "refused" or "failed"
  number,   \* req.Number
  persons,  \* req.Persons
  labeler,  \* the labeller of every task found, handed in and without checker
  counter,  \* checkerTaskCounter
  left,     \* tasks not given to anybody yet
  serving,  \* the person popped last
  given,    \* personTasks
  saved     \* permissions.checker and 待审核 written, by task

vars == <<phase, number, persons, labeler, counter, left, serving, given, saved>>

-----------------------------------------------------------------------------
LabeledBy(p, S) == {t \in S : labeler[t] = p}

Total == Cardinality(UNION {given[p] : p \in persons})
MaxCount == IF number \div Cardinality(persons) < 1 THEN 1
            ELSE number \div Cardinality(persons)

Init ==
  /\ phase = "start"
  /\ number \in Numbers
  /\ persons \in SUBSET Users
  /\ labeler \in UNION {[S -> Users] : S \in SUBSET Tasks}
  /\ counter = [p \in {} |-> 0]
  /\ left = {}
  /\ serving = Unserved
  /\ given = [p \in persons |-> {}]
  /\ saved = {}

\* The early returns: a bad number, nobody to check, nothing to check.
Refuse ==
  /\ phase = "start"
  /\ number <= 0 \/ persons = {} \/ DOMAIN labeler = {}
  /\ phase' = "refused"
  /\ UNCHANGED <<number, persons, labeler, counter, left, serving, given, saved>>

\* Count every person's own tasks (IncIfExists).
Count ==
  /\ phase = "start"
  /\ number > 0 /\ persons # {} /\ DOMAIN labeler # {}
  /\ phase' = "share"
  /\ left' = DOMAIN labeler
  /\ counter' = [p \in persons |-> Cardinality(LabeledBy(p, DOMAIN labeler))]
  /\ UNCHANGED <<number, persons, labeler, serving, given, saved>>

\* Slips: own tasks are taken too; the tasks of every checker are avoided.
TakeableOwn(p) ==
  IF Total = number \/ Cardinality(given[p]) = MaxCount THEN {} ELSE left
TakeableOfOthers(p) ==
  IF Total = number \/ Cardinality(given[p]) = MaxCount THEN {}
  ELSE {t \in left : labeler[t] \notin persons}

\* The person being served takes one more task, one he did not label.
Takeable(p) ==
  IF Total = number \/ Cardinality(given[p]) = MaxCount THEN {}
  ELSE left \ LabeledBy(p, left)

\* Slip: the counter of the labeller is not lowered.
TakeUncounted(t) ==
  /\ phase = "share"
  /\ serving # Unserved
  /\ t \in Takeable(serving)
  /\ given' = [given EXCEPT ![serving] = @ \cup {t}]
  /\ left' = left \ {t}
  /\ UNCHANGED <<phase, number, persons, labeler, counter, serving, saved>>

Take(t) ==
  /\ phase = "share"
  /\ serving # Unserved
  /\ t \in Takeable(serving)
  /\ given' = [given EXCEPT ![serving] = @ \cup {t}]
  /\ left' = left \ {t}
  /\ counter' = [p \in DOMAIN counter |->
                   IF p = labeler[t] THEN counter[p] - 1 ELSE counter[p]]
  /\ UNCHANGED <<phase, number, persons, labeler, serving, saved>>

NobodyTakes == serving # Unserved => Takeable(serving) = {}

\* Slip: the person popped stays in the counter.
PeekMax(p) ==
  /\ phase = "share"
  /\ NobodyTakes
  /\ Total # number
  /\ p \in DOMAIN counter
  /\ \A q \in DOMAIN counter : counter[q] <= counter[p]
  /\ serving' = p
  /\ UNCHANGED <<phase, number, persons, labeler, counter, left, given, saved>>

\* PopMax: the next person, one with the largest count above -1.
PopMax(p) ==
  /\ phase = "share"
  /\ NobodyTakes
  /\ Total # number
  /\ p \in DOMAIN counter
  /\ counter[p] > -1
  /\ \A q \in DOMAIN counter : counter[q] <= counter[p]
  /\ serving' = p
  /\ counter' = [q \in DOMAIN counter \ {p} |-> counter[q]]
  /\ UNCHANGED <<phase, number, persons, labeler, left, given, saved>>

ToSave == {p \in persons : given[p] # {} /\ ~ given[p] \subseteq saved}

\* Slip: the loop ends after the first person.
SharedWithOne ==
  /\ phase = "share"
  /\ NobodyTakes
  /\ serving # Unserved
  /\ phase' = IF Total = 0 THEN "failed" ELSE "save"
  /\ UNCHANGED <<number, persons, labeler, counter, left, serving, given, saved>>

Shared ==
  /\ phase = "share"
  /\ NobodyTakes
  /\ Total = number \/ DOMAIN counter = {}
  /\ phase' = IF Total = 0 THEN "failed" ELSE "save"
  /\ UNCHANGED <<number, persons, labeler, counter, left, serving, given, saved>>

\* One UpdateMany per person; the loop ends, or a call fails and the rest
\* stays as it was.
Save(p) ==
  /\ phase = "save"
  /\ p \in ToSave
  /\ saved' = saved \cup given[p]
  /\ UNCHANGED <<phase, number, persons, labeler, counter, left, serving, given>>

Finish ==
  /\ phase = "save"
  /\ phase' = IF ToSave = {} THEN "done" ELSE "failed"
  /\ UNCHANGED <<number, persons, labeler, counter, left, serving, given, saved>>

Next ==
  \/ Refuse
  \/ Count
  \/ \E t \in Tasks : Take(t)
  \/ \E p \in Users : PopMax(p)
  \/ Shared
  \/ \E p \in Users : Save(p)
  \/ Finish

\* The loops of the handler run on by themselves.
Spec == Init /\ [][Next]_vars /\ WF_vars(Next)

-----------------------------------------------------------------------------
(* Properties. *)

\* Every variable of the handler has its type.
TypeOK ==
  /\ phase \in {"start", "share", "save", "done", "refused", "failed"}
  /\ number \in Int
  /\ persons \subseteq Users
  /\ DOMAIN labeler \subseteq Tasks /\ labeler \in [DOMAIN labeler -> Users]
  /\ DOMAIN counter \subseteq persons /\ counter \in [DOMAIN counter -> Nat]
  /\ left \subseteq DOMAIN labeler
  /\ serving \in persons \cup {Unserved}
  /\ given \in [persons -> SUBSET DOMAIN labeler]
  /\ saved \subseteq DOMAIN labeler

\* The counter never drifts: after any number of IncIfExists and PopMax it
\* still is the number of own tasks left, for everyone not served yet.
CounterExact ==
  phase = "share" =>
    \A p \in DOMAIN counter : counter[p] = Cardinality(LabeledBy(p, left))

\* Nobody checks his own labelling (标注员和审核员不能是同一人), no task has
\* two checkers, and no person gets more than his share.
FairShare ==
  /\ \A p \in persons : \A t \in given[p] : labeler[t] # p /\ t \notin left
  /\ \A p, q \in persons : p # q => given[p] \cap given[q] = {}
  /\ \A p \in persons : given[p] # {} => Cardinality(given[p]) <= MaxCount
  /\ phase \in {"share", "save", "done"} => Total <= number

\* When the loop ends, a task is left over only if everyone who could still
\* take one labelled it himself, or the number asked for is reached.  (Another
\* sharing may give out more: one served early may take what a later one needs.)
NothingLeftBehind ==
  phase \in {"save", "done"} /\ Total < number =>
    \A p \in persons : \A t \in left :
      Cardinality(given[p]) < MaxCount => labeler[t] = p

\* The failure 标注员和审核员不能是同一人 is reported only when it is so: the
\* one person asked labelled everything there is to check.
HonestFailure ==
  phase = "failed" /\ Total = 0 =>
    \A p \in persons : \A t \in DOMAIN labeler : labeler[t] = p

\* The request is answered.
Answered == <>(phase \in {"done", "refused", "failed"})

=============================================================================
