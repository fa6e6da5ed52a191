---------------------------- MODULE Task4Review ----------------------------
(***************************************************************************)
(* The life of a labelling task of version 4 (service/task4.go): uploaded, *)
(* given to a labeller, handed in, given to a checker, judged, reset.      *)
(*                                                                         *)
(* Workers change statuses with one filtered UpdateMany.  Managers         *)
(* allocate with a read followed by writes that name the tasks by _id and  *)
(* filter nothing else, so whatever happens in between is overwritten.     *)
(* MongoDB updates the documents of an UpdateMany one by one, each with    *)
(* its own filter: a step below touches one document.                      *)
(*                                                                         *)
(* The code does not tie a status to the role of the user who sends it;    *)
(* neither does SetStatus.  A status outside its maps would get no source  *)
(* filter; it is taken that nobody sends one.  UpdateTask4 writes only the *)
(* output of a task and is left out.                                       *)
(***************************************************************************)
EXTENDS Integers, FiniteSets

CONSTANTS
  Tasks,     \* task ids of one project
  Users,     \* who may label and check
  Managers,  \* slots for manager requests that may overlap
  Numbers,   \* values of req.Number
  Nobody     \* no person: the field is missing, or holds Person{}

ASSUME ReviewAssumption ==
  /\ Numbers \subseteq Nat \ {0}
  /\ Nobody \notin Users
  /\ IsFiniteSet(Tasks)
  /\ IsFiniteSet(Users)

VARIABLES
  task,     \* CollectionTask4
  manager   \* requests being served for managers

vars == <<task, manager>>

-----------------------------------------------------------------------------
Statuses == {"allocate", "labeling", "submit", "checking", "passed", "failed"}
Person == Users \cup {Nobody}
Task4 == [status : Statuses \cup {"absent", "deleted"},
          labeler : Person, checker : Person]

Stored == {t \in Tasks : task[t].status \in Statuses}

Idle == [at |-> "idle"]
IsRequest(r) ==
  \/ r = Idle
  \/ r \in [at : {"find"}, persons : SUBSET Users, share : Nat]
  \/ r \in [at : {"write"}, persons : SUBSET Users, share : Nat,
            person : Users, ids : SUBSET Tasks]
  \/ /\ r = [at |-> "check", found |-> r.found, load |-> r.load,
             share |-> r.share, left |-> r.left]
     /\ DOMAIN r.found \subseteq Tasks /\ r.found \in [DOMAIN r.found -> Person]
     /\ DOMAIN r.load \subseteq Users /\ r.load \in [DOMAIN r.load -> Nat]
     /\ r.share \in Nat /\ r.left \in Nat \ {0}

Init ==
  /\ task = [t \in Tasks |->
               [status |-> "absent", labeler |-> Nobody, checker |-> Nobody]]
  /\ manager = [m \in Managers |-> Idle]

-----------------------------------------------------------------------------
UploadTask4(m, t) ==
  /\ manager[m] = Idle
  /\ task[t].status = "absent"
  /\ task' = [task EXCEPT ![t].status = "allocate"]
  /\ UNCHANGED manager

DeleteTask4(m, t) ==
  /\ manager[m] = Idle
  /\ t \in Stored
  /\ task' = [task EXCEPT ![t] = [status |-> "deleted", labeler |-> Nobody,
                                  checker |-> Nobody]]
  /\ UNCHANGED manager

\* Slip: the checker keeps the task.
ResetLabelerOnly(m, t) ==
  /\ manager[m] = Idle
  /\ t \in Stored
  /\ task[t].labeler # Nobody
  /\ task' = [task EXCEPT ![t].status = "allocate", ![t].labeler = Nobody]
  /\ UNCHANGED manager

\* ResetType 0: the labellers in req.Persons lose the task and so does
\* its checker.
ResetLabeler(m, t) ==
  /\ manager[m] = Idle
  /\ t \in Stored
  /\ task[t].labeler # Nobody
  /\ task' = [task EXCEPT ![t] = [status |-> "allocate", labeler |-> Nobody,
                                  checker |-> Nobody]]
  /\ UNCHANGED manager

\* ResetType 1: the checkers in req.Persons lose the task.
ResetChecker(m, t) ==
  /\ manager[m] = Idle
  /\ t \in Stored
  /\ task[t].checker # Nobody
  /\ task' = [task EXCEPT ![t].status = "submit", ![t].checker = Nobody]
  /\ UNCHANGED manager

-----------------------------------------------------------------------------
(* BatchSetTask4Status.  A page of work type 0 is a manager's. *)

NormalStatusMap ==
  [failed   |-> {"checking", "passed", "failed"},
   passed   |-> {"checking", "passed", "failed"},
   checking |-> {"submit", "failed"},
   submit   |-> {"labeling", "submit", "failed"}]
SpecialStatusMap ==
  [failed   |-> {"checking", "passed", "submit"},
   passed   |-> {"checking", "passed", "submit"},
   checking |-> {"failed"},
   submit   |-> {"labeling", "allocate", "failed"}]

SetStatus(u, t, s) ==
  /\ t \in Stored
  /\ u \in {task[t].labeler, task[t].checker}
  /\ task[t].status \in NormalStatusMap[s]
  /\ task' = [task EXCEPT ![t].status = s]
  /\ UNCHANGED manager

SetStatusAsManager(m, t, s) ==
  /\ manager[m] = Idle
  /\ t \in Stored
  /\ task[t].status \in SpecialStatusMap[s]
  /\ task' = [task EXCEPT ![t].status = s]
  /\ UNCHANGED manager

-----------------------------------------------------------------------------
(* Task4BatchAllocLabeler: count the free tasks once, then for every       *)
(* person find a share of them and write its labeller.                     *)

AtLeastOne(n) == IF n < 1 THEN 1 ELSE n

\* Slip: tasks being labelled are free as well.
NotHandedIn == {t \in Stored : task[t].status \in {"allocate", "labeling"}}

Unallocated ==
  {t \in Stored : task[t].status = "allocate" /\ task[t].labeler = Nobody}

AllocLabelerCount(m, persons, number) ==
  LET count == Cardinality(Unallocated) IN
  /\ manager[m] = Idle
  /\ manager' = [manager EXCEPT ![m] =
       [at |-> "find", persons |-> persons,
        share |-> AtLeastOne((IF count > number THEN number ELSE count)
                               \div Cardinality(persons))]]
  /\ UNCHANGED task

NextPerson(persons, share) ==
  IF persons = {} THEN Idle
  ELSE [at |-> "find", persons |-> persons, share |-> share]

\* SetLimit(share): as many free tasks as there are, up to the share.
AllocLabelerFind(m) ==
  LET req == manager[m] IN
  /\ req.at = "find"
  /\ \E p \in req.persons, ids \in SUBSET Unallocated :
       /\ \/ Cardinality(ids) = req.share
          \/ Cardinality(ids) < req.share /\ ids = Unallocated
       /\ manager' = [manager EXCEPT ![m] =
            IF ids = {} THEN NextPerson(req.persons \ {p}, req.share)
            ELSE [at |-> "write", persons |-> req.persons \ {p},
                  share |-> req.share, person |-> p, ids |-> ids]]
  /\ UNCHANGED task

AllocLabelerWrite(m) ==
  LET req == manager[m] IN
  /\ req.at = "write"
  /\ \E t \in req.ids :
       /\ task' = IF t \in Stored
                  THEN [task EXCEPT ![t].labeler = req.person,
                                    ![t].status = "labeling"]
                  ELSE task
       /\ manager' = [manager EXCEPT ![m] =
            IF req.ids = {t} THEN NextPerson(req.persons, req.share)
            ELSE [req EXCEPT !.ids = @ \ {t}]]

-----------------------------------------------------------------------------
(* Task4BatchAllocChecker: find the tasks handed in, then give each to the *)
(* least loaded person who was not its labeller when it was found.  The    *)
(* order of the tasks found is arbitrary; a task nobody may take is passed *)
(* over, and since loads only grow nobody may take it later either.        *)

\* Slip: the labeller is not left out.
EligibleLabeler(req, t) == {p \in DOMAIN req.load : req.load[p] # req.share}

Eligible(req, t) ==
  {p \in DOMAIN req.load : p # req.found[t] /\ req.load[p] # req.share}

LeastLoaded(req, t) ==
  {p \in Eligible(req, t) : \A q \in Eligible(req, t) : req.load[p] <= req.load[q]}

AnyTask(req) ==
  IF req.left > 0 /\ \E t \in DOMAIN req.found : Eligible(req, t) # {}
  THEN req ELSE Idle

\* The request after task t went to person p.
Given(req, t, p) ==
  [at |-> "check",
   found |-> [e \in DOMAIN req.found \ {t} |-> req.found[e]],
   load |-> [req.load EXCEPT ![p] = @ + 1],
   share |-> req.share, left |-> req.left - 1]

AllocCheckerFind(m, persons, number) ==
  LET handedIn == {t \in Stored : task[t].status = "submit"} IN
  /\ manager[m] = Idle
  /\ manager' = [manager EXCEPT ![m] = AnyTask(
       [at |-> "check", found |-> [t \in handedIn |-> task[t].labeler],
        load |-> [p \in persons |-> 0], left |-> number,
        share |-> AtLeastOne(number \div Cardinality(persons))])]
  /\ UNCHANGED task

AllocCheckerWrite(m) ==
  LET req == manager[m] IN
  /\ req.at = "check"
  /\ \E t \in DOMAIN req.found : \E p \in LeastLoaded(req, t) :
       /\ task' = IF t \in Stored
                  THEN [task EXCEPT ![t].checker = p, ![t].status = "checking"]
                  ELSE task
       /\ manager' = [manager EXCEPT ![m] = AnyTask(Given(req, t, p))]

\* A call fails, the client goes away, or the server stops: the calls made
\* so far stay.
Abort(m) ==
  /\ manager[m] # Idle
  /\ manager' = [manager EXCEPT ![m] = Idle]
  /\ UNCHANGED task

-----------------------------------------------------------------------------
Working(u) ==
  \E t \in Tasks, s \in DOMAIN NormalStatusMap : SetStatus(u, t, s)

Managing(m) ==
  \/ \E t \in Tasks :
       \/ UploadTask4(m, t)
       \/ DeleteTask4(m, t)
       \/ ResetLabeler(m, t)
       \/ ResetChecker(m, t)
       \/ \E s \in DOMAIN SpecialStatusMap : SetStatusAsManager(m, t, s)
  \/ \E persons \in (SUBSET Users) \ {{}}, number \in Numbers :
       \/ AllocLabelerCount(m, persons, number)
       \/ AllocCheckerFind(m, persons, number)
  \/ AllocLabelerFind(m)
  \/ AllocLabelerWrite(m)
  \/ AllocCheckerWrite(m)
  \/ Abort(m)

Next == (\E u \in Users : Working(u)) \/ (\E m \in Managers : Managing(m))

Spec == Init /\ [][Next]_vars

-----------------------------------------------------------------------------
(* Properties. *)

\* Tasks and requests have the shape the handlers give them.
TypeOK ==
  /\ task \in [Tasks -> Task4]
  /\ DOMAIN manager = Managers
  /\ \A m \in Managers : IsRequest(manager[m])

\* Nobody checks his own labelling (task4.go:857 标注员和审核员不能是同一人):
\* Task4BatchAllocChecker decides this from what it found, and writes later.
CheckerNotLabeler ==
  \A t \in Tasks : task[t].checker # Nobody => task[t].checker # task[t].labeler

\* The status says who holds the task: 未分配 nobody, 待标注 its labeller
\* alone.  No sequence of status changes, resets and allocations leaves a
\* labeller's or a checker's name on a task that is to be given out again.
HeldByStatus ==
  \A t \in Tasks :
    /\ task[t].status = "allocate" =>
         task[t].labeler = Nobody /\ task[t].checker = Nobody
    /\ task[t].status = "labeling" =>
         task[t].labeler # Nobody /\ task[t].checker = Nobody

\* An allocation never takes a task from one labeller to give it to another,
\* and a labeller loses a task only to 未分配 or to its deletion.
NoStolenWork ==
  [][\A t \in Tasks :
       task[t].labeler # Nobody /\ task'[t].labeler # task[t].labeler
       => task'[t].labeler = Nobody /\ task'[t].status \in {"allocate", "deleted"}]_task

\* A task that was not handed in is never under review: the snapshot of
\* Task4BatchAllocChecker does not outlive the hand-in it saw.
NoReviewBeforeHandIn ==
  [][\A t \in Tasks :
       task[t].status \in {"allocate", "labeling"}
       => task'[t].status \in {"allocate", "labeling", "submit", "deleted"}]_task

=============================================================================
