---------------------------- MODULE TaskVersions ----------------------------
(***************************************************************************)
(* The lives of the labelling tasks of versions 1, 2, 3, 5 and 6           *)
(* (service/task.go, task2.go, task3.go, task5.go, task6.go): five         *)
(* programs of one plan that differ in who may set which status from       *)
(* which, in what a reset clears and in which tasks an allocation finds.   *)
(* Version 4 has a module of its own, Task4Review; so have the session     *)
(* pool of version 5 (its copies enter here when they are claimed), the    *)
(* order in which version 2 serves checkers (here any order) and the       *)
(* contents of version 6.                                                  *)
(*                                                                         *)
(* Labelling and checking in version 1, editing, and all allocations read  *)
(* first and then write by _id, with no filter on what they read.          *)
(* overtaken, a history variable, holds the tasks that such a write hit    *)
(* after they had changed; making a task free again takes it out.          *)
(*                                                                         *)
(* Only the statuses the pages send are sent: 已提交, 待审核, 已审核 and   *)
(* 审核不通过 where the version's map names them, 已提交 in version 3.     *)
(***************************************************************************)
EXTENDS Integers, FiniteSets

CONSTANTS
  Versions,  \* versions of the program to look at
  Tasks,     \* task ids of one project
  Users,     \* who may label and check
  Requests,  \* slots for requests that read and then write
  Numbers,   \* values of req.Number
  Nobody     \* no person; as a sender, a manager

ASSUME VersionsAssumption ==
  /\ Versions \subseteq {"v1", "v2", "v3", "v5", "v6"}
  /\ Numbers \subseteq Nat \ {0}
  /\ Nobody \notin Users
  /\ IsFiniteSet(Tasks)
  /\ IsFiniteSet(Users)

VARIABLES
  version,   \* the version of the program
  task,      \* CollectionTask of that version, of version 5 the copies
  author,    \* whose labelling its contents are
  request,   \* requests between their read and their last write
  overtaken  \* tasks written on the strength of an outdated read

vars == <<version, task, author, request, overtaken>>

-----------------------------------------------------------------------------
Reviewed == {"checking", "passed", "failed"}
Statuses == {"allocate", "labeling", "submit"} \cup Reviewed
Person == Users \cup {Nobody}
Record == [status : Statuses \cup {"absent", "deleted"},
           labeler : Person, checker : Person]

Blank(s) == [status |-> s, labeler |-> Nobody, checker |-> Nobody]
Idle == [at |-> "idle"]

Stored == {t \in Tasks : task[t].status \in Statuses}
Holders(t) == {task[t].labeler, task[t].checker} \ {Nobody}

Init ==
  /\ version \in Versions
  /\ task = [t \in Tasks |-> Blank("absent")]
  /\ author = [t \in Tasks |-> Nobody]
  /\ request = [r \in Requests |-> Idle]
  /\ overtaken = {}

\* A write by _id decided on record seen: of a deleted task it finds nothing.
Write(t, seen, rec) ==
  /\ task' = IF t \in Stored THEN [task EXCEPT ![t] = rec] ELSE task
  /\ overtaken' = IF t \in Stored /\ task[t] # seen
                  THEN overtaken \cup {t} ELSE overtaken

Insert(t, rec) ==
  /\ task[t].status = "absent"
  /\ task' = [task EXCEPT ![t] = rec]
  /\ UNCHANGED <<version, author, request, overtaken>>

Remove(t) ==
  /\ t \in Stored
  /\ task' = [task EXCEPT ![t] = Blank("deleted")]
  /\ author' = [author EXCEPT ![t] = Nobody]
  /\ overtaken' = overtaken \ {t}
  /\ UNCHANGED <<version, request>>

\* One filtered update of the status alone.
SetStatus(t, from, s) ==
  /\ t \in Stored
  /\ task[t].status \in from
  /\ task' = [task EXCEPT ![t].status = s]
  /\ UNCHANGED <<version, author, request, overtaken>>

\* The people and the status go, the contents stay.
Release(t) ==
  /\ t \in Stored
  /\ task' = [task EXCEPT ![t] = Blank("allocate")]
  /\ overtaken' = overtaken \ {t}
  /\ UNCHANGED <<version, author, request>>

-----------------------------------------------------------------------------
(* Sharing tasks out to labellers: count the tasks that match the filter,  *)
(* then for every person find a share of them and write them by _id.       *)

Free ==
  {t \in Stored : /\ task[t].labeler = Nobody
                  /\ version = "v6" => task[t].status = "allocate"}

AtLeastOne(n) == IF n < 1 THEN 1 ELSE n
Least(a, b) == IF a < b THEN a ELSE b

ShareOut(r, persons, number) ==
  /\ request[r] = Idle
  /\ request' = [request EXCEPT ![r] =
       [at |-> "find", persons |-> persons,
        share |-> AtLeastOne(Least(Cardinality(Free), number)
                               \div Cardinality(persons))]]
  /\ UNCHANGED <<version, task, author, overtaken>>

AllocateTasks(r, persons, number) ==
  version = "v1" /\ ShareOut(r, persons, number)
Task2BatchAllocLabeler(r, persons, number) ==
  version = "v2" /\ ShareOut(r, persons, number)
Task3BatchAllocLabeler(r, persons, number) ==
  version = "v3" /\ ShareOut(r, persons, number)
Task6BatchAllocLabeler(r, persons, number) ==
  version = "v6" /\ ShareOut(r, persons, number)

NextPerson(persons, share) ==
  IF persons = {} THEN Idle
  ELSE [at |-> "find", persons |-> persons, share |-> share]

FindShare(r) ==
  LET req == request[r] IN
  /\ req.at = "find"
  /\ \E p \in req.persons, ids \in SUBSET Free :
       /\ \/ Cardinality(ids) = req.share
          \/ Cardinality(ids) < req.share /\ ids = Free
       /\ request' = [request EXCEPT ![r] =
            IF ids = {} THEN NextPerson(req.persons \ {p}, req.share)
            ELSE [at |-> "give", persons |-> req.persons \ {p},
                  share |-> req.share, person |-> p,
                  found |-> [t \in ids |-> task[t]]]]
  /\ UNCHANGED <<version, task, author, overtaken>>

GiveShare(r) ==
  LET req == request[r] IN
  /\ req.at = "give"
  /\ \E t \in DOMAIN req.found :
       /\ Write(t, req.found[t],
                [status |-> "labeling", labeler |-> req.person,
                 checker |-> task[t].checker])
       /\ request' = [request EXCEPT ![r] =
            IF DOMAIN req.found = {t} THEN NextPerson(req.persons, req.share)
            ELSE [req EXCEPT !.found = [e \in DOMAIN @ \ {t} |-> @[e]]]]
  /\ UNCHANGED <<version, author>>

-----------------------------------------------------------------------------
(* Giving the tasks handed in to checkers: find them, then write one after *)
(* the other.  Versions 1 and 5 give a task to the least loaded person who *)
(* did not label it; whom version 2 serves first is Task2Alloc's subject.  *)

HandedIn ==
  {t \in Stored : /\ task[t].status = "submit"
                  /\ version # "v5" => /\ task[t].labeler # Nobody
                                       /\ task[t].checker = Nobody}

\* Slip: the labeller is not left out.
EligibleAnybody(req, t) == {p \in DOMAIN req.load : req.load[p] # req.share}

Eligible(req, t) ==
  {p \in DOMAIN req.load : p # req.found[t].labeler /\ req.load[p] # req.share}

Chosen(req, t) ==
  {p \in Eligible(req, t) :
     version # "v2" => \A q \in Eligible(req, t) : req.load[p] <= req.load[q]}

WhileAny(req) ==
  IF req.left > 0 /\ \E t \in DOMAIN req.found : Eligible(req, t) # {}
  THEN req ELSE Idle

Given(req, t, p) ==
  [at |-> "check", found |-> [e \in DOMAIN req.found \ {t} |-> req.found[e]],
   load |-> [req.load EXCEPT ![p] = @ + 1], left |-> req.left - 1,
   share |-> req.share]

FindHandedIn(r, persons, number) ==
  /\ request[r] = Idle
  /\ request' = [request EXCEPT ![r] = WhileAny(
       [at |-> "check", found |-> [t \in HandedIn |-> task[t]],
        load |-> [p \in persons |-> 0], left |-> number,
        share |-> AtLeastOne(number \div Cardinality(persons))])]
  /\ UNCHANGED <<version, task, author, overtaken>>

GiveToChecker(r) ==
  LET req == request[r] IN
  /\ req.at = "check"
  /\ \E t \in DOMAIN req.found : \E p \in Chosen(req, t) :
       /\ Write(t, req.found[t],
                [status |-> "checking", labeler |-> task[t].labeler,
                 checker |-> p])
       /\ request' = [request EXCEPT ![r] = WhileAny(Given(req, t, p))]
  /\ UNCHANGED <<version, author>>

AllocateCheckTasks(r, persons, number) ==
  version = "v1" /\ FindHandedIn(r, persons, number)
Task2BatchAllocChecker(r, persons, number) ==
  version = "v2" /\ FindHandedIn(r, persons, number)
Task5BatchAllocChecker(r, persons, number) ==
  version = "v5" /\ FindHandedIn(r, persons, number)

-----------------------------------------------------------------------------
(* Labelling, checking and editing: read the task, decide, write by _id.   *)

Labeler == [labeling |-> {"labeling", "submit"},
            submit |-> {"submit"},
            failed |-> {"failed", "checking"}]
Checker == [s \in Reviewed |-> Reviewed]

Decide(r, u, t, seen, s) ==
  /\ request[r] = Idle
  /\ request' = [request EXCEPT ![r] =
       [at |-> "edit", user |-> u, task |-> t, seen |-> seen, status |-> s]]
  /\ UNCHANGED <<version, task, author, overtaken>>

\* The sender is compared with the labeller the request names and not with the
\* one stored: a page loaded when the task was somebody's own passes for ever.
LabelTask(r, u, t, s) ==
  /\ version = "v1"
  /\ task[t].status \in DOMAIN Labeler
  /\ s \in Labeler[task[t].status]
  /\ Decide(r, u, t, task[t], s)

CheckTask(r, u, t, s) ==
  /\ version = "v1"
  /\ task[t].checker = u
  /\ task[t].status \in DOMAIN Checker
  /\ s \in Checker[task[t].status]
  /\ Decide(r, u, t, task[t], s)

\* The updates of versions 2, 3 and 5 write contents only.
UpdateTask2(r, u, t) ==
  /\ version = "v2"
  /\ t \in Stored
  /\ u \in Holders(t) \cup {Nobody}
  /\ Decide(r, u, t, task[t], "kept")

UpdateTask3(r, u, t) ==
  /\ version = "v3"
  /\ t \in Stored
  /\ u \in {task[t].labeler, Nobody}
  /\ Decide(r, u, t, task[t], "kept")

\* Slip: the permission is not checked.
UpdateTask5ByAnyone(r, u, t) ==
  /\ version = "v5"
  /\ t \in Stored
  /\ Decide(r, u, t, task[t], "kept")

UpdateTask5(r, u, t) ==
  /\ version = "v5"
  /\ t \in Stored
  /\ u \in Holders(t) \cup {Nobody}
  /\ Decide(r, u, t, task[t], "kept")

SaveWithStatus(r) ==
  LET req == request[r] IN
  /\ req.at = "edit"
  /\ req.status # "kept"
  /\ Write(req.task, req.seen, [task[req.task] EXCEPT !.status = req.status])
  /\ author' = IF req.task \in Stored
               THEN [author EXCEPT ![req.task] = req.user] ELSE author
  /\ request' = [request EXCEPT ![r] = Idle]
  /\ UNCHANGED version

SaveContents(r) ==
  LET req == request[r]
      now == [task[req.task] EXCEPT !.status = req.seen.status]
  IN
  /\ req.at = "edit"
  /\ req.status = "kept"
  /\ author' = IF req.task \in Stored
               THEN [author EXCEPT ![req.task] = req.user] ELSE author
  /\ overtaken' = IF req.task \in Stored /\ now # req.seen
                  THEN overtaken \cup {req.task} ELSE overtaken
  /\ request' = [request EXCEPT ![r] = Idle]
  /\ UNCHANGED <<version, task>>

\* A call fails, the client goes away, or the server stops.
Abort(r) ==
  /\ request[r] # Idle
  /\ request' = [request EXCEPT ![r] = Idle]
  /\ UNCHANGED <<version, task, author, overtaken>>

-----------------------------------------------------------------------------
(* One update of the database each. *)

UploadTask(t) == version = "v1" /\ Insert(t, Blank("allocate"))
UploadTask2(t) == version = "v2" /\ Insert(t, Blank("allocate"))
UploadTask3(t) == version = "v3" /\ Insert(t, Blank("allocate"))
UploadTask6(t) == version = "v6" /\ Insert(t, Blank("allocate"))

\* A copy is inserted for the labeller who claims the session.
AllocOneTask5(t, u) ==
  version = "v5" /\ Insert(t, [Blank("labeling") EXCEPT !.labeler = u])

DeleteTask(t) == version = "v1" /\ Remove(t)
DeleteTask2(t) == version = "v2" /\ Remove(t)
DeleteTask3(t) == version = "v3" /\ Remove(t)
DeleteTask5(t) == version = "v5" /\ Remove(t)
DeleteTask6(t) == version = "v6" /\ Remove(t)

\* req.Persons and req.Statuses narrow a reset, and may be empty.
ResetTasks(t) == version = "v1" /\ Release(t)
ResetTasks2(t) == version = "v2" /\ Release(t)
ResetTasks3(t) == version = "v3" /\ Release(t)

\* Only tasks of the labellers in req.Persons; the reset of checkers finds
\* nothing, version 6 gives no task to a checker.
ResetTasks6(t) == version = "v6" /\ task[t].labeler # Nobody /\ Release(t)

\* Slip: 待审核 is accepted from 待标注.
SourceStatuses2Early ==
  [failed |-> Reviewed, passed |-> Reviewed,
   checking |-> {"labeling", "submit"}, submit |-> {"labeling", "submit"}]

SourceStatuses2 ==
  [failed |-> Reviewed, passed |-> Reviewed,
   checking |-> {"submit"}, submit |-> {"labeling", "submit"}]

BatchSetTask2Status(u, t, s) ==
  /\ version = "v2"
  /\ u \in Holders(t) \cup {Nobody}
  /\ SetStatus(t, SourceStatuses2[s], s)

\* No source status is asked for.
BatchSetTask3Status(u, t) ==
  /\ version = "v3"
  /\ u \in {task[t].labeler, Nobody}
  /\ SetStatus(t, Statuses, "submit")

NormalStatuses5 ==
  [failed |-> Reviewed, passed |-> Reviewed,
   checking |-> {"submit", "failed"}, submit |-> {"labeling", "submit"}]
SpecialStatuses5 ==
  [failed |-> Reviewed, passed |-> Reviewed, checking |-> {}, submit |-> {}]

\* Work type 0 is a manager's page.
BatchSetTask5Status(u, t, s) ==
  /\ version = "v5"
  /\ \/ u \in Holders(t) /\ SetStatus(t, NormalStatuses5[s], s)
     \/ u = Nobody /\ SetStatus(t, SpecialStatuses5[s], s)

BatchSetTask6Status(u, t) ==
  /\ version = "v6"
  /\ \/ u \in Holders(t) /\ SetStatus(t, {"labeling", "submit"}, "submit")
     \/ u = Nobody /\ SetStatus(t, {"labeling", "allocate", "submit"}, "submit")

-----------------------------------------------------------------------------
Uploading(t) ==
  \/ UploadTask(t) \/ UploadTask2(t) \/ UploadTask3(t) \/ UploadTask6(t)
  \/ \E u \in Users : AllocOneTask5(t, u)

Deleting(t) ==
  \/ DeleteTask(t) \/ DeleteTask2(t) \/ DeleteTask3(t)
  \/ DeleteTask5(t) \/ DeleteTask6(t)

Resetting(t) ==
  \/ ResetTasks(t) \/ ResetTasks2(t) \/ ResetTasks3(t) \/ ResetTasks6(t)

SettingStatus(u, t) ==
  \/ \E s \in DOMAIN SourceStatuses2 : BatchSetTask2Status(u, t, s)
  \/ BatchSetTask3Status(u, t)
  \/ \E s \in DOMAIN NormalStatuses5 : BatchSetTask5Status(u, t, s)
  \/ BatchSetTask6Status(u, t)

Editing(r, u, t) ==
  \/ UpdateTask2(r, u, t) \/ UpdateTask3(r, u, t) \/ UpdateTask5(r, u, t)
  \/ u \in Users /\ \E s \in Statuses : LabelTask(r, u, t, s) \/ CheckTask(r, u, t, s)

Allocating(r, persons, number) ==
  \/ AllocateTasks(r, persons, number)
  \/ Task2BatchAllocLabeler(r, persons, number)
  \/ Task3BatchAllocLabeler(r, persons, number)
  \/ Task6BatchAllocLabeler(r, persons, number)
  \/ AllocateCheckTasks(r, persons, number)
  \/ Task2BatchAllocChecker(r, persons, number)
  \/ Task5BatchAllocChecker(r, persons, number)

Proceeding(r) ==
  \/ FindShare(r) \/ GiveShare(r) \/ GiveToChecker(r)
  \/ SaveWithStatus(r) \/ SaveContents(r) \/ Abort(r)

Next ==
  \/ \E t \in Tasks : Uploading(t) \/ Deleting(t) \/ Resetting(t)
  \/ \E t \in Tasks, u \in Person : SettingStatus(u, t)
  \/ \E r \in Requests :
       \/ \E t \in Tasks, u \in Person : Editing(r, u, t)
       \/ \E persons \in (SUBSET Users) \ {{}}, number \in Numbers :
            Allocating(r, persons, number)
       \/ Proceeding(r)

Spec == Init /\ [][Next]_vars

-----------------------------------------------------------------------------
(* Properties. *)

\* Who may be named on a task of status s, by version.
Fits(rec) ==
  /\ rec.checker # Nobody => rec.status \in Reviewed /\ rec.checker # rec.labeler
  /\ rec.status = "allocate" => rec.labeler = Nobody
  /\ rec.status = "labeling" => rec.labeler # Nobody
  /\ version \in {"v1", "v2", "v5"} /\ rec.status # "allocate" => rec.labeler # Nobody
  /\ version = "v1" /\ rec.status \in Reviewed => rec.checker # Nobody
  /\ version \in {"v3", "v6"} => rec.status \notin Reviewed

\* Whatever order uploads, allocations, hand-ins, reviews and resets come in,
\* a task whose status and people do not fit together (no labeller while it
\* is labelled, a checker before it was handed in, a checker who labelled it)
\* was written on the strength of an outdated read; nothing else breaks it,
\* and making it free repairs it (task.go:639
\* 标注员和审核员不能是同一人).
MisfitOnlyIfOvertaken == \A t \in Stored \ overtaken : Fits(task[t])

\* What is written to task t comes from somebody who holds it, or from a
\* manager, unless the task changed since the request read it.
FromHolder(t) ==
  author'[t] # author[t] /\ author'[t] # Nobody
  => author'[t] \in Holders(t) \/ t \in overtaken'

\* In versions 2, 3 and 5, and for checkers in version 1, contents come from
\* somebody who holds the task or from a manager, unless the task changed since
\* the request read it.  Of a task of version 1 that its labeller may write
\* nothing is said: LabelTask lets others write it too (LabelledByHolder).
OwnContents ==
  [][\A t \in Tasks :
       \/ FromHolder(t)
       \/ version = "v1" /\ task[t].status \in DOMAIN Labeler]_vars

\* Nobody but those who hold a task writes its contents (task.go:57 无权限修改).
\* Version 1 breaks it: LabelTask asks the request who the labeller is.
LabelledByHolder == [][\A t \in Tasks : FromHolder(t)]_vars

\* The life a task leads, version by version.  In version 3 a task without a
\* labeller is given out whatever its status.
StageOf ==
  [absent |-> "none", allocate |-> "free", labeling |-> "held",
   submit |-> "handed", checking |-> "review", passed |-> "review",
   failed |-> "review", deleted |-> "gone"]

Lived(t) ==
  IF t \in overtaken
  THEN [stage |-> "suspended", holder |-> Nobody, reviewer |-> Nobody]
  ELSE [stage |-> IF version = "v3" /\ t \in Stored /\ task[t].labeler = Nobody
                  THEN "free" ELSE StageOf[task[t].status],
        holder |-> task[t].labeler, reviewer |-> task[t].checker]

lives == [t \in Tasks |-> Lived(t)]

Life == INSTANCE TaskLife WITH life <- lives

\* Every version leads its tasks through the life of TaskLife: given out while
\* free, handed in, reviewed by another, taken back only to be free; an
\* outdated write alone suspends this, until the next reset.
LeadsTaskLife == Life!Spec

=============================================================================
