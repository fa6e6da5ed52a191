------------------------ MODULE TaskVersionsProofs ------------------------
(***************************************************************************)
(* Theorems about TaskVersions, for any tasks, people, requests and        *)
(* numbers and for each of the versions.                                   *)
(*                                                                         *)
(* What keeps a task's status and people together is that a write by _id   *)
(* either finds what its request read, and then the status read allows the *)
(* write, or makes the task overtaken.  RequestOK says what each kind of   *)
(* request read; it never has to say that this still holds.                *)
(*                                                                         *)
(* From the same invariant follow that every step is one of the abstract   *)
(* life of a task or none, and that the numbers of a project agree with    *)
(* the lists of its people.                                                *)
(***************************************************************************)
EXTENDS TaskCounts, FiniteSetTheorems, TLAPS

Finds == UNION {[ids -> Record] : ids \in SUBSET Tasks}
Loads == UNION {[persons -> Nat] : persons \in SUBSET Users}

FindReq == [at : {"find"}, persons : SUBSET Users, share : Int]
GiveReq == [at : {"give"}, persons : SUBSET Users, share : Int, person : Users,
            found : Finds]
CheckReq == [at : {"check"}, found : Finds, load : Loads, left : Int, share : Int]
EditReq == [at : {"edit"}, user : Person, task : Tasks, seen : Record,
            status : Statuses \cup {"kept"}]

\* What labellers and checkers of version 1 may make of a status.
Allowed(from, to) ==
  \/ from = "labeling" /\ to \in {"labeling", "submit"}
  \/ from = "submit" /\ to = "submit"
  \/ from \in Reviewed /\ to \in Reviewed

\* Version 1 asks the request who the labeller is, while he may write the task.
AsLabeller(req) ==
  version = "v1" /\ req.status # "kept" /\ req.seen.status \in DOMAIN Labeler

RequestOK(req) ==
  \/ req = Idle
  \/ version # "v5" /\ req \in FindReq
  \/ /\ version # "v5" /\ req \in GiveReq
     /\ \A t \in DOMAIN req.found :
          /\ req.found[t].labeler = Nobody
          /\ version = "v6" => req.found[t].status = "allocate"
  \/ /\ version \in {"v1", "v2", "v5"} /\ req \in CheckReq
     /\ \A t \in DOMAIN req.found : req.found[t].status = "submit"
  \/ /\ req \in EditReq
     /\ req.user \in {req.seen.labeler, req.seen.checker, Nobody} \/ AsLabeller(req)
     /\ req.status # "kept" => version = "v1" /\ Allowed(req.seen.status, req.status)

VersionsOK ==
  /\ version \in {"v1", "v2", "v3", "v5", "v6"}
  /\ task \in [Tasks -> Record]
  /\ author \in [Tasks -> Person]
  /\ DOMAIN request = Requests

RequestsOK == \A r \in Requests : RequestOK(request[r])

LifeInv == VersionsOK /\ RequestsOK /\ MisfitOnlyIfOvertaken

-----------------------------------------------------------------------------
(* Records. *)

LEMMA StatusesApart ==
  /\ "absent" \notin Statuses /\ "deleted" \notin Statuses /\ "kept" \notin Statuses
  /\ Reviewed \subseteq Statuses
  BY DEF Statuses, Reviewed

LEMMA BlankFits ==
  ASSUME VersionsOK
  PROVE  /\ Blank("allocate") \in Record /\ Blank("deleted") \in Record
         /\ Blank("absent") \in Record
         /\ Fits(Blank("allocate"))
  BY DEF Blank, Record, Statuses, Reviewed, Person, Fits, VersionsOK

\* One task becomes another record and may become overtaken or cease to be.
LEMMA OneTaskChanges ==
  ASSUME VersionsOK, MisfitOnlyIfOvertaken, NEW t \in Tasks, NEW rec \in Record,
         task' = [task EXCEPT ![t] = rec], version' = version,
         overtaken \ {t} \subseteq overtaken',
         rec.status \in Statuses /\ t \notin overtaken' => Fits(rec)
  PROVE  task' \in [Tasks -> Record] /\ MisfitOnlyIfOvertaken'
<1>1. task' \in [Tasks -> Record]
  BY DEF VersionsOK
<1>2. ASSUME NEW s \in Tasks, task'[s].status \in Statuses, s \notin overtaken'
      PROVE  Fits(task'[s])
  <2>1. CASE s = t
    BY <1>2, <2>1 DEF VersionsOK
  <2>2. CASE s # t
    BY <1>2, <2>2 DEF VersionsOK, MisfitOnlyIfOvertaken, Stored
  <2> QED BY <2>1, <2>2
<1>3. \A rc : Fits(rc)' <=> Fits(rc)
  BY DEF Fits
<1> QED BY <1>1, <1>2 DEF MisfitOnlyIfOvertaken, Stored, Fits

\* A write by _id.
LEMMA WriteKeepsFit ==
  ASSUME VersionsOK, MisfitOnlyIfOvertaken, NEW t \in Tasks, NEW seen, NEW rec \in Record,
         Write(t, seen, rec), version' = version,
         Fits(task[t]) /\ task[t] = seen => Fits(rec)
  PROVE  task' \in [Tasks -> Record] /\ MisfitOnlyIfOvertaken'
<1>1. CASE t \in Stored
  <2>1. task' = [task EXCEPT ![t] = rec] /\ overtaken \subseteq overtaken'
        /\ (t \notin overtaken' => task[t] = seen)
    BY <1>1 DEF Write
  <2>2. t \notin overtaken' => Fits(task[t])
    BY <1>1, <2>1 DEF MisfitOnlyIfOvertaken
  <2> QED BY <2>1, <2>2, OneTaskChanges
<1>2. CASE t \notin Stored
  BY <1>2 DEF Write, VersionsOK, MisfitOnlyIfOvertaken, Stored, Fits
<1> QED BY <1>1, <1>2

\* What is left of a request after a step of it.
LEMMA NewRequest ==
  ASSUME VersionsOK, RequestsOK, NEW r \in Requests, NEW req, RequestOK(req),
         request' = [request EXCEPT ![r] = req], version' = version
  PROVE  DOMAIN request' = Requests /\ RequestsOK'
<1>1. \A s \in Requests : request'[s] = IF s = r THEN req ELSE request[s]
  BY DEF VersionsOK
<1>2. \A q : RequestOK(q)' <=> RequestOK(q)
  BY DEF RequestOK, AsLabeller
<1> QED BY <1>1, <1>2 DEF VersionsOK, RequestsOK, RequestOK

LEMMA SameRequests ==
  ASSUME RequestsOK, request' = request, version' = version
  PROVE  RequestsOK'
  BY DEF RequestsOK, RequestOK, AsLabeller

-----------------------------------------------------------------------------
(* Single updates. *)

LEMMA InsertKeepsLife ==
  ASSUME LifeInv, NEW t \in Tasks, NEW rec \in Record, Insert(t, rec), Fits(rec)
  PROVE  LifeInv'
<1>1. task' \in [Tasks -> Record] /\ MisfitOnlyIfOvertaken'
  BY OneTaskChanges DEF Insert, LifeInv
<1>2. RequestsOK'
  BY SameRequests DEF Insert, LifeInv
<1> QED BY <1>1, <1>2 DEF Insert, LifeInv, VersionsOK

LEMMA RemoveKeepsLife ==
  ASSUME LifeInv, NEW t \in Tasks, Remove(t)
  PROVE  LifeInv'
<1>1. Blank("deleted") \in Record /\ Blank("deleted").status = "deleted"
  BY BlankFits DEF LifeInv, Blank
<1>2. task' \in [Tasks -> Record] /\ MisfitOnlyIfOvertaken'
  BY <1>1, OneTaskChanges, StatusesApart DEF Remove, LifeInv
<1>3. RequestsOK'
  BY SameRequests DEF Remove, LifeInv
<1>4. author' \in [Tasks -> Person]
  BY DEF Remove, LifeInv, VersionsOK, Person
<1> QED BY <1>2, <1>3, <1>4 DEF Remove, LifeInv, VersionsOK

LEMMA ReleaseKeepsLife ==
  ASSUME LifeInv, NEW t \in Tasks, Release(t)
  PROVE  LifeInv'
<1>1. task' \in [Tasks -> Record] /\ MisfitOnlyIfOvertaken'
  BY BlankFits, OneTaskChanges DEF Release, LifeInv
<1>2. RequestsOK'
  BY SameRequests DEF Release, LifeInv
<1> QED BY <1>1, <1>2 DEF Release, LifeInv, VersionsOK

\* A status set from some that fit it.
LEMMA SetStatusKeepsLife ==
  ASSUME LifeInv, NEW t \in Tasks, NEW from, NEW s \in Statuses, SetStatus(t, from, s),
         \A rec \in Record : Fits(rec) /\ rec.status \in from
                             => Fits([rec EXCEPT !.status = s])
  PROVE  LifeInv'
<1> DEFINE rec == [task[t] EXCEPT !.status = s]
<1>1. task[t] \in Record /\ rec \in Record
  BY DEF LifeInv, VersionsOK, Record
<1>2. task' = [task EXCEPT ![t] = rec] /\ overtaken' = overtaken /\ version' = version
      /\ t \in Stored /\ task[t].status \in from
  BY DEF SetStatus
<1>3. t \notin overtaken => Fits(task[t])
  BY <1>2 DEF LifeInv, MisfitOnlyIfOvertaken
<1>4. t \notin overtaken => Fits(rec)
  BY <1>1, <1>2, <1>3
<1> HIDE DEF rec
<1>5. task' \in [Tasks -> Record] /\ MisfitOnlyIfOvertaken'
  BY <1>1, <1>2, <1>4, OneTaskChanges DEF LifeInv
<1>6. RequestsOK'
  BY SameRequests DEF SetStatus, LifeInv
<1> QED BY <1>5, <1>6 DEF SetStatus, LifeInv, VersionsOK

LEMMA SettingStatusKeepsLife ==
  ASSUME LifeInv, NEW t \in Tasks, NEW u \in Person, SettingStatus(u, t)
  PROVE  LifeInv'
<1>0. \A s \in {"submit", "checking", "passed", "failed"} : s \in Statuses
  BY DEF Statuses, Reviewed
<1>1. ASSUME NEW s \in DOMAIN SourceStatuses2, BatchSetTask2Status(u, t, s)
      PROVE  LifeInv'
  <2>1. s \in {"failed", "passed", "checking", "submit"} /\ version = "v2"
        /\ SetStatus(t, SourceStatuses2[s], s)
    BY <1>1 DEF SourceStatuses2, BatchSetTask2Status
  <2>2. SourceStatuses2[s] = CASE s \in {"failed", "passed"} -> Reviewed
                              [] s = "checking" -> {"submit"}
                              [] s = "submit" -> {"labeling", "submit"}
    BY <2>1 DEF SourceStatuses2
  <2>3. \A rec \in Record : Fits(rec) /\ rec.status \in SourceStatuses2[s]
                             => Fits([rec EXCEPT !.status = s])
    BY <2>1, <2>2 DEF Record, Fits, Reviewed
  <2> QED BY <1>0, <2>1, <2>3, SetStatusKeepsLife
<1>2. CASE BatchSetTask3Status(u, t)
  <2>1. version = "v3" /\ SetStatus(t, Statuses, "submit")
    BY <1>2 DEF BatchSetTask3Status
  <2>2. \A rec \in Record : Fits(rec) /\ rec.status \in Statuses
                             => Fits([rec EXCEPT !.status = "submit"])
    BY <2>1 DEF Record, Fits, Reviewed
  <2> QED BY <1>0, <2>1, <2>2, SetStatusKeepsLife
<1>3. ASSUME NEW s \in DOMAIN NormalStatuses5, BatchSetTask5Status(u, t, s)
      PROVE  LifeInv'
  <2>1. s \in {"failed", "passed", "checking", "submit"} /\ version = "v5"
        /\ \/ SetStatus(t, NormalStatuses5[s], s)
           \/ SetStatus(t, SpecialStatuses5[s], s)
    BY <1>3 DEF NormalStatuses5, BatchSetTask5Status
  <2>2. NormalStatuses5[s] = CASE s \in {"failed", "passed"} -> Reviewed
                              [] s = "checking" -> {"submit", "failed"}
                              [] s = "submit" -> {"labeling", "submit"}
    BY <2>1 DEF NormalStatuses5
  <2>3. SpecialStatuses5[s] \subseteq IF s \in {"failed", "passed"} THEN Reviewed ELSE {}
    BY <2>1 DEF SpecialStatuses5
  <2>4. \A rec \in Record : Fits(rec) /\ rec.status \in NormalStatuses5[s]
                             => Fits([rec EXCEPT !.status = s])
    BY <2>1, <2>2 DEF Record, Fits, Reviewed
  <2>5. \A rec \in Record : Fits(rec) /\ rec.status \in SpecialStatuses5[s]
                             => Fits([rec EXCEPT !.status = s])
    BY <2>1, <2>3 DEF Record, Fits, Reviewed
  <2> QED BY <1>0, <2>1, <2>4, <2>5, SetStatusKeepsLife
<1>4. CASE BatchSetTask6Status(u, t)
  <2>1. version = "v6"
        /\ \/ SetStatus(t, {"labeling", "submit"}, "submit")
           \/ SetStatus(t, {"labeling", "allocate", "submit"}, "submit")
    BY <1>4 DEF BatchSetTask6Status
  <2>2. \A rec \in Record : Fits(rec) => Fits([rec EXCEPT !.status = "submit"])
    BY <2>1 DEF Record, Fits, Reviewed
  <2> QED BY <1>0, <2>1, <2>2, SetStatusKeepsLife
<1> QED BY <1>1, <1>2, <1>3, <1>4 DEF SettingStatus

LEMMA UploadingKeepsLife ==
  ASSUME LifeInv, NEW t \in Tasks, Uploading(t)
  PROVE  LifeInv'
<1>1. CASE Insert(t, Blank("allocate"))
  BY <1>1, BlankFits, InsertKeepsLife DEF LifeInv
<1>2. ASSUME NEW u \in Users, AllocOneTask5(t, u)
      PROVE  LifeInv'
  <2> DEFINE rec == [Blank("labeling") EXCEPT !.labeler = u]
  <2>1. rec = [status |-> "labeling", labeler |-> u, checker |-> Nobody]
    BY DEF Blank
  <2>2. rec \in Record
    BY <2>1 DEF Record, Statuses, Person
  <2>3. u # Nobody /\ version = "v5" /\ Insert(t, rec)
    BY <1>2, VersionsAssumption DEF AllocOneTask5
  <2>4. Fits(rec)
    BY <2>1, <2>3 DEF Fits
  <2> QED BY <2>2, <2>3, <2>4, InsertKeepsLife
<1> QED BY <1>1, <1>2 DEF Uploading, UploadTask, UploadTask2, UploadTask3, UploadTask6

LEMMA DeletingKeepsLife ==
  ASSUME LifeInv, NEW t \in Tasks, Deleting(t) \/ Resetting(t)
  PROVE  LifeInv'
  BY RemoveKeepsLife, ReleaseKeepsLife
     DEF Deleting, DeleteTask, DeleteTask2, DeleteTask3, DeleteTask5, DeleteTask6,
         Resetting, ResetTasks, ResetTasks2, ResetTasks3, ResetTasks6

-----------------------------------------------------------------------------
(* Requests. *)

\* A step that only changes one request, to one that is in order.
LEMMA RequestKeepsLife ==
  ASSUME LifeInv, NEW r \in Requests, NEW req, RequestOK(req),
         request' = [request EXCEPT ![r] = req],
         UNCHANGED <<version, task, author, overtaken>>
  PROVE  LifeInv'
<1>1. DOMAIN request' = Requests /\ RequestsOK'
  BY NewRequest DEF LifeInv
<1>2. MisfitOnlyIfOvertaken'
  BY DEF LifeInv, MisfitOnlyIfOvertaken, Stored, Fits
<1> QED BY <1>1, <1>2 DEF LifeInv, VersionsOK

LEMMA PeopleAreCounted ==
  ASSUME NEW persons \in (SUBSET Users) \ {{}}
  PROVE  Cardinality(persons) \in Nat \ {0}
  BY FS_Subset, FS_CardinalityType, FS_EmptySet, VersionsAssumption

LEMMA SharesAreNumbers ==
  ASSUME NEW n \in Nat, NEW m \in Nat \ {0}
  PROVE  AtLeastOne(n \div m) \in Int
  BY DEF AtLeastOne

LEMMA StoredIsCounted ==
  ASSUME VersionsOK
  PROVE  /\ Free \subseteq Tasks /\ Cardinality(Free) \in Nat
         /\ HandedIn \subseteq Tasks
<1>1. Free \subseteq Tasks /\ HandedIn \subseteq Tasks
  BY DEF Free, HandedIn, Stored
<1> QED BY <1>1, FS_Subset, FS_CardinalityType, VersionsAssumption

LEMMA ShareOutKeepsLife ==
  ASSUME LifeInv, NEW r \in Requests, NEW persons \in (SUBSET Users) \ {{}},
         NEW number \in Numbers, ShareOut(r, persons, number), version # "v5"
  PROVE  LifeInv'
<1> DEFINE share == AtLeastOne(Least(Cardinality(Free), number) \div Cardinality(persons))
           req == [at |-> "find", persons |-> persons, share |-> share]
<1>1. number \in Nat /\ Cardinality(Free) \in Nat
  BY StoredIsCounted, VersionsAssumption DEF LifeInv
<1>2. Least(Cardinality(Free), number) \in Nat
  BY <1>1 DEF Least
<1>3. share \in Int
  BY <1>2, PeopleAreCounted, SharesAreNumbers
<1>4. request' = [request EXCEPT ![r] = req] /\ UNCHANGED <<version, task, author, overtaken>>
  BY DEF ShareOut
<1> HIDE DEF share
<1>5. RequestOK(req)
  BY <1>3 DEF RequestOK, FindReq
<1> QED BY <1>4, <1>5, RequestKeepsLife

LEMMA NextPersonOK ==
  ASSUME NEW persons \in SUBSET Users, NEW share \in Int, version # "v5"
  PROVE  RequestOK(NextPerson(persons, share))
  BY DEF NextPerson, RequestOK, FindReq

LEMMA FindRequest ==
  ASSUME LifeInv, NEW r \in Requests, request[r].at = "find"
  PROVE  request[r] \in FindReq /\ version # "v5"
  BY DEF LifeInv, RequestsOK, RequestOK, Idle, GiveReq, CheckReq, EditReq

LEMMA GiveRequest ==
  ASSUME LifeInv, NEW r \in Requests, request[r].at = "give"
  PROVE  /\ request[r] \in GiveReq /\ version # "v5"
         /\ \A t \in DOMAIN request[r].found :
              /\ request[r].found[t].labeler = Nobody
              /\ version = "v6" => request[r].found[t].status = "allocate"
  BY DEF LifeInv, RequestsOK, RequestOK, Idle, FindReq, CheckReq, EditReq

LEMMA CheckRequest ==
  ASSUME LifeInv, NEW r \in Requests, request[r].at = "check"
  PROVE  /\ request[r] \in CheckReq /\ version \in {"v1", "v2", "v5"}
         /\ \A t \in DOMAIN request[r].found : request[r].found[t].status = "submit"
  BY DEF LifeInv, RequestsOK, RequestOK, Idle, FindReq, GiveReq, EditReq

LEMMA EditRequest ==
  ASSUME LifeInv, NEW r \in Requests, request[r].at = "edit"
  PROVE  /\ request[r] \in EditReq
         /\ \/ request[r].user \in {request[r].seen.labeler, request[r].seen.checker, Nobody}
            \/ AsLabeller(request[r])
         /\ request[r].status # "kept" =>
              version = "v1" /\ Allowed(request[r].seen.status, request[r].status)
  BY DEF LifeInv, RequestsOK, RequestOK, Idle, FindReq, GiveReq, CheckReq

LEMMA FindShareKeepsLife ==
  ASSUME LifeInv, NEW r \in Requests, FindShare(r)
  PROVE  LifeInv'
<1> DEFINE req == request[r]
<1>1. req \in FindReq /\ version # "v5"
  BY FindRequest DEF FindShare
<1>2. req.persons \in SUBSET Users /\ req.share \in Int
  BY <1>1 DEF FindReq
<1>3. PICK p \in req.persons, ids \in SUBSET Free :
        request' = [request EXCEPT ![r] =
            IF ids = {} THEN NextPerson(req.persons \ {p}, req.share)
            ELSE [at |-> "give", persons |-> req.persons \ {p},
                  share |-> req.share, person |-> p,
                  found |-> [t \in ids |-> task[t]]]]
  BY DEF FindShare
<1>4. UNCHANGED <<version, task, author, overtaken>>
  BY DEF FindShare
<1>5. CASE ids = {}
  <2>1. RequestOK(NextPerson(req.persons \ {p}, req.share))
    BY <1>1, <1>2, NextPersonOK
  <2> QED BY <1>3, <1>4, <1>5, <2>1, RequestKeepsLife
<1>6. CASE ids # {}
  <2> DEFINE found == [t \in ids |-> task[t]]
             new == [at |-> "give", persons |-> req.persons \ {p},
                     share |-> req.share, person |-> p, found |-> found]
  <2>1. ids \in SUBSET Tasks /\ found \in [ids -> Record]
    BY StoredIsCounted DEF LifeInv, VersionsOK
  <2>2. \A t \in DOMAIN found :
          /\ found[t].labeler = Nobody
          /\ version = "v6" => found[t].status = "allocate"
    BY DEF Free
  <2>3. new \in GiveReq
    BY <1>2, <2>1 DEF GiveReq, Finds
  <2>4. RequestOK(new)
    BY <1>1, <2>2, <2>3 DEF RequestOK
  <2> QED BY <1>3, <1>4, <1>6, <2>4, RequestKeepsLife
<1> QED BY <1>5, <1>6

\* What is left of the tasks found.
LEMMA FewerFound ==
  ASSUME NEW found \in Finds, NEW t
  PROVE  /\ [e \in DOMAIN found \ {t} |-> found[e]] \in Finds
         /\ DOMAIN found \subseteq Tasks
         /\ \A e \in DOMAIN found : found[e] \in Record
<1>1. PICK ids \in SUBSET Tasks : found \in [ids -> Record]
  BY DEF Finds
<1>2. [e \in DOMAIN found \ {t} |-> found[e]] \in [ids \ {t} -> Record]
  BY <1>1
<1>3. ids \ {t} \in SUBSET Tasks
  BY <1>1
<1> QED BY <1>1, <1>2, <1>3 DEF Finds

LEMMA MoreLoad ==
  ASSUME NEW load \in Loads, NEW p \in DOMAIN load
  PROVE  [load EXCEPT ![p] = @ + 1] \in Loads /\ p \in Users
<1>1. PICK persons \in SUBSET Users : load \in [persons -> Nat]
  BY DEF Loads
<1>2. [load EXCEPT ![p] = @ + 1] \in [persons -> Nat]
  BY <1>1
<1> QED BY <1>1, <1>2 DEF Loads

\* The two writes of an allocation.
LEMMA GivenRecords ==
  ASSUME NEW rec \in Record, NEW p \in Users
  PROVE  /\ [status |-> "labeling", labeler |-> p, checker |-> rec.checker] \in Record
         /\ [status |-> "checking", labeler |-> rec.labeler, checker |-> p] \in Record
<1>1. "labeling" \in Statuses /\ "checking" \in Statuses /\ p \in Person
  BY DEF Statuses, Reviewed, Person
<1>2. rec.labeler \in Person /\ rec.checker \in Person
  BY DEF Record
<1> QED BY <1>1, <1>2 DEF Record

LEMMA GiveShareKeepsLife ==
  ASSUME LifeInv, NEW r \in Requests, GiveShare(r)
  PROVE  LifeInv'
<1> DEFINE req == request[r]
<1>1. /\ req \in GiveReq /\ version # "v5"
      /\ \A t \in DOMAIN req.found :
           /\ req.found[t].labeler = Nobody
           /\ version = "v6" => req.found[t].status = "allocate"
  BY GiveRequest DEF GiveShare
<1>2. /\ req.persons \in SUBSET Users /\ req.share \in Int /\ req.person \in Users
      /\ req.found \in Finds
  BY <1>1 DEF GiveReq
<1>3. PICK t \in DOMAIN req.found :
       /\ Write(t, req.found[t],
                [status |-> "labeling", labeler |-> req.person,
                 checker |-> task[t].checker])
       /\ request' = [request EXCEPT ![r] =
            IF DOMAIN req.found = {t} THEN NextPerson(req.persons, req.share)
            ELSE [req EXCEPT !.found = [e \in DOMAIN @ \ {t} |-> @[e]]]]
  BY DEF GiveShare
<1>4. version' = version /\ author' = author
  BY DEF GiveShare
<1> DEFINE rec == [status |-> "labeling", labeler |-> req.person,
                   checker |-> task[t].checker]
<1>5. t \in Tasks /\ task[t] \in Record
  BY <1>2, FewerFound DEF LifeInv, VersionsOK
<1>6. rec \in Record
  BY <1>2, <1>5, GivenRecords
<1>7. Fits(task[t]) /\ task[t] = req.found[t] => Fits(rec)
  <2> SUFFICES ASSUME Fits(task[t]), task[t] = req.found[t]
               PROVE  Fits(rec)
    OBVIOUS
  <2>1. task[t].labeler = Nobody /\ (version = "v6" => task[t].status = "allocate")
    BY <1>1
  <2>2. task[t].checker = Nobody
    BY <1>1, <1>5, <2>1 DEF Fits, Reviewed, LifeInv, VersionsOK, Record
  <2>3. req.person # Nobody
    BY <1>2, VersionsAssumption
  <2> QED BY <1>6, <2>2, <2>3 DEF Fits, Reviewed
<1>8. task' \in [Tasks -> Record] /\ MisfitOnlyIfOvertaken'
  BY <1>3, <1>4, <1>5, <1>6, <1>7, WriteKeepsFit DEF LifeInv
<1>9. DOMAIN request' = Requests /\ RequestsOK'
  <2>1. CASE DOMAIN req.found = {t}
    BY <1>1, <1>2, <1>3, <1>4, <2>1, NextPersonOK, NewRequest DEF LifeInv
  <2>2. CASE DOMAIN req.found # {t}
    <3> DEFINE found == [e \in DOMAIN req.found \ {t} |-> req.found[e]]
               new == [req EXCEPT !.found = found]
    <3>1. found \in Finds
      BY <1>2, FewerFound
    <3>2. new \in GiveReq /\ new.found = found
      BY <1>1, <3>1 DEF GiveReq
    <3>3. \A e \in DOMAIN found :
            /\ found[e].labeler = Nobody
            /\ version = "v6" => found[e].status = "allocate"
      BY <1>1
    <3> HIDE DEF found
    <3>4. RequestOK(new)
      BY <1>1, <3>2, <3>3 DEF RequestOK
    <3>5. request' = [request EXCEPT ![r] = new]
      BY <1>3, <2>2 DEF found
    <3> QED BY <1>4, <3>4, <3>5, NewRequest DEF LifeInv
  <2> QED BY <2>1, <2>2
<1> QED BY <1>4, <1>8, <1>9 DEF LifeInv, VersionsOK

LEMMA WhileAnyOK ==
  ASSUME NEW req, RequestOK(req)
  PROVE  RequestOK(WhileAny(req))
  BY DEF WhileAny, RequestOK

LEMMA FindHandedInKeepsLife ==
  ASSUME LifeInv, NEW r \in Requests, NEW persons \in (SUBSET Users) \ {{}},
         NEW number \in Numbers, FindHandedIn(r, persons, number),
         version \in {"v1", "v2", "v5"}
  PROVE  LifeInv'
<1> DEFINE found == [t \in HandedIn |-> task[t]]
           load == [p \in persons |-> 0]
           share == AtLeastOne(number \div Cardinality(persons))
           req == [at |-> "check", found |-> found, load |-> load, left |-> number,
                   share |-> share]
<1>1. number \in Nat /\ share \in Int
  BY PeopleAreCounted, SharesAreNumbers, VersionsAssumption
<1>2. found \in Finds
  <2>1. HandedIn \in SUBSET Tasks /\ found \in [HandedIn -> Record]
    BY StoredIsCounted DEF LifeInv, VersionsOK
  <2> QED BY <2>1 DEF Finds
<1>3. load \in Loads
  BY DEF Loads
<1>4. \A t \in DOMAIN found : found[t].status = "submit"
  BY DEF HandedIn
<1>5. request' = [request EXCEPT ![r] = WhileAny(req)]
      /\ UNCHANGED <<version, task, author, overtaken>>
  BY DEF FindHandedIn
<1> HIDE DEF found, load, share
<1>6. req \in CheckReq
  BY <1>1, <1>2, <1>3 DEF CheckReq
<1>7. RequestOK(req)
  BY <1>4, <1>6 DEF RequestOK
<1> QED BY <1>5, <1>7, WhileAnyOK, RequestKeepsLife

LEMMA GiveToCheckerKeepsLife ==
  ASSUME LifeInv, NEW r \in Requests, GiveToChecker(r)
  PROVE  LifeInv'
<1> DEFINE req == request[r]
<1>1. /\ req \in CheckReq /\ version \in {"v1", "v2", "v5"}
      /\ \A t \in DOMAIN req.found : req.found[t].status = "submit"
  BY CheckRequest DEF GiveToChecker
<1>2. /\ req.found \in Finds /\ req.load \in Loads /\ req.left \in Int /\ req.share \in Int
  BY <1>1 DEF CheckReq
<1>2a. PICK t \in DOMAIN req.found : \E p \in Chosen(req, t) :
       /\ Write(t, req.found[t],
                [status |-> "checking", labeler |-> task[t].labeler, checker |-> p])
       /\ request' = [request EXCEPT ![r] = WhileAny(Given(req, t, p))]
  BY DEF GiveToChecker
<1>3. PICK p \in Chosen(req, t) :
       /\ Write(t, req.found[t],
                [status |-> "checking", labeler |-> task[t].labeler, checker |-> p])
       /\ request' = [request EXCEPT ![r] = WhileAny(Given(req, t, p))]
  BY <1>2a
<1>4. version' = version /\ author' = author
  BY DEF GiveToChecker
<1>5. t \in Tasks /\ task[t] \in Record
  BY <1>2, FewerFound DEF LifeInv, VersionsOK
<1>6. p \in DOMAIN req.load /\ p # req.found[t].labeler /\ p \in Users
  BY <1>2, MoreLoad DEF Chosen, Eligible
<1> DEFINE rec == [status |-> "checking", labeler |-> task[t].labeler, checker |-> p]
<1>7. rec \in Record
  BY <1>5, <1>6, GivenRecords
<1>8. Fits(task[t]) /\ task[t] = req.found[t] => Fits(rec)
  <2> SUFFICES ASSUME Fits(task[t]), task[t] = req.found[t]
               PROVE  Fits(rec)
    OBVIOUS
  <2>1. task[t].status = "submit" /\ p # task[t].labeler
    BY <1>1, <1>6
  <2>2. task[t].labeler # Nobody /\ p # Nobody
    BY <1>1, <1>6, <2>1, VersionsAssumption DEF Fits
  <2> QED BY <1>1, <1>7, <2>1, <2>2 DEF Fits, Reviewed
<1>9. task' \in [Tasks -> Record] /\ MisfitOnlyIfOvertaken'
  BY <1>3, <1>4, <1>5, <1>7, <1>8, WriteKeepsFit DEF LifeInv
<1>10. RequestOK(Given(req, t, p))
  <2> DEFINE found == [e \in DOMAIN req.found \ {t} |-> req.found[e]]
             load == [req.load EXCEPT ![p] = @ + 1]
             new == [at |-> "check", found |-> found, load |-> load,
                     left |-> req.left - 1, share |-> req.share]
  <2>1. Given(req, t, p) = new
    BY DEF Given
  <2>2. found \in Finds /\ load \in Loads
    BY <1>2, <1>6, FewerFound, MoreLoad
  <2>3. \A e \in DOMAIN found : found[e].status = "submit"
    BY <1>1
  <2> HIDE DEF found, load
  <2>4. new \in CheckReq
    BY <1>2, <2>2 DEF CheckReq
  <2> QED BY <1>1, <2>1, <2>3, <2>4 DEF RequestOK
<1>11. DOMAIN request' = Requests /\ RequestsOK'
  BY <1>3, <1>4, <1>10, WhileAnyOK, NewRequest DEF LifeInv
<1> QED BY <1>4, <1>9, <1>11 DEF LifeInv, VersionsOK

LEMMA EditingKeepsLife ==
  ASSUME LifeInv, NEW r \in Requests, NEW u \in Person, NEW t \in Tasks,
         Editing(r, u, t)
  PROVE  LifeInv'
<1>1. ASSUME NEW seen \in Record, NEW s \in Statuses \cup {"kept"},
             Decide(r, u, t, seen, s),
             \/ u \in {seen.labeler, seen.checker, Nobody}
             \/ version = "v1" /\ s # "kept" /\ seen.status \in DOMAIN Labeler,
             s # "kept" => version = "v1" /\ Allowed(seen.status, s)
      PROVE  LifeInv'
  <2> DEFINE req == [at |-> "edit", user |-> u, task |-> t, seen |-> seen, status |-> s]
  <2>1. req \in EditReq
    BY <1>1 DEF EditReq
  <2>2. RequestOK(req)
    BY <1>1, <2>1 DEF RequestOK, AsLabeller
  <2> QED BY <1>1, <2>2, RequestKeepsLife DEF Decide
<1>2. task[t] \in Record /\ "kept" \in Statuses \cup {"kept"}
  BY DEF LifeInv, VersionsOK
<1>3. CASE UpdateTask2(r, u, t) \/ UpdateTask3(r, u, t) \/ UpdateTask5(r, u, t)
  <2>1. Decide(r, u, t, task[t], "kept") /\ u \in {task[t].labeler, task[t].checker, Nobody}
    BY <1>3 DEF UpdateTask2, UpdateTask3, UpdateTask5, Holders
  <2> QED BY <1>1, <1>2, <2>1
<1>4. ASSUME u \in Users, NEW s \in Statuses, LabelTask(r, u, t, s)
      PROVE  LifeInv'
  <2>1. version = "v1" /\ Decide(r, u, t, task[t], s)
        /\ task[t].status \in DOMAIN Labeler /\ s \in Labeler[task[t].status]
    BY <1>4 DEF LabelTask
  <2>2. Allowed(task[t].status, s)
    BY <2>1 DEF Labeler, Allowed, Reviewed
  <2> QED BY <1>1, <1>2, <1>4, <2>1, <2>2, StatusesApart
<1>5. ASSUME u \in Users, NEW s \in Statuses, CheckTask(r, u, t, s)
      PROVE  LifeInv'
  <2>1. version = "v1" /\ Decide(r, u, t, task[t], s) /\ u = task[t].checker
        /\ task[t].status \in DOMAIN Checker /\ s \in Checker[task[t].status]
    BY <1>5 DEF CheckTask
  <2>2. Allowed(task[t].status, s)
    BY <2>1 DEF Checker, Allowed
  <2> QED BY <1>1, <1>2, <2>1, <2>2
<1> QED BY <1>3, <1>4, <1>5 DEF Editing

LEMMA IdleKeepsRequests ==
  ASSUME LifeInv, NEW r \in Requests, request' = [request EXCEPT ![r] = Idle],
         version' = version
  PROVE  DOMAIN request' = Requests /\ RequestsOK'
<1>1. RequestOK(Idle)
  BY DEF RequestOK
<1> QED BY <1>1, NewRequest DEF LifeInv

LEMMA SaveKeepsLife ==
  ASSUME LifeInv, NEW r \in Requests, SaveWithStatus(r) \/ SaveContents(r)
  PROVE  LifeInv'
<1> DEFINE req == request[r]
           t == req.task
<1>1. /\ req \in EditReq
      /\ req.status # "kept" => version = "v1" /\ Allowed(req.seen.status, req.status)
  BY EditRequest DEF SaveWithStatus, SaveContents
<1>2. t \in Tasks /\ req.user \in Person /\ req.seen \in Record
      /\ req.status \in Statuses \cup {"kept"}
  BY <1>1 DEF EditReq
<1>3. version' = version /\ request' = [request EXCEPT ![r] = Idle]
      /\ author' = IF t \in Stored THEN [author EXCEPT ![t] = req.user] ELSE author
  BY DEF SaveWithStatus, SaveContents
<1>4. author' \in [Tasks -> Person]
  BY <1>2, <1>3 DEF LifeInv, VersionsOK
<1>5. DOMAIN request' = Requests /\ RequestsOK'
  BY <1>3, IdleKeepsRequests
<1>6. CASE SaveWithStatus(r)
  <2> DEFINE rec == [task[t] EXCEPT !.status = req.status]
  <2>1. Write(t, req.seen, rec) /\ req.status # "kept"
    BY <1>6 DEF SaveWithStatus
  <2>2. task[t] \in Record
    BY <1>2 DEF LifeInv, VersionsOK
  <2>3. /\ rec \in Record
        /\ rec = [status |-> req.status, labeler |-> task[t].labeler,
                  checker |-> task[t].checker]
    BY <1>2, <2>1, <2>2 DEF Record
  <2>4. Fits(task[t]) /\ task[t] = req.seen => Fits(rec)
    BY <1>1, <2>1, <2>3 DEF Fits, Allowed, Reviewed
  <2> QED BY <1>2, <1>3, <1>4, <1>5, <2>1, <2>3, <2>4, WriteKeepsFit DEF LifeInv, VersionsOK
<1>7. CASE SaveContents(r)
  <2>1. task' = task /\ overtaken \subseteq overtaken'
    BY <1>7 DEF SaveContents
  <2>2. MisfitOnlyIfOvertaken'
    BY <1>3, <2>1 DEF LifeInv, MisfitOnlyIfOvertaken, Stored, Fits
  <2> QED BY <1>3, <1>4, <1>5, <2>1, <2>2 DEF LifeInv, VersionsOK
<1> QED BY <1>6, <1>7

LEMMA AbortKeepsLife ==
  ASSUME LifeInv, NEW r \in Requests, Abort(r)
  PROVE  LifeInv'
<1>1. RequestOK(Idle)
  BY DEF RequestOK
<1> QED BY <1>1, RequestKeepsLife DEF Abort

LEMMA AllocatingKeepsLife ==
  ASSUME LifeInv, NEW r \in Requests, NEW persons \in (SUBSET Users) \ {{}},
         NEW number \in Numbers, Allocating(r, persons, number)
  PROVE  LifeInv'
  BY ShareOutKeepsLife, FindHandedInKeepsLife
     DEF Allocating, AllocateTasks, Task2BatchAllocLabeler, Task3BatchAllocLabeler,
         Task6BatchAllocLabeler, AllocateCheckTasks, Task2BatchAllocChecker,
         Task5BatchAllocChecker

-----------------------------------------------------------------------------
LEMMA LifeInit ==
  ASSUME Init
  PROVE  LifeInv
<1>1. VersionsOK
  BY VersionsAssumption, BlankFits
     DEF Init, VersionsOK, Blank, Record, Statuses, Reviewed, Person
<1>2. RequestsOK
  BY DEF Init, RequestsOK, RequestOK
<1>3. Stored = {}
  BY StatusesApart DEF Init, Stored, Blank
<1> QED BY <1>1, <1>2, <1>3 DEF LifeInv, MisfitOnlyIfOvertaken

LEMMA LifeStep ==
  ASSUME LifeInv, [Next]_vars
  PROVE  LifeInv'
<1>1. CASE UNCHANGED vars
  BY <1>1 DEF vars, LifeInv, VersionsOK, RequestsOK, RequestOK, AsLabeller, MisfitOnlyIfOvertaken,
              Stored, Fits
<1>2. ASSUME NEW r \in Requests, Proceeding(r)
      PROVE  LifeInv'
  BY <1>2, FindShareKeepsLife, GiveShareKeepsLife, GiveToCheckerKeepsLife,
     SaveKeepsLife, AbortKeepsLife DEF Proceeding
<1> QED BY <1>1, <1>2, UploadingKeepsLife, DeletingKeepsLife, SettingStatusKeepsLife,
           EditingKeepsLife, AllocatingKeepsLife DEF Next

\* In every version, with any number of requests between read and write: status,
\* labeller and checker of a task fit together unless a write that followed an
\* outdated read has hit it since it was last free (task.go:639).
THEOREM MisfitsAreOvertaken == Spec => []MisfitOnlyIfOvertaken
<1>1. LifeInv => MisfitOnlyIfOvertaken
  BY DEF LifeInv
<1> QED BY <1>1, LifeInit, LifeStep, PTL DEF Spec

-----------------------------------------------------------------------------
(* Whose work a task contains. *)

Credited(t) ==
  \/ FromHolder(t)
  \/ version = "v1" /\ task[t].status \in DOMAIN Labeler

LEMMA SaveCredits ==
  ASSUME LifeInv, NEW r \in Requests, SaveWithStatus(r) \/ SaveContents(r)
  PROVE  \A t \in Tasks : Credited(t)
<1> DEFINE req == request[r]
           s == req.task
<1>1. /\ req \in EditReq
      /\ req.user \in {req.seen.labeler, req.seen.checker, Nobody} \/ AsLabeller(req)
      /\ req.status # "kept" => version = "v1"
  BY EditRequest DEF SaveWithStatus, SaveContents
<1>2. s \in Tasks /\ task[s] \in Record /\ author \in [Tasks -> Person]
  BY <1>1 DEF EditReq, LifeInv, VersionsOK
<1>3. author' = IF s \in Stored THEN [author EXCEPT ![s] = req.user] ELSE author
  BY DEF SaveWithStatus, SaveContents
<1>4. s \in Stored /\ s \notin overtaken'
      => /\ task[s].labeler = req.seen.labeler /\ task[s].checker = req.seen.checker
         /\ task[s].status = req.seen.status \/ req.status = "kept"
  <2> SUFFICES ASSUME s \in Stored, s \notin overtaken'
               PROVE  /\ task[s].labeler = req.seen.labeler
                      /\ task[s].checker = req.seen.checker
                      /\ task[s].status = req.seen.status \/ req.status = "kept"
    OBVIOUS
  <2>1. CASE SaveWithStatus(r)
    BY <2>1 DEF SaveWithStatus, Write
  <2>2. CASE SaveContents(r)
    <3> DEFINE now == [task[s] EXCEPT !.status = req.seen.status]
    <3>1. now = req.seen
      BY <2>2 DEF SaveContents
    <3>2. now.labeler = task[s].labeler /\ now.checker = task[s].checker
      BY <1>2 DEF Record
    <3> QED BY <2>2, <3>1, <3>2 DEF SaveContents
  <2> QED BY <2>1, <2>2
<1>5. ASSUME NEW t \in Tasks, author'[t] # author[t], author'[t] # Nobody,
             t \notin overtaken'
      PROVE  \/ author'[t] \in Holders(t)
             \/ version = "v1" /\ task[t].status \in DOMAIN Labeler
  <2>1. t = s /\ s \in Stored /\ author'[t] = req.user
    BY <1>2, <1>3, <1>5
  <2>2. CASE AsLabeller(req)
    BY <1>1, <1>4, <1>5, <2>1, <2>2 DEF AsLabeller
  <2>3. CASE req.user \in {req.seen.labeler, req.seen.checker, Nobody}
    BY <1>4, <1>5, <2>1, <2>3 DEF Holders
  <2> QED BY <1>1, <2>2, <2>3
<1> QED BY <1>5 DEF Credited, FromHolder

LEMMA StepCredits ==
  ASSUME LifeInv, [Next]_vars
  PROVE  \A t \in Tasks : Credited(t)
<1>1. CASE author' = author
  BY <1>1 DEF Credited, FromHolder
<1>2. ASSUME NEW t \in Tasks, Deleting(t)
      PROVE  \A s \in Tasks : Credited(s)
  BY <1>2 DEF Deleting, DeleteTask, DeleteTask2, DeleteTask3, DeleteTask5, DeleteTask6,
              Remove, Credited, FromHolder, LifeInv, VersionsOK
<1>3. ASSUME NEW t \in Tasks, Uploading(t) \/ Resetting(t)
      PROVE  author' = author
  BY <1>3 DEF Uploading, UploadTask, UploadTask2, UploadTask3, UploadTask6,
              AllocOneTask5, Insert, Resetting, ResetTasks, ResetTasks2, ResetTasks3,
              ResetTasks6, Release
<1>4. ASSUME NEW t \in Tasks, NEW u \in Person, SettingStatus(u, t)
      PROVE  author' = author
  BY <1>4 DEF SettingStatus, BatchSetTask2Status, BatchSetTask3Status,
              BatchSetTask5Status, BatchSetTask6Status, SetStatus
<1>5. ASSUME NEW r \in Requests, NEW t \in Tasks, NEW u \in Person, Editing(r, u, t)
      PROVE  author' = author
  BY <1>5 DEF Editing, UpdateTask2, UpdateTask3, UpdateTask5, LabelTask, CheckTask, Decide
<1>6. ASSUME NEW r \in Requests, NEW persons \in (SUBSET Users) \ {{}},
             NEW number \in Numbers, Allocating(r, persons, number)
      PROVE  author' = author
  BY <1>6 DEF Allocating, AllocateTasks, Task2BatchAllocLabeler, Task3BatchAllocLabeler,
              Task6BatchAllocLabeler, AllocateCheckTasks, Task2BatchAllocChecker,
              Task5BatchAllocChecker, ShareOut, FindHandedIn
<1>7. ASSUME NEW r \in Requests, Proceeding(r)
      PROVE  \A t \in Tasks : Credited(t)
  <2>1. CASE FindShare(r) \/ GiveShare(r) \/ GiveToChecker(r) \/ Abort(r)
    BY <1>1, <2>1 DEF FindShare, GiveShare, GiveToChecker, Abort
  <2> QED BY <1>7, <2>1, SaveCredits DEF Proceeding
<1> QED BY <1>1, <1>2, <1>3, <1>4, <1>5, <1>6, <1>7 DEF Next, vars

\* Contents come from a holder of the task, or from a manager, unless the task
\* changed after the request that writes them had read it.  Tasks of version 1
\* that are labelled, handed in or failed are left out: LabelTask promises nothing
\* of them, as the run of LabelledByHolder shows.
THEOREM ContentsAreOwn == Spec => OwnContents
<1>1. LifeInv /\ [Next]_vars
      => [\A t \in Tasks :
            \/ FromHolder(t)
            \/ version = "v1" /\ task[t].status \in DOMAIN Labeler]_vars
  BY StepCredits DEF Credited
<1> QED BY <1>1, LifeInit, LifeStep, PTL DEF Spec, OwnContents

-----------------------------------------------------------------------------
(* The life a task leads. *)

\* A step of task t in TaskLife.
Moving(t) ==
  \/ Life!Upload(t) \/ Life!Give(t) \/ Life!HandIn(t) \/ Life!Review(t)
  \/ Life!Free(t) \/ Life!Remove(t) \/ Life!Suspend(t)

Leads(t) == Lived(t)' = Lived(t) \/ Moving(t)

\* One task moves, the others stay as they are.
LEMMA OneTaskMoves ==
  ASSUME NEW t \in Tasks, Leads(t),
         version' = version,
         \A o \in Tasks \ {t} : /\ task'[o] = task[o]
                                /\ o \in overtaken' <=> o \in overtaken
  PROVE  [Life!Next]_lives
<1>1. ASSUME NEW o \in Tasks \ {t}
      PROVE  Lived(o)' = Lived(o)
  BY <1>1 DEF Lived, Stored
<1>2. \A o \in Tasks : lives[o] = Lived(o) /\ lives'[o] = Lived(o)'
  BY DEF lives
<1>3. CASE Lived(t)' = Lived(t)
  <2>1. \A o \in Tasks : Lived(o)' = Lived(o)
    BY <1>1, <1>3
  <2> QED BY <2>1 DEF lives
<1>4. CASE Moving(t) /\ Lived(t)' # Lived(t)
  <2>1. lives'[t] # lives[t] /\ \A o \in Tasks \ {t} : lives'[o] = lives[o]
    BY <1>1, <1>2, <1>4
  <2> QED BY <1>4, <2>1 DEF Life!Next, Moving
<1> QED BY <1>3, <1>4 DEF Leads

\* What Lived shows of a task before and after a step.
LEMMA Shown ==
  ASSUME NEW t \in Tasks
  PROVE  lives[t] = Lived(t) /\ lives'[t] = Lived(t)'
  BY DEF lives

\* A task that can be looked at is at a stage of its life.
LEMMA StoredIsPresent ==
  ASSUME NEW t \in Stored
  PROVE  Lived(t).stage \in Life!Present
  BY DEF Stored, Statuses, Reviewed, Lived, StageOf, Life!Present

\* A write that makes a task overtaken suspends its life.
LEMMA OvertakenSuspends ==
  ASSUME NEW t \in Stored, t \in overtaken'
  PROVE  Leads(t)
<1>1. Lived(t)' = Life!At("suspended", Nobody, Nobody)
  BY DEF Lived, Life!At
<1>2. Life!Suspend(t)
  BY <1>1, StoredIsPresent, Shown DEF Life!Suspend, Life!Move, Stored
<1> QED BY <1>2 DEF Leads, Moving

\* Records of a task that is in order, and how they show.
LEMMA ShownInOrder ==
  ASSUME VersionsOK, NEW t \in Tasks, t \notin overtaken, t \in Stored
  PROVE  Lived(t) = [stage |-> IF version = "v3" /\ task[t].labeler = Nobody
                               THEN "free" ELSE StageOf[task[t].status],
                     holder |-> task[t].labeler, reviewer |-> task[t].checker]
  BY DEF Lived

\* From status from to status to with the people kept.
Ahead(from, to) ==
  \/ StageOf[from] = StageOf[to]
  \/ from \in {"allocate", "labeling"} /\ to = "submit"
  \/ from = "submit" /\ to \in Reviewed

LEMMA StatusLeads ==
  ASSUME VersionsOK, NEW t \in Stored, t \notin overtaken, t \notin overtaken',
         version' = version, Fits(task[t]),
         NEW s \in Statuses, Ahead(task[t].status, s),
         task'[t] = [status |-> s, labeler |-> task[t].labeler,
                     checker |-> task[t].checker]
  PROVE  Leads(t)
<1> DEFINE from == task[t].status
<1>1. t \in Tasks /\ task[t] \in Record /\ from \in Statuses /\ s \in Statuses
  BY DEF Stored, VersionsOK
<1>2. Lived(t) = [stage |-> IF version = "v3" /\ task[t].labeler = Nobody
                            THEN "free" ELSE StageOf[from],
                  holder |-> task[t].labeler, reviewer |-> task[t].checker]
  BY <1>1 DEF Lived
<1>3. Lived(t)' = [stage |-> IF version = "v3" /\ task[t].labeler = Nobody
                             THEN "free" ELSE StageOf[s],
                   holder |-> task[t].labeler, reviewer |-> task[t].checker]
  BY <1>1 DEF Lived, Stored
<1>4. CASE StageOf[from] = StageOf[s]
  BY <1>2, <1>3, <1>4 DEF Leads
<1>5. CASE from \in {"allocate", "labeling"} /\ s = "submit"
  <2>1. task[t].checker = Nobody
    BY <1>5 DEF Fits, Reviewed
  <2>2. Lived(t).stage \in {"free", "held"}
    BY <1>2, <1>5 DEF StageOf
  <2>3. CASE version = "v3" /\ task[t].labeler = Nobody
    BY <1>2, <1>3, <2>3 DEF Leads
  <2>4. CASE ~ (version = "v3" /\ task[t].labeler = Nobody)
    <3>1. Lived(t)' = Life!At("handed", Lived(t).holder, Nobody)
      BY <1>2, <1>3, <1>5, <2>1, <2>4 DEF Life!At, StageOf
    <3>2. Life!HandIn(t)
      BY <1>1, <2>2, <3>1, Shown DEF Life!HandIn, Life!Move
    <3> QED BY <3>2 DEF Leads, Moving
  <2> QED BY <2>3, <2>4
<1>6. CASE from = "submit" /\ s \in Reviewed
  <2>1. task[t].checker = Nobody
    BY <1>6 DEF Fits, Reviewed
  <2>2. CASE version = "v3" /\ task[t].labeler = Nobody
    BY <1>2, <1>3, <2>2 DEF Leads
  <2>3. CASE ~ (version = "v3" /\ task[t].labeler = Nobody)
    <3>1. /\ Lived(t)' = Life!At("review", Lived(t).holder, Nobody)
          /\ Lived(t).stage = "handed"
      BY <1>2, <1>3, <1>6, <2>1, <2>3 DEF Life!At, StageOf, Reviewed
    <3>2. Nobody \in (Users \cup {Nobody}) \ ({Lived(t).holder} \cap Users)
      BY VersionsAssumption
    <3>3. Life!Review(t)
      BY <1>1, <3>1, <3>2, Shown DEF Life!Review, Life!Move
    <3> QED BY <3>3 DEF Leads, Moving
  <2> QED BY <2>2, <2>3
<1> QED BY <1>4, <1>5, <1>6 DEF Ahead

-----------------------------------------------------------------------------
(* Single updates. *)

LEMMA UploadingLeads ==
  ASSUME LifeInv, NEW t \in Tasks, Uploading(t)
  PROVE  [Life!Next]_lives
<1>1. /\ task[t].status = "absent" /\ UNCHANGED <<version, overtaken>>
      /\ \/ task' = [task EXCEPT ![t] = Blank("allocate")]
         \/ \E u \in Users :
              task' = [task EXCEPT ![t] = [Blank("labeling") EXCEPT !.labeler = u]]
  BY DEF Uploading, UploadTask, UploadTask2, UploadTask3, UploadTask6, AllocOneTask5,
         Insert
<1>2. t \notin Stored /\ \A o \in Tasks \ {t} : task'[o] = task[o]
  BY <1>1, StatusesApart DEF Stored, LifeInv, VersionsOK
<1>3. ASSUME t \in overtaken
      PROVE  Leads(t)
  BY <1>1, <1>3 DEF Leads, Lived
<1>4. ASSUME t \notin overtaken, task' = [task EXCEPT ![t] = Blank("allocate")]
      PROVE  Leads(t)
  <2>1. task'[t] = [status |-> "allocate", labeler |-> Nobody, checker |-> Nobody]
    BY <1>4 DEF LifeInv, VersionsOK, Blank
  <2>2. Lived(t)' = Life!At("free", Nobody, Nobody) /\ Lived(t).stage = "none"
    BY <1>1, <1>2, <1>4, <2>1 DEF Lived, StageOf, Life!At
  <2>3. Life!Upload(t)
    BY <2>2, Shown DEF Life!Upload, Life!Move
  <2> QED BY <2>3 DEF Leads, Moving
<1>5. ASSUME t \notin overtaken, NEW u \in Users,
             task' = [task EXCEPT ![t] = [Blank("labeling") EXCEPT !.labeler = u]]
      PROVE  Leads(t)
  <2>1. task'[t] = [status |-> "labeling", labeler |-> u, checker |-> Nobody]
    BY <1>5 DEF LifeInv, VersionsOK, Blank
  <2>2. Lived(t)' = Life!At("held", u, Nobody) /\ Lived(t).stage = "none"
    BY <1>1, <1>2, <1>5, <2>1, VersionsAssumption DEF Lived, StageOf, Life!At
  <2>3. Life!Give(t)
    BY <2>2, Shown DEF Life!Give, Life!Move
  <2> QED BY <2>3 DEF Leads, Moving
<1> QED BY <1>1, <1>2, <1>3, <1>4, <1>5, OneTaskMoves

LEMMA RemoveLeads ==
  ASSUME LifeInv, NEW t \in Tasks, Remove(t)
  PROVE  [Life!Next]_lives
<1>1. t \notin overtaken' /\ version' = version
      /\ \A o \in Tasks \ {t} : task'[o] = task[o] /\ (o \in overtaken' <=> o \in overtaken)
  BY DEF Remove, LifeInv, VersionsOK
<1>2. task'[t] = [status |-> "deleted", labeler |-> Nobody, checker |-> Nobody]
  BY DEF Remove, LifeInv, VersionsOK, Blank
<1>3. Lived(t)' = Life!At("gone", Nobody, Nobody)
  BY <1>1, <1>2, StatusesApart DEF Lived, Stored, StageOf, Life!At
<1>4. Life!Remove(t)
  BY <1>3, StoredIsPresent, Shown DEF Life!Remove, Life!Move, Remove
<1> QED BY <1>1, <1>4, OneTaskMoves DEF Leads, Moving

LEMMA ReleaseLeads ==
  ASSUME LifeInv, NEW t \in Tasks, Release(t)
  PROVE  [Life!Next]_lives
<1>1. t \notin overtaken' /\ version' = version
      /\ \A o \in Tasks \ {t} : task'[o] = task[o] /\ (o \in overtaken' <=> o \in overtaken)
  BY DEF Release, LifeInv, VersionsOK
<1>2. task'[t] = [status |-> "allocate", labeler |-> Nobody, checker |-> Nobody]
  BY DEF Release, LifeInv, VersionsOK, Blank
<1>3. Lived(t)' = Life!At("free", Nobody, Nobody)
  BY <1>1, <1>2, StatusesApart DEF Lived, Stored, StageOf, Life!At
<1>4. Life!Free(t)
  BY <1>3, StoredIsPresent, Shown DEF Life!Free, Life!Move, Release
<1> QED BY <1>1, <1>4, OneTaskMoves DEF Leads, Moving

LEMMA SetStatusLeads ==
  ASSUME LifeInv, NEW t \in Tasks, NEW from, NEW s \in Statuses, SetStatus(t, from, s),
         Fits(task[t]) /\ task[t].status \in from => Ahead(task[t].status, s)
  PROVE  [Life!Next]_lives
<1>1. /\ t \in Stored /\ task[t] \in Record /\ task[t].status \in from
      /\ task'[t] = [task[t] EXCEPT !.status = s]
      /\ UNCHANGED <<version, overtaken>>
      /\ \A o \in Tasks \ {t} : task'[o] = task[o]
  BY DEF SetStatus, LifeInv, VersionsOK
<1>2. task'[t] = [status |-> s, labeler |-> task[t].labeler, checker |-> task[t].checker]
  BY <1>1 DEF Record
<1>3. ASSUME t \in overtaken
      PROVE  Leads(t)
  BY <1>1, <1>3 DEF Leads, Lived
<1>4. ASSUME t \notin overtaken
      PROVE  Leads(t)
  <2>1. Fits(task[t])
    BY <1>1, <1>4 DEF LifeInv, MisfitOnlyIfOvertaken
  <2> QED BY <1>1, <1>2, <1>4, <2>1, StatusLeads DEF LifeInv
<1> QED BY <1>1, <1>3, <1>4, OneTaskMoves

LEMMA SettingStatusLeads ==
  ASSUME LifeInv, NEW t \in Tasks, NEW u \in Person, SettingStatus(u, t)
  PROVE  [Life!Next]_lives
<1>1. \A s \in {"submit", "checking", "passed", "failed"} : s \in Statuses
  BY DEF Statuses, Reviewed
<1>2. ASSUME NEW s \in DOMAIN SourceStatuses2, BatchSetTask2Status(u, t, s)
      PROVE  [Life!Next]_lives
  <2>1. s \in {"failed", "passed", "checking", "submit"}
        /\ SetStatus(t, SourceStatuses2[s], s)
    BY <1>2 DEF SourceStatuses2, BatchSetTask2Status
  <2>2. task[t].status \in SourceStatuses2[s] => Ahead(task[t].status, s)
    BY <2>1 DEF SourceStatuses2, Ahead, StageOf, Reviewed
  <2> QED BY <1>1, <2>1, <2>2, SetStatusLeads
<1>3. CASE BatchSetTask3Status(u, t)
  <2>1. version = "v3" /\ SetStatus(t, Statuses, "submit")
    BY <1>3 DEF BatchSetTask3Status
  <2>2. Fits(task[t]) /\ task[t].status \in Statuses => Ahead(task[t].status, "submit")
    BY <2>1 DEF Fits, Ahead, Statuses
  <2> QED BY <1>1, <2>1, <2>2, SetStatusLeads
<1>4. ASSUME NEW s \in DOMAIN NormalStatuses5, BatchSetTask5Status(u, t, s)
      PROVE  [Life!Next]_lives
  <2>1. /\ s \in {"failed", "passed", "checking", "submit"}
        /\ \/ SetStatus(t, NormalStatuses5[s], s)
           \/ SetStatus(t, SpecialStatuses5[s], s)
    BY <1>4 DEF NormalStatuses5, BatchSetTask5Status
  <2>2. task[t].status \in NormalStatuses5[s] => Ahead(task[t].status, s)
    BY <2>1 DEF NormalStatuses5, Ahead, StageOf, Reviewed
  <2>3. task[t].status \in SpecialStatuses5[s] => Ahead(task[t].status, s)
    BY <2>1 DEF SpecialStatuses5, Ahead, StageOf, Reviewed
  <2> QED BY <1>1, <2>1, <2>2, <2>3, SetStatusLeads
<1>5. CASE BatchSetTask6Status(u, t)
  <2>1. \/ SetStatus(t, {"labeling", "submit"}, "submit")
        \/ SetStatus(t, {"labeling", "allocate", "submit"}, "submit")
    BY <1>5 DEF BatchSetTask6Status
  <2>2. task[t].status \in {"labeling", "allocate", "submit"}
        => Ahead(task[t].status, "submit")
    BY DEF Ahead
  <2> QED BY <1>1, <2>1, <2>2, SetStatusLeads
<1> QED BY <1>2, <1>3, <1>4, <1>5 DEF SettingStatus

-----------------------------------------------------------------------------
(* Writes by _id. *)

LEMMA NothingMoves ==
  ASSUME UNCHANGED <<version, task, overtaken>>
  PROVE  [Life!Next]_lives
<1>1. \A t \in Tasks : Lived(t)' = Lived(t)
  BY DEF Lived, Stored
<1> QED BY <1>1 DEF lives

\* A write that found what its request read leads the task on, any other one
\* leaves it overtaken.
LEMMA WriteLeads ==
  ASSUME LifeInv, NEW t \in Tasks, NEW seen, NEW rec, Write(t, seen, rec),
         version' = version,
         /\ t \in Stored /\ t \notin overtaken /\ t \notin overtaken'
         /\ Fits(task[t]) /\ task[t] = seen /\ task'[t] = rec
         => Leads(t)
  PROVE  [Life!Next]_lives
<1>1. CASE t \notin Stored
  BY <1>1, NothingMoves DEF Write
<1>2. CASE t \in Stored
  <2>1. /\ task'[t] = rec
        /\ \A o \in Tasks \ {t} : task'[o] = task[o] /\ (o \in overtaken' <=> o \in overtaken)
        /\ overtaken \subseteq overtaken'
        /\ t \notin overtaken' => task[t] = seen
    BY <1>2 DEF Write, LifeInv, VersionsOK
  <2>2. Leads(t)
    <3>1. CASE t \in overtaken'
      BY <1>2, <3>1, OvertakenSuspends
    <3>2. CASE t \notin overtaken'
      <4>1. Fits(task[t])
        BY <1>2, <2>1, <3>2 DEF LifeInv, MisfitOnlyIfOvertaken
      <4> QED BY <1>2, <2>1, <3>2, <4>1
    <3> QED BY <3>1, <3>2
  <2> QED BY <2>1, <2>2, OneTaskMoves
<1> QED BY <1>1, <1>2

LEMMA GiveShareLeads ==
  ASSUME LifeInv, NEW r \in Requests, GiveShare(r)
  PROVE  [Life!Next]_lives
<1> DEFINE req == request[r]
<1>1. /\ req \in GiveReq /\ version # "v5"
      /\ \A t \in DOMAIN req.found : /\ req.found[t].labeler = Nobody
                                     /\ version = "v6" => req.found[t].status = "allocate"
  BY GiveRequest DEF GiveShare
<1>2. PICK t \in DOMAIN req.found :
        Write(t, req.found[t], [status |-> "labeling", labeler |-> req.person,
                                checker |-> task[t].checker])
  BY DEF GiveShare
<1>3. t \in Tasks /\ req.person \in Users /\ req.person # Nobody /\ version' = version
  BY <1>1, VersionsAssumption DEF GiveReq, Finds, GiveShare
<1>4. ASSUME t \in Stored, t \notin overtaken, t \notin overtaken', Fits(task[t]),
             task[t] = req.found[t],
             task'[t] = [status |-> "labeling", labeler |-> req.person,
                         checker |-> task[t].checker]
      PROVE  Leads(t)
  <2>1. task[t].labeler = Nobody /\ (version = "v6" => task[t].status = "allocate")
        /\ task[t].status \in Statuses
    BY <1>1, <1>4 DEF Stored
  <2>2. version \in {"v1", "v2", "v3", "v6"}
    BY <1>1 DEF LifeInv, VersionsOK
  <2>3. /\ version = "v3" \/ task[t].status = "allocate"
        /\ task[t].checker = Nobody
    BY <1>4, <2>1, <2>2 DEF Fits, Reviewed
  <2>4. Lived(t).stage = "free"
    BY <1>4, <2>1, <2>3 DEF Lived, StageOf
  <2>5. Lived(t)' = Life!At("held", req.person, Nobody)
    BY <1>3, <1>4, <2>3 DEF Lived, StageOf, Life!At
  <2>6. Life!Give(t)
    BY <1>3, <2>4, <2>5, Shown DEF Life!Give, Life!Move
  <2> QED BY <2>6 DEF Leads, Moving
<1> QED BY <1>2, <1>3, <1>4, WriteLeads

LEMMA GiveToCheckerLeads ==
  ASSUME LifeInv, NEW r \in Requests, GiveToChecker(r)
  PROVE  [Life!Next]_lives
<1> DEFINE req == request[r]
<1>1. /\ req \in CheckReq /\ version \in {"v1", "v2", "v5"}
      /\ \A t \in DOMAIN req.found : req.found[t].status = "submit"
  BY CheckRequest DEF GiveToChecker
<1>2. PICK t \in DOMAIN req.found : \E p \in Chosen(req, t) :
        Write(t, req.found[t], [status |-> "checking", labeler |-> task[t].labeler,
                                checker |-> p])
  BY DEF GiveToChecker
<1>3. PICK p \in Chosen(req, t) :
        Write(t, req.found[t], [status |-> "checking", labeler |-> task[t].labeler,
                                checker |-> p])
  BY <1>2
<1>4. t \in Tasks /\ p \in Users /\ p # req.found[t].labeler /\ version' = version
  BY <1>1 DEF CheckReq, Finds, Loads, Chosen, Eligible, GiveToChecker
<1>5. ASSUME t \in Stored, t \notin overtaken, t \notin overtaken', Fits(task[t]),
             task[t] = req.found[t],
             task'[t] = [status |-> "checking", labeler |-> task[t].labeler, checker |-> p]
      PROVE  Leads(t)
  <2>1. task[t].status = "submit" /\ p # task[t].labeler
    BY <1>1, <1>4, <1>5
  <2>2. /\ Lived(t) = [stage |-> "handed", holder |-> task[t].labeler,
                       reviewer |-> task[t].checker]
        /\ Lived(t)' = Life!At("review", task[t].labeler, p)
    BY <1>1, <1>4, <1>5, <2>1 DEF Lived, StageOf, Life!At
  <2>3. p \in (Users \cup {Nobody}) \ ({Lived(t).holder} \cap Users)
    BY <1>4, <2>1, <2>2
  <2>4. Life!Review(t)
    BY <1>4, <2>2, <2>3, Shown DEF Life!Review, Life!Move
  <2> QED BY <2>4 DEF Leads, Moving
<1> QED BY <1>3, <1>4, <1>5, WriteLeads

LEMMA SaveLeads ==
  ASSUME LifeInv, NEW r \in Requests, SaveWithStatus(r) \/ SaveContents(r)
  PROVE  [Life!Next]_lives
<1> DEFINE req == request[r]
<1>1. /\ req \in EditReq
      /\ req.status # "kept" => version = "v1" /\ Allowed(req.seen.status, req.status)
  BY EditRequest DEF SaveWithStatus, SaveContents
<1> PICK t \in Tasks : t = req.task
  BY <1>1 DEF EditReq
<1>2. t \in Tasks /\ version' = version /\ task[t] \in Record
      /\ req.status \in Statuses \cup {"kept"}
  BY <1>1 DEF EditReq, SaveWithStatus, SaveContents, LifeInv, VersionsOK
<1>3. CASE SaveWithStatus(r)
  <2> DEFINE rec == [task[t] EXCEPT !.status = req.status]
  <2>1. Write(t, req.seen, rec) /\ req.status # "kept"
    BY <1>3 DEF SaveWithStatus
  <2>2. rec = [status |-> req.status, labeler |-> task[t].labeler,
               checker |-> task[t].checker]
    BY <1>2 DEF Record
  <2>3. ASSUME t \in Stored, t \notin overtaken, t \notin overtaken', Fits(task[t]),
               task[t] = req.seen, task'[t] = rec
        PROVE  Leads(t)
    <3>1. Ahead(task[t].status, req.status)
      BY <1>1, <2>1, <2>3 DEF Allowed, Ahead, StageOf, Reviewed
    <3>2. task'[t] = [status |-> req.status, labeler |-> task[t].labeler,
                      checker |-> task[t].checker]
      BY <2>2, <2>3
    <3> QED BY <1>2, <2>1, <2>3, <3>1, <3>2, StatusLeads DEF LifeInv
  <2> HIDE DEF rec
  <2> QED BY <1>2, <2>1, <2>3, WriteLeads
<1>4. CASE SaveContents(r)
  <2>1. /\ task' = task
        /\ \A o \in Tasks \ {t} : o \in overtaken' <=> o \in overtaken
        /\ t \in overtaken' => t \in Stored \/ t \in overtaken
        /\ overtaken \subseteq overtaken'
    BY <1>4 DEF SaveContents
  <2>2. CASE t \in Stored /\ t \in overtaken'
    BY <1>2, <2>1, <2>2, OvertakenSuspends, OneTaskMoves
  <2>3. CASE ~ (t \in Stored /\ t \in overtaken')
    <3>1. t \in overtaken' <=> t \in overtaken
      BY <2>1, <2>3
    <3>2. Lived(t)' = Lived(t)
      BY <1>2, <2>1, <3>1 DEF Lived, Stored
    <3> QED BY <1>2, <2>1, <3>2, OneTaskMoves DEF Leads
  <2> QED BY <2>2, <2>3
<1> QED BY <1>3, <1>4

-----------------------------------------------------------------------------
LEMMA LifeStarts ==
  ASSUME Init
  PROVE  Life!Init
  BY DEF Init, Life!Init, lives, Lived, Stored, StageOf, Life!At, Blank, Statuses, Reviewed

LEMMA StepLeads ==
  ASSUME LifeInv, [Next]_vars
  PROVE  [Life!Next]_lives
<1>1. CASE UNCHANGED vars
  BY <1>1, NothingMoves DEF vars
<1>2. ASSUME NEW t \in Tasks, Deleting(t) \/ Resetting(t)
      PROVE  [Life!Next]_lives
  BY <1>2, RemoveLeads, ReleaseLeads
     DEF Deleting, DeleteTask, DeleteTask2, DeleteTask3, DeleteTask5, DeleteTask6,
         Resetting, ResetTasks, ResetTasks2, ResetTasks3, ResetTasks6
<1>3. ASSUME NEW r \in Requests, NEW t \in Tasks, NEW u \in Person, Editing(r, u, t)
      PROVE  [Life!Next]_lives
  BY <1>3, NothingMoves
     DEF Editing, UpdateTask2, UpdateTask3, UpdateTask5, LabelTask, CheckTask, Decide
<1>4. ASSUME NEW r \in Requests, NEW persons \in (SUBSET Users) \ {{}},
             NEW number \in Numbers, Allocating(r, persons, number)
      PROVE  [Life!Next]_lives
  BY <1>4, NothingMoves
     DEF Allocating, AllocateTasks, Task2BatchAllocLabeler, Task3BatchAllocLabeler,
         Task6BatchAllocLabeler, AllocateCheckTasks, Task2BatchAllocChecker,
         Task5BatchAllocChecker, ShareOut, FindHandedIn
<1>5. ASSUME NEW r \in Requests, Proceeding(r)
      PROVE  [Life!Next]_lives
  <2>1. CASE FindShare(r) \/ Abort(r)
    BY <2>1, NothingMoves DEF FindShare, Abort
  <2> QED BY <1>5, <2>1, GiveShareLeads, GiveToCheckerLeads, SaveLeads DEF Proceeding
<1> QED BY <1>1, <1>2, <1>3, <1>4, <1>5, UploadingLeads, SettingStatusLeads DEF Next

\* Each of the five programs, with any number of requests between read and
\* write, leads every task through the life of TaskLife.
THEOREM LedThroughLife == Spec => LeadsTaskLife
<1> QED BY LifeInit, LifeStep, LifeStarts, StepLeads, PTL DEF Spec, LeadsTaskLife, Life!Spec

-----------------------------------------------------------------------------
(* The numbers of the project page. *)

LEMMA Additive ==
  ASSUME VersionsOK, NEW A \in SUBSET Stored, NEW B \in SUBSET Stored, A \cap B = {}
  PROVE  /\ Cardinality(A) \in Nat /\ Cardinality(B) \in Nat
         /\ Cardinality(A \cup B) = Cardinality(A) + Cardinality(B)
<1>1. IsFiniteSet(A) /\ IsFiniteSet(B)
  BY FS_Subset, VersionsAssumption DEF Stored
<1>2. Cardinality(A) \in Nat /\ Cardinality(B) \in Nat
  BY <1>1, FS_CardinalityType
<1>3. Cardinality(A \cup B) = Cardinality(A) + Cardinality(B) - Cardinality(A \cap B)
  BY <1>1, FS_Union
<1>4. Cardinality(A \cap B) = 0
  BY FS_EmptySet
<1> QED BY <1>2, <1>3, <1>4

LEMMA Monotone ==
  ASSUME VersionsOK, NEW A \in SUBSET Stored, NEW B \in SUBSET A
  PROVE  /\ Cardinality(A) \in Nat /\ Cardinality(B) \in Nat
         /\ Cardinality(B) <= Cardinality(A)
<1>1. IsFiniteSet(A)
  BY FS_Subset, VersionsAssumption DEF Stored
<1> QED BY <1>1, FS_Subset, FS_CardinalityType

\* All that is stored, less the tasks of one status.
LEMMA WithoutStatus ==
  ASSUME VersionsOK, NEW statuses
  PROVE  Cardinality(Stored) - Count(statuses)
         = Cardinality({t \in Stored : task[t].status \notin statuses})
<1> DEFINE A == {t \in Stored : task[t].status \in statuses}
           B == {t \in Stored : task[t].status \notin statuses}
<1>1. A \in SUBSET Stored /\ B \in SUBSET Stored /\ A \cap B = {} /\ A \cup B = Stored
  OBVIOUS
<1> HIDE DEF A, B
<1>2. Cardinality(Stored) = Cardinality(A) + Cardinality(B)
      /\ Cardinality(A) \in Nat /\ Cardinality(B) \in Nat
  BY <1>1, Additive
<1> QED BY <1>2 DEF Count, A, B

LEMMA OnLabelLists ==
  ASSUME VersionsOK, version # "v5"
  PROVE  /\ OnLists(Labels) = {t \in Stored : task[t].labeler # Nobody}
         /\ version # "v3" =>
              OnLists(Checks) = {t \in Stored : task[t].checker # Nobody}
<1>1. \A u \in Users : MyTasks(u, Labels) = {t \in Stored : task[t].labeler = u}
  BY KindsAssumption
     DEF VersionsOK, MyTasks, SearchMyTask, SearchMyTask2, SearchMyTask3, SearchMyTask6, Listed
<1>2. version # "v3" =>
        \A u \in Users : MyTasks(u, Checks) = {t \in Stored : task[t].checker = u}
  BY KindsAssumption
     DEF VersionsOK, MyTasks, SearchMyTask, SearchMyTask2, SearchMyTask6, Listed
<1>3. \A t \in Stored : task[t].labeler \in Users \cup {Nobody}
                        /\ task[t].checker \in Users \cup {Nobody}
  BY DEF Stored, VersionsOK, Record, Person
<1>4. OnLists(Labels) = {t \in Stored : task[t].labeler # Nobody}
  BY <1>1, <1>3, VersionsAssumption DEF OnLists
<1>5. version # "v3" => OnLists(Checks) = {t \in Stored : task[t].checker # Nobody}
  BY <1>2, <1>3, VersionsAssumption DEF OnLists
<1> QED BY <1>4, <1>5

LEMMA StoredStatus ==
  ASSUME NEW t \in Stored
  PROVE  task[t].status \in {"allocate", "labeling", "submit", "checking", "passed", "failed"}
  BY DEF Stored, Statuses, Reviewed

\* Versions 1 and 2: nobody labels a task that is free, everybody else has a labeller.
LEMMA CountsOfOneAndTwo ==
  ASSUME VersionsOK, version \in {"v1", "v2"}, \A t \in Stored : Fits(task[t])
  PROVE  /\ ProjectCount.unallocatedLabel = Cardinality(Free)
         /\ ProjectCount.allocatedLabel = Cardinality(OnLists(Labels))
         /\ ProjectCount.unallocatedCheck = Cardinality(HandedIn)
<1>1. \A t \in Stored : task[t].status = "allocate" <=> task[t].labeler = Nobody
  BY DEF Fits
<1>2. {t \in Stored : task[t].status \in {"allocate"}} = Free
  BY <1>1 DEF Free
<1>3. {t \in Stored : task[t].status \notin {"allocate"}} = OnLists(Labels)
  BY <1>1, OnLabelLists
<1>4. {t \in Stored : task[t].status \in {"submit"}} = HandedIn
  BY DEF Fits, HandedIn, Reviewed
<1>5. Count({"allocate"}) = Cardinality(Free) /\ Count({"submit"}) = Cardinality(HandedIn)
  BY <1>2, <1>4 DEF Count
<1>6. Cardinality(Stored) - Count({"allocate"}) = Cardinality(OnLists(Labels))
  BY <1>3, WithoutStatus
<1> QED BY <1>5, <1>6 DEF ProjectCount

\* The three numbers that make up the tasks being checked.
LEMMA CountOfReviewed ==
  ASSUME VersionsOK
  PROVE  Count({"checking"}) + Count({"passed"}) + Count({"failed"})
         = Cardinality({t \in Stored : task[t].status \in Reviewed})
<1> DEFINE A == {t \in Stored : task[t].status \in {"checking"}}
           B == {t \in Stored : task[t].status \in {"passed"}}
           C == {t \in Stored : task[t].status \in {"failed"}}
<1>1. /\ A \in SUBSET Stored /\ B \in SUBSET Stored /\ C \in SUBSET Stored
      /\ A \cup B \in SUBSET Stored /\ A \cap B = {} /\ (A \cup B) \cap C = {}
      /\ (A \cup B) \cup C = {t \in Stored : task[t].status \in Reviewed}
  BY DEF Reviewed
<1>2. Count({"checking"}) = Cardinality(A) /\ Count({"passed"}) = Cardinality(B)
      /\ Count({"failed"}) = Cardinality(C)
  BY DEF Count
<1> HIDE DEF A, B, C
<1>3. Cardinality(A \cup B) = Cardinality(A) + Cardinality(B)
  BY <1>1, Additive
<1>4. Cardinality((A \cup B) \cup C) = Cardinality(A \cup B) + Cardinality(C)
  BY <1>1, Additive
<1> QED BY <1>1, <1>2, <1>3, <1>4

LEMMA CheckCountsOfOneAndTwo ==
  ASSUME VersionsOK, version \in {"v1", "v2"}, \A t \in Stored : Fits(task[t])
  PROVE  /\ version = "v1" =>
              ProjectCount.allocatedCheck = Cardinality(OnLists(Checks))
         /\ Project2Count.allocatedCheck >= Cardinality(OnLists(Checks))
<1> DEFINE A == {t \in Stored : task[t].status \in Reviewed}
<1>1. ProjectCount.allocatedCheck = Cardinality(A)
      /\ Project2Count.allocatedCheck = Cardinality(A)
  BY CountOfReviewed DEF ProjectCount, Project2Count
<1>2. OnLists(Checks) \in SUBSET A /\ (version = "v1" => OnLists(Checks) = A)
  BY OnLabelLists DEF Fits
<1>3. A \in SUBSET Stored
  OBVIOUS
<1> HIDE DEF A
<1>4. Cardinality(OnLists(Checks)) <= Cardinality(A) /\ Cardinality(OnLists(Checks)) \in Nat
      /\ Cardinality(A) \in Nat
  BY <1>2, <1>3, Monotone
<1> QED BY <1>1, <1>2, <1>4

LEMMA CountsOfThree ==
  ASSUME VersionsOK, version = "v3", \A t \in Stored : Fits(task[t])
  PROVE  /\ Project3Count.unallocatedLabel <= Cardinality(Free)
         /\ Project3Count.allocatedLabel >= Cardinality(OnLists(Labels))
<1> DEFINE A == {t \in Stored : task[t].status \in {"allocate"}}
           B == {t \in Stored : task[t].status \notin {"allocate"}}
<1>1. Free \in SUBSET Stored /\ A \in SUBSET Free /\ B \in SUBSET Stored
      /\ OnLists(Labels) \in SUBSET B
  BY OnLabelLists DEF Free, Fits
<1>2. Project3Count.unallocatedLabel = Cardinality(A)
      /\ Project3Count.allocatedLabel = Cardinality(B)
  BY WithoutStatus DEF Project3Count, Count
<1> HIDE DEF A, B
<1>3. Cardinality(A) <= Cardinality(Free)
      /\ Cardinality(OnLists(Labels)) <= Cardinality(B)
      /\ Cardinality(OnLists(Labels)) \in Nat /\ Cardinality(B) \in Nat
  BY <1>1, Monotone
<1> QED BY <1>2, <1>3

LEMMA CountsOfSix ==
  ASSUME VersionsOK, version = "v6", \A t \in Stored : Fits(task[t])
  PROVE  /\ Project6Count.unallocatedLabel = Cardinality(Free)
         /\ Project6Count.allocatedLabel = Cardinality(OnLists(Labels))
         /\ Project6Count.allocatedCheck = Cardinality(OnLists(Checks))
<1> DEFINE A == {t \in Stored : task[t].status \in {"labeling"}}
           B == {t \in Stored : /\ task[t].status \in {"submit"} \cup Reviewed
                                /\ task[t].labeler # Nobody}
           C == {t \in Stored : task[t].status \in {"checking"}}
           D == {t \in Stored : /\ task[t].status \in {"passed", "failed"}
                                /\ task[t].checker # Nobody}
<1>1. {t \in Stored : task[t].status \in {"allocate"}} = Free
  BY DEF Fits, Free
<1>2. A \in SUBSET Stored /\ B \in SUBSET Stored /\ A \cap B = {}
      /\ A \cup B = OnLists(Labels)
  BY OnLabelLists, StoredStatus DEF Fits, Reviewed
<1>3. C = {} /\ D = {} /\ OnLists(Checks) = {}
  BY OnLabelLists DEF Fits, Reviewed
<1>4. /\ Project6Count.unallocatedLabel = Cardinality(Free)
      /\ Project6Count.allocatedLabel = Cardinality(A) + Cardinality(B)
      /\ Project6Count.allocatedCheck = Cardinality(C) + Cardinality(D)
  BY <1>1 DEF Project6Count, Count
<1> HIDE DEF A, B, C, D
<1>5. Cardinality(A \cup B) = Cardinality(A) + Cardinality(B)
  BY <1>2, Additive
<1>6. Cardinality({}) = 0
  BY FS_EmptySet
<1> QED BY <1>2, <1>3, <1>4, <1>5, <1>6

LEMMA ListCountsOfSix ==
  ASSUME VersionsOK, version = "v6", \A t \in Stored : Fits(task[t]), NEW u \in Users
  PROVE  LET n == SearchMyTask6Count(u, Labels) IN
         n["labeling"] + n["submit"] + n["checking"] + n["passed"] + n["failed"]
           = Cardinality(MyTasks(u, Labels))
<1> DEFINE L == Listed(u, Labels, {})
           Of(s) == {t \in L : task[t].status = s}
           n == SearchMyTask6Count(u, Labels)
<1>1. L = {t \in Stored : task[t].labeler = u} /\ L \in SUBSET Stored
  BY KindsAssumption DEF Listed
<1>2. MyTasks(u, Labels) = L
  BY DEF MyTasks, SearchMyTask6
<1>3. {"labeling", "submit", "checking", "passed", "failed"}
      \subseteq Statuses \ {"allocate"}
  BY DEF Statuses, Reviewed
<1>4. \A s \in {"labeling", "submit", "checking", "passed", "failed"} :
        n[s] = Cardinality(Of(s))
  BY <1>3 DEF SearchMyTask6Count
<1>5. \A t \in L : task[t].status \in {"labeling", "submit", "checking", "passed", "failed"}
  BY <1>1, StoredStatus, VersionsAssumption DEF Fits
<1> DEFINE a == Of("labeling")
           b == Of("submit")
           c == Of("checking")
           d == Of("passed")
           e == Of("failed")
<1>6. /\ a \in SUBSET Stored /\ b \in SUBSET Stored /\ c \in SUBSET Stored
      /\ d \in SUBSET Stored /\ e \in SUBSET Stored
      /\ a \cap b = {} /\ (a \cup b) \cap c = {} /\ (a \cup b \cup c) \cap d = {}
      /\ (a \cup b \cup c \cup d) \cap e = {}
  BY <1>1
<1>7. a \cup b \cup c \cup d \cup e = L
  BY <1>1, <1>5
<1> HIDE DEF a, b, c, d, e, L
<1>8. Cardinality(a \cup b) = Cardinality(a) + Cardinality(b)
  BY <1>6, Additive
<1>9. Cardinality((a \cup b) \cup c) = Cardinality(a \cup b) + Cardinality(c)
  BY <1>6, Additive
<1>10. Cardinality((a \cup b \cup c) \cup d) = Cardinality(a \cup b \cup c) + Cardinality(d)
  BY <1>6, Additive
<1>11. Cardinality((a \cup b \cup c \cup d) \cup e)
       = Cardinality(a \cup b \cup c \cup d) + Cardinality(e)
  BY <1>6, Additive
<1>12. /\ n["labeling"] = Cardinality(a) /\ n["submit"] = Cardinality(b)
       /\ n["checking"] = Cardinality(c) /\ n["passed"] = Cardinality(d)
       /\ n["failed"] = Cardinality(e)
  BY <1>4 DEF a, b, c, d, e, L
<1> QED BY <1>2, <1>7, <1>8, <1>9, <1>10, <1>11, <1>12

\* In each version the numbers of the project page are those the allocations
\* find and the people's lists hold, as far as the statuses can tell.
THEOREM CountsAgreeWithLists == Spec => []CountsAgree
<1>1. LifeInv => CountsAgree
  <2>1. ASSUME LifeInv, overtaken = {}
        PROVE  VersionsOK /\ \A t \in Stored : Fits(task[t])
    BY <2>1 DEF LifeInv, MisfitOnlyIfOvertaken
  <2> QED BY <2>1, CountsOfOneAndTwo, CheckCountsOfOneAndTwo, CountsOfThree,
             CountsOfSix, ListCountsOfSix DEF CountsAgree
<1> QED BY <1>1, LifeInit, LifeStep, PTL DEF Spec
=============================================================================
