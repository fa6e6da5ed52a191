------------------------- MODULE Task4ReviewProofs -------------------------
(***************************************************************************)
(* Proofs about the review of version 4, for every set of tasks and users: *)
(* the types under any overlap of requests, and the review rules as long   *)
(* as one manager request is served at a time.                             *)
(***************************************************************************)
EXTENDS Task4Review, FiniteSetTheorems, TLAPS

LEMMA ShareIsNat ==
  ASSUME NEW persons \in (SUBSET Users) \ {{}}, NEW n \in Nat
  PROVE  AtLeastOne(n \div Cardinality(persons)) \in Nat
<1>0. persons \subseteq Users /\ persons # {} OBVIOUS
<1>1. IsFiniteSet(persons) BY <1>0, ReviewAssumption, FS_Subset
<1>2. Cardinality(persons) \in Nat BY <1>1, FS_CardinalityType
<1>3. Cardinality(persons) # 0 BY <1>0, <1>1, FS_EmptySet
<1>4. n \div Cardinality(persons) \in Int BY <1>2, <1>3
<1> QED BY <1>4 DEF AtLeastOne

LEMMA UnallocatedIsNat == Cardinality(Unallocated) \in Nat
<1>1. IsFiniteSet(Unallocated)
  BY ReviewAssumption, FS_Subset DEF Unallocated, Stored
<1> QED BY <1>1, FS_CardinalityType

\* Which fields a request has.
LEMMA RequestStages ==
  ASSUME NEW r, IsRequest(r)
  PROVE  /\ r.at = "find" => r \in [at : {"find"}, persons : SUBSET Users, share : Nat]
         /\ r.at = "write" =>
              r \in [at : {"write"}, persons : SUBSET Users, share : Nat,
                     person : Users, ids : SUBSET Tasks]
         /\ r.at = "check" =>
              /\ r = [at |-> "check", found |-> r.found, load |-> r.load,
                      share |-> r.share, left |-> r.left]
              /\ DOMAIN r.found \subseteq Tasks
              /\ r.found \in [DOMAIN r.found -> Person]
              /\ DOMAIN r.load \subseteq Users
              /\ r.load \in [DOMAIN r.load -> Nat]
              /\ r.share \in Nat /\ r.left \in Nat
BY DEF IsRequest, Idle

LEMMA NextPersonIsRequest ==
  ASSUME NEW persons \in SUBSET Users, NEW share \in Nat
  PROVE  IsRequest(NextPerson(persons, share))
BY DEF IsRequest, NextPerson

\* A request that loops on stays a request; left may have reached zero.
LEMMA AnyTaskIsRequest ==
  ASSUME NEW found, NEW load, NEW share \in Nat, NEW left \in Int,
         DOMAIN found \subseteq Tasks, found \in [DOMAIN found -> Person],
         DOMAIN load \subseteq Users, load \in [DOMAIN load -> Nat]
  PROVE  IsRequest(AnyTask([at |-> "check", found |-> found, load |-> load,
                            share |-> share, left |-> left]))
<1> DEFINE r == [at |-> "check", found |-> found, load |-> load,
                 share |-> share, left |-> left]
<1>1. CASE AnyTask(r) = r
  <2>1. left > 0 \/ r = Idle BY <1>1 DEF AnyTask
  <2> QED BY <1>1, <2>1 DEF IsRequest
<1>2. CASE AnyTask(r) = Idle BY <1>2 DEF IsRequest
<1> QED BY <1>1, <1>2 DEF AnyTask

-----------------------------------------------------------------------------
\* The step of a check request, spelt out: what the request looks like next.
LEMMA CheckStep ==
  ASSUME TypeOK, NEW m \in Managers, AllocCheckerWrite(m)
  PROVE  \E t \in Tasks, p \in Users :
           /\ t \in DOMAIN manager[m].found
           /\ p \in DOMAIN manager[m].load
           /\ p # manager[m].found[t]
           /\ task' = IF t \in Stored
                      THEN [task EXCEPT ![t].checker = p, ![t].status = "checking"]
                      ELSE task
           /\ manager' = [manager EXCEPT ![m] = AnyTask(Given(manager[m], t, p))]
<1> DEFINE req == manager[m]
<1>1. IsRequest(req) /\ req.at = "check" BY DEF TypeOK, AllocCheckerWrite
<1>2. DOMAIN req.found \subseteq Tasks /\ DOMAIN req.load \subseteq Users
  BY <1>1, RequestStages
<1>3. PICK t \in DOMAIN req.found : \E p \in LeastLoaded(req, t) :
        /\ task' = IF t \in Stored
                   THEN [task EXCEPT ![t].checker = p, ![t].status = "checking"]
                   ELSE task
        /\ manager' = [manager EXCEPT ![m] = AnyTask(Given(req, t, p))]
  BY DEF AllocCheckerWrite
<1>4. PICK p \in LeastLoaded(req, t) :
        /\ task' = IF t \in Stored
                   THEN [task EXCEPT ![t].checker = p, ![t].status = "checking"]
                   ELSE task
        /\ manager' = [manager EXCEPT ![m] = AnyTask(Given(req, t, p))]
  BY <1>3
<1>5. p \in DOMAIN req.load /\ p # req.found[t]
  BY <1>4 DEF LeastLoaded, Eligible
<1> QED BY <1>2, <1>3, <1>4, <1>5

LEMMA TypesStep == TypeOK /\ [Next]_vars => TypeOK'
<1> SUFFICES ASSUME TypeOK, [Next]_vars PROVE TypeOK' OBVIOUS
<1>1. ASSUME NEW u \in Users, NEW t \in Tasks, NEW s \in DOMAIN NormalStatusMap,
             SetStatus(u, t, s)
      PROVE  TypeOK'
  <2>1. s \in Statuses BY DEF NormalStatusMap, Statuses
  <2> QED BY <1>1, <2>1 DEF SetStatus, TypeOK, Task4
<1>2. ASSUME NEW m \in Managers, NEW t \in Tasks,
             \/ UploadTask4(m, t) \/ DeleteTask4(m, t)
             \/ ResetLabeler(m, t) \/ ResetChecker(m, t)
      PROVE  TypeOK'
  BY <1>2 DEF UploadTask4, DeleteTask4, ResetLabeler, ResetChecker, TypeOK, Task4,
              Statuses, Person
<1>3. ASSUME NEW m \in Managers, NEW t \in Tasks, NEW s \in DOMAIN SpecialStatusMap,
             SetStatusAsManager(m, t, s)
      PROVE  TypeOK'
  <2>1. s \in Statuses BY DEF SpecialStatusMap, Statuses
  <2> QED BY <1>3, <2>1 DEF SetStatusAsManager, TypeOK, Task4
<1>4. ASSUME NEW m \in Managers, NEW persons \in (SUBSET Users) \ {{}},
             NEW number \in Numbers, AllocLabelerCount(m, persons, number)
      PROVE  TypeOK'
  <2> DEFINE count == Cardinality(Unallocated)
             share == AtLeastOne((IF count > number THEN number ELSE count)
                                   \div Cardinality(persons))
  <2>1. share \in Nat BY ShareIsNat, UnallocatedIsNat, ReviewAssumption
  <2>2. IsRequest([at |-> "find", persons |-> persons, share |-> share])
    BY <2>1 DEF IsRequest
  <2> QED BY <1>4, <2>2 DEF AllocLabelerCount, TypeOK
<1>5. ASSUME NEW m \in Managers, AllocLabelerFind(m) PROVE TypeOK'
  <2> DEFINE req == manager[m]
  <2>1. req \in [at : {"find"}, persons : SUBSET Users, share : Nat]
    BY <1>5, RequestStages DEF TypeOK, AllocLabelerFind
  <2>2. PICK p \in req.persons, ids \in SUBSET Unallocated :
          manager' = [manager EXCEPT ![m] =
            IF ids = {} THEN NextPerson(req.persons \ {p}, req.share)
            ELSE [at |-> "write", persons |-> req.persons \ {p},
                  share |-> req.share, person |-> p, ids |-> ids]]
    BY <1>5 DEF AllocLabelerFind
  <2>3. IsRequest(NextPerson(req.persons \ {p}, req.share))
    BY <2>1, NextPersonIsRequest
  <2>4. IsRequest([at |-> "write", persons |-> req.persons \ {p},
                   share |-> req.share, person |-> p, ids |-> ids])
    BY <2>1 DEF IsRequest, Unallocated, Stored
  <2> QED BY <1>5, <2>2, <2>3, <2>4 DEF AllocLabelerFind, TypeOK
<1>6. ASSUME NEW m \in Managers, AllocLabelerWrite(m) PROVE TypeOK'
  <2> DEFINE req == manager[m]
  <2>1. req \in [at : {"write"}, persons : SUBSET Users, share : Nat,
                 person : Users, ids : SUBSET Tasks]
    BY <1>6, RequestStages DEF TypeOK, AllocLabelerWrite
  <2>2. PICK t \in req.ids :
          /\ task' = IF t \in Stored
                     THEN [task EXCEPT ![t].labeler = req.person,
                                       ![t].status = "labeling"]
                     ELSE task
          /\ manager' = [manager EXCEPT ![m] =
               IF req.ids = {t} THEN NextPerson(req.persons, req.share)
               ELSE [req EXCEPT !.ids = @ \ {t}]]
    BY <1>6 DEF AllocLabelerWrite
  <2>3. IsRequest(NextPerson(req.persons, req.share)) BY <2>1, NextPersonIsRequest
  <2>4. IsRequest([req EXCEPT !.ids = @ \ {t}]) BY <2>1 DEF IsRequest
  <2>5. task' \in [Tasks -> Task4] BY <2>1, <2>2 DEF TypeOK, Task4, Person, Statuses
  <2> QED BY <2>2, <2>3, <2>4, <2>5 DEF TypeOK
<1>7. ASSUME NEW m \in Managers, NEW persons \in (SUBSET Users) \ {{}},
             NEW number \in Numbers, AllocCheckerFind(m, persons, number)
      PROVE  TypeOK'
  <2> DEFINE handedIn == {t \in Stored : task[t].status = "submit"}
             found == [t \in handedIn |-> task[t].labeler]
             load == [p \in persons |-> 0]
             share == AtLeastOne(number \div Cardinality(persons))
  <2>1. share \in Nat /\ number \in Int BY ShareIsNat, ReviewAssumption
  <2>2. DOMAIN found \subseteq Tasks /\ found \in [DOMAIN found -> Person]
    BY DEF TypeOK, Task4, Stored
  <2>3. DOMAIN load \subseteq Users /\ load \in [DOMAIN load -> Nat] OBVIOUS
  <2> HIDE DEF found, load, share
  <2>4. IsRequest(AnyTask([at |-> "check", found |-> found, load |-> load,
                           share |-> share, left |-> number]))
    BY <2>1, <2>2, <2>3, AnyTaskIsRequest
  <2>5. [at |-> "check", found |-> found, load |-> load,
         share |-> share, left |-> number]
        = [at |-> "check", found |-> [t \in handedIn |-> task[t].labeler],
           load |-> [p \in persons |-> 0], left |-> number,
           share |-> AtLeastOne(number \div Cardinality(persons))]
    BY DEF found, load, share
  <2> QED BY <1>7, <2>4, <2>5 DEF AllocCheckerFind, TypeOK
<1>8. ASSUME NEW m \in Managers, AllocCheckerWrite(m) PROVE TypeOK'
  <2> DEFINE req == manager[m]
  <2>1. IsRequest(req) /\ req.at = "check" BY <1>8 DEF TypeOK, AllocCheckerWrite
  <2>2. PICK t \in Tasks, p \in Users :
          /\ t \in DOMAIN req.found /\ p \in DOMAIN req.load
          /\ task' = IF t \in Stored
                     THEN [task EXCEPT ![t].checker = p, ![t].status = "checking"]
                     ELSE task
          /\ manager' = [manager EXCEPT ![m] = AnyTask(Given(req, t, p))]
    BY <1>8, CheckStep
  <2> DEFINE found == [e \in DOMAIN req.found \ {t} |-> req.found[e]]
             load == [req.load EXCEPT ![p] = @ + 1]
  <2>3. DOMAIN found \subseteq Tasks /\ found \in [DOMAIN found -> Person]
    BY <2>1, RequestStages
  <2>4. DOMAIN load \subseteq Users /\ load \in [DOMAIN load -> Nat]
    <3>1. DOMAIN req.load \subseteq Users /\ req.load \in [DOMAIN req.load -> Nat]
      BY <2>1, RequestStages
    <3>2. DOMAIN load = DOMAIN req.load OBVIOUS
    <3>3. load \in [DOMAIN req.load -> Nat] BY <2>2, <3>1
    <3> QED BY <3>1, <3>2, <3>3
  <2>5. req.share \in Nat /\ req.left - 1 \in Int BY <2>1, RequestStages
  <2> HIDE DEF found, load
  <2>6. IsRequest(AnyTask([at |-> "check", found |-> found, load |-> load,
                           share |-> req.share, left |-> req.left - 1]))
    BY <2>3, <2>4, <2>5, AnyTaskIsRequest
  <2>7. task' \in [Tasks -> Task4] BY <2>2 DEF TypeOK, Task4, Person, Statuses
  <2> QED BY <2>2, <2>6, <2>7 DEF TypeOK, found, load, Given
<1>9. ASSUME NEW m \in Managers, Abort(m) PROVE TypeOK'
  BY <1>9 DEF Abort, TypeOK, IsRequest
<1>10. CASE UNCHANGED vars BY <1>10 DEF vars, TypeOK
<1> QED BY <1>1, <1>2, <1>3, <1>4, <1>5, <1>6, <1>7, <1>8, <1>9, <1>10
        DEF Next, Working, Managing

\* Whatever requests overlap or break off, tasks and requests keep their
\* shape: a status is one of the six, and only users hold tasks.
THEOREM ReviewTypes == Spec => []TypeOK
<1>1. Init => TypeOK
  BY DEF Init, TypeOK, Task4, Person, IsRequest
<1> QED BY <1>1, TypesStep, PTL DEF Spec

-----------------------------------------------------------------------------
(* The review rules, one manager request at a time.  The invariant that    *)
(* carries them says that what the request in flight has read still holds. *)

NotStoredIsClean ==
  \A t \in Tasks : t \notin Stored => task[t].labeler = Nobody /\ task[t].checker = Nobody

\* Tasks about to get a labeller are still free; tasks about to get a checker
\* are handed in and still have the labeller that was read.
ReadStands ==
  \A m \in Managers :
    /\ manager[m].at = "write" =>
         \A t \in manager[m].ids : t \in Stored =>
           task[t].status = "allocate" /\ task[t].labeler = Nobody
    /\ manager[m].at = "check" =>
         \A t \in DOMAIN manager[m].found : t \in Stored =>
           /\ task[t].labeler = manager[m].found[t]
           /\ task[t].status \notin {"allocate", "labeling"}

ReviewInv ==
  TypeOK /\ NotStoredIsClean /\ HeldByStatus /\ CheckerNotLabeler /\ ReadStands

\* What a step may do to one task.
TaskStep(t) ==
  /\ task[t].labeler # Nobody /\ task'[t].labeler # task[t].labeler
     => task'[t].labeler = Nobody /\ task'[t].status \in {"allocate", "deleted"}
  /\ task[t].status \in {"allocate", "labeling"}
     => task'[t].status \in {"allocate", "labeling", "submit", "deleted"}

\* A status change by a worker leaves every read of a manager request standing.
LEMMA WorkerStep ==
  ASSUME ReviewInv, NEW u \in Users, NEW t \in Tasks,
         NEW s \in DOMAIN NormalStatusMap, SetStatus(u, t, s)
  PROVE  ReviewInv' /\ \A e \in Tasks : TaskStep(e)
<1>0. TypeOK' BY TypesStep DEF Next, Working, ReviewInv
<1>1. task[t].status \in Statuses /\ s \in Statuses \ {"allocate", "labeling"}
  BY DEF SetStatus, Stored, NormalStatusMap, Statuses
<1>2. task[t].labeler # Nobody \/ task[t].checker # Nobody
  BY ReviewAssumption DEF SetStatus
<1>3. task[t].status # "allocate" BY <1>2 DEF ReviewInv, HeldByStatus
<1>4. task[t].status = "labeling" => s = "submit"
  BY DEF SetStatus, NormalStatusMap
<1>5. /\ manager' = manager
      /\ task'[t] = [task[t] EXCEPT !.status = s]
      /\ \A e \in Tasks : e # t => task'[e] = task[e]
  BY DEF SetStatus, ReviewInv, TypeOK
<1>6. /\ task'[t].status = s
      /\ task'[t].labeler = task[t].labeler
      /\ task'[t].checker = task[t].checker
  BY <1>5 DEF ReviewInv, TypeOK, Task4
<1>7. Stored' = Stored BY <1>1, <1>5, <1>6 DEF Stored
<1>8. NotStoredIsClean' /\ HeldByStatus' /\ CheckerNotLabeler'
  BY <1>1, <1>5, <1>6, <1>7
     DEF ReviewInv, NotStoredIsClean, HeldByStatus, CheckerNotLabeler
<1>9. ReadStands'
  <2> SUFFICES ASSUME NEW m \in Managers, NEW e \in Tasks, e \in Stored
               PROVE  /\ manager[m].at = "write" /\ e \in manager[m].ids =>
                           task'[e].status = "allocate" /\ task'[e].labeler = Nobody
                      /\ manager[m].at = "check" /\ e \in DOMAIN manager[m].found =>
                           /\ task'[e].labeler = manager[m].found[e]
                           /\ task'[e].status \notin {"allocate", "labeling"}
    BY <1>5, <1>7 DEF ReadStands, Stored
  <2>1. CASE e = t BY <2>1, <1>1, <1>3, <1>6 DEF ReviewInv, ReadStands
  <2>2. CASE e # t BY <2>2, <1>5 DEF ReviewInv, ReadStands
  <2> QED BY <2>1, <2>2
<1>10. \A e \in Tasks : TaskStep(e)
  BY <1>3, <1>4, <1>5, <1>6 DEF TaskStep
<1> QED BY <1>0, <1>8, <1>9, <1>10 DEF ReviewInv

\* A request of one call does not meet another: nothing is being served.
LEMMA OneCallStep ==
  ASSUME ReviewInv, NEW m, Managers = {m}, NEW t \in Tasks,
         \/ UploadTask4(m, t) \/ DeleteTask4(m, t)
         \/ ResetLabeler(m, t) \/ ResetChecker(m, t)
         \/ \E s \in DOMAIN SpecialStatusMap : SetStatusAsManager(m, t, s)
  PROVE  ReviewInv' /\ \A e \in Tasks : TaskStep(e)
<1>0. TypeOK' BY TypesStep DEF Next, Managing, ReviewInv
<1>1. manager[m] = Idle /\ manager' = manager
  BY DEF UploadTask4, DeleteTask4, ResetLabeler, ResetChecker, SetStatusAsManager
<1>2. ReadStands' BY <1>1 DEF ReadStands, Idle
<1>3. \A e \in Tasks : e # t => task'[e] = task[e]
  BY DEF UploadTask4, DeleteTask4, ResetLabeler, ResetChecker, SetStatusAsManager,
         ReviewInv, TypeOK
<1>4. task[t] \in Task4 BY DEF ReviewInv, TypeOK
<1> SUFFICES /\ t \notin Stored' => task'[t].labeler = Nobody /\ task'[t].checker = Nobody
             /\ task'[t].status = "allocate" =>
                  task'[t].labeler = Nobody /\ task'[t].checker = Nobody
             /\ task'[t].status = "labeling" =>
                  task'[t].labeler # Nobody /\ task'[t].checker = Nobody
             /\ task'[t].checker # Nobody => task'[t].checker # task'[t].labeler
             /\ TaskStep(t)
  BY <1>0, <1>2, <1>3
     DEF ReviewInv, NotStoredIsClean, HeldByStatus, CheckerNotLabeler, TaskStep, Stored
<1>5. CASE UploadTask4(m, t)
  <2>1. task[t].labeler = Nobody /\ task[t].checker = Nobody
    BY <1>5 DEF ReviewInv, NotStoredIsClean, UploadTask4, Stored, Statuses
  <2>2. /\ task'[t].status = "allocate"
        /\ task'[t].labeler = task[t].labeler
        /\ task'[t].checker = task[t].checker
    BY <1>4, <1>5 DEF UploadTask4, ReviewInv, TypeOK, Task4
  <2> QED BY <1>5, <2>1, <2>2 DEF TaskStep, UploadTask4, Stored, Statuses
<1>6. CASE DeleteTask4(m, t) \/ ResetLabeler(m, t)
  BY <1>6 DEF DeleteTask4, ResetLabeler, ReviewInv, TypeOK, TaskStep
<1>7. CASE ResetChecker(m, t)
  <2>1. /\ task'[t].status = "submit"
        /\ task'[t].labeler = task[t].labeler
        /\ task'[t].checker = Nobody
    BY <1>4, <1>7 DEF ResetChecker, ReviewInv, TypeOK, Task4
  <2>2. t \in Stored' BY <2>1 DEF Stored, Statuses
  <2> QED BY <2>1, <2>2 DEF TaskStep
<1>8. CASE \E s \in DOMAIN SpecialStatusMap : SetStatusAsManager(m, t, s)
  <2>1. PICK s \in DOMAIN SpecialStatusMap : SetStatusAsManager(m, t, s) BY <1>8
  <2>2. /\ s \in Statuses \ {"allocate", "labeling"}
        /\ task[t].status \in {"allocate", "labeling"} => s = "submit"
    BY <2>1 DEF SetStatusAsManager, SpecialStatusMap, Statuses
  <2>3. /\ task'[t].status = s
        /\ task'[t].labeler = task[t].labeler
        /\ task'[t].checker = task[t].checker
    BY <1>4, <2>1 DEF SetStatusAsManager, ReviewInv, TypeOK, Task4
  <2>4. t \in Stored' BY <2>2, <2>3 DEF Stored
  <2> QED BY <2>2, <2>3, <2>4 DEF TaskStep, ReviewInv, CheckerNotLabeler
<1> QED BY <1>5, <1>6, <1>7, <1>8

\* Reading changes no task, and what it has read holds.
LEMMA ReadingStep ==
  ASSUME ReviewInv, NEW m, Managers = {m},
         \/ \E persons \in (SUBSET Users) \ {{}}, number \in Numbers :
              \/ AllocLabelerCount(m, persons, number)
              \/ AllocCheckerFind(m, persons, number)
         \/ AllocLabelerFind(m)
         \/ Abort(m)
  PROVE  ReviewInv' /\ \A e \in Tasks : TaskStep(e)
<1>0. TypeOK' BY TypesStep DEF Next, Managing, ReviewInv
<1>1. task' = task
  BY DEF AllocLabelerCount, AllocCheckerFind, AllocLabelerFind, Abort
<1>2. /\ NotStoredIsClean' /\ HeldByStatus' /\ CheckerNotLabeler'
      /\ Stored' = Stored
      /\ \A e \in Tasks : TaskStep(e)
  BY <1>1 DEF ReviewInv, NotStoredIsClean, HeldByStatus, CheckerNotLabeler, Stored, TaskStep
<1>3. DOMAIN manager = {m} BY DEF ReviewInv, TypeOK
<1>4. CASE \E persons \in (SUBSET Users) \ {{}}, number \in Numbers :
             AllocLabelerCount(m, persons, number)
  <2>1. manager'[m].at = "find" BY <1>3, <1>4 DEF AllocLabelerCount
  <2>2. ReadStands' BY <2>1 DEF ReadStands
  <2> QED BY <1>0, <1>2, <2>2 DEF ReviewInv
<1>5. CASE \E persons \in (SUBSET Users) \ {{}}, number \in Numbers :
             AllocCheckerFind(m, persons, number)
  <2> DEFINE handedIn == {t \in Stored : task[t].status = "submit"}
             found == [t \in handedIn |-> task[t].labeler]
  <2>0. PICK persons \in (SUBSET Users) \ {{}}, number \in Numbers :
          AllocCheckerFind(m, persons, number)
    BY <1>5
  <2> DEFINE r == [at |-> "check", found |-> found,
                   load |-> [p \in persons |-> 0], left |-> number,
                   share |-> AtLeastOne(number \div Cardinality(persons))]
  <2>a. manager'[m] = AnyTask(r) BY <1>3, <2>0 DEF AllocCheckerFind
  <2>b. AnyTask(r) = r \/ AnyTask(r) = Idle BY DEF AnyTask
  <2>c. r.at = "check" /\ r.found = found OBVIOUS
  <2>1. \/ manager'[m] = Idle
        \/ manager'[m].at = "check" /\ manager'[m].found = found
    BY <2>a, <2>b, <2>c
  <2>2. ReadStands' BY <1>1, <2>1 DEF ReadStands, Idle
  <2> QED BY <1>0, <1>2, <2>2 DEF ReviewInv
<1>6. CASE AllocLabelerFind(m)
  <2>1. PICK ids \in SUBSET Unallocated :
          \/ manager'[m].at \in {"idle", "find"}
          \/ manager'[m].at = "write" /\ manager'[m].ids = ids
    BY <1>3, <1>6 DEF AllocLabelerFind, NextPerson, Idle
  <2>2. ReadStands' BY <1>1, <2>1 DEF ReadStands, Unallocated
  <2> QED BY <1>0, <1>2, <2>2 DEF ReviewInv
<1>7. CASE Abort(m)
  <2>1. manager'[m] = Idle BY <1>3, <1>7 DEF Abort
  <2>2. ReadStands' BY <2>1 DEF ReadStands, Idle
  <2> QED BY <1>0, <1>2, <2>2 DEF ReviewInv
<1> QED BY <1>4, <1>5, <1>6, <1>7

LEMMA LabelerWriteStep ==
  ASSUME ReviewInv, NEW m, Managers = {m}, AllocLabelerWrite(m)
  PROVE  ReviewInv' /\ \A e \in Tasks : TaskStep(e)
<1> DEFINE req == manager[m]
<1>0. TypeOK' BY TypesStep DEF Next, Managing, ReviewInv
<1>1. req \in [at : {"write"}, persons : SUBSET Users, share : Nat,
               person : Users, ids : SUBSET Tasks]
  BY RequestStages DEF ReviewInv, TypeOK, AllocLabelerWrite
<1>2. PICK t \in req.ids :
        /\ task' = IF t \in Stored
                   THEN [task EXCEPT ![t].labeler = req.person,
                                     ![t].status = "labeling"]
                   ELSE task
        /\ manager' = [manager EXCEPT ![m] =
             IF req.ids = {t} THEN NextPerson(req.persons, req.share)
             ELSE [req EXCEPT !.ids = @ \ {t}]]
  BY DEF AllocLabelerWrite
<1>3. t \in Tasks /\ req.person \in Users /\ req.person # Nobody
  BY <1>1, <1>2, ReviewAssumption
<1>4. t \in Stored => /\ task[t].status = "allocate"
                      /\ task[t].labeler = Nobody
                      /\ task[t].checker = Nobody
  BY <1>1, <1>2, <1>3 DEF ReviewInv, ReadStands, HeldByStatus
<1>5. t \in Stored => /\ task'[t].status = "labeling"
                      /\ task'[t].labeler = req.person
                      /\ task'[t].checker = task[t].checker
  BY <1>2, <1>3 DEF ReviewInv, TypeOK, Task4
<1>6. /\ \A e \in Tasks : e # t => task'[e] = task[e]
      /\ t \notin Stored => task' = task
  BY <1>2 DEF ReviewInv, TypeOK
<1>7. Stored' = Stored BY <1>3, <1>5, <1>6 DEF Stored, Statuses
<1>8. NotStoredIsClean' /\ HeldByStatus' /\ CheckerNotLabeler'
  BY <1>3, <1>4, <1>5, <1>6, <1>7
     DEF ReviewInv, NotStoredIsClean, HeldByStatus, CheckerNotLabeler
<1>9. \A e \in Tasks : TaskStep(e)
  BY <1>3, <1>4, <1>5, <1>6 DEF TaskStep
<1>10. DOMAIN manager = {m} BY DEF ReviewInv, TypeOK
<1>11. \/ manager'[m].at \in {"idle", "find"}
       \/ manager'[m].at = "write" /\ manager'[m].ids = req.ids \ {t}
  <2>1. [req EXCEPT !.ids = @ \ {t}].at = "write"
        /\ [req EXCEPT !.ids = @ \ {t}].ids = req.ids \ {t}
    BY <1>1
  <2>2. NextPerson(req.persons, req.share).at \in {"idle", "find"}
    BY DEF NextPerson, Idle
  <2> QED BY <1>2, <1>10, <2>1, <2>2
<1>12. ReadStands'
  <2>1. \A e \in req.ids \ {t} : e \in Stored =>
          task'[e].status = "allocate" /\ task'[e].labeler = Nobody
    BY <1>1, <1>6 DEF ReviewInv, ReadStands
  <2>2. \A n \in Managers : n = m OBVIOUS
  <2> QED BY <1>7, <1>11, <2>1, <2>2 DEF ReadStands
<1> QED BY <1>0, <1>8, <1>9, <1>12 DEF ReviewInv

LEMMA CheckerWriteStep ==
  ASSUME ReviewInv, NEW m, Managers = {m}, AllocCheckerWrite(m)
  PROVE  ReviewInv' /\ \A e \in Tasks : TaskStep(e)
<1> DEFINE req == manager[m]
<1>0. TypeOK' BY TypesStep DEF Next, Managing, ReviewInv
<1>1. req.at = "check" /\ DOMAIN req.found \subseteq Tasks
  BY RequestStages DEF ReviewInv, TypeOK, AllocCheckerWrite
<1>2. PICK t \in Tasks, p \in Users :
        /\ t \in DOMAIN req.found
        /\ p # req.found[t]
        /\ task' = IF t \in Stored
                   THEN [task EXCEPT ![t].checker = p, ![t].status = "checking"]
                   ELSE task
        /\ manager' = [manager EXCEPT ![m] = AnyTask(Given(req, t, p))]
  BY CheckStep DEF ReviewInv
<1>3. t \in Stored => /\ task[t].labeler = req.found[t]
                      /\ task[t].status \notin {"allocate", "labeling"}
  BY <1>1, <1>2 DEF ReviewInv, ReadStands
<1>4. t \in Stored => /\ task'[t].status = "checking"
                      /\ task'[t].labeler = task[t].labeler
                      /\ task'[t].checker = p
  BY <1>2 DEF ReviewInv, TypeOK, Task4
<1>5. /\ \A e \in Tasks : e # t => task'[e] = task[e]
      /\ t \notin Stored => task' = task
  BY <1>2 DEF ReviewInv, TypeOK
<1>6. Stored' = Stored BY <1>4, <1>5 DEF Stored, Statuses
<1>7. NotStoredIsClean' /\ HeldByStatus' /\ CheckerNotLabeler'
  <2>1. NotStoredIsClean' BY <1>5, <1>6 DEF ReviewInv, NotStoredIsClean
  <2>2. HeldByStatus' BY <1>4, <1>5 DEF ReviewInv, HeldByStatus
  <2>3. CheckerNotLabeler'
    BY <1>2, <1>3, <1>4, <1>5 DEF ReviewInv, CheckerNotLabeler
  <2> QED BY <2>1, <2>2, <2>3
<1>8. \A e \in Tasks : TaskStep(e)
  BY <1>3, <1>4, <1>5 DEF TaskStep
<1>9. DOMAIN manager = {m} BY DEF ReviewInv, TypeOK
<1>10. \/ manager'[m] = Idle
       \/ /\ manager'[m].at = "check"
          /\ manager'[m].found = [e \in DOMAIN req.found \ {t} |-> req.found[e]]
  BY <1>2, <1>9 DEF AnyTask, Given
<1>11. ReadStands'
  <2>1. \A e \in DOMAIN req.found \ {t} : e \in Stored =>
          /\ task'[e].labeler = req.found[e]
          /\ task'[e].status \notin {"allocate", "labeling"}
    BY <1>1, <1>5 DEF ReviewInv, ReadStands
  <2>2. \A n \in Managers : n = m OBVIOUS
  <2> QED BY <1>6, <1>10, <2>1, <2>2 DEF ReadStands, Idle
<1> QED BY <1>0, <1>7, <1>8, <1>11 DEF ReviewInv

LEMMA ReviewStep ==
  ASSUME NEW m, Managers = {m}, ReviewInv, [Next]_vars
  PROVE  ReviewInv' /\ [\A t \in Tasks : TaskStep(t)]_task
<1>1. CASE \E u \in Users : Working(u) BY <1>1, WorkerStep DEF Working
<1>2. CASE Managing(m)
  BY <1>2, OneCallStep, ReadingStep, LabelerWriteStep, CheckerWriteStep DEF Managing
<1>3. CASE UNCHANGED vars
  BY <1>3 DEF vars, ReviewInv, TypeOK, NotStoredIsClean, HeldByStatus,
              CheckerNotLabeler, ReadStands, Stored
<1> QED BY <1>1, <1>2, <1>3 DEF Next

LEMMA ReviewInit == Init => ReviewInv
BY DEF Init, ReviewInv, TypeOK, Task4, Person, IsRequest, Idle, NotStoredIsClean,
       HeldByStatus, CheckerNotLabeler, ReadStands, Stored

\* While one manager request is served at a time, nobody checks his own
\* labelling, whatever the workers do between the calls of that request.
THEOREM NobodyChecksHimself ==
  ASSUME NEW m, Managers = {m}
  PROVE  Spec => []CheckerNotLabeler
<1>1. ReviewInv /\ [Next]_vars => ReviewInv' BY ReviewStep
<1>2. ReviewInv => CheckerNotLabeler BY DEF ReviewInv
<1> QED BY ReviewInit, <1>1, <1>2, PTL DEF Spec

\* Under the same condition the status of a task says who holds it.
THEOREM StatusSaysHolder ==
  ASSUME NEW m, Managers = {m}
  PROVE  Spec => []HeldByStatus
<1>1. ReviewInv /\ [Next]_vars => ReviewInv' BY ReviewStep
<1>2. ReviewInv => HeldByStatus BY DEF ReviewInv
<1> QED BY ReviewInit, <1>1, <1>2, PTL DEF Spec

\* Under the same condition no allocation takes a task from its labeller, and
\* nothing is reviewed before it is handed in.
THEOREM WorkIsNotStolen ==
  ASSUME NEW m, Managers = {m}
  PROVE  Spec => NoStolenWork /\ NoReviewBeforeHandIn
<1>1. ReviewInv /\ [Next]_vars => ReviewInv' BY ReviewStep
<1>2. ReviewInv /\ [Next]_vars =>
        [\A t \in Tasks :
           task[t].labeler # Nobody /\ task'[t].labeler # task[t].labeler
           => task'[t].labeler = Nobody /\ task'[t].status \in {"allocate", "deleted"}]_task
  BY ReviewStep DEF TaskStep
<1>3. ReviewInv /\ [Next]_vars =>
        [\A t \in Tasks :
           task[t].status \in {"allocate", "labeling"}
           => task'[t].status \in {"allocate", "labeling", "submit", "deleted"}]_task
  BY ReviewStep DEF TaskStep
<1> QED BY ReviewInit, <1>1, <1>2, <1>3, PTL DEF Spec, NoStolenWork, NoReviewBeforeHandIn

=============================================================================
