-------------------------- MODULE Task5PoolProofs --------------------------
(***************************************************************************)
(* Proofs about the session pool, for every set of labellers, projects,    *)
(* sessions and files, any number of overlapping requests, and requests    *)
(* cut off anywhere; and, where requests are served one at a time, that    *)
(* what each has read is still so when it writes (SerialInv), by which the *)
(* pool implements the ledger of its slots.                                *)
(***************************************************************************)
EXTENDS Task5Pool, FiniteSetTheorems, SequenceTheorems, TLAPS

\* A request works on tasks that are in the pool: templates are never deleted.
ReadsPublished ==
  /\ \A r \in Claimers : claim[r].at \in {"decrement", "insert"} =>
       claim[r].doc \in Tasks
  /\ \A r \in Deleters : deletion[r].at \in {"increment", "removeReturned"} =>
       deletion[r].doc \in Tasks
  /\ \A r \in Scorers : scoring[r].at = "update" => scoring[r].sample \subseteq Tasks

\* What a request has read and will write back keeps the priority above zero.
PrioritiesRead ==
  /\ \A r \in Claimers : claim[r].at = "decrement" => claim[r].read.priority > 0
  /\ \A r \in Deleters : deletion[r].at = "increment" => deletion[r].old.priority >= 0

PoolInv == TypeOK /\ ReadsPublished /\ PriorityNonNegative /\ PrioritiesRead

-----------------------------------------------------------------------------
(* Which fields a request in a given stage has. *)

LEMMA ClaimStages ==
  ASSUME NEW s \in ClaimState
  PROVE  /\ s.at = "findSessions" => s \in [at : {"findSessions"}, project : Projects]
         /\ s.at = "findTask" =>
              s \in [at : {"findTask"}, project : Projects,
                    mine : SUBSET (Sessions \cup {NoSession})]
         /\ s.at \in {"decrement", "insert"} =>
              s \in [at : {"decrement", "insert"}, doc : Docs, read : Doc]
BY DEF ClaimState, Idle

LEMMA DeletionStages ==
  ASSUME NEW s \in DeletionState
  PROVE  /\ s.at \in {"findTask", "removeOther"} =>
              s \in [at : {"findTask", "removeOther"}, copy : Copies, read : Copy]
         /\ s.at = "increment" =>
              s \in [at : {"increment"}, copy : Copies, read : Copy, doc : Docs, old : Doc]
         /\ s.at = "removeReturned" =>
              s \in [at : {"removeReturned"}, copy : Copies, read : Copy, doc : Docs]
BY DEF DeletionState, Idle

LEMMA ScoringStages ==
  ASSUME NEW s \in ScoringState
  PROVE  s.at = "update" => s \in [at : {"update"}, sample : SUBSET Docs]
BY DEF ScoringState, Idle

LEMMA UploadStages ==
  ASSUME NEW s \in UploadState
  PROVE  s.at = "insert" => s \in [at : {"insert"}, project : Projects,
                                   batch : Batches, old : SUBSET Sessions]
BY DEF UploadState, Idle

LEMMA InitPool == Init => PoolInv
BY DEF Init, PoolInv, TypeOK, ReadsPublished, PriorityNonNegative, PrioritiesRead,
       ClaimState, DeletionState, ScoringState, UploadState, Idle, Tasks

-----------------------------------------------------------------------------
(* One lemma per handler: its calls preserve the invariant. *)

\* Every priority an upload starts with is a natural number.
LEMMA NewTaskDoc ==
  ASSUME NEW p \in Projects, NEW b \in Batches, NEW i \in DOMAIN b
  PROVE  /\ NewTask(p, b[i]) \in Doc
         /\ NewTask(p, b[i]).priority >= 0
<1>1. b[i] \in [session : Sessions, version : Nat]
  <2>1. b \in Seq([session : Sessions, version : Nat])
    BY PoolAssumption
  <2>2. i \in 1..Len(b)
    BY <2>1, LenProperties
  <2>3. QED
    BY <2>1, <2>2, ElementOfSeq
<1>2. b[i].version * SlotsPerVersion \in Nat
  BY <1>1, PoolAssumption
<1>3. QED
  BY <1>1, <1>2 DEF NewTask, Doc

LEMMA UploadingPreserves ==
  ASSUME PoolInv, NEW r \in Uploaders, Uploading(r)
  PROVE  PoolInv'
<1> USE DEF PoolInv
<1>1. ASSUME NEW p \in Projects, NEW b \in Batches, UploadFindOld(r, p, b)
      PROVE  PoolInv'
  <2>1. SessionsOf(p) \subseteq Sessions
    BY DEF SessionsOf, Tasks, TypeOK, Doc
  <2>2. QED
    BY <1>1, <2>1 DEF UploadFindOld, TypeOK, UploadState, ReadsPublished,
       PriorityNonNegative, PrioritiesRead, Tasks
<1>2. CASE UploadRefuse(r)
  BY <1>2 DEF UploadRefuse, TypeOK, UploadState, ReadsPublished,
     PriorityNonNegative, PrioritiesRead, Tasks
<1>3. CASE UploadInsert(r)
  <2> DEFINE b == upload[r].batch
             p == upload[r].project
  <2>1. p \in Projects /\ b \in Batches
    BY <1>3, UploadStages DEF UploadInsert, TypeOK
  <2>2. PICK id \in [DOMAIN b -> Docs \ Tasks] :
          pool' = [d \in Docs |-> IF \E i \in DOMAIN b : id[i] = d
                                 THEN NewTask(p, b[CHOOSE i \in DOMAIN b : id[i] = d])
                                 ELSE pool[d]]
    BY <1>3 DEF UploadInsert
  <2>3. ASSUME NEW d \in Docs
        PROVE  /\ pool'[d] = pool[d] \/ (pool'[d] \in Doc /\ pool'[d].priority >= 0)
               /\ d \in Tasks => pool'[d] = pool[d]
    <3>1. CASE \E i \in DOMAIN b : id[i] = d
      BY <3>1, <2>1, <2>2, NewTaskDoc
    <3>2. CASE ~ \E i \in DOMAIN b : id[i] = d
      BY <3>2, <2>2
    <3>3. QED
      BY <3>1, <3>2
  <2>4. Tasks \subseteq Tasks'
    BY <2>3 DEF Tasks
  <2>5. pool' \in [Docs -> Doc \cup {NoDoc}]
    BY <2>2, <2>3 DEF TypeOK
  <2>6. upload' \in [Uploaders -> UploadState]
    BY <1>3 DEF UploadInsert, TypeOK, UploadState
  <2>7. PriorityNonNegative'
    BY <2>3 DEF PriorityNonNegative, Tasks
  <2>8. QED
    BY <1>3, <2>4, <2>5, <2>6, <2>7 DEF UploadInsert, TypeOK, ReadsPublished, PrioritiesRead
<1>4. QED
  BY <1>1, <1>2, <1>3 DEF Uploading

LEMMA ClaimingPreserves ==
  ASSUME PoolInv, NEW u \in Users, NEW k \in Clicks, Claiming(u, k)
  PROVE  PoolInv'
<1> USE DEF PoolInv
<1> DEFINE r == <<u, k>>
           me == claim[r]
<1>r. r \in Claimers /\ me \in ClaimState
  BY DEF Claimers, TypeOK
<1>1. ASSUME NEW p \in Projects, ClaimFindLabeling(u, k, p)
      PROVE  PoolInv'
  BY <1>1, <1>r DEF ClaimFindLabeling, TypeOK, ClaimState, Idle, ReadsPublished,
     PriorityNonNegative, PrioritiesRead, Tasks
<1>2. CASE ClaimFindSessions(u, k)
  <2>1. me.project \in Projects
    BY <1>2, <1>r, ClaimStages DEF ClaimFindSessions
  <2>2. /\ {copies[c].sessionId : c \in CopiesOf(u)} \subseteq Sessions \cup {NoSession}
        /\ missed' \subseteq Copies
    BY <1>2 DEF ClaimFindSessions, CopiesOf, Labeled, TypeOK, Copy
  <2>3. QED
    BY <1>2, <1>r, <2>1, <2>2 DEF ClaimFindSessions, TypeOK, ClaimState,
       ReadsPublished, PriorityNonNegative, PrioritiesRead, Tasks
<1>3. CASE ClaimFindTask(u, k)
  <2>1. CASE claim' = [claim EXCEPT ![r] = Idle]
    BY <1>3, <1>r, <2>1 DEF ClaimFindTask, TypeOK, ClaimState, Idle,
       ReadsPublished, PriorityNonNegative, PrioritiesRead, Tasks
  <2>2. ASSUME NEW d \in Claimable(me.project, me.mine),
               claim' = [claim EXCEPT ![r] =
                           [at |-> "decrement", doc |-> d, read |-> pool[d]]]
        PROVE  PoolInv'
    <3>1. d \in Tasks /\ pool[d] \in Doc /\ pool[d].priority > 0 /\ d \in Docs
      BY DEF Claimable, Tasks, TypeOK
    <3>2. QED
      BY <1>3, <1>r, <2>2, <3>1 DEF ClaimFindTask, TypeOK, ClaimState,
         ReadsPublished, PriorityNonNegative, PrioritiesRead, Tasks
  <2>3. QED
    BY <1>3, <2>1, <2>2 DEF ClaimFindTask
<1>4. CASE ClaimDecrement(u, k)
  <2>1. /\ me \in [at : {"decrement", "insert"}, doc : Docs, read : Doc]
        /\ me.at = "decrement" /\ me.doc \in Tasks /\ me.read.priority > 0
    BY <1>4, <1>r, ClaimStages DEF ClaimDecrement, ReadsPublished, PrioritiesRead
  <2>2. pool[me.doc] \in Doc
    BY <2>1 DEF Tasks, TypeOK
  <2> DEFINE new == [pool[me.doc] EXCEPT
                       !.priority = me.read.priority - 1,
                       !.requireScore = IF me.read.requireScore = 1 THEN 2 ELSE @]
  <2>3. new \in Doc /\ new.priority >= 0
    <3>1. me.read.priority - 1 \in Int /\ me.read.priority - 1 >= 0
      BY <2>1 DEF Doc
    <3> DEFINE taken == [pool[me.doc] EXCEPT !.priority = me.read.priority - 1]
    <3>2. taken \in Doc /\ taken.priority >= 0
      BY <2>2, <3>1 DEF Doc
    <3>3. new = [taken EXCEPT !.requireScore = IF me.read.requireScore = 1 THEN 2 ELSE @]
      BY <2>2 DEF Doc
    <3> HIDE DEF taken, new
    <3>4. QED
      BY <3>2, <3>3 DEF Doc
  <2>4. pool' = [pool EXCEPT ![me.doc] = new]
    BY <1>4 DEF ClaimDecrement
  <2>5. pool' \in [Docs -> Doc \cup {NoDoc}] /\ Tasks \subseteq Tasks'
    BY <2>1, <2>3, <2>4, PoolAssumption DEF TypeOK, Tasks, Doc
  <2>6. PriorityNonNegative'
    BY <2>1, <2>3, <2>4 DEF PriorityNonNegative, Tasks, TypeOK
  <2>7. claim' \in [Claimers -> ClaimState]
    BY <1>4, <1>r, <2>1 DEF ClaimDecrement, TypeOK, ClaimState
  <2>8. QED
    BY <1>4, <1>r, <2>1, <2>5, <2>6, <2>7
       DEF ClaimDecrement, TypeOK, ReadsPublished, PrioritiesRead
<1>5. CASE ClaimInsert(u, k)
  <2>1. me \in [at : {"decrement", "insert"}, doc : Docs, read : Doc]
    BY <1>5, <1>r, ClaimStages DEF ClaimInsert
  <2>2. [project |-> me.read.project, session |-> me.read.session,
         sessionId |-> me.read.session, labeler |-> u,
         requireScore |-> me.read.requireScore, status |-> "labeling"] \in Copy
    BY <2>1 DEF Copy, Doc
  <2>3. copies' \in [Copies -> Copy \cup {NoCopy}]
    BY <1>5, <2>2 DEF ClaimInsert, TypeOK, FreshCopies
  <2>4. QED
    BY <1>5, <1>r, <2>3 DEF ClaimInsert, TypeOK, ClaimState, Idle,
       ReadsPublished, PriorityNonNegative, PrioritiesRead, Tasks
<1>6. QED
  BY <1>1, <1>2, <1>3, <1>4, <1>5 DEF Claiming

LEMMA DeletingPreserves ==
  ASSUME PoolInv, NEW r \in Deleters, Deleting(r)
  PROVE  PoolInv'
<1> USE DEF PoolInv
<1> DEFINE me == deletion[r]
<1>r. me \in DeletionState
  BY DEF TypeOK
<1>1. ASSUME NEW c \in Copies, DeleteFindCopy(r, c)
      PROVE  PoolInv'
  <2>1. copies[c] \in Copy
    BY <1>1 DEF DeleteFindCopy, Labeled, TypeOK
  <2>2. QED
    BY <1>1, <2>1 DEF DeleteFindCopy, TypeOK, DeletionState, ReadsPublished,
       PriorityNonNegative, PrioritiesRead, Tasks
<1>2. CASE DeleteFindTask(r)
  <2>1. me \in [at : {"findTask", "removeOther"}, copy : Copies, read : Copy]
    BY <1>2, <1>r, DeletionStages DEF DeleteFindTask
  <2>2. CASE deletion' = [deletion EXCEPT ![r] = Idle]
    BY <1>2, <2>2 DEF DeleteFindTask, TypeOK, DeletionState, Idle, ReadsPublished,
       PriorityNonNegative, PrioritiesRead, Tasks
  <2>3. ASSUME NEW d \in FoundFor(me.read),
               deletion' = [deletion EXCEPT ![r] =
                 [at |-> "increment", copy |-> me.copy, read |-> me.read,
                  doc |-> d, old |-> pool[d]]]
        PROVE  PoolInv'
    <3>1. d \in Tasks /\ d \in Docs /\ pool[d] \in Doc /\ pool[d].priority >= 0
      BY DEF FoundFor, Tasks, TypeOK, PriorityNonNegative
    <3>2. QED
      BY <1>2, <2>1, <2>3, <3>1 DEF DeleteFindTask, TypeOK, DeletionState,
         ReadsPublished, PriorityNonNegative, PrioritiesRead, Tasks
  <2>4. QED
    BY <1>2, <2>2, <2>3 DEF DeleteFindTask
<1>3. CASE DeleteIncrement(r)
  <2>1. /\ me \in [at : {"increment"}, copy : Copies, read : Copy, doc : Docs, old : Doc]
        /\ me.doc \in Tasks /\ me.old.priority >= 0
    BY <1>3, <1>r, DeletionStages DEF DeleteIncrement, ReadsPublished, PrioritiesRead
  <2>2. pool[me.doc] \in Doc
    BY <2>1 DEF Tasks, TypeOK
  <2> DEFINE new == [pool[me.doc] EXCEPT !.priority = me.old.priority + 1]
  <2>3. me.old.priority + 1 \in Int /\ me.old.priority + 1 >= 0
    BY <2>1 DEF Doc
  <2>4. new \in Doc /\ new.priority >= 0
    BY <2>2, <2>3 DEF Doc
  <2>5. pool' = [pool EXCEPT ![me.doc] = new]
    BY <1>3 DEF DeleteIncrement
  <2>6. pool' \in [Docs -> Doc \cup {NoDoc}] /\ Tasks \subseteq Tasks'
    BY <2>1, <2>4, <2>5, PoolAssumption DEF TypeOK, Tasks, Doc
  <2>7. PriorityNonNegative'
    BY <2>1, <2>4, <2>5 DEF PriorityNonNegative, Tasks, TypeOK
  <2>8. QED
    BY <1>3, <2>1, <2>6, <2>7 DEF DeleteIncrement, TypeOK, DeletionState,
       ReadsPublished, PrioritiesRead
<1>4. CASE DeleteRemove(r)
  <2>1. me.copy \in Copies
    BY <1>4, <1>r, DeletionStages DEF DeleteRemove
  <2>2. QED
    BY <1>4, <2>1 DEF DeleteRemove, TypeOK, DeletionState, Idle, ReadsPublished,
       PriorityNonNegative, PrioritiesRead, Tasks
<1>5. QED
  BY <1>1, <1>2, <1>3, <1>4 DEF Deleting

LEMMA ScoringPreserves ==
  ASSUME PoolInv, NEW r \in Scorers, Scoring(r)
  PROVE  PoolInv'
<1> USE DEF PoolInv
<1>1. ASSUME NEW p \in Projects, ScoreSample(r, p)
      PROVE  PoolInv'
  BY <1>1 DEF ScoreSample, Unscored, TypeOK, ScoringState, ReadsPublished,
     PriorityNonNegative, PrioritiesRead, Tasks
<1>2. CASE ScoreUpdate(r)
  <2>1. scoring[r].sample \subseteq Tasks
    BY <1>2 DEF ScoreUpdate, ReadsPublished
  <2>2. ASSUME NEW d \in Docs
        PROVE  /\ pool'[d] \in Doc \cup {NoDoc}
               /\ d \in Tasks => /\ pool'[d] \in Doc
                                 /\ pool'[d].priority = pool[d].priority
               /\ d \notin Tasks => pool'[d] = NoDoc
    BY <1>2, <2>1 DEF ScoreUpdate, TypeOK, Tasks, Doc
  <2>3. pool' \in [Docs -> Doc \cup {NoDoc}] /\ Tasks' = Tasks
    BY <1>2, <2>2, PoolAssumption DEF ScoreUpdate, Tasks, Doc
  <2>4. PriorityNonNegative'
    BY <2>2, <2>3 DEF PriorityNonNegative, Tasks
  <2>5. QED
    BY <1>2, <2>3, <2>4 DEF ScoreUpdate, TypeOK, ScoringState, Idle,
       ReadsPublished, PrioritiesRead
<1>3. QED
  BY <1>1, <1>2 DEF Scoring

LEMMA OtherPreserves ==
  ASSUME PoolInv,
         \/ \E c \in Copies : HandIn(c) \/ UpdateTask5(c) \/ SearchTask5Count(c)
         \/ \E p \in Projects : DeleteProject5(p)
         \/ \E r \in Claimers \cup Deleters : Abort(r)
         \/ UNCHANGED vars
  PROVE  PoolInv'
<1> USE DEF PoolInv
<1>1. ASSUME NEW c \in Copies, HandIn(c)
      PROVE  PoolInv'
  <2>1. copies[c] \in Copy
    BY <1>1 DEF HandIn, Labeled, TypeOK
  <2>2. [copies[c] EXCEPT !.status = "handedIn"] \in Copy
    BY <2>1 DEF Copy
  <2>3. QED
    BY <1>1, <2>2 DEF HandIn, TypeOK, ReadsPublished, PriorityNonNegative,
       PrioritiesRead, Tasks
<1>5. ASSUME NEW c \in Copies, UpdateTask5(c) \/ SearchTask5Count(c)
      PROVE  PoolInv'
  <2>1. PICK id \in {copies[c].session, NoSession} :
          copies' = [copies EXCEPT ![c].sessionId = id]
    BY <1>5 DEF UpdateTask5, SearchTask5Count
  <2>2. copies[c] \in Copy
    BY <1>5 DEF UpdateTask5, SearchTask5Count, Labeled, TypeOK
  <2>3. [copies[c] EXCEPT !.sessionId = id] \in Copy
    BY <2>2 DEF Copy
  <2>4. copies' \in [Copies -> Copy \cup {NoCopy}]
    BY <2>1, <2>3 DEF TypeOK
  <2>5. QED
    BY <1>5, <2>4 DEF UpdateTask5, SearchTask5Count, TypeOK, ReadsPublished,
       PriorityNonNegative, PrioritiesRead, Tasks
<1>2. ASSUME NEW p \in Projects, DeleteProject5(p)
      PROVE  PoolInv'
  BY <1>2 DEF DeleteProject5, TypeOK, ReadsPublished, PriorityNonNegative,
     PrioritiesRead, Tasks
<1>3. ASSUME NEW r \in Claimers \cup Deleters, Abort(r)
      PROVE  PoolInv'
  BY <1>3 DEF Abort, TypeOK, ClaimState, DeletionState, Idle, ReadsPublished,
     PriorityNonNegative, PrioritiesRead, Tasks
<1>4. CASE UNCHANGED vars
  BY <1>4 DEF vars, TypeOK, ReadsPublished, PriorityNonNegative, PrioritiesRead, Tasks
<1>6. QED
  BY <1>1, <1>2, <1>3, <1>4, <1>5

-----------------------------------------------------------------------------

LEMMA PoolInvariant == Spec => []PoolInv
<1>1. PoolInv /\ [Next]_vars => PoolInv'
  BY UploadingPreserves, ClaimingPreserves, DeletingPreserves, ScoringPreserves,
     OtherPreserves DEF Next
<1>2. QED
  BY InitPool, <1>1, PTL DEF Spec

\* Type correctness.  It is not inductive alone: the two read-modify-write
\* handlers must be known to hold ids of templates that exist.
THEOREM TypeCorrect == Spec => []TypeOK
BY PoolInvariant, PTL DEF PoolInv

\* No interleaving of claims, deletions, uploads and cut-off requests drives
\* the number of claims a task accepts below zero.
THEOREM PriorityStaysNonNegative == Spec => []PriorityNonNegative
BY PoolInvariant, PTL DEF PoolInv

-----------------------------------------------------------------------------
(* One request at a time per labeller. *)

\* While a claim is on its way, nothing else gives its labeller a 待标注 copy
\* of the project, nor a copy of the session it is about to receive.
ClaimAhead ==
  \A u \in Users, k \in Clicks :
    LET s == claim[<<u, k>>] IN
    /\ s.at \in {"findSessions", "findTask"} => LabelingOf(u, s.project) = {}
    /\ s.at \in {"decrement", "insert"} => LabelingOf(u, s.read.project) = {}
    /\ s.at = "findTask" =>
         \A c \in Labeled \ missed :
           copies[c].labeler = u /\ copies[c].project \in live
           => copies[c].session \in s.mine
    /\ s.at \in {"decrement", "insert"} =>
         \A c \in Labeled \ missed :
           copies[c].labeler = u /\ copies[c].project \in live
           => copies[c].session # s.read.session

ClaimInv == TypeOK /\ OneLabeling /\ NoRepeatSession /\ ClaimAhead

LEMMA InitClaim == Init => ClaimInv
<1> SUFFICES ASSUME Init PROVE ClaimInv
  OBVIOUS
<1>1. TypeOK
  BY InitPool DEF PoolInv
<1>2. Labeled = {}
  BY DEF Init, Labeled
<1>3. QED
  BY <1>1, <1>2 DEF Init, ClaimInv, OneLabeling, NoRepeatSession, ClaimAhead,
     LabelingOf, Claimers, Idle

\* A step that adds no copy, takes none back to 待标注, and starts or moves no
\* claim keeps the invariant, whatever session ids it stores.
LEMMA ShrinkingPreserves ==
  ASSUME ClaimInv, TypeOK',
         \A c \in Copies : \/ copies'[c] \in {copies[c], NoCopy}
                          \/ /\ copies[c] # NoCopy
                             /\ copies'[c] = [copies[c] EXCEPT !.status = "handedIn"]
                          \/ /\ copies[c] # NoCopy
                             /\ \E id : copies'[c] = [copies[c] EXCEPT !.sessionId = id],
         \A c \in missed : c \in missed' \/ copies'[c] = NoCopy,
         \A r \in Claimers : claim'[r] \in {claim[r], Idle},
         live' \subseteq live
  PROVE  ClaimInv'
<1>1. ASSUME NEW c \in Labeled'
      PROVE  /\ c \in Labeled
             /\ copies'[c].project = copies[c].project
             /\ copies'[c].session = copies[c].session
             /\ copies'[c].labeler = copies[c].labeler
             /\ copies'[c].status = "labeling" => copies[c].status = "labeling"
             /\ c \notin missed' => c \notin missed
  <2>1. c \in Copies /\ copies[c] \in Copy \cup {NoCopy}
    BY DEF Labeled, ClaimInv, TypeOK
  <2>2. QED
    BY <2>1 DEF Labeled, Copy
<1>2. \A u \in Users, p \in Projects : LabelingOf(u, p)' \subseteq LabelingOf(u, p)
  BY <1>1 DEF LabelingOf
<1>3. OneLabeling'
  BY <1>2 DEF ClaimInv, OneLabeling
<1>4. NoRepeatSession'
  BY <1>1 DEF ClaimInv, NoRepeatSession
<1>5. ClaimAhead'
  <2> SUFFICES ASSUME NEW u \in Users, NEW k \in Clicks
               PROVE  (ClaimAhead!(u, k))'
    BY DEF ClaimAhead
  <2>1. <<u, k>> \in Claimers /\ claim[<<u, k>>] \in ClaimState
    BY DEF Claimers, ClaimInv, TypeOK
  <2>2. CASE claim'[<<u, k>>] = Idle
    BY <2>2 DEF Idle
  <2>3. CASE claim'[<<u, k>>] = claim[<<u, k>>]
    <3> DEFINE s == claim[<<u, k>>]
    <3>1. s.at \in {"findSessions", "findTask"} => s.project \in Projects
      BY <2>1, ClaimStages
    <3>2. s.at \in {"decrement", "insert"} => s.read.project \in Projects
      BY <2>1, ClaimStages DEF Doc
    <3>3. QED
      BY <1>1, <1>2, <2>3, <3>1, <3>2 DEF ClaimInv, ClaimAhead
  <2>4. QED
    BY <2>1, <2>2, <2>3
<1>6. QED
  BY <1>3, <1>4, <1>5 DEF ClaimInv

\* A step that moves one labeller's claim and touches no copy keeps the
\* invariant when the claim's new stage has what ClaimAhead asks of it.
LEMMA MovingPreserves ==
  ASSUME ClaimInv, TypeOK', UNCHANGED <<live, copies>>, missed \subseteq missed',
         NEW u \in Users, NEW k \in Clicks,
         \A v \in Users, j \in Clicks :
           <<v, j>> # <<u, k>> => claim'[<<v, j>>] = claim[<<v, j>>],
         (ClaimAhead!(u, k))'
  PROVE  ClaimInv'
<1>1. Labeled' = Labeled /\ \A v, p : LabelingOf(v, p)' = LabelingOf(v, p)
  BY DEF Labeled, LabelingOf
<1>2. OneLabeling' /\ NoRepeatSession'
  BY <1>1 DEF ClaimInv, OneLabeling, NoRepeatSession
<1>3. ClaimAhead'
  <2> SUFFICES ASSUME NEW v \in Users, NEW j \in Clicks
               PROVE  (ClaimAhead!(v, j))'
    BY DEF ClaimAhead
  <2>1. CASE v = u /\ j = k
    BY <2>1
  <2>2. CASE <<v, j>> # <<u, k>>
    <3>1. ClaimAhead!(v, j)
      BY DEF ClaimInv, ClaimAhead
    <3>2. claim'[<<v, j>>] = claim[<<v, j>>]
      BY <2>2
    <3>3. QED
      BY <3>1, <3>2, <1>1
  <2>3. QED
    BY <2>1, <2>2
<1>4. QED
  BY <1>2, <1>3 DEF ClaimInv

LEMMA ClaimingSingle ==
  ASSUME ClaimInv, TypeOK', NEW k, Clicks = {k}, NEW u \in Users, Claiming(u, k)
  PROVE  ClaimInv'
<1> DEFINE r == <<u, k>>
           me == claim[r]
<1>r. /\ r \in Claimers /\ me \in ClaimState /\ k \in Clicks
      /\ \A v \in Users, j \in Clicks : <<v, j>> \in Claimers /\ (<<v, j>> = r <=> v = u)
  BY DEF Claimers, ClaimInv, TypeOK
<1>c. claim \in [Claimers -> ClaimState]
  BY DEF ClaimInv, TypeOK
<1>a. ClaimAhead!(u, k)
  BY <1>r DEF ClaimInv, ClaimAhead
<1>1. ASSUME NEW p \in Projects, ClaimFindLabeling(u, k, p)
      PROVE  ClaimInv'
  <2>1. claim'[r] = [at |-> "findSessions", project |-> p]
        /\ \A q \in Claimers : q # r => claim'[q] = claim[q]
    BY <1>1, <1>r, <1>c DEF ClaimFindLabeling
  <2>2. LabelingOf(u, p)' = {}
    BY <1>1 DEF ClaimFindLabeling, LabelingOf, Labeled
  <2>3. QED
    BY <1>1, <1>r, <2>1, <2>2, MovingPreserves DEF ClaimFindLabeling
<1>2. CASE ClaimFindSessions(u, k)
  <2>1. PICK mine : mine = {copies[c].sessionId : c \in CopiesOf(u)}
    OBVIOUS
  <2>2. PICK p : p = me.project
    OBVIOUS
  <2>3. claim'[r] = [at |-> "findTask", project |-> p, mine |-> mine]
        /\ \A q \in Claimers : q # r => claim'[q] = claim[q]
    BY <1>2, <1>r, <1>c, <2>1, <2>2 DEF ClaimFindSessions
  <2>4. LabelingOf(u, p)' = {}
    BY <1>2, <1>a, <2>2 DEF ClaimFindSessions, LabelingOf, Labeled
  <2>5. \A c \in Labeled' \ missed' : copies'[c].labeler = u /\ copies'[c].project \in live'
                            => copies'[c].session \in mine
    <3>1. \A c \in CopiesOf(u) : c \in missed' \/ copies[c].session \in mine
      BY <1>2, <2>1 DEF ClaimFindSessions
    <3> QED BY <1>2, <3>1 DEF ClaimFindSessions, CopiesOf, Labeled
  <2>6. (ClaimAhead!(u, k))'
    BY <2>3, <2>4, <2>5
  <2>7. UNCHANGED <<live, copies>> /\ missed \subseteq missed'
    BY <1>2 DEF ClaimFindSessions
  <2>8. \A v \in Users, j \in Clicks :
          <<v, j>> # <<u, k>> => claim'[<<v, j>>] = claim[<<v, j>>]
    BY <1>r, <2>3
  <2>9. QED
    BY <1>r, <2>6, <2>7, <2>8, MovingPreserves
<1>3. CASE ClaimFindTask(u, k)
  <2>1. CASE claim' = [claim EXCEPT ![r] = Idle]
    <3>1. claim'[r] = Idle /\ \A q \in Claimers : q # r => claim'[q] = claim[q]
      BY <1>r, <1>c, <2>1
    <3>2. QED
      BY <1>3, <1>r, <3>1, MovingPreserves DEF ClaimFindTask, Idle
  <2>2. ASSUME NEW d \in Claimable(me.project, me.mine),
               claim' = [claim EXCEPT ![r] =
                           [at |-> "decrement", doc |-> d, read |-> pool[d]]]
        PROVE  ClaimInv'
    <3>1. PICK read : read = pool[d]
      OBVIOUS
    <3>2. read.project = me.project /\ read.session \notin me.mine
      BY <3>1 DEF Claimable
    <3>3. claim'[r] = [at |-> "decrement", doc |-> d, read |-> read]
          /\ \A q \in Claimers : q # r => claim'[q] = claim[q]
      BY <1>r, <1>c, <2>2, <3>1
    <3>4. LabelingOf(u, read.project)' = {}
      BY <1>3, <1>a, <3>2 DEF ClaimFindTask, LabelingOf, Labeled
    <3>5. \A c \in Labeled' \ missed' : copies'[c].labeler = u /\ copies'[c].project \in live'
                              => copies'[c].session # read.session
      BY <1>3, <1>a, <3>2 DEF ClaimFindTask, Labeled
    <3>6. (ClaimAhead!(u, k))'
      BY <3>3, <3>4, <3>5
    <3>7. QED
      BY <1>3, <1>r, <3>3, <3>6, MovingPreserves DEF ClaimFindTask
  <2>3. QED
    BY <1>3, <2>1, <2>2 DEF ClaimFindTask
<1>4. CASE ClaimDecrement(u, k)
  <2>1. me \in [at : {"decrement", "insert"}, doc : Docs, read : Doc]
    BY <1>4, <1>r, ClaimStages DEF ClaimDecrement
  <2>2. PICK read : read = me.read
    OBVIOUS
  <2>3. claim'[r].at = "insert" /\ claim'[r].read = read
    BY <1>4, <1>r, <1>c, <2>1, <2>2 DEF ClaimDecrement
  <2>4. \A q \in Claimers : q # r => claim'[q] = claim[q]
    BY <1>4, <1>c DEF ClaimDecrement
  <2>5. LabelingOf(u, read.project)' = {}
    BY <1>4, <1>a, <2>2 DEF ClaimDecrement, LabelingOf, Labeled
  <2>6. \A c \in Labeled' \ missed' : copies'[c].labeler = u /\ copies'[c].project \in live'
                            => copies'[c].session # read.session
    BY <1>4, <1>a, <2>2 DEF ClaimDecrement, Labeled
  <2>7. (ClaimAhead!(u, k))'
    BY <2>3, <2>5, <2>6
  <2>8. UNCHANGED <<live, copies, missed>>
    BY <1>4 DEF ClaimDecrement
  <2>9. \A v \in Users, j \in Clicks :
          <<v, j>> # <<u, k>> => claim'[<<v, j>>] = claim[<<v, j>>]
    BY <1>r, <2>4
  <2>10. QED
    BY <1>r, <2>7, <2>8, <2>9, MovingPreserves
<1>5. CASE ClaimInsert(u, k)
  <2> DEFINE new == [project |-> me.read.project, session |-> me.read.session,
                     sessionId |-> me.read.session, labeler |-> u,
                     requireScore |-> me.read.requireScore, status |-> "labeling"]
  <2>1. me \in [at : {"decrement", "insert"}, doc : Docs, read : Doc]
    BY <1>5, <1>r, ClaimStages DEF ClaimInsert
  <2>2. PICK c \in Copies \ Labeled : copies' = [copies EXCEPT ![c] = new]
    BY <1>5 DEF ClaimInsert, FreshCopies
  <2>3. new \in Copy
    BY <2>1 DEF Copy, Doc
  <2>4. Labeled' = Labeled \cup {c} /\ copies'[c] = new
        /\ \A e \in Labeled : copies'[e] = copies[e]
    BY <2>2, <2>3, PoolAssumption DEF Labeled, ClaimInv, TypeOK, Copy
  <2>5. LabelingOf(u, me.read.project) = {}
        /\ \A e \in Labeled \ missed : copies[e].labeler = u /\ copies[e].project \in live
                                      => copies[e].session # me.read.session
    BY <1>5, <1>r DEF ClaimInsert, ClaimInv, ClaimAhead
  <2> HIDE DEF new
  <2>6. new.project = me.read.project /\ new.session = me.read.session /\ new.labeler = u
    BY DEF new
  <2>7. OneLabeling'
    BY <2>4, <2>5, <2>6 DEF ClaimInv, OneLabeling, LabelingOf
  <2>8. NoRepeatSession'
    BY <1>5, <2>4, <2>5, <2>6 DEF ClaimInsert, ClaimInv, NoRepeatSession
  <2>9. ClaimAhead'
    <3>1. /\ claim'[r] = Idle
          /\ \A v \in Users, j \in Clicks : v # u => claim'[<<v, j>>] = claim[<<v, j>>]
      BY <1>5, <1>r, <1>c DEF ClaimInsert
    <3>2. \A v \in Users, p \in Projects :
            v # u => LabelingOf(v, p)' = LabelingOf(v, p)
      BY <2>4, <2>6 DEF LabelingOf
    <3> SUFFICES ASSUME NEW v \in Users, NEW j \in Clicks
                 PROVE  (ClaimAhead!(v, j))'
      BY DEF ClaimAhead
    <3>3. CASE v = u
      BY <1>r, <3>1, <3>3 DEF Idle
    <3>4. CASE v # u
      <4> DEFINE s == claim[<<v, j>>]
      <4>1. s \in ClaimState
        BY <1>r, <1>c
      <4>2. /\ s.at \in {"findSessions", "findTask"} => s.project \in Projects
            /\ s.at \in {"decrement", "insert"} => s.read.project \in Projects
        BY <4>1, ClaimStages DEF Doc
      <4>3. claim'[<<v, j>>] = s
        BY <3>1, <3>4
      <4>4. ClaimAhead!(v, j)
        BY DEF ClaimInv, ClaimAhead
      <4>5. \A e \in Labeled' : copies'[e].labeler = v =>
              e \in Labeled /\ copies'[e] = copies[e]
        BY <2>4, <2>6, <3>4
      <4>6. live' = live /\ missed' = missed
        BY <1>5 DEF ClaimInsert
      <4>7. QED
        BY <3>2, <3>4, <4>2, <4>3, <4>4, <4>5, <4>6
    <3>5. QED
      BY <3>3, <3>4
  <2>10. QED
    BY <2>7, <2>8, <2>9 DEF ClaimInv
<1>6. QED
  BY <1>1, <1>2, <1>3, <1>4, <1>5 DEF Claiming

LEMMA StepClaim ==
  ASSUME NEW k, Clicks = {k}, ClaimInv, TypeOK', [Next]_vars
  PROVE  ClaimInv'
<1>1. ASSUME NEW u \in Users, NEW j \in Clicks, Claiming(u, j)
      PROVE  ClaimInv'
  BY <1>1, ClaimingSingle
<1>2. ASSUME NEW r \in Claimers \cup Deleters, Abort(r)
      PROVE  ClaimInv'
  BY <1>2, ShrinkingPreserves DEF Abort, ClaimInv, TypeOK
<1>3. ASSUME NEW r \in Deleters, Deleting(r)
      PROVE  ClaimInv'
  BY <1>3, ShrinkingPreserves DEF Deleting, DeleteFindCopy, DeleteFindTask,
     DeleteIncrement, DeleteRemove, ClaimInv, TypeOK
<1>4. ASSUME NEW c \in Copies, HandIn(c)
      PROVE  ClaimInv'
  BY <1>4, ShrinkingPreserves DEF HandIn, Labeled, ClaimInv, TypeOK
<1>9. ASSUME NEW c \in Copies, UpdateTask5(c) \/ SearchTask5Count(c)
      PROVE  ClaimInv'
  <2>1. PICK id : copies' = [copies EXCEPT ![c].sessionId = id]
    BY <1>9 DEF UpdateTask5, SearchTask5Count
  <2>2. copies[c] # NoCopy /\ UNCHANGED <<live, claim, missed>>
    BY <1>9 DEF UpdateTask5, SearchTask5Count, Labeled
  <2>3. \A e \in Copies : copies'[e] = IF e = c THEN [copies[c] EXCEPT !.sessionId = id]
                                       ELSE copies[e]
    BY <2>1 DEF ClaimInv, TypeOK
  <2> QED BY <2>2, <2>3, ShrinkingPreserves
<1>5. ASSUME NEW r \in Scorers, Scoring(r)
      PROVE  ClaimInv'
  BY <1>5, ShrinkingPreserves DEF Scoring, ScoreSample, ScoreUpdate, ClaimInv, TypeOK
<1>6. ASSUME NEW r \in Uploaders, Uploading(r)
      PROVE  ClaimInv'
  BY <1>6, ShrinkingPreserves DEF Uploading, UploadFindOld, UploadRefuse, UploadInsert,
     ClaimInv, TypeOK
<1>7. ASSUME NEW p \in Projects, DeleteProject5(p)
      PROVE  ClaimInv'
  BY <1>7, ShrinkingPreserves DEF DeleteProject5, ClaimInv, TypeOK
<1>8. CASE UNCHANGED vars
  BY <1>8, ShrinkingPreserves DEF vars, ClaimInv, TypeOK
<1>10. QED
  BY <1>1, <1>2, <1>3, <1>4, <1>5, <1>6, <1>7, <1>8, <1>9 DEF Next

LEMMA ClaimInvariant ==
  ASSUME NEW k, Clicks = {k}
  PROVE  Spec => []ClaimInv
<1>1. ClaimInv /\ TypeOK' /\ [Next]_vars => ClaimInv'
  BY StepClaim
<1>2. QED
  BY InitClaim, TypeCorrect, <1>1, PTL DEF Spec

\* A labeller whose own claims do not overlap has at most one 待标注 copy in a
\* project, whatever everybody else does and wherever requests are cut off.
THEOREM OneLabelingPerLabeler ==
  ASSUME NEW k, Clicks = {k}
  PROVE  Spec => []OneLabeling
<1>1. ClaimInv => OneLabeling
  BY DEF ClaimInv
<1>2. QED
  BY <1>1, ClaimInvariant, PTL

\* The same labeller never receives one session twice in live projects, however
\* pages lose session ids and repairs give them back, unless one of the two copies
\* was without its id when a claim of his looked at it.
THEOREM NoSessionTwice ==
  ASSUME NEW k, Clicks = {k}
  PROVE  Spec => []NoRepeatSession
<1>1. ClaimInv => NoRepeatSession
  BY DEF ClaimInv
<1>2. QED
  BY <1>1, ClaimInvariant, PTL


-----------------------------------------------------------------------------
(* One request at a time: what a request has read is still so when it writes. *)

Claims == {r \in Claimers : claim[r] # Idle}
Deletions == {r \in Deleters : deletion[r] # Idle}
Scorings == {r \in Scorers : scoring[r] # Idle}
Uploads == {r \in Uploaders : upload[r] # Idle}

Alone ==
  /\ \A r, s \in Claims : r = s
  /\ \A r, s \in Deletions : r = s
  /\ \A r, s \in Scorings : r = s
  /\ \A r, s \in Uploads : r = s
  /\ Claims # {} => Deletions = {} /\ Scorings = {} /\ Uploads = {}
  /\ Deletions # {} => Scorings = {} /\ Uploads = {}
  /\ Scorings # {} => Uploads = {}

\* The copies of a session that ask for a score.
ScoreOf(project, session) ==
  {c \in Labeled : /\ copies[c].project = project
                   /\ copies[c].session = session
                   /\ copies[c].requireScore = 1}

ClaimCurrent(s) ==
  /\ s.at = "decrement" => s.read = pool[s.doc]
  /\ s.at = "insert" =>
       /\ pool[s.doc].project = s.read.project
       /\ pool[s.doc].session = s.read.session
       /\ s.read.requireScore = 1 =>
            /\ pool[s.doc].requireScore = 2
            /\ ScoreOf(s.read.project, s.read.session) = {}

DeletionCurrent(s) ==
  /\ s.at \in {"findTask", "removeOther", "increment", "removeReturned"} =>
       /\ copies[s.copy] = s.read
       /\ s.at = "removeOther" <=> s.read.status = "handedIn"
  /\ s.at \in {"increment", "removeReturned"} => s.doc \in OriginsOf(s.read)
  /\ s.at = "increment" => s.old = pool[s.doc]

ScoringCurrent(s) ==
  s.at = "update" => \A d \in s.sample : pool[d].requireScore = 0

UploadCurrent(s) == s.at = "insert" => s.old = SessionsOf(s.project)

ReadsCurrent ==
  /\ \A r \in Claimers : ClaimCurrent(claim[r])
  /\ \A r \in Deleters : DeletionCurrent(deletion[r])
  /\ \A r \in Scorers : ScoringCurrent(scoring[r])
  /\ \A r \in Uploaders : UploadCurrent(upload[r])

\* Every copy has a template, and one that asks for a score has taken the
\* template's request for it.
CopiesComeFromPool ==
  \A c \in Labeled :
    /\ OriginsOf(copies[c]) # {}
    /\ copies[c].requireScore = 1 =>
         \A d \in OriginsOf(copies[c]) : pool[d].requireScore = 2

SerialInv ==
  /\ Alone
  /\ ReadsCurrent
  /\ UniqueSessions
  /\ OneScorer
  /\ CopiesComeFromPool

Quiet == Claims = {} /\ Deletions = {} /\ Scorings = {} /\ Uploads = {}

LEMMA AtMostOne ==
  ASSUME NEW S, \A r, s \in S : r = s
  PROVE  /\ Cardinality(S) \in Nat
         /\ Cardinality(S) = 0 <=> S = {}
         /\ S # {} => Cardinality(S) = 1
<1>1. CASE S = {}
  BY <1>1, FS_EmptySet
<1>2. ASSUME NEW r \in S
      PROVE  IsFiniteSet(S) /\ Cardinality(S) = 1
  <2>1. S = {r}
    BY <1>2
  <2> QED BY <2>1, FS_Singleton
<1> QED BY <1>1, <1>2

\* A server that serves one request at a time admits one when it has none.
LEMMA AdmittedIsQuiet ==
  ASSUME MaxInFlight = 1, Alone, Admitted
  PROVE  Quiet
<1>1. Cardinality(Claims) + Cardinality(Deletions) + Cardinality(Scorings)
        + Cardinality(Uploads) < 1
  BY DEF Admitted, InFlight, Claims, Deletions, Scorings, Uploads
<1>2. /\ Cardinality(Claims) \in Nat /\ (Cardinality(Claims) = 0 <=> Claims = {})
      /\ Cardinality(Deletions) \in Nat /\ (Cardinality(Deletions) = 0 <=> Deletions = {})
      /\ Cardinality(Scorings) \in Nat /\ (Cardinality(Scorings) = 0 <=> Scorings = {})
      /\ Cardinality(Uploads) \in Nat /\ (Cardinality(Uploads) = 0 <=> Uploads = {})
  BY AtMostOne DEF Alone
<1> DEFINE a == Cardinality(Claims)
           b == Cardinality(Deletions)
           c == Cardinality(Scorings)
           d == Cardinality(Uploads)
<1>3. a \in Nat /\ b \in Nat /\ c \in Nat /\ d \in Nat /\ a + b + c + d < 1
  BY <1>1, <1>2
<1> HIDE DEF a, b, c, d
<1>4. a = 0 /\ b = 0 /\ c = 0 /\ d = 0
  BY <1>3
<1> USE DEF a, b, c, d
<1> QED BY <1>2, <1>4 DEF Quiet

LEMMA IdleIsCurrent ==
  ClaimCurrent(Idle) /\ DeletionCurrent(Idle) /\ ScoringCurrent(Idle) /\ UploadCurrent(Idle)
  BY DEF ClaimCurrent, DeletionCurrent, ScoringCurrent, UploadCurrent, Idle

LEMMA IdleStaysCurrent ==
  ClaimCurrent(Idle)' /\ DeletionCurrent(Idle)' /\ ScoringCurrent(Idle)' /\ UploadCurrent(Idle)'
  BY DEF ClaimCurrent, DeletionCurrent, ScoringCurrent, UploadCurrent, Idle

\* One request moves while no other is on its way.
LEMMA ClaimMoves ==
  ASSUME TypeOK, Alone, NEW r \in Claimers, NEW s, claim' = [claim EXCEPT ![r] = s],
         UNCHANGED <<deletion, scoring, upload>>, claim[r] # Idle \/ Quiet,
         ClaimCurrent(s)'
  PROVE  Alone' /\ ReadsCurrent'
<1>1. /\ Deletions = {} /\ Scorings = {} /\ Uploads = {}
      /\ \A q \in Claimers : q # r => claim[q] = Idle
  BY DEF Alone, Quiet, Claims
<1>2. /\ Deletions' = {} /\ Scorings' = {} /\ Uploads' = {}
      /\ claim'[r] = s /\ \A q \in Claimers : q # r => claim'[q] = Idle
  BY <1>1 DEF Deletions, Scorings, Uploads, TypeOK
<1>3. Alone'
  BY <1>2 DEF Alone, Claims
<1>4. ReadsCurrent'
  BY <1>2, IdleStaysCurrent
     DEF ReadsCurrent, Deletions, Scorings, Uploads
<1> QED BY <1>3, <1>4

LEMMA DeletionMoves ==
  ASSUME TypeOK, Alone, NEW r \in Deleters, NEW s, deletion' = [deletion EXCEPT ![r] = s],
         UNCHANGED <<claim, scoring, upload>>, deletion[r] # Idle \/ Quiet,
         DeletionCurrent(s)'
  PROVE  Alone' /\ ReadsCurrent'
<1>1. /\ Claims = {} /\ Scorings = {} /\ Uploads = {}
      /\ \A q \in Deleters : q # r => deletion[q] = Idle
  BY DEF Alone, Quiet, Deletions
<1>2. /\ Claims' = {} /\ Scorings' = {} /\ Uploads' = {}
      /\ deletion'[r] = s /\ \A q \in Deleters : q # r => deletion'[q] = Idle
  BY <1>1 DEF Claims, Scorings, Uploads, TypeOK
<1>3. Alone'
  BY <1>2 DEF Alone, Deletions
<1>4. ReadsCurrent'
  BY <1>2, IdleStaysCurrent
     DEF ReadsCurrent, Claims, Scorings, Uploads
<1> QED BY <1>3, <1>4

LEMMA ScoringMoves ==
  ASSUME TypeOK, Alone, NEW r \in Scorers, NEW s, scoring' = [scoring EXCEPT ![r] = s],
         UNCHANGED <<claim, deletion, upload>>, scoring[r] # Idle \/ Quiet,
         ScoringCurrent(s)'
  PROVE  Alone' /\ ReadsCurrent'
<1>1. /\ Claims = {} /\ Deletions = {} /\ Uploads = {}
      /\ \A q \in Scorers : q # r => scoring[q] = Idle
  BY DEF Alone, Quiet, Scorings
<1>2. /\ Claims' = {} /\ Deletions' = {} /\ Uploads' = {}
      /\ scoring'[r] = s /\ \A q \in Scorers : q # r => scoring'[q] = Idle
  BY <1>1 DEF Claims, Deletions, Uploads, TypeOK
<1>3. Alone'
  BY <1>2 DEF Alone, Scorings
<1>4. ReadsCurrent'
  BY <1>2, IdleStaysCurrent
     DEF ReadsCurrent, Claims, Deletions, Uploads
<1> QED BY <1>3, <1>4

LEMMA UploadMoves ==
  ASSUME TypeOK, Alone, NEW r \in Uploaders, NEW s, upload' = [upload EXCEPT ![r] = s],
         UNCHANGED <<claim, deletion, scoring>>, upload[r] # Idle \/ Quiet,
         UploadCurrent(s)'
  PROVE  Alone' /\ ReadsCurrent'
<1>1. /\ Claims = {} /\ Deletions = {} /\ Scorings = {}
      /\ \A q \in Uploaders : q # r => upload[q] = Idle
  BY DEF Alone, Quiet, Uploads
<1>2. /\ Claims' = {} /\ Deletions' = {} /\ Scorings' = {}
      /\ upload'[r] = s /\ \A q \in Uploaders : q # r => upload'[q] = Idle
  BY <1>1 DEF Claims, Deletions, Scorings, TypeOK
<1>3. Alone'
  BY <1>2 DEF Alone, Uploads
<1>4. ReadsCurrent'
  BY <1>2, IdleStaysCurrent
     DEF ReadsCurrent, Claims, Deletions, Scorings
<1> QED BY <1>3, <1>4

LEMMA NoRequestMoves ==
  ASSUME Quiet, UNCHANGED <<claim, deletion, scoring, upload>>
  PROVE  Alone' /\ ReadsCurrent'
<1>1. Claims' = {} /\ Deletions' = {} /\ Scorings' = {} /\ Uploads' = {}
  BY DEF Quiet, Claims, Deletions, Scorings, Uploads
<1> QED BY <1>1, IdleStaysCurrent
        DEF Alone, ReadsCurrent, Claims, Deletions, Scorings, Uploads

-----------------------------------------------------------------------------
(* What a step does to templates and copies. *)

Documents == UniqueSessions /\ OneScorer /\ CopiesComeFromPool

LEMMA DocumentsUnchanged ==
  ASSUME Documents, UNCHANGED <<pool, copies>>
  PROVE  Documents'
  BY DEF Documents, UniqueSessions, OneScorer, CopiesComeFromPool, Tasks, Labeled, OriginsOf

\* Templates keep their project and session, and a request that was taken
\* stays taken.
LEMMA PoolRewritten ==
  ASSUME Documents, copies' = copies, Tasks' = Tasks,
         \A d \in Tasks : /\ pool'[d].project = pool[d].project
                          /\ pool'[d].session = pool[d].session
                          /\ pool[d].requireScore = 2 => pool'[d].requireScore = 2
  PROVE  Documents'
<1>1. Labeled' = Labeled /\ \A c \in Labeled : OriginsOf(copies[c])' = OriginsOf(copies[c])
  BY DEF Labeled, OriginsOf
<1>2. \A c \in Labeled : OriginsOf(copies[c]) \subseteq Tasks
  BY DEF OriginsOf
<1> QED BY <1>1, <1>2 DEF Documents, UniqueSessions, OneScorer, CopiesComeFromPool

\* Copies go or keep all but their status.
LEMMA CopiesShrink ==
  ASSUME Documents, pool' = pool,
         \A c \in Labeled' : /\ c \in Labeled
                             /\ copies'[c].project = copies[c].project
                             /\ copies'[c].session = copies[c].session
                             /\ copies'[c].requireScore = copies[c].requireScore
  PROVE  Documents'
<1>1. Tasks' = Tasks /\ \A c \in Labeled' : OriginsOf(copies[c])' = OriginsOf(copies[c])
  BY DEF Tasks, OriginsOf
<1> QED BY <1>1 DEF Documents, UniqueSessions, OneScorer, CopiesComeFromPool


-----------------------------------------------------------------------------
(* One lemma per handler. *)

SerialOK == PoolInv /\ Alone /\ ReadsCurrent /\ Documents

LEMMA ClaimingSerial ==
  ASSUME MaxInFlight = 1, SerialOK, NEW u \in Users, NEW k \in Clicks, Claiming(u, k)
  PROVE  Alone' /\ ReadsCurrent' /\ Documents'
<1> DEFINE r == <<u, k>>
           me == claim[r]
<1>r. /\ r \in Claimers /\ me \in ClaimState /\ claim \in [Claimers -> ClaimState]
      /\ TypeOK /\ Alone /\ Documents /\ ClaimCurrent(me)
  BY DEF Claimers, SerialOK, PoolInv, TypeOK, ReadsCurrent
<1>1. ASSUME NEW p \in Projects, ClaimFindLabeling(u, k, p)
      PROVE  Alone' /\ ReadsCurrent' /\ Documents'
  <2>1. PICK s : s = [at |-> "findSessions", project |-> p]
    OBVIOUS
  <2>2. claim' = [claim EXCEPT ![r] = s] /\ UNCHANGED <<deletion, scoring, upload, pool, copies>>
        /\ Quiet
    BY <1>1, <1>r, <2>1, AdmittedIsQuiet DEF ClaimFindLabeling
  <2>3. ClaimCurrent(s)'
    BY <2>1 DEF ClaimCurrent
  <2> QED BY <1>r, <2>2, <2>3, ClaimMoves, DocumentsUnchanged
<1>2. CASE ClaimFindSessions(u, k)
  <2>1. PICK s : s = [at |-> "findTask", project |-> me.project,
                      mine |-> {copies[c].sessionId : c \in CopiesOf(u)}]
    OBVIOUS
  <2>2. claim' = [claim EXCEPT ![r] = s] /\ UNCHANGED <<deletion, scoring, upload, pool, copies>>
        /\ me # Idle
    BY <1>2, <2>1 DEF ClaimFindSessions, Idle
  <2>3. ClaimCurrent(s)'
    BY <2>1 DEF ClaimCurrent
  <2> QED BY <1>r, <2>2, <2>3, ClaimMoves, DocumentsUnchanged
<1>3. CASE ClaimFindTask(u, k)
  <2>1. me # Idle /\ UNCHANGED <<deletion, scoring, upload, pool, copies>>
    BY <1>3 DEF ClaimFindTask, Idle
  <2>2. CASE claim' = [claim EXCEPT ![r] = Idle]
    BY <1>r, <2>1, <2>2, IdleStaysCurrent, ClaimMoves, DocumentsUnchanged
  <2>3. ASSUME NEW d \in Claimable(me.project, me.mine),
               claim' = [claim EXCEPT ![r] =
                           [at |-> "decrement", doc |-> d, read |-> pool[d]]]
        PROVE  Alone' /\ ReadsCurrent' /\ Documents'
    <3>1. PICK s : s = [at |-> "decrement", doc |-> d, read |-> pool[d]]
      OBVIOUS
    <3>2. ClaimCurrent(s)'
      BY <2>1, <3>1 DEF ClaimCurrent
    <3> QED BY <1>r, <2>1, <2>3, <3>1, <3>2, ClaimMoves, DocumentsUnchanged
  <2> QED BY <1>3, <2>2, <2>3 DEF ClaimFindTask
<1>4. CASE ClaimDecrement(u, k)
  <2>1. /\ me \in [at : {"decrement", "insert"}, doc : Docs, read : Doc]
        /\ me.at = "decrement" /\ me.doc \in Tasks /\ me # Idle
        /\ UNCHANGED <<deletion, scoring, upload, copies>>
    BY <1>4, <1>r, ClaimStages DEF ClaimDecrement, SerialOK, PoolInv, ReadsPublished, Idle
  <2>2. PICK d \in Tasks : d = me.doc
    BY <2>1
  <2>3. PICK read \in Doc : read = me.read
    BY <2>1
  <2>4. PICK s : s = [at |-> "insert", doc |-> d, read |-> read]
    OBVIOUS
  <2>5. claim' = [claim EXCEPT ![r] = s]
    <3>1. [me EXCEPT !.at = "insert"] = s
      BY <2>1, <2>2, <2>3, <2>4
    <3>2. claim' = [claim EXCEPT ![r] = [me EXCEPT !.at = "insert"]]
      BY <1>4 DEF ClaimDecrement
    <3> QED BY <3>1, <3>2
  <2>6. pool[d] = read /\ d \in Docs /\ pool \in [Docs -> Doc \cup {NoDoc}]
    BY <1>r, <2>1, <2>2, <2>3 DEF ClaimCurrent, Tasks, TypeOK
  <2>7. pool' = [pool EXCEPT ![d].priority = read.priority - 1,
                             ![d].requireScore = IF read.requireScore = 1 THEN 2 ELSE @]
    BY <1>4, <2>2, <2>3 DEF ClaimDecrement
  <2>8. /\ pool'[d].project = read.project /\ pool'[d].session = read.session
        /\ pool'[d].requireScore = IF read.requireScore = 1 THEN 2 ELSE read.requireScore
        /\ \A e \in Docs : e # d => pool'[e] = pool[e]
    BY <2>6, <2>7 DEF Doc
  <2>9. Tasks' = Tasks
    <3>1. d \in Tasks'
      BY <1>4, <1>r, <2>4, <2>5, ClaimingPreserves
         DEF Claiming, SerialOK, PoolInv, ReadsPublished
    <3>2. DOMAIN pool' = Docs /\ DOMAIN pool = Docs
      BY <2>6, <2>7
    <3> QED BY <2>8, <3>1, <3>2 DEF Tasks
  <2>10. Documents'
    BY <1>r, <2>1, <2>6, <2>8, <2>9, PoolRewritten DEF Tasks
  <2>11. read.requireScore = 1 => ScoreOf(read.project, read.session)' = {}
    <3> SUFFICES ASSUME read.requireScore = 1, NEW c \in Labeled,
                        copies[c].project = read.project, copies[c].session = read.session,
                        copies[c].requireScore = 1
                 PROVE  FALSE
      BY <2>1 DEF ScoreOf, Labeled
    <3>1. d \in OriginsOf(copies[c])
      BY <2>6 DEF OriginsOf
    <3> QED BY <1>r, <2>6, <3>1 DEF Documents, CopiesComeFromPool
  <2>12. ClaimCurrent(s)'
    BY <2>4, <2>8, <2>11 DEF ClaimCurrent
  <2> QED BY <1>r, <2>1, <2>5, <2>10, <2>12, ClaimMoves
<1>5. CASE ClaimInsert(u, k)
  <2> DEFINE new == [project |-> me.read.project, session |-> me.read.session,
                     sessionId |-> me.read.session, labeler |-> u,
                     requireScore |-> me.read.requireScore, status |-> "labeling"]
  <2>1. /\ me \in [at : {"decrement", "insert"}, doc : Docs, read : Doc]
        /\ me.at = "insert" /\ me.doc \in Tasks /\ me # Idle
        /\ UNCHANGED <<deletion, scoring, upload, pool>>
        /\ claim' = [claim EXCEPT ![r] = Idle]
    BY <1>5, <1>r, ClaimStages DEF ClaimInsert, SerialOK, PoolInv, ReadsPublished, Idle
  <2>2. PICK c \in Copies \ Labeled : copies' = [copies EXCEPT ![c] = new]
    BY <1>5 DEF ClaimInsert, FreshCopies
  <2>3. new \in Copy
    BY <2>1 DEF Copy, Doc
  <2>4. Labeled' = Labeled \cup {c} /\ copies'[c] = new
        /\ \A e \in Labeled : copies'[e] = copies[e] /\ e # c
    BY <1>r, <2>2, <2>3, PoolAssumption DEF Labeled, TypeOK, Copy
  <2>5. /\ pool[me.doc].project = new.project /\ pool[me.doc].session = new.session
        /\ new.requireScore = 1 => /\ pool[me.doc].requireScore = 2
                                   /\ ScoreOf(new.project, new.session) = {}
    BY <1>r, <2>1 DEF ClaimCurrent
  <2> HIDE DEF new
  <2>6. Tasks' = Tasks /\ UniqueSessions'
    BY <1>r, <2>1 DEF Documents, UniqueSessions, Tasks
  <2>7. OneScorer'
    BY <1>r, <2>4, <2>5 DEF Documents, OneScorer, ScoreOf
  <2>8. \A e \in Labeled' : OriginsOf(copies[e])'
                            = {d \in Tasks : /\ pool[d].project = copies'[e].project
                                             /\ pool[d].session = copies'[e].session}
    BY <2>1, <2>6 DEF OriginsOf
  <2>9. OriginsOf(copies[c])' = {me.doc}
    BY <1>r, <2>1, <2>4, <2>5, <2>8 DEF Documents, UniqueSessions
  <2>10. \A e \in Labeled : OriginsOf(copies[e])' = OriginsOf(copies[e])
    BY <2>4, <2>8 DEF OriginsOf
  <2>11. CopiesComeFromPool'
    BY <1>r, <2>1, <2>4, <2>5, <2>9, <2>10 DEF Documents, CopiesComeFromPool
  <2> QED BY <1>r, <2>1, <2>6, <2>7, <2>11, IdleStaysCurrent, ClaimMoves DEF Documents
<1> QED BY <1>1, <1>2, <1>3, <1>4, <1>5 DEF Claiming

\* What a deletion finds by the session id is of the copy's own session.
LEMMA FoundIsOrigin ==
  ASSUME TypeOK, NEW copy \in Copy, NEW d \in FoundFor(copy)
  PROVE  d \in OriginsOf(copy)
BY PoolAssumption DEF FoundFor, OriginsOf, Tasks, TypeOK, Doc, Copy

LEMMA DeletingSerial ==
  ASSUME MaxInFlight = 1, SerialOK, NEW r \in Deleters, Deleting(r)
  PROVE  Alone' /\ ReadsCurrent' /\ Documents'
<1> DEFINE me == deletion[r]
<1>r. /\ me \in DeletionState /\ deletion \in [Deleters -> DeletionState]
      /\ TypeOK /\ Alone /\ Documents /\ DeletionCurrent(me)
  BY DEF SerialOK, PoolInv, TypeOK, ReadsCurrent
<1>1. ASSUME NEW c \in Copies, DeleteFindCopy(r, c)
      PROVE  Alone' /\ ReadsCurrent' /\ Documents'
  <2>1. PICK s : s = [at |-> IF copies[c].status = "labeling" THEN "findTask" ELSE "removeOther",
                      copy |-> c, read |-> copies[c]]
    OBVIOUS
  <2>2. deletion' = [deletion EXCEPT ![r] = s] /\ UNCHANGED <<claim, scoring, upload, pool, copies>>
        /\ Quiet /\ copies[c] \in Copy
    BY <1>1, <1>r, <2>1, AdmittedIsQuiet DEF DeleteFindCopy, TypeOK, Labeled
  <2>3. DeletionCurrent(s)'
    BY <2>1, <2>2 DEF DeletionCurrent, Copy
  <2> QED BY <1>r, <2>2, <2>3, DeletionMoves, DocumentsUnchanged
<1>2. CASE DeleteFindTask(r)
  <2>1. me # Idle /\ UNCHANGED <<claim, scoring, upload, pool, copies>>
        /\ me \in [at : {"findTask", "removeOther"}, copy : Copies, read : Copy]
        /\ me.at = "findTask"
    BY <1>2, <1>r, DeletionStages DEF DeleteFindTask, Idle
  <2>2. CASE deletion' = [deletion EXCEPT ![r] = Idle]
    BY <1>r, <2>1, <2>2, IdleStaysCurrent, DeletionMoves, DocumentsUnchanged
  <2>3. ASSUME NEW d \in FoundFor(me.read),
               deletion' = [deletion EXCEPT ![r] =
                 [at |-> "increment", copy |-> me.copy, read |-> me.read,
                  doc |-> d, old |-> pool[d]]]
        PROVE  Alone' /\ ReadsCurrent' /\ Documents'
    <3>1. PICK s : s = [at |-> "increment", copy |-> me.copy, read |-> me.read,
                        doc |-> d, old |-> pool[d]]
      OBVIOUS
    <3>2. copies[me.copy] = me.read /\ me.read.status # "handedIn"
      BY <1>r, <2>1 DEF DeletionCurrent
    <3>5. d \in OriginsOf(me.read)
      BY <1>r, <2>1, FoundIsOrigin
    <3>3. OriginsOf(s.read)' = OriginsOf(s.read)
      BY <2>1 DEF OriginsOf, Tasks
    <3>4. DeletionCurrent(s)'
      BY <2>1, <3>1, <3>2, <3>3, <3>5 DEF DeletionCurrent
    <3> QED BY <1>r, <2>1, <2>3, <3>1, <3>4, DeletionMoves, DocumentsUnchanged
  <2> QED BY <1>2, <2>2, <2>3 DEF DeleteFindTask
<1>3. CASE DeleteIncrement(r)
  <2>1. /\ me \in [at : {"increment"}, copy : Copies, read : Copy, doc : Docs, old : Doc]
        /\ me.at = "increment" /\ me # Idle /\ me.doc \in Tasks
        /\ UNCHANGED <<claim, scoring, upload, copies>>
    BY <1>3, <1>r, DeletionStages DEF DeleteIncrement, Idle, SerialOK, PoolInv, ReadsPublished
  <2>2. PICK d \in Tasks : d = me.doc
    BY <2>1
  <2>3. PICK old \in Doc : old = me.old
    BY <2>1
  <2>4. PICK s : s = [at |-> "removeReturned", copy |-> me.copy, read |-> me.read, doc |-> d]
    OBVIOUS
  <2>5. pool[d] = old /\ d \in Docs /\ pool \in [Docs -> Doc \cup {NoDoc}]
        /\ copies[me.copy] = me.read /\ me.read.status # "handedIn" /\ d \in OriginsOf(me.read)
    BY <1>r, <2>1, <2>2, <2>3 DEF DeletionCurrent, Tasks, TypeOK
  <2>6. pool' = [pool EXCEPT ![d].priority = old.priority + 1]
        /\ deletion' = [deletion EXCEPT ![r] = s]
    BY <1>3, <2>2, <2>3, <2>4 DEF DeleteIncrement
  <2>7. /\ pool'[d].project = old.project /\ pool'[d].session = old.session
        /\ pool'[d].requireScore = old.requireScore /\ pool'[d] \in Doc
        /\ \A e \in Docs : e # d => pool'[e] = pool[e]
    BY <2>5, <2>6 DEF Doc
  <2>8. Tasks' = Tasks
    BY <2>7, PoolAssumption DEF Tasks, Doc
  <2>9. Documents'
    BY <1>r, <2>1, <2>5, <2>7, <2>8, PoolRewritten DEF Tasks
  <2>10. d \in OriginsOf(s.read)'
    BY <2>4, <2>5, <2>7, <2>8 DEF OriginsOf
  <2>11. DeletionCurrent(s)'
    BY <2>1, <2>4, <2>5, <2>10 DEF DeletionCurrent
  <2> QED BY <1>r, <2>1, <2>6, <2>9, <2>11, DeletionMoves
<1>4. CASE DeleteRemove(r)
  <2>1. me # Idle /\ UNCHANGED <<claim, scoring, upload, pool>>
        /\ deletion' = [deletion EXCEPT ![r] = Idle]
        /\ copies' = [copies EXCEPT ![me.copy] = NoCopy]
    BY <1>4 DEF DeleteRemove, Idle
  <2>2. \A c \in Labeled' : c \in Labeled /\ copies'[c] = copies[c]
    BY <1>r, <2>1 DEF Labeled, TypeOK
  <2> QED BY <1>r, <2>1, <2>2, IdleStaysCurrent, DeletionMoves, CopiesShrink
<1> QED BY <1>1, <1>2, <1>3, <1>4 DEF Deleting

LEMMA ScoringSerial ==
  ASSUME MaxInFlight = 1, SerialOK, NEW r \in Scorers, Scoring(r)
  PROVE  Alone' /\ ReadsCurrent' /\ Documents'
<1>r. /\ TypeOK /\ Alone /\ Documents /\ ScoringCurrent(scoring[r])
  BY DEF SerialOK, PoolInv, ReadsCurrent
<1>1. ASSUME NEW p \in Projects, ScoreSample(r, p)
      PROVE  Alone' /\ ReadsCurrent' /\ Documents'
  <2>1. PICK sample \in SUBSET Unscored(p) :
          scoring' = [scoring EXCEPT ![r] = [at |-> "update", sample |-> sample]]
    BY <1>1 DEF ScoreSample
  <2>2. UNCHANGED <<claim, deletion, upload, pool, copies>> /\ Quiet
    BY <1>1, <1>r, AdmittedIsQuiet DEF ScoreSample
  <2>3. PICK s : s = [at |-> "update", sample |-> sample]
    OBVIOUS
  <2>4. ScoringCurrent(s)'
    BY <2>2, <2>3 DEF ScoringCurrent, Unscored
  <2> QED BY <1>r, <2>1, <2>2, <2>3, <2>4, ScoringMoves, DocumentsUnchanged
<1>2. CASE ScoreUpdate(r)
  <2>1. /\ scoring[r] # Idle /\ UNCHANGED <<claim, deletion, upload, copies>>
        /\ scoring' = [scoring EXCEPT ![r] = Idle] /\ scoring[r].at = "update"
        /\ pool' = [d \in Docs |-> IF d \in scoring[r].sample
                                   THEN [pool[d] EXCEPT !.requireScore = 1]
                                   ELSE pool[d]]
    BY <1>2 DEF ScoreUpdate, Idle
  <2>2. /\ scoring[r].sample \subseteq Tasks
        /\ \A d \in scoring[r].sample : pool[d].requireScore = 0
    BY <1>r, <2>1 DEF SerialOK, PoolInv, ReadsPublished, ScoringCurrent
  <2>3. \A d \in Tasks : /\ pool'[d] \in Doc
                         /\ pool'[d].project = pool[d].project
                         /\ pool'[d].session = pool[d].session
                         /\ pool[d].requireScore = 2 => pool'[d].requireScore = 2
    BY <1>r, <2>1, <2>2 DEF TypeOK, Tasks, Doc
  <2>4. Tasks' = Tasks
    BY <2>1, <2>2, <2>3, PoolAssumption DEF Tasks, Doc
  <2>5. Documents'
    BY <1>r, <2>1, <2>3, <2>4, PoolRewritten
  <2> QED BY <1>r, <2>1, <2>5, IdleStaysCurrent, ScoringMoves
<1> QED BY <1>1, <1>2 DEF Scoring

\* Batches whose files are of different sessions.
BatchesApart ==
  \A b \in Batches : \A i, j \in DOMAIN b : b[i].session = b[j].session => i = j

LEMMA UploadingSerial ==
  ASSUME MaxInFlight = 1, BatchesApart, SerialOK, NEW r \in Uploaders, Uploading(r)
  PROVE  Alone' /\ ReadsCurrent' /\ Documents'
<1> DEFINE b == upload[r].batch
           p == upload[r].project
<1>r. /\ TypeOK /\ Alone /\ Documents /\ UploadCurrent(upload[r])
  BY DEF SerialOK, PoolInv, ReadsCurrent
<1>1. ASSUME NEW q \in Projects, NEW c \in Batches, UploadFindOld(r, q, c)
      PROVE  Alone' /\ ReadsCurrent' /\ Documents'
  <2>1. PICK s : s = [at |-> "insert", project |-> q, batch |-> c, old |-> SessionsOf(q)]
    OBVIOUS
  <2>2. upload' = [upload EXCEPT ![r] = s] /\ Quiet
        /\ UNCHANGED <<claim, deletion, scoring, pool, copies>>
    BY <1>1, <1>r, <2>1, AdmittedIsQuiet DEF UploadFindOld
  <2>3. SessionsOf(q)' = SessionsOf(q)
    BY <2>2 DEF SessionsOf, Tasks
  <2>4. UploadCurrent(s)'
    BY <2>1, <2>3 DEF UploadCurrent
  <2> QED BY <1>r, <2>2, <2>4, UploadMoves, DocumentsUnchanged
<1>2. CASE UploadRefuse(r)
  <2>1. upload' = [upload EXCEPT ![r] = Idle] /\ upload[r] # Idle
        /\ UNCHANGED <<claim, deletion, scoring, pool, copies>>
    BY <1>2 DEF UploadRefuse, Idle
  <2> QED BY <1>r, <2>1, IdleStaysCurrent, UploadMoves, DocumentsUnchanged
<1>3. CASE UploadInsert(r)
  <2>1. upload' = [upload EXCEPT ![r] = Idle] /\ upload[r] # Idle
        /\ UNCHANGED <<claim, deletion, scoring, copies>>
        /\ p \in Projects /\ b \in Batches
        /\ \A i \in DOMAIN b : b[i].session \notin SessionsOf(p)
    BY <1>3, <1>r, UploadStages
       DEF UploadInsert, Idle, TypeOK, UploadCurrent, RepeatingTask5s
  <2>2. PICK id \in [DOMAIN b -> Docs \ Tasks] :
          /\ \A i, j \in DOMAIN b : id[i] = id[j] => i = j
          /\ pool' = [d \in Docs |-> IF \E i \in DOMAIN b : id[i] = d
                                    THEN NewTask(p, b[CHOOSE i \in DOMAIN b : id[i] = d])
                                    ELSE pool[d]]
    BY <1>3 DEF UploadInsert
  <2>3. \A d \in Tasks : d \in Tasks' /\ pool'[d] = pool[d]
    <3>1. \A d \in Tasks : d \in Docs /\ pool[d] # NoDoc /\ ~ \E i \in DOMAIN b : id[i] = d
      BY DEF Tasks
    <3> QED BY <2>2, <3>1 DEF Tasks
  <2>4. ASSUME NEW d \in Tasks', d \notin Tasks
        PROVE  \E i \in DOMAIN b : /\ id[i] = d
                                   /\ pool'[d].project = p
                                   /\ pool'[d].session = b[i].session
    <3>1. d \in Docs /\ pool[d] = NoDoc /\ pool'[d] # NoDoc
      BY <2>4 DEF Tasks, UploadInsert
    <3>2. PICK i \in DOMAIN b : id[i] = d
      BY <2>2, <3>1
    <3>3. (CHOOSE j \in DOMAIN b : id[j] = d) = i
      BY <2>2, <3>2
    <3>4. pool'[d] = NewTask(p, b[i])
      BY <2>2, <3>1, <3>2, <3>3
    <3> QED BY <3>2, <3>4 DEF NewTask
  <2>5. UniqueSessions'
    <3> SUFFICES ASSUME NEW d \in Tasks', NEW e \in Tasks',
                        pool'[d].project = pool'[e].project,
                        pool'[d].session = pool'[e].session
                 PROVE  d = e
      BY DEF UniqueSessions
    <3>1. CASE d \in Tasks /\ e \in Tasks
      BY <1>r, <2>3, <3>1 DEF Documents, UniqueSessions
    <3>2. CASE d \notin Tasks /\ e \notin Tasks
      BY <2>1, <2>4, <3>2 DEF BatchesApart
    <3>3. \A f \in Tasks' : f \in Tasks /\ pool'[f].project = p
                            => pool'[f].session \in SessionsOf(p)
      BY <2>3 DEF SessionsOf
    <3>4. \A f \in Tasks' : f \notin Tasks => /\ pool'[f].project = p
                                              /\ pool'[f].session \notin SessionsOf(p)
      BY <2>1, <2>4
    <3> QED BY <3>1, <3>2, <3>3, <3>4
  <2>6. Labeled' = Labeled /\ OneScorer'
    BY <1>r, <2>1 DEF Documents, OneScorer, Labeled
  <2>7. ASSUME NEW c \in Labeled
        PROVE  OriginsOf(copies[c])' = OriginsOf(copies[c])
    <3>1. PICK d : d \in OriginsOf(copies[c])
      BY <1>r DEF Documents, CopiesComeFromPool
    <3>2. d \in Tasks /\ d \in Tasks' /\ d \in OriginsOf(copies[c])'
      BY <2>1, <2>3, <3>1 DEF OriginsOf
    <3>3. OriginsOf(copies[c])' = {d} /\ OriginsOf(copies[c]) = {d}
      BY <1>r, <2>5, <3>1, <3>2 DEF Documents, UniqueSessions, OriginsOf
    <3> QED BY <3>3
  <2>8. \A c \in Labeled : OriginsOf(copies[c]) \subseteq Tasks
    BY DEF OriginsOf
  <2>9. CopiesComeFromPool'
    BY <1>r, <2>1, <2>3, <2>6, <2>7, <2>8 DEF Documents, CopiesComeFromPool
  <2> QED BY <1>r, <2>1, <2>5, <2>6, <2>9, IdleStaysCurrent, UploadMoves DEF Documents
<1> QED BY <1>1, <1>2, <1>3 DEF Uploading

LEMMA OtherSerial ==
  ASSUME MaxInFlight = 1, SerialOK,
         \/ \E c \in Copies : HandIn(c) \/ UpdateTask5(c) \/ SearchTask5Count(c)
         \/ \E p \in Projects : DeleteProject5(p)
         \/ \E r \in Claimers \cup Deleters : Abort(r)
         \/ UNCHANGED vars
  PROVE  Alone' /\ ReadsCurrent' /\ Documents'
<1>r. TypeOK /\ Alone /\ Documents /\ ReadsCurrent
  BY DEF SerialOK, PoolInv
<1>1. ASSUME NEW c \in Copies, HandIn(c)
      PROVE  Alone' /\ ReadsCurrent' /\ Documents'
  <2>1. Quiet /\ UNCHANGED <<claim, deletion, scoring, upload, pool>>
        /\ c \in Labeled /\ copies[c] \in Copy
        /\ copies' = [copies EXCEPT ![c].status = "handedIn"]
    BY <1>1, <1>r, AdmittedIsQuiet DEF HandIn, Labeled, TypeOK
  <2>2. \A e \in Labeled' : /\ e \in Labeled
                            /\ copies'[e].project = copies[e].project
                            /\ copies'[e].session = copies[e].session
                            /\ copies'[e].requireScore = copies[e].requireScore
    BY <1>r, <2>1 DEF Labeled, TypeOK, Copy
  <2> QED BY <1>r, <2>1, <2>2, CopiesShrink, NoRequestMoves
<1>5. ASSUME NEW c \in Copies, UpdateTask5(c) \/ SearchTask5Count(c)
      PROVE  Alone' /\ ReadsCurrent' /\ Documents'
  <2>1. Quiet /\ UNCHANGED <<claim, deletion, scoring, upload, pool>>
        /\ c \in Labeled /\ copies[c] \in Copy
    BY <1>5, <1>r, AdmittedIsQuiet DEF UpdateTask5, SearchTask5Count, Labeled, TypeOK
  <2>2. PICK id : copies' = [copies EXCEPT ![c].sessionId = id]
    BY <1>5 DEF UpdateTask5, SearchTask5Count
  <2>3. \A e \in Labeled' : /\ e \in Labeled
                            /\ copies'[e].project = copies[e].project
                            /\ copies'[e].session = copies[e].session
                            /\ copies'[e].requireScore = copies[e].requireScore
    BY <1>r, <2>1, <2>2 DEF Labeled, TypeOK, Copy
  <2> QED BY <1>r, <2>1, <2>3, CopiesShrink, NoRequestMoves
<1>2. ASSUME NEW p \in Projects, DeleteProject5(p)
      PROVE  Alone' /\ ReadsCurrent' /\ Documents'
  <2>1. Quiet /\ UNCHANGED <<claim, deletion, scoring, upload, pool, copies>>
    BY <1>2, <1>r, AdmittedIsQuiet DEF DeleteProject5
  <2> QED BY <1>r, <2>1, NoRequestMoves, DocumentsUnchanged
<1>3. ASSUME NEW r \in Claimers \cup Deleters, Abort(r)
      PROVE  Alone' /\ ReadsCurrent' /\ Documents'
  <2>1. CASE /\ r \in Claimers
             /\ claim' = [claim EXCEPT ![r] = Idle]
             /\ UNCHANGED <<live, pool, copies, deletion, scoring, upload, missed>>
    <3>1. CASE claim[r] # Idle
      BY <1>r, <2>1, <3>1, IdleStaysCurrent, ClaimMoves, DocumentsUnchanged
    <3>2. CASE claim[r] = Idle
      <4>1. claim' = claim
        BY <1>r, <2>1, <3>2 DEF TypeOK
      <4> QED BY <1>r, <2>1, <4>1, DocumentsUnchanged DEF Alone, ReadsCurrent, Claims, Deletions,
                 Scorings, Uploads, ClaimCurrent, DeletionCurrent, ScoringCurrent, UploadCurrent,
                 ScoreOf, Labeled, OriginsOf, SessionsOf, Tasks
    <3> QED BY <3>1, <3>2
  <2>2. CASE /\ r \in Deleters
             /\ deletion' = [deletion EXCEPT ![r] = Idle]
             /\ UNCHANGED <<live, pool, copies, claim, scoring, upload, missed>>
    <3>1. CASE deletion[r] # Idle
      BY <1>r, <2>2, <3>1, IdleStaysCurrent, DeletionMoves, DocumentsUnchanged
    <3>2. CASE deletion[r] = Idle
      <4>1. deletion' = deletion
        BY <1>r, <2>2, <3>2 DEF TypeOK
      <4> QED BY <1>r, <2>2, <4>1, DocumentsUnchanged DEF Alone, ReadsCurrent, Claims, Deletions,
                 Scorings, Uploads, ClaimCurrent, DeletionCurrent, ScoringCurrent, UploadCurrent,
                 ScoreOf, Labeled, OriginsOf, SessionsOf, Tasks
    <3> QED BY <3>1, <3>2
  <2> QED BY <1>3, <2>1, <2>2 DEF Abort
<1>4. CASE UNCHANGED vars
  BY <1>4, <1>r, DocumentsUnchanged DEF vars, Alone, ReadsCurrent, Claims, Deletions,
     Scorings, Uploads, ClaimCurrent, DeletionCurrent, ScoringCurrent, UploadCurrent,
     ScoreOf, Labeled, OriginsOf, SessionsOf, Tasks
<1> QED BY <1>1, <1>2, <1>3, <1>4, <1>5

LEMMA InitSerial == Init => SerialOK
<1> SUFFICES ASSUME Init PROVE SerialOK
  OBVIOUS
<1>1. Tasks = {} /\ Labeled = {} /\ Claims = {} /\ Deletions = {} /\ Scorings = {} /\ Uploads = {}
  BY DEF Init, Tasks, Labeled, Claims, Deletions, Scorings, Uploads
<1>2. ReadsCurrent
  BY IdleIsCurrent DEF Init, ReadsCurrent
<1>3. Alone /\ Documents
  BY <1>1 DEF Alone, Documents, UniqueSessions, OneScorer, CopiesComeFromPool
<1> QED BY <1>2, <1>3, InitPool DEF SerialOK

LEMMA StepSerial ==
  ASSUME MaxInFlight = 1, BatchesApart, SerialOK, PoolInv', [Next]_vars
  PROVE  SerialOK'
BY ClaimingSerial, DeletingSerial, ScoringSerial, UploadingSerial, OtherSerial
   DEF Next, SerialOK

LEMMA SerialInvariant ==
  ASSUME MaxInFlight = 1, BatchesApart
  PROVE  Spec => []SerialOK
<1>1. SerialOK /\ PoolInv' /\ [Next]_vars => SerialOK'
  BY StepSerial
<1> QED BY <1>1, InitSerial, PoolInvariant, PTL DEF Spec

\* A server that answers one upload after the other keeps the sessions of a
\* project apart, when no batch repeats one (task5.go:85 compares a batch with
\* the collection only).
THEOREM SessionsStayUnique ==
  ASSUME MaxInFlight = 1, BatchesApart
  PROVE  Spec => []UniqueSessions
<1>1. SerialOK => UniqueSessions
  BY DEF SerialOK, Documents
<1> QED BY <1>1, SerialInvariant, PTL

\* One request at a time, of all copies of a session only one asks its labeller
\* for a score, whatever is deleted, sampled again or cut off.
THEOREM ScoredByOne ==
  ASSUME MaxInFlight = 1, BatchesApart
  PROVE  Spec => []OneScorer
<1>1. SerialOK => OneScorer
  BY DEF SerialOK, Documents
<1> QED BY <1>1, SerialInvariant, PTL

-----------------------------------------------------------------------------
(* Templates stay, and so do the requests for a score that were taken. *)

TemplateKept(d) ==
  /\ d \in Tasks'
  /\ pool'[d].project = pool[d].project
  /\ pool'[d].session = pool[d].session
  /\ pool[d].requireScore = 2 => pool'[d].requireScore = 2

LEMMA TemplatesKept ==
  ASSUME MaxInFlight = 1, BatchesApart, SerialOK, TypeOK', [Next]_vars
  PROVE  \A d \in Tasks : TemplateKept(d)
<1>t. pool \in [Docs -> Doc \cup {NoDoc}] /\ claim \in [Claimers -> ClaimState]
      /\ deletion \in [Deleters -> DeletionState] /\ DOMAIN pool' = Docs
  BY DEF SerialOK, PoolInv, TypeOK
<1>1. CASE pool' = pool
  BY <1>1 DEF TemplateKept, Tasks
<1>2. ASSUME NEW r \in Uploaders, UploadInsert(r)
      PROVE  \A d \in Tasks : TemplateKept(d)
  <2> DEFINE b == upload[r].batch
             p == upload[r].project
  <2>1. PICK id \in [DOMAIN b -> Docs \ Tasks] :
          pool' = [d \in Docs |-> IF \E i \in DOMAIN b : id[i] = d
                                 THEN NewTask(p, b[CHOOSE i \in DOMAIN b : id[i] = d])
                                 ELSE pool[d]]
    BY <1>2 DEF UploadInsert
  <2>2. \A d \in Tasks : d \in Docs /\ pool[d] # NoDoc /\ ~ \E i \in DOMAIN b : id[i] = d
    BY DEF Tasks
  <2> QED BY <2>1, <2>2 DEF TemplateKept, Tasks
<1>3. ASSUME NEW u \in Users, NEW k \in Clicks, ClaimDecrement(u, k)
      PROVE  \A d \in Tasks : TemplateKept(d)
  <2> DEFINE me == claim[<<u, k>>]
  <2>1. me.at = "decrement" /\ me.doc \in Tasks /\ me.doc \in Docs
    BY <1>3 DEF ClaimDecrement, SerialOK, PoolInv, ReadsPublished, Claimers, Tasks
  <2>2. pool' = [pool EXCEPT
          ![me.doc].priority = me.read.priority - 1,
          ![me.doc].requireScore = IF me.read.requireScore = 1 THEN 2 ELSE @]
    BY <1>3 DEF ClaimDecrement
  <2>3. /\ pool'[me.doc].project = pool[me.doc].project
        /\ pool'[me.doc].session = pool[me.doc].session
        /\ pool[me.doc].requireScore = 2 => pool'[me.doc].requireScore = 2
        /\ \A d \in Docs : d # me.doc => pool'[d] = pool[d]
    BY <1>t, <2>1, <2>2 DEF Tasks, Doc
  <2>4. me.doc \in Tasks'
    <3>1. <<u, k>> \in Claimers /\ me \in [at : {"decrement", "insert"}, doc : Docs, read : Doc]
      BY <1>t, <2>1, ClaimStages DEF Claimers
    <3>2. claim'[<<u, k>>].at = "insert" /\ claim'[<<u, k>>].doc = me.doc
      BY <1>3, <1>t, <3>1 DEF ClaimDecrement
    <3>3. ReadsPublished'
      BY <1>3, ClaimingPreserves DEF SerialOK, PoolInv, Claiming
    <3> QED BY <3>1, <3>2, <3>3 DEF ReadsPublished
  <2> QED BY <2>3, <2>4 DEF TemplateKept, Tasks
<1>4. ASSUME NEW r \in Deleters, DeleteIncrement(r)
      PROVE  \A d \in Tasks : TemplateKept(d)
  <2> DEFINE me == deletion[r]
  <2>1. me.doc \in Tasks /\ me.old.priority \in Int
        /\ pool' = [pool EXCEPT ![me.doc].priority = me.old.priority + 1]
    BY <1>4, <1>t, DeletionStages DEF DeleteIncrement, SerialOK, PoolInv, ReadsPublished, Doc
  <2>2. \A d \in Tasks : /\ pool'[d] \in Doc
                         /\ pool'[d].project = pool[d].project
                         /\ pool'[d].session = pool[d].session
                         /\ pool[d].requireScore = pool'[d].requireScore
    BY <1>t, <2>1 DEF Tasks, Doc
  <2> QED BY <1>t, <2>2, PoolAssumption DEF TemplateKept, Tasks, Doc
<1>5. ASSUME NEW r \in Scorers, ScoreUpdate(r)
      PROVE  \A d \in Tasks : TemplateKept(d)
  <2>1. /\ pool' = [d \in Docs |-> IF d \in scoring[r].sample
                                   THEN [pool[d] EXCEPT !.requireScore = 1]
                                   ELSE pool[d]]
        /\ \A d \in scoring[r].sample : pool[d].requireScore = 0
    BY <1>5 DEF ScoreUpdate, SerialOK, ReadsCurrent, ScoringCurrent
  <2>2. \A d \in Tasks : /\ pool'[d] \in Doc
                         /\ pool'[d].project = pool[d].project
                         /\ pool'[d].session = pool[d].session
                         /\ pool[d].requireScore = 2 => pool'[d].requireScore = 2
    BY <1>t, <2>1 DEF Tasks, Doc
  <2> QED BY <1>t, <2>2, PoolAssumption DEF TemplateKept, Tasks, Doc
<1>6. ASSUME NEW u \in Users, NEW k \in Clicks, Claiming(u, k)
      PROVE  pool' = pool \/ ClaimDecrement(u, k)
  BY <1>6 DEF Claiming, ClaimFindLabeling, ClaimFindSessions, ClaimFindTask, ClaimInsert
<1>7. ASSUME NEW r \in Deleters, Deleting(r)
      PROVE  pool' = pool \/ DeleteIncrement(r)
  BY <1>7 DEF Deleting, DeleteFindCopy, DeleteFindTask, DeleteRemove
<1>8. ASSUME NEW r \in Uploaders, Uploading(r)
      PROVE  pool' = pool \/ UploadInsert(r)
  BY <1>8 DEF Uploading, UploadFindOld, UploadRefuse
<1> QED BY <1>1, <1>2, <1>3, <1>4, <1>5, <1>6, <1>7, <1>8
        DEF Next, vars, HandIn, UpdateTask5, SearchTask5Count, Scoring, ScoreSample,
            DeleteProject5, Abort

\* One request at a time, a session that one labeller was asked to score is never
\* sampled for a score again.
THEOREM ScoredOnceForGood ==
  ASSUME MaxInFlight = 1, BatchesApart
  PROVE  Spec => ScoredForGood
<1>1. SerialOK /\ TypeOK' /\ [Next]_vars
      => [\A d \in Tasks : pool[d].requireScore = 2 => pool'[d].requireScore = 2]_pool
  BY TemplatesKept DEF TemplateKept
<1> QED BY <1>1, SerialInvariant, TypeCorrect, PTL DEF Spec, ScoredForGood

-----------------------------------------------------------------------------
(* The ledger. *)

\* No request is between the two writes of a claim or of a deletion.
Settled ==
  /\ \A r \in Claimers : claim[r].at # "insert"
  /\ \A r \in Deleters : deletion[r].at # "removeReturned"

LEMMA FreeWhenSettled ==
  Settled => \A e \in Docs : LedgerFree[e] = IF pool[e] = NoDoc THEN NoDoc
                                             ELSE pool[e].priority + 0 - 0
<1> SUFFICES ASSUME Settled, NEW d \in Docs
             PROVE  LedgerFree[d] = IF pool[d] = NoDoc THEN NoDoc ELSE pool[d].priority + 0 - 0
  OBVIOUS
<1>1. {r \in Claimers : claim[r].at = "insert" /\ claim[r].doc = d} = {}
  BY DEF Settled
<1>2. {r \in Deleters : deletion[r].at = "removeReturned" /\ deletion[r].doc = d} = {}
  BY DEF Settled
<1> QED BY <1>1, <1>2, FS_EmptySet DEF LedgerFree

LEMMA FreeWhileClaiming ==
  Alone => \A q \in Claimers, e \in Docs :
             claim[q].at = "insert" =>
               LedgerFree[e] = IF pool[e] = NoDoc THEN NoDoc
                               ELSE pool[e].priority + (IF claim[q].doc = e THEN 1 ELSE 0) - 0
<1> SUFFICES ASSUME Alone, NEW r \in Claimers, claim[r].at = "insert", NEW d \in Docs
             PROVE  LedgerFree[d] =
                      IF pool[d] = NoDoc THEN NoDoc
                      ELSE pool[d].priority + (IF claim[r].doc = d THEN 1 ELSE 0) - 0
  OBVIOUS
<1>1. claim[r] # Idle
  BY DEF Idle
<1>2. {q \in Claimers : claim[q].at = "insert" /\ claim[q].doc = d}
      = IF claim[r].doc = d THEN {r} ELSE {}
  BY <1>1 DEF Alone, Claims, Idle
<1>3. {q \in Deleters : deletion[q].at = "removeReturned" /\ deletion[q].doc = d} = {}
  BY <1>1 DEF Alone, Claims, Deletions, Idle
<1>4. Cardinality({r}) = 1 /\ Cardinality({}) = 0
  BY FS_EmptySet, FS_Singleton
<1> QED BY <1>2, <1>3, <1>4 DEF LedgerFree

LEMMA FreeWhileDeleting ==
  Alone => \A q \in Deleters, e \in Docs :
             deletion[q].at = "removeReturned" =>
               LedgerFree[e] = IF pool[e] = NoDoc THEN NoDoc
                               ELSE pool[e].priority + 0 - (IF deletion[q].doc = e THEN 1 ELSE 0)
<1> SUFFICES ASSUME Alone, NEW r \in Deleters, deletion[r].at = "removeReturned", NEW d \in Docs
             PROVE  LedgerFree[d] =
                      IF pool[d] = NoDoc THEN NoDoc
                      ELSE pool[d].priority + 0 - (IF deletion[r].doc = d THEN 1 ELSE 0)
  OBVIOUS
<1>1. deletion[r] # Idle
  BY DEF Idle
<1>2. {q \in Deleters : deletion[q].at = "removeReturned" /\ deletion[q].doc = d}
      = IF deletion[r].doc = d THEN {r} ELSE {}
  BY <1>1 DEF Alone, Deletions, Idle
<1>3. {q \in Claimers : claim[q].at = "insert" /\ claim[q].doc = d} = {}
  BY <1>1 DEF Alone, Claims, Deletions, Idle
<1>4. Cardinality({r}) = 1 /\ Cardinality({}) = 0
  BY FS_EmptySet, FS_Singleton
<1> QED BY <1>2, <1>3, <1>4 DEF LedgerFree

\* The template a copy was claimed from.
Origin(c) == CHOOSE d \in Docs : d \in OriginsOf(copies[c])

LEMMA OneOrigin ==
  SerialOK => \A e \in Labeled : \A f \in OriginsOf(copies[e]) :
                f \in Docs /\ Origin(e) = f
<1> SUFFICES ASSUME SerialOK, NEW c \in Labeled, NEW d \in OriginsOf(copies[c])
             PROVE  d \in Docs /\ Origin(c) = d
  OBVIOUS
<1>1. d \in Docs /\ \A e \in OriginsOf(copies[c]) : e = d
  BY DEF SerialOK, Documents, UniqueSessions, OriginsOf, Tasks
<1> QED BY <1>1 DEF Origin

\* The same after a step.
LEMMA FreeNext ==
  /\ Settled' => \A e \in Docs :
       LedgerFree'[e] = IF pool'[e] = NoDoc THEN NoDoc ELSE pool'[e].priority + 0 - 0
  /\ Alone' => \A q \in Claimers, e \in Docs :
       claim'[q].at = "insert" =>
         LedgerFree'[e] = IF pool'[e] = NoDoc THEN NoDoc
                          ELSE pool'[e].priority + (IF claim'[q].doc = e THEN 1 ELSE 0) - 0
  /\ Alone' => \A q \in Deleters, e \in Docs :
       deletion'[q].at = "removeReturned" =>
         LedgerFree'[e] = IF pool'[e] = NoDoc THEN NoDoc
                          ELSE pool'[e].priority + 0 - (IF deletion'[q].doc = e THEN 1 ELSE 0)
<1>1. (Settled => \A e \in Docs : LedgerFree[e] = IF pool[e] = NoDoc THEN NoDoc
                                                  ELSE pool[e].priority + 0 - 0)'
  BY FreeWhenSettled, PTL
<1>2. (Alone => \A q \in Claimers, e \in Docs :
         claim[q].at = "insert" =>
           LedgerFree[e] = IF pool[e] = NoDoc THEN NoDoc
                           ELSE pool[e].priority + (IF claim[q].doc = e THEN 1 ELSE 0) - 0)'
  BY FreeWhileClaiming, PTL
<1>3. (Alone => \A q \in Deleters, e \in Docs :
         deletion[q].at = "removeReturned" =>
           LedgerFree[e] = IF pool[e] = NoDoc THEN NoDoc
                           ELSE pool[e].priority + 0 - (IF deletion[q].doc = e THEN 1 ELSE 0))'
  BY FreeWhileDeleting, PTL
<1> QED BY <1>1, <1>2, <1>3

LEMMA OneOriginNext ==
  SerialOK' => \A e \in Labeled' : \A f \in OriginsOf(copies[e])' :
                 f \in Docs /\ Origin(e)' = f
<1>1. (SerialOK => \A e \in Labeled : \A f \in OriginsOf(copies[e]) :
                     f \in Docs /\ Origin(e) = f)'
  BY OneOrigin, PTL
<1> QED BY <1>1

\* What the ledger says of a copy.
LEMMA HeldRecord ==
  ASSUME NEW c \in Labeled
  PROVE  LedgerHeld[c] = IF copies[c].status = "handedIn"
                         THEN [task |-> Origin(c), done |-> TRUE]
                         ELSE [task |-> Origin(c), done |-> FALSE]
<1>1. c \in Copies /\ copies[c] # NoCopy
  BY DEF Labeled
<1>2. LedgerHeld[c] = [task |-> Origin(c), done |-> copies[c].status = "handedIn"]
  BY <1>1 DEF LedgerHeld, Origin
<1>3. CASE copies[c].status = "handedIn"
  <2>1. (copies[c].status = "handedIn") = TRUE
    BY <1>3
  <2> QED BY <1>2, <1>3, <2>1
<1>4. CASE copies[c].status # "handedIn"
  <2>1. (copies[c].status = "handedIn") = FALSE
    BY <1>4
  <2> QED BY <1>2, <1>4, <2>1
<1> QED BY <1>3, <1>4

\* A copy keeps its origin as long as it keeps its project and its session.
LEMMA OriginKept ==
  ASSUME SerialOK, SerialOK', \A d \in Tasks : TemplateKept(d),
         NEW c \in Labeled, c \in Labeled',
         copies'[c].project = copies[c].project, copies'[c].session = copies[c].session
  PROVE  Origin(c)' = Origin(c) /\ Origin(c) \in OriginsOf(copies[c])
<1>1. PICK d : d \in OriginsOf(copies[c])
  BY DEF SerialOK, Documents, CopiesComeFromPool
<1>2. d \in OriginsOf(copies[c])'
  BY <1>1 DEF OriginsOf, TemplateKept
<1>3. Origin(c) = d
  BY <1>1, OneOrigin
<1> QED BY <1>1, <1>2, <1>3, OneOriginNext

LEMMA HeldUnchanged ==
  ASSUME SerialOK, SerialOK', \A d \in Tasks : TemplateKept(d), copies' = copies
  PROVE  LedgerHeld' = LedgerHeld
<1>1. \A c \in Labeled : c \in Labeled' /\ Origin(c)' = Origin(c)
  BY OriginKept DEF Labeled
<1>2. \A c \in Copies : LedgerHeld'[c] = LedgerHeld[c]
  BY <1>1 DEF Labeled, LedgerHeld, Origin
<1> QED BY <1>2 DEF LedgerHeld

\* Both sides of a step between two settled states that changes no priority.
LEMMA FreeUnchanged ==
  ASSUME Settled, Settled', pool' = pool
  PROVE  LedgerFree' = LedgerFree
<1>1. \A e \in Docs : LedgerFree'[e] = IF pool'[e] = NoDoc THEN NoDoc
                                        ELSE pool'[e].priority + 0 - 0
  BY FreeNext
<1>2. \A d \in Docs : LedgerFree'[d] = LedgerFree[d]
  BY <1>1, FreeWhenSettled
<1> QED BY <1>2 DEF LedgerFree


\* The ledger is a function of the templates.
LEMMA OneEntryMoves ==
  ASSUME NEW d \in Docs, NEW n, LedgerFree'[d] = n,
         \A e \in Docs : e # d => LedgerFree'[e] = LedgerFree[e]
  PROVE  LedgerFree' = [LedgerFree EXCEPT ![d] = n]
<1>1. LedgerFree = [e \in Docs |-> LedgerFree[e]]
      /\ LedgerFree' = [e \in Docs |-> LedgerFree'[e]]
  BY DEF LedgerFree
<1> QED BY <1>1

LedgerStep == Ledger!Next \/ UNCHANGED <<LedgerFree, LedgerHeld>>

LEMMA SettledStutters ==
  ASSUME SerialOK, SerialOK', \A d \in Tasks : TemplateKept(d),
         Settled, Settled', UNCHANGED <<pool, copies>>
  PROVE  LedgerStep
BY FreeUnchanged, HeldUnchanged DEF LedgerStep

\* What the lemmas about one step assume.
SerialStep ==
  /\ MaxInFlight = 1 /\ BatchesApart
  /\ SerialOK /\ SerialOK'
  /\ \A d \in Tasks : TemplateKept(d)

\* While a request is on its way, no other one is.
LEMMA OthersIdle ==
  ASSUME Alone
  PROVE  /\ Quiet => Settled
         /\ \A r \in Claimers : claim[r] # Idle =>
              /\ \A q \in Claimers : q # r => claim[q] = Idle
              /\ \A q \in Deleters : deletion[q] = Idle
         /\ \A r \in Deleters : deletion[r] # Idle =>
              /\ \A q \in Deleters : q # r => deletion[q] = Idle
              /\ \A q \in Claimers : claim[q] = Idle
         /\ Scorings # {} \/ Uploads # {} => Settled
BY DEF Alone, Quiet, Settled, Claims, Deletions, Scorings, Uploads, Idle

LEMMA ClaimingLedger ==
  ASSUME SerialStep, NEW u \in Users, NEW k \in Clicks, Claiming(u, k)
  PROVE  LedgerStep
<1> DEFINE r == <<u, k>>
           me == claim[r]
<1>r. /\ r \in Claimers /\ me \in ClaimState /\ claim \in [Claimers -> ClaimState]
      /\ TypeOK /\ Alone /\ ClaimCurrent(me) /\ Alone' /\ PriorityNonNegative
      /\ TypeOK' /\ MaxInFlight = 1 /\ ReadsPublished
  BY DEF Claimers, SerialStep, SerialOK, PoolInv, TypeOK, ReadsCurrent
<1>1. CASE \/ \E p \in Projects : ClaimFindLabeling(u, k, p)
           \/ ClaimFindSessions(u, k)
           \/ ClaimFindTask(u, k)
  <2>1. /\ UNCHANGED <<deletion, pool, copies>>
        /\ Quiet \/ me.at \in {"findSessions", "findTask"}
        /\ \A q \in Claimers : q # r => claim'[q] = claim[q]
        /\ claim'[r].at \in {"idle", "findSessions", "findTask", "decrement"}
    <3>1. CASE \E p \in Projects : ClaimFindLabeling(u, k, p)
      BY <1>r, <3>1, AdmittedIsQuiet DEF ClaimFindLabeling
    <3>2. CASE ClaimFindSessions(u, k)
      BY <1>r, <3>2 DEF ClaimFindSessions
    <3>3. CASE ClaimFindTask(u, k)
      <4>1. \/ claim' = [claim EXCEPT ![r] = Idle]
            \/ \E d \in Docs : claim' = [claim EXCEPT ![r] =
                                         [at |-> "decrement", doc |-> d, read |-> pool[d]]]
        BY <3>3 DEF ClaimFindTask, Claimable, Tasks
      <4>2. UNCHANGED <<deletion, pool, copies>> /\ me.at = "findTask"
        BY <3>3 DEF ClaimFindTask
      <4>3. CASE claim' = [claim EXCEPT ![r] = Idle]
        BY <1>r, <4>2, <4>3 DEF Idle
      <4>4. ASSUME NEW d \in Docs, claim' = [claim EXCEPT ![r] =
                                   [at |-> "decrement", doc |-> d, read |-> pool[d]]]
            PROVE  /\ \A q \in Claimers : q # r => claim'[q] = claim[q]
                   /\ claim'[r].at = "decrement"
        BY <1>r, <4>4
      <4> QED BY <4>1, <4>2, <4>3, <4>4
    <3> QED BY <1>1, <3>1, <3>2, <3>3
  <2>2. Settled
    BY <1>r, <2>1, OthersIdle DEF Settled, Idle
  <2>3. Settled'
    BY <2>1, <2>2 DEF Settled
  <2> QED BY <2>1, <2>2, <2>3, SettledStutters DEF SerialStep
<1>2. CASE ClaimDecrement(u, k)
  <2>1. /\ me \in [at : {"decrement", "insert"}, doc : Docs, read : Doc]
        /\ me.at = "decrement" /\ me # Idle
        /\ UNCHANGED <<deletion, copies>>
    BY <1>2, <1>r, ClaimStages DEF ClaimDecrement, Idle
  <2>2. PICK d \in Docs : d = me.doc
    BY <2>1
  <2>3. PICK read \in Doc : read = me.read
    BY <2>1
  <2>4. claim'[r].at = "insert" /\ claim'[r].doc = d
    BY <1>2, <1>r, <2>1, <2>2 DEF ClaimDecrement
  <2>5. d \in Tasks /\ pool[d] = read /\ d \in Tasks'
    BY <1>r, <2>1, <2>2, <2>3 DEF ClaimCurrent, ReadsPublished, SerialStep, TemplateKept
  <2>6. pool' = [pool EXCEPT ![d].priority = read.priority - 1,
                             ![d].requireScore = IF read.requireScore = 1 THEN 2 ELSE @]
    BY <1>2, <2>2, <2>3 DEF ClaimDecrement
  <2>7. pool'[d].priority = read.priority - 1 /\ \A e \in Docs : e # d => pool'[e] = pool[e]
    BY <1>r, <2>3, <2>5, <2>6 DEF TypeOK, Doc
  <2>8. Settled
    BY <1>r, <2>1, OthersIdle DEF Settled, Idle
  <2>9. \A e \in Docs : LedgerFree'[e] =
          IF pool'[e] = NoDoc THEN NoDoc
          ELSE pool'[e].priority + (IF d = e THEN 1 ELSE 0) - 0
    BY <1>r, <2>4, FreeNext
  <2>10. \A e \in Docs : LedgerFree'[e] = LedgerFree[e]
    <3>1. \A e \in Docs : LedgerFree[e] = IF pool[e] = NoDoc THEN NoDoc
                                          ELSE pool[e].priority + 0 - 0
      BY <2>8, FreeWhenSettled
    <3>2. read.priority \in Int /\ read.priority - 1 + 1 - 0 = read.priority + 0 - 0
      BY <2>3 DEF Doc
    <3>3. \A e \in Docs : pool[e] # NoDoc => pool[e].priority \in Int
      BY <1>r DEF TypeOK, Doc
    <3>4. \A e \in Docs : e # d => LedgerFree'[e] = LedgerFree[e]
      BY <2>7, <2>9, <3>1, <3>3
    <3>5. LedgerFree'[d] = read.priority - 1 + 1 - 0 /\ LedgerFree[d] = read.priority + 0 - 0
      BY <2>5, <2>7, <2>9, <3>1 DEF Tasks
    <3> QED BY <3>2, <3>4, <3>5
  <2>11. LedgerFree' = LedgerFree
    BY <2>10 DEF LedgerFree
  <2> QED BY <2>1, <2>11, HeldUnchanged DEF SerialStep, LedgerStep
<1>3. CASE ClaimInsert(u, k)
  <2> DEFINE new == [project |-> me.read.project, session |-> me.read.session,
                     sessionId |-> me.read.session, labeler |-> u,
                     requireScore |-> me.read.requireScore, status |-> "labeling"]
  <2>1. /\ me \in [at : {"decrement", "insert"}, doc : Docs, read : Doc]
        /\ me.at = "insert" /\ me # Idle /\ me.doc \in Tasks
        /\ UNCHANGED <<deletion, pool>>
        /\ claim' = [claim EXCEPT ![r] = Idle]
    BY <1>3, <1>r, ClaimStages DEF ClaimInsert, Idle, ReadsPublished
  <2>2. PICK d \in Docs : d = me.doc
    BY <2>1
  <2>3. PICK c \in Copies \ Labeled : copies' = [copies EXCEPT ![c] = new]
    BY <1>3 DEF ClaimInsert, FreshCopies
  <2>4. /\ copies'[c] = new /\ c \in Labeled' /\ copies[c] = NoCopy
        /\ \A e \in Copies : e # c => copies'[e] = copies[e]
    <3>1. new \in Copy
      BY <2>1 DEF Copy, Doc
    <3> QED BY <1>r, <2>3, <3>1, PoolAssumption DEF TypeOK, Labeled, Copy
  <2>5. d \in OriginsOf(copies[c])'
    <3>1. d \in Tasks /\ pool[d].project = new.project /\ pool[d].session = new.session
      BY <1>r, <2>1, <2>2 DEF ClaimCurrent
    <3> QED BY <2>1, <2>4, <3>1 DEF OriginsOf, Tasks
  <2>6. Origin(c)' = d
    BY <2>4, <2>5, OneOriginNext DEF SerialStep
  <2>7. \A e \in Copies : LedgerHeld'[e] = IF e = c THEN [task |-> d, done |-> FALSE]
                                           ELSE LedgerHeld[e]
    <3>1. \A e \in Labeled : Origin(e)' = Origin(e)
      BY <2>3, <2>4, OriginKept DEF SerialStep, Labeled
    <3>2. copies'[c].status # "handedIn" /\ copies'[c] # NoCopy
      BY <2>4 DEF Labeled
    <3> QED BY <2>4, <2>6, <3>1, <3>2 DEF LedgerHeld, Labeled, Origin
  <2>8. \A e \in Docs : LedgerFree[e] =
          IF pool[e] = NoDoc THEN NoDoc
          ELSE pool[e].priority + (IF d = e THEN 1 ELSE 0) - 0
    BY <1>r, <2>1, <2>2, FreeWhileClaiming
  <2>9. Settled'
    BY <1>r, <2>1, OthersIdle DEF Settled, Idle
  <2>10. \A e \in Docs : LedgerFree'[e] = IF pool[e] = NoDoc THEN NoDoc
                                          ELSE pool[e].priority + 0 - 0
    BY <2>1, <2>9, FreeNext
  <2>11. pool[d] # NoDoc /\ pool[d].priority \in Int /\ pool[d].priority >= 0
    BY <1>r, <2>1, <2>2 DEF Tasks, TypeOK, Doc, PriorityNonNegative
  <2>12. LedgerFree[d] = pool[d].priority + 1 /\ LedgerFree'[d] = pool[d].priority
    BY <2>8, <2>10, <2>11
  <2>13. Ledger!Take(d)
    <3>1. LedgerFree[d] # NoDoc /\ LedgerFree[d] > 0
      BY <2>11, <2>12, PoolAssumption
    <3>2. \A e \in Docs : e # d => LedgerFree'[e] = LedgerFree[e]
      <4>1. \A e \in Docs : pool[e] # NoDoc => pool[e].priority \in Int
        BY <1>r DEF TypeOK, Doc
      <4> QED BY <2>8, <2>10, <4>1
    <3>3. LedgerFree' = [LedgerFree EXCEPT ![d] = @ - 1]
      <4>1. LedgerFree'[d] = LedgerFree[d] - 1
        BY <2>11, <2>12
      <4> QED BY <3>2, <4>1, OneEntryMoves
    <3> QED BY <3>1, <3>3 DEF Ledger!Take
  <2>14. LedgerHeld[c] = NoCopy
         /\ LedgerHeld' = [LedgerHeld EXCEPT ![c] = [task |-> d, done |-> FALSE]]
    <3>1. LedgerHeld[c] = NoCopy
      BY <2>4 DEF LedgerHeld
    <3>2. /\ LedgerHeld = [e \in Copies |-> LedgerHeld[e]]
          /\ LedgerHeld' = [e \in Copies |-> LedgerHeld'[e]]
      BY DEF LedgerHeld
    <3> QED BY <2>7, <3>1, <3>2
  <2> QED BY <2>13, <2>14 DEF LedgerStep, Ledger!Next, Ledger!Claim
<1> QED BY <1>1, <1>2, <1>3 DEF Claiming

LEMMA RecordNotNoCopy ==
  \A d \in Docs : /\ [task |-> d, done |-> TRUE] # NoCopy
                  /\ [task |-> d, done |-> FALSE] # NoCopy
<1> SUFFICES ASSUME NEW d \in Docs
             PROVE  /\ [task |-> d, done |-> TRUE] \in [task : Docs, done : BOOLEAN]
                    /\ [task |-> d, done |-> FALSE] \in [task : Docs, done : BOOLEAN]
  BY PoolAssumption
<1> QED OBVIOUS

LEMMA DeletingLedger ==
  ASSUME SerialStep, NEW r \in Deleters, Deleting(r)
  PROVE  LedgerStep
<1> DEFINE me == deletion[r]
<1>r. /\ me \in DeletionState /\ deletion \in [Deleters -> DeletionState]
      /\ TypeOK /\ Alone /\ DeletionCurrent(me) /\ Alone' /\ PriorityNonNegative
      /\ MaxInFlight = 1 /\ ReadsPublished
  BY DEF SerialStep, SerialOK, PoolInv, TypeOK, ReadsCurrent
<1>1. CASE (\E c \in Copies : DeleteFindCopy(r, c)) \/ DeleteFindTask(r)
  <2>1. /\ UNCHANGED <<claim, pool, copies>>
        /\ Quiet \/ me.at = "findTask"
        /\ \A q \in Deleters : q # r => deletion'[q] = deletion[q]
        /\ deletion'[r].at \in {"idle", "findTask", "removeOther", "increment"}
    <3>1. CASE \E c \in Copies : DeleteFindCopy(r, c)
      BY <1>r, <3>1, AdmittedIsQuiet DEF DeleteFindCopy
    <3>2. CASE DeleteFindTask(r)
      <4>1. UNCHANGED <<claim, pool, copies>> /\ me.at = "findTask"
        BY <3>2 DEF DeleteFindTask
      <4>2. CASE deletion' = [deletion EXCEPT ![r] = Idle]
        BY <1>r, <4>1, <4>2 DEF Idle
      <4>3. ASSUME NEW d \in FoundFor(me.read), deletion' = [deletion EXCEPT ![r] =
                     [at |-> "increment", copy |-> me.copy, read |-> me.read,
                      doc |-> d, old |-> pool[d]]]
            PROVE  /\ \A q \in Deleters : q # r => deletion'[q] = deletion[q]
                   /\ deletion'[r].at = "increment"
        BY <1>r, <4>3
      <4> QED BY <3>2, <4>1, <4>2, <4>3 DEF DeleteFindTask
    <3> QED BY <1>1, <3>1, <3>2
  <2>2. Settled
    BY <1>r, <2>1, OthersIdle DEF Settled, Idle
  <2>3. Settled'
    BY <2>1, <2>2 DEF Settled
  <2> QED BY <2>1, <2>2, <2>3, SettledStutters DEF SerialStep
<1>2. CASE DeleteIncrement(r)
  <2>1. /\ me \in [at : {"increment"}, copy : Copies, read : Copy, doc : Docs, old : Doc]
        /\ me.at = "increment" /\ me # Idle /\ me.doc \in Tasks
        /\ UNCHANGED <<claim, copies>>
    BY <1>2, <1>r, DeletionStages DEF DeleteIncrement, Idle, ReadsPublished
  <2>2. PICK d \in Docs : d = me.doc
    BY <2>1
  <2>3. PICK old \in Doc : old = me.old
    BY <2>1
  <2>4. deletion'[r].at = "removeReturned" /\ deletion'[r].doc = d
    BY <1>2, <1>r, <2>2 DEF DeleteIncrement
  <2>5. d \in Tasks /\ pool[d] = old /\ d \in Tasks'
    BY <1>r, <2>1, <2>2, <2>3 DEF DeletionCurrent, SerialStep, TemplateKept
  <2>6. pool' = [pool EXCEPT ![d].priority = old.priority + 1]
    BY <1>2, <2>2, <2>3 DEF DeleteIncrement
  <2>7. pool'[d].priority = old.priority + 1 /\ \A e \in Docs : e # d => pool'[e] = pool[e]
    BY <1>r, <2>3, <2>5, <2>6 DEF TypeOK, Doc
  <2>8. Settled
    BY <1>r, <2>1, OthersIdle DEF Settled, Idle
  <2>9. \A e \in Docs : LedgerFree'[e] =
          IF pool'[e] = NoDoc THEN NoDoc
          ELSE pool'[e].priority + 0 - (IF d = e THEN 1 ELSE 0)
    BY <1>r, <2>4, FreeNext
  <2>10. \A e \in Docs : LedgerFree'[e] = LedgerFree[e]
    <3>1. \A e \in Docs : LedgerFree[e] = IF pool[e] = NoDoc THEN NoDoc
                                          ELSE pool[e].priority + 0 - 0
      BY <2>8, FreeWhenSettled
    <3>2. old.priority \in Int /\ old.priority + 1 + 0 - 1 = old.priority + 0 - 0
      BY <2>3 DEF Doc
    <3>3. \A e \in Docs : pool[e] # NoDoc => pool[e].priority \in Int
      BY <1>r DEF TypeOK, Doc
    <3>4. \A e \in Docs : e # d => LedgerFree'[e] = LedgerFree[e]
      BY <2>7, <2>9, <3>1, <3>3
    <3>5. LedgerFree'[d] = old.priority + 1 + 0 - 1 /\ LedgerFree[d] = old.priority + 0 - 0
      BY <2>5, <2>7, <2>9, <3>1 DEF Tasks
    <3> QED BY <3>2, <3>4, <3>5
  <2>11. LedgerFree' = LedgerFree
    BY <2>10 DEF LedgerFree
  <2> QED BY <2>1, <2>11, HeldUnchanged DEF SerialStep, LedgerStep
<1>3. CASE DeleteRemove(r)
  <2>1. /\ me.at \in {"removeOther", "removeReturned"} /\ me # Idle
        /\ UNCHANGED <<claim, pool>>
        /\ deletion' = [deletion EXCEPT ![r] = Idle]
        /\ copies' = [copies EXCEPT ![me.copy] = NoCopy]
    BY <1>3 DEF DeleteRemove, Idle
  <2>2. me.copy \in Copies /\ me.read \in Copy /\ copies[me.copy] = me.read
        /\ (me.at = "removeOther" <=> me.read.status = "handedIn")
    BY <1>r, <2>1, DeletionStages DEF DeletionCurrent
  <2>3. PICK c \in Copies : c = me.copy
    BY <2>2
  <2>4. c \in Labeled
    BY <2>2, <2>3, PoolAssumption DEF Labeled, Copy
  <2>5. copies'[c] = NoCopy /\ \A e \in Copies : e # c => copies'[e] = copies[e]
    BY <1>r, <2>1, <2>3 DEF TypeOK
  <2>6. \A e \in Copies : LedgerHeld'[e] = IF e = c THEN NoCopy ELSE LedgerHeld[e]
    <3>1. \A e \in Labeled : e # c => Origin(e)' = Origin(e)
      BY <2>5, OriginKept DEF SerialStep, Labeled
    <3> QED BY <2>5, <3>1 DEF LedgerHeld, Labeled, Origin
  <2>7. LedgerHeld' = [LedgerHeld EXCEPT ![c] = NoCopy]
    BY <2>6 DEF LedgerHeld
  <2>8. LedgerHeld[c] = (IF copies[c].status = "handedIn"
                         THEN [task |-> Origin(c), done |-> TRUE]
                         ELSE [task |-> Origin(c), done |-> FALSE])
        /\ Origin(c) \in Docs /\ Origin(c) \in OriginsOf(copies[c])
    <3>1. Origin(c) \in OriginsOf(copies[c])
      BY <2>4, OneOrigin DEF SerialStep, SerialOK, Documents, CopiesComeFromPool
    <3> QED BY <2>4, <3>1, HeldRecord DEF OriginsOf, Tasks
  <2>9. LedgerHeld[c] # NoCopy
    BY <2>8, RecordNotNoCopy
  <2>10. Settled'
    BY <1>r, <2>1, OthersIdle DEF Settled, Idle
  <2>11. \A e \in Docs : LedgerFree'[e] = IF pool[e] = NoDoc THEN NoDoc
                                          ELSE pool[e].priority + 0 - 0
    BY <2>1, <2>10, FreeNext
  <2>12. CASE me.at = "removeOther"
    <3>1. Settled
      BY <1>r, <2>1, <2>12, OthersIdle DEF Settled, Idle
    <3>2. LedgerFree' = LedgerFree
      BY <2>1, <2>10, <3>1, FreeUnchanged
    <3>3. LedgerHeld[c].done
      BY <2>2, <2>3, <2>8, <2>12
    <3> QED BY <2>7, <2>9, <3>2, <3>3 DEF LedgerStep, Ledger!Next, Ledger!Retire
  <2>13. CASE me.at = "removeReturned"
    <3>1. ~ LedgerHeld[c].done
      BY <2>2, <2>3, <2>8, <2>13
    <3>2. me.doc = Origin(c)
      BY <1>r, <2>2, <2>3, <2>4, <2>13, OneOrigin DEF DeletionCurrent, SerialStep
    <3>3. \A e \in Docs : LedgerFree[e] =
            IF pool[e] = NoDoc THEN NoDoc
            ELSE pool[e].priority + 0 - (IF Origin(c) = e THEN 1 ELSE 0)
      BY <1>r, <2>13, <3>2, FreeWhileDeleting
    <3>4. PICK d \in Docs : d = Origin(c)
      BY <2>8
    <3>5. pool[d] # NoDoc /\ \A e \in Docs : pool[e] # NoDoc => pool[e].priority \in Int
      BY <1>r, <2>8, <3>4 DEF OriginsOf, Tasks, TypeOK, Doc
    <3>6. LedgerFree'[d] = LedgerFree[d] + 1
      BY <2>11, <3>3, <3>4, <3>5
    <3>7. \A e \in Docs : e # d => LedgerFree'[e] = LedgerFree[e]
      BY <2>11, <3>3, <3>4, <3>5
    <3>8. LedgerFree' = [LedgerFree EXCEPT ![d] = @ + 1]
      BY <3>6, <3>7, OneEntryMoves
    <3>9. LedgerHeld[c].task = d
      BY <2>8, <3>4
    <3> QED BY <2>7, <2>9, <3>1, <3>8, <3>9 DEF LedgerStep, Ledger!Next, Ledger!GiveBack
  <2> QED BY <2>1, <2>12, <2>13
<1> QED BY <1>1, <1>2, <1>3 DEF Deleting

LEMMA ScoringLedger ==
  ASSUME SerialStep, NEW r \in Scorers, Scoring(r)
  PROVE  LedgerStep
<1>r. TypeOK /\ Alone /\ TypeOK' /\ MaxInFlight = 1 /\ ReadsPublished
  BY DEF SerialStep, SerialOK, PoolInv
<1>1. UNCHANGED <<claim, deletion, copies>>
  BY DEF Scoring, ScoreSample, ScoreUpdate
<1>2. Settled /\ Settled'
  <2>1. Quiet \/ Scorings # {}
    BY <1>r, AdmittedIsQuiet DEF Scoring, ScoreSample, ScoreUpdate, Scorings, Idle
  <2> QED BY <1>r, <1>1, <2>1, OthersIdle DEF Settled
<1>3. \A d \in Docs : /\ pool'[d] = NoDoc <=> pool[d] = NoDoc
                      /\ pool[d] # NoDoc => pool'[d].priority = pool[d].priority
  <2>1. CASE pool' = pool
    BY <2>1
  <2>2. CASE ScoreUpdate(r)
    <3>1. /\ pool' = [d \in Docs |-> IF d \in scoring[r].sample
                                     THEN [pool[d] EXCEPT !.requireScore = 1]
                                     ELSE pool[d]]
          /\ scoring[r].sample \subseteq Tasks
      BY <1>r, <2>2 DEF ScoreUpdate, ReadsPublished
    <3>2. \A d \in Tasks : pool'[d] \in Doc /\ pool'[d].priority = pool[d].priority
      BY <1>r, <3>1 DEF TypeOK, Tasks, Doc
    <3> QED BY <3>1, <3>2, PoolAssumption DEF Tasks, Doc
  <2> QED BY <2>1, <2>2 DEF Scoring, ScoreSample
<1>4. \A d \in Docs : LedgerFree'[d] = LedgerFree[d]
  BY <1>2, <1>3, FreeWhenSettled, FreeNext
<1>5. LedgerFree' = LedgerFree
  BY <1>4 DEF LedgerFree
<1> QED BY <1>1, <1>5, HeldUnchanged DEF SerialStep, LedgerStep

LEMMA UploadingLedger ==
  ASSUME SerialStep, NEW r \in Uploaders, Uploading(r)
  PROVE  LedgerStep
<1>r. /\ TypeOK /\ Alone /\ TypeOK' /\ MaxInFlight = 1
      /\ PriorityNonNegative'
  BY DEF SerialStep, SerialOK, PoolInv
<1>1. UNCHANGED <<claim, deletion, copies>>
  BY DEF Uploading, UploadFindOld, UploadRefuse, UploadInsert
<1>2. Settled /\ Settled'
  <2>1. Quiet \/ Uploads # {}
    BY <1>r, AdmittedIsQuiet
       DEF Uploading, UploadFindOld, UploadRefuse, UploadInsert, Uploads, Idle
  <2> QED BY <1>r, <1>1, <2>1, OthersIdle DEF Settled
<1>3. LedgerHeld' = LedgerHeld
  BY <1>1, HeldUnchanged DEF SerialStep
<1>4. CASE pool' = pool
  BY <1>2, <1>3, <1>4, FreeUnchanged DEF LedgerStep
<1>5. CASE UploadInsert(r)
  <2>1. PICK id \in [DOMAIN upload[r].batch -> Docs \ Tasks] :
          pool' = [d \in Docs |-> IF \E i \in DOMAIN upload[r].batch : id[i] = d
                                 THEN NewTask(upload[r].project, upload[r].batch[
                                        CHOOSE i \in DOMAIN upload[r].batch : id[i] = d])
                                 ELSE pool[d]]
    BY <1>5 DEF UploadInsert
  <2>2. \A d \in Tasks : pool'[d] = pool[d]
    BY <2>1 DEF Tasks
  <2>3. \A d \in Docs : LedgerFree[d] # NoDoc => LedgerFree'[d] = LedgerFree[d]
    <3>1. \A d \in Docs : LedgerFree[d] # NoDoc => d \in Tasks
      BY <1>2, FreeWhenSettled DEF Tasks
    <3> QED BY <1>2, <2>2, <3>1, FreeWhenSettled, FreeNext
  <2>4. \A d \in Docs : LedgerFree'[d] \in Nat \cup {NoDoc}
    <3>1. \A d \in Docs : pool'[d] # NoDoc => pool'[d].priority \in Int /\ pool'[d].priority >= 0
      BY <1>r DEF TypeOK, Doc, PriorityNonNegative, Tasks
    <3> QED BY <1>2, <3>1, FreeNext
  <2>5. LedgerFree' \in [Docs -> Nat \cup {NoDoc}]
    <3>1. LedgerFree' = [d \in Docs |-> LedgerFree'[d]]
      BY DEF LedgerFree
    <3> QED BY <2>4, <3>1
  <2> QED BY <1>3, <2>3, <2>5 DEF LedgerStep, Ledger!Next, Ledger!Publish
<1> QED BY <1>4, <1>5 DEF Uploading, UploadFindOld, UploadRefuse

LEMMA HandInLedger ==
  ASSUME SerialStep, NEW c \in Copies, HandIn(c)
  PROVE  LedgerStep
<1>1. /\ c \in Labeled /\ copies' = [copies EXCEPT ![c].status = "handedIn"]
      /\ UNCHANGED <<claim, deletion, pool>> /\ copies[c] \in Copy
      /\ copies \in [Copies -> Copy \cup {NoCopy}] /\ Quiet
  BY AdmittedIsQuiet DEF HandIn, SerialStep, SerialOK, PoolInv, TypeOK, Labeled
<1>2. copies'[c] \in Copy /\ copies'[c].status = "handedIn"
      /\ copies'[c].project = copies[c].project /\ copies'[c].session = copies[c].session
      /\ \A e \in Copies : e # c => copies'[e] = copies[e]
  BY <1>1 DEF Copy
<1>3. Labeled' = Labeled
  BY <1>1, <1>2, PoolAssumption DEF Labeled, Copy
<1>4. \A e \in Labeled : Origin(e)' = Origin(e)
  BY <1>2, <1>3, OriginKept DEF SerialStep, Labeled
<1>5. LedgerHeld' = [LedgerHeld EXCEPT ![c].done = TRUE]
  <2>1. LedgerHeld'[c] = [task |-> Origin(c), done |-> TRUE]
    <3>1. (copies'[c].status = "handedIn") = TRUE
      BY <1>2
    <3>2. LedgerHeld'[c] = [task |-> Origin(c)', done |-> copies'[c].status = "handedIn"]
      BY <1>1, <1>3 DEF LedgerHeld, Labeled, Origin
    <3> QED BY <1>1, <1>4, <3>1, <3>2
  <2>2. \A e \in Copies : e # c => LedgerHeld'[e] = LedgerHeld[e]
    BY <1>2, <1>3, <1>4 DEF LedgerHeld, Labeled, Origin
  <2>3. [LedgerHeld[c] EXCEPT !.done = TRUE] = [task |-> Origin(c), done |-> TRUE]
    <3>1. LedgerHeld[c] = IF copies[c].status = "handedIn"
                          THEN [task |-> Origin(c), done |-> TRUE]
                          ELSE [task |-> Origin(c), done |-> FALSE]
      BY <1>1, HeldRecord
    <3>2. PICK o : o = Origin(c)
      OBVIOUS
    <3>3. PICK held : held = LedgerHeld[c]
      OBVIOUS
    <3>4. \E b \in BOOLEAN : held = [task |-> o, done |-> b]
      BY <3>1, <3>2, <3>3
    <3>5. \A b, x : [[task |-> o, done |-> b] EXCEPT !.done = x] = [task |-> o, done |-> x]
      OBVIOUS
    <3>6. [held EXCEPT !.done = TRUE] = [task |-> o, done |-> TRUE]
      BY <3>4, <3>5, Zenon
    <3> QED BY <3>2, <3>3, <3>6
  <2>4. LedgerHeld = [e \in Copies |-> LedgerHeld[e]]
        /\ LedgerHeld' = [e \in Copies |-> LedgerHeld'[e]]
    BY DEF LedgerHeld
  <2> QED BY <2>1, <2>2, <2>3, <2>4
<1>6. LedgerHeld[c] # NoCopy
  <2>1. Origin(c) \in Docs
    BY <1>1, OneOrigin DEF SerialStep, SerialOK, Documents, CopiesComeFromPool
  <2> QED BY <1>1, <2>1, HeldRecord, RecordNotNoCopy
<1>7. LedgerFree' = LedgerFree
  BY <1>1, OthersIdle, FreeUnchanged DEF Settled, SerialStep, SerialOK
<1> QED BY <1>5, <1>6, <1>7 DEF LedgerStep, Ledger!Next, Ledger!HandIn

\* A save or a repair of a session id is no step of the ledger.
LEMMA SavingLedger ==
  ASSUME SerialStep, NEW c \in Copies, UpdateTask5(c) \/ SearchTask5Count(c)
  PROVE  LedgerStep
<1>1. /\ c \in Labeled /\ UNCHANGED <<claim, deletion, pool>> /\ copies[c] \in Copy
      /\ copies \in [Copies -> Copy \cup {NoCopy}]
  BY DEF UpdateTask5, SearchTask5Count, SerialStep, SerialOK, PoolInv, TypeOK, Labeled
<1>2. Quiet
  BY AdmittedIsQuiet DEF UpdateTask5, SearchTask5Count, SerialStep, SerialOK
<1>3. PICK id : copies' = [copies EXCEPT ![c].sessionId = id]
  BY DEF UpdateTask5, SearchTask5Count
<1>4. /\ copies'[c].status = copies[c].status
      /\ copies'[c].project = copies[c].project /\ copies'[c].session = copies[c].session
      /\ \A e \in Copies : e # c => copies'[e] = copies[e]
  BY <1>1, <1>3 DEF Copy
<1>5. copies'[c] # NoCopy
  <2>2. copies'[c] \in Copy
    BY <1>1, <1>3 DEF UpdateTask5, SearchTask5Count, Copy
  <2> QED BY <2>2, PoolAssumption DEF Copy
<1>6. Labeled' = Labeled
  BY <1>1, <1>4, <1>5 DEF Labeled
<1>7. \A e \in Labeled : Origin(e)' = Origin(e)
  BY <1>4, <1>6, OriginKept DEF SerialStep, Labeled
<1>8. \A e \in Copies : LedgerHeld'[e] = LedgerHeld[e]
  BY <1>4, <1>5, <1>6, <1>7 DEF LedgerHeld, Labeled, Origin
<1>9. LedgerHeld' = LedgerHeld
  BY <1>8 DEF LedgerHeld
<1>10. LedgerFree' = LedgerFree
  BY <1>1, <1>2, OthersIdle, FreeUnchanged DEF Settled, SerialStep, SerialOK
<1> QED BY <1>9, <1>10 DEF LedgerStep

LEMMA AbortLedger ==
  ASSUME SerialStep, "removeReturned" \notin MayAbort,
         NEW r \in Claimers \cup Deleters, Abort(r)
  PROVE  LedgerStep
<1>r. /\ TypeOK /\ Alone /\ PriorityNonNegative /\ ReadsPublished
      /\ claim \in [Claimers -> ClaimState] /\ deletion \in [Deleters -> DeletionState]
  BY DEF SerialStep, SerialOK, PoolInv, TypeOK
<1>1. UNCHANGED <<pool, copies>>
  BY DEF Abort
<1>h. LedgerHeld' = LedgerHeld
  BY <1>1, HeldUnchanged DEF SerialStep
<1>2. CASE /\ r \in Claimers
           /\ claim[r].at = "insert"
           /\ claim' = [claim EXCEPT ![r] = Idle]
           /\ UNCHANGED <<live, pool, copies, deletion, scoring, upload, missed>>
  <2>1. claim[r] # Idle /\ claim[r].doc \in Tasks
    BY <1>r, <1>2 DEF Idle, ReadsPublished
  <2>2. PICK d \in Docs : d = claim[r].doc
    BY <2>1 DEF Tasks
  <2>3. Settled'
    BY <1>r, <1>2, <2>1, OthersIdle DEF Settled, Idle
  <2>4. pool[d] # NoDoc /\ pool[d].priority >= 0
        /\ \A e \in Docs : pool[e] # NoDoc => pool[e].priority \in Int
    BY <1>r, <2>1, <2>2 DEF Tasks, TypeOK, Doc, PriorityNonNegative
  <2>5. \A e \in Docs : LedgerFree[e] =
          IF pool[e] = NoDoc THEN NoDoc
          ELSE pool[e].priority + (IF d = e THEN 1 ELSE 0) - 0
    BY <1>r, <1>2, <2>2, FreeWhileClaiming
  <2>6. \A e \in Docs : LedgerFree'[e] = IF pool[e] = NoDoc THEN NoDoc
                                         ELSE pool[e].priority + 0 - 0
    BY <1>1, <2>3, FreeNext
  <2>7. LedgerFree[d] = pool[d].priority + 1 /\ LedgerFree'[d] = LedgerFree[d] - 1
    BY <2>4, <2>5, <2>6
  <2>8. \A e \in Docs : e # d => LedgerFree'[e] = LedgerFree[e]
    BY <2>4, <2>5, <2>6
  <2>9. LedgerFree' = [LedgerFree EXCEPT ![d] = @ - 1]
    BY <2>7, <2>8, OneEntryMoves
  <2>10. LedgerFree[d] # NoDoc /\ LedgerFree[d] > 0
    BY <2>4, <2>7, PoolAssumption
  <2> QED BY <1>h, <2>9, <2>10 DEF LedgerStep, Ledger!Next, Ledger!Forfeit, Ledger!Take
<1>3. CASE /\ r \in Claimers
           /\ claim[r].at # "insert"
           /\ claim' = [claim EXCEPT ![r] = Idle]
           /\ UNCHANGED <<live, pool, copies, deletion, scoring, upload, missed>>
  <2>1. \A q \in Claimers : claim'[q].at = "insert" <=> claim[q].at = "insert"
    BY <1>r, <1>3 DEF Idle
  <2>2. \A q \in Claimers : claim[q].at = "insert" => claim'[q].doc = claim[q].doc
    BY <1>r, <1>3
  <2>3. \A d \in Docs : {q \in Claimers : claim'[q].at = "insert" /\ claim'[q].doc = d}
                        = {q \in Claimers : claim[q].at = "insert" /\ claim[q].doc = d}
    BY <2>1, <2>2
  <2>4. LedgerFree' = LedgerFree
    BY <1>3, <2>3 DEF LedgerFree
  <2> QED BY <1>h, <2>4 DEF LedgerStep
<1>4. CASE /\ r \in Deleters
           /\ deletion[r].at # "removeReturned"
           /\ deletion' = [deletion EXCEPT ![r] = Idle]
           /\ UNCHANGED <<live, pool, copies, claim, scoring, upload, missed>>
  <2>1. \A q \in Deleters : deletion'[q].at = "removeReturned" <=> deletion[q].at = "removeReturned"
    BY <1>r, <1>4 DEF Idle
  <2>2. \A q \in Deleters : deletion[q].at = "removeReturned"
                            => deletion'[q].doc = deletion[q].doc
    BY <1>r, <1>4
  <2>3. \A d \in Docs : {q \in Deleters : deletion'[q].at = "removeReturned" /\ deletion'[q].doc = d}
                        = {q \in Deleters : deletion[q].at = "removeReturned" /\ deletion[q].doc = d}
    BY <2>1, <2>2
  <2>4. LedgerFree' = LedgerFree
    BY <1>4, <2>3 DEF LedgerFree
  <2> QED BY <1>h, <2>4 DEF LedgerStep
<1> QED BY <1>2, <1>3, <1>4 DEF Abort

LEMMA StepLedger ==
  ASSUME SerialStep, "removeReturned" \notin MayAbort, [Next]_vars
  PROVE  LedgerStep
<1>1. ASSUME UNCHANGED <<pool, copies, claim, deletion>>
      PROVE  LedgerStep
  <2>1. LedgerFree' = LedgerFree
    BY <1>1 DEF LedgerFree
  <2> QED BY <1>1, <2>1, HeldUnchanged DEF LedgerStep, SerialStep
<1>2. CASE UNCHANGED vars
  BY <1>1, <1>2 DEF vars
<1>3. ASSUME NEW p \in Projects, DeleteProject5(p)
      PROVE  LedgerStep
  BY <1>1, <1>3 DEF DeleteProject5
<1> QED BY <1>2, <1>3, ClaimingLedger, DeletingLedger, ScoringLedger, UploadingLedger,
           HandInLedger, SavingLedger, AbortLedger DEF Next

LEMMA InitLedger == Init => Ledger!Init
<1> SUFFICES ASSUME Init PROVE Ledger!Init
  OBVIOUS
<1>1. \A d \in Docs : LedgerFree[d] = NoDoc
  BY DEF Init, LedgerFree
<1>2. \A c \in Copies : LedgerHeld[c] = NoCopy
  BY DEF Init, LedgerHeld
<1>3. LedgerFree = [d \in Docs |-> LedgerFree[d]] /\ LedgerHeld = [c \in Copies |-> LedgerHeld[c]]
  BY DEF LedgerFree, LedgerHeld
<1> QED BY <1>1, <1>2, <1>3 DEF Ledger!Init

\* Served one request at a time, with requests cut off anywhere but between the
\* two writes of a deletion, the pool implements the ledger of claims: a claim
\* takes one slot, deleting an unfinished copy returns it, nothing else does.
THEOREM PoolIsALedger ==
  ASSUME MaxInFlight = 1, BatchesApart, "removeReturned" \notin MayAbort
  PROVE  Spec => ImplementsLedger
<1>1. SerialOK /\ SerialOK' /\ [Next]_vars => [Ledger!Next]_(Ledger!vars)
  <2> SUFFICES ASSUME SerialOK, SerialOK', [Next]_vars
               PROVE  [Ledger!Next]_(Ledger!vars)
    OBVIOUS
  <2>1. SerialStep
    BY TemplatesKept DEF SerialStep, SerialOK, PoolInv
  <2> QED BY <2>1, StepLedger DEF LedgerStep, Ledger!vars
<1> QED BY <1>1, InitLedger, SerialInvariant, PTL DEF Spec, ImplementsLedger, Ledger!Spec
=============================================================================
