----------------------------- MODULE Task5Pool -----------------------------
(***************************************************************************)
(* The session pool of labelling task version 5 (service/task5.go).        *)
(*                                                                         *)
(* CollectionTask5 holds one template per uploaded session; its            *)
(* dialog[0].priority counts the claims it still accepts.                  *)
(* CollectionLabeledTask5 holds one copy per claim.  A handler is a series *)
(* of MongoDB calls; each call is atomic, the handler is not, and gin runs *)
(* every request in its own goroutine.  One action below is one call, and  *)
(* what a handler read earlier stays in the record of its request.         *)
(*                                                                         *)
(* Review statuses after the hand-in do not matter to the pool: no status  *)
(* map of BatchSetTask5Status holds 待标注 as a target, and a deletion only *)
(* asks whether the copy still has it.  (A status outside the maps would   *)
(* get no source filter; it is taken that nobody sends one.)  Task4Review  *)
(* models such a review.                                                   *)
(***************************************************************************)
EXTENDS Integers, FiniteSets, Sequences

CONSTANTS
  Users,            \* labellers
  Clicks,           \* requests of one labeller that may overlap
  Deleters,         \* slots for concurrent DeleteTask5 requests
  Scorers,          \* slots for concurrent ProportionalScoring requests
  Uploaders,        \* slots for concurrent UploadTask5 requests
  Projects,         \* ids of the projects that exist at the start
  Sessions,         \* session ids
  Batches,          \* sequences of files, [session, version], one upload each
  Docs,             \* ids in CollectionTask5: bounds the uploads
  Copies,           \* ids in CollectionLabeledTask5: bounds the claims
  SlotsPerVersion,  \* 5 in the code
  MaxInFlight,      \* requests the server works on at the same time
  MaxPriority,      \* bound: a deletion starts only below this priority
  MayAbort,         \* call sites at which a request may be cut off
  NoDoc, NoCopy,
  NoSession         \* the session id a copy has when its page lost it: ""

ASSUME PoolAssumption ==
  /\ SlotsPerVersion \in Nat
  /\ Batches \subseteq Seq([session : Sessions, version : Nat])
  /\ NoDoc \notin [project : Projects, session : Sessions,
                   priority : Int, requireScore : 0..2]
  /\ NoSession \notin Sessions
  /\ NoCopy \notin [project : Projects, session : Sessions,
                    sessionId : Sessions \cup {NoSession}, labeler : Users,
                    requireScore : 0..2, status : {"labeling", "handedIn"}]
  /\ NoDoc \notin Int
  /\ NoCopy \notin [task : Docs, done : BOOLEAN]

VARIABLES
  live,      \* CollectionProject5: the projects not deleted
  pool,      \* CollectionTask5
  copies,    \* CollectionLabeledTask5
  claim,     \* AllocOneTask5 requests
  deletion,  \* DeleteTask5 requests
  scoring,   \* ProportionalScoring requests
  upload,    \* UploadTask5 requests
  missed     \* history: copies a claim of their labeller took for another session

vars == <<live, pool, copies, claim, deletion, scoring, upload, missed>>

-----------------------------------------------------------------------------
(* Documents, and the requests being served. *)

Doc == [project : Projects, session : Sessions,
        priority : Int, requireScore : 0..2]
\* session is the one the copy was claimed of (its name says so for good),
\* sessionId what dialog[0].sessionId holds: pages write it back.
Copy ==
  {copy \in [project : Projects, session : Sessions,
             sessionId : Sessions \cup {NoSession}, labeler : Users,
             requireScore : 0..2, status : {"labeling", "handedIn"}] :
     copy.sessionId \in {copy.session, NoSession}}

Claimers == Users \X Clicks

Idle == [at |-> "idle"]
ClaimState ==
  {Idle}
  \cup [at : {"findSessions"}, project : Projects]
  \cup [at : {"findTask"}, project : Projects, mine : SUBSET (Sessions \cup {NoSession})]
  \cup [at : {"decrement", "insert"}, doc : Docs, read : Doc]
DeletionState ==
  {Idle}
  \cup [at : {"findTask", "removeOther"}, copy : Copies, read : Copy]
  \cup [at : {"increment"}, copy : Copies, read : Copy, doc : Docs, old : Doc]
  \cup [at : {"removeReturned"}, copy : Copies, read : Copy, doc : Docs]
ScoringState == {Idle} \cup [at : {"update"}, sample : SUBSET Docs]
UploadState ==
  {Idle} \cup [at : {"insert"}, project : Projects, batch : Batches,
               old : SUBSET Sessions]

Tasks == {d \in Docs : pool[d] # NoDoc}
Labeled == {c \in Copies : copies[c] # NoCopy}

InFlight ==
  Cardinality({r \in Claimers : claim[r] # Idle})
    + Cardinality({r \in Deleters : deletion[r] # Idle})
    + Cardinality({r \in Scorers : scoring[r] # Idle})
    + Cardinality({r \in Uploaders : upload[r] # Idle})
Admitted == InFlight < MaxInFlight

Init ==
  /\ live = Projects
  /\ pool = [d \in Docs |-> NoDoc]
  /\ copies = [c \in Copies |-> NoCopy]
  /\ claim = [r \in Claimers |-> Idle]
  /\ deletion = [r \in Deleters |-> Idle]
  /\ scoring = [r \in Scorers |-> Idle]
  /\ upload = [r \in Uploaders |-> Idle]
  /\ missed = {}

-----------------------------------------------------------------------------
(* UploadTask5: read the sessions of the project, refuse a batch that      *)
(* repeats one of them, insert the rest with Version * 5 claims each.      *)
(* An upload starts only while Docs has ids for all of its batch.          *)

SessionsOf(p) == {pool[d].session : d \in {e \in Tasks : pool[e].project = p}}

UploadFindOld(r, p, b) ==
  /\ upload[r] = Idle
  /\ Admitted
  /\ Cardinality(Docs \ Tasks) >= Len(b)
  /\ p \in live
  /\ upload' = [upload EXCEPT ![r] = [at |-> "insert", project |-> p,
                                      batch |-> b, old |-> SessionsOf(p)]]
  /\ UNCHANGED <<live, pool, copies, claim, deletion, scoring, missed>>

\* Slip: only the first file is compared.
RepeatingFirstTask5(old, b) == {i \in DOMAIN b : i = 1 /\ b[i].session \in old}

\* Files that repeat a session read earlier (repeatingTask5s): it compares
\* the batch with the collection, not the files of the batch with each other.
RepeatingTask5s(old, b) == {i \in DOMAIN b : b[i].session \in old}

NewTask(p, file) ==
  [project |-> p, session |-> file.session,
   priority |-> file.version * SlotsPerVersion, requireScore |-> 0]

UploadRefuse(r) ==
  /\ upload[r].at = "insert"
  /\ RepeatingTask5s(upload[r].old, upload[r].batch) # {}
  /\ upload' = [upload EXCEPT ![r] = Idle]
  /\ UNCHANGED <<live, pool, copies, claim, deletion, scoring, missed>>

UploadInsert(r) ==
  LET b == upload[r].batch IN
  /\ upload[r].at = "insert"
  /\ RepeatingTask5s(upload[r].old, b) = {}
  /\ \E id \in [DOMAIN b -> Docs \ Tasks] :
       /\ \A i, j \in DOMAIN b : id[i] = id[j] => i = j
       /\ pool' = [d \in Docs |->
                     IF \E i \in DOMAIN b : id[i] = d
                     THEN NewTask(upload[r].project,
                                  b[CHOOSE i \in DOMAIN b : id[i] = d])
                     ELSE pool[d]]
  /\ upload' = [upload EXCEPT ![r] = Idle]
  /\ UNCHANGED <<live, copies, claim, deletion, scoring, missed>>

-----------------------------------------------------------------------------
(* AllocOneTask5: a labeller claims one task of project p. *)

LabelingOf(u, p) ==
  {c \in Labeled : /\ copies[c].project = p
                   /\ copies[c].labeler = u
                   /\ copies[c].status = "labeling"}

\* Copies a claim in flight will still add, for the bound Copies.
Reserved == {r \in Claimers : claim[r] # Idle}

\* Slip: the first call is left out.
ClaimFindNothing(u, k, p) ==
  /\ claim[<<u, k>>] = Idle
  /\ Admitted
  /\ Cardinality(Labeled) + Cardinality(Reserved) < Cardinality(Copies)
  /\ claim' = [claim EXCEPT ![<<u, k>>] = [at |-> "findSessions", project |-> p]]
  /\ UNCHANGED <<live, pool, copies, deletion, scoring, upload, missed>>

\* The first call answers the request when a 待标注 copy exists.
ClaimFindLabeling(u, k, p) ==
  /\ claim[<<u, k>>] = Idle
  /\ Admitted
  /\ Cardinality(Labeled) + Cardinality(Reserved) < Cardinality(Copies)
  /\ LabelingOf(u, p) = {}
  /\ claim' = [claim EXCEPT ![<<u, k>>] = [at |-> "findSessions", project |-> p]]
  /\ UNCHANGED <<live, pool, copies, deletion, scoring, upload, missed>>

CopiesOf(u) == {c \in Labeled : copies[c].labeler = u /\ copies[c].project \in live}

\* Lists the live projects, then what the labeller's copies in them hold as
\* their session ids; a copy that lost its own does not count for its session.
ClaimFindSessions(u, k) ==
  /\ claim[<<u, k>>].at = "findSessions"
  /\ claim' = [claim EXCEPT ![<<u, k>>] =
       [at |-> "findTask", project |-> claim[<<u, k>>].project,
        mine |-> {copies[c].sessionId : c \in CopiesOf(u)}]]
  /\ missed' = missed \cup {c \in CopiesOf(u) : copies[c].sessionId # copies[c].session}
  /\ UNCHANGED <<live, pool, copies, deletion, scoring, upload>>

\* Slips: the sessions of the labeller are not excluded; a task with no claim
\* left is still found.
ClaimableAgain(p, mine) == {d \in Tasks : pool[d].project = p /\ pool[d].priority > 0}
ClaimableAtZero(p, mine) ==
  {d \in Tasks : /\ pool[d].project = p
                 /\ pool[d].session \notin mine
                 /\ pool[d].priority >= 0}

Claimable(p, mine) ==
  {d \in Tasks : /\ pool[d].project = p
                 /\ pool[d].session \notin mine
                 /\ pool[d].priority > 0}

\* The task of highest priority, or none (当前没有可领取的新任务).
ClaimFindTask(u, k) ==
  LET me == claim[<<u, k>>]
      found == Claimable(me.project, me.mine)
  IN
  /\ me.at = "findTask"
  /\ \/ /\ found = {}
        /\ claim' = [claim EXCEPT ![<<u, k>>] = Idle]
     \/ \E d \in found :
          /\ \A e \in found : pool[e].priority <= pool[d].priority
          /\ claim' = [claim EXCEPT ![<<u, k>>] =
                         [at |-> "decrement", doc |-> d, read |-> pool[d]]]
  /\ UNCHANGED <<live, pool, copies, deletion, scoring, upload, missed>>

\* Slip: the request for a score stays on the template.
ClaimDecrementOnly(u, k) ==
  LET me == claim[<<u, k>>] IN
  /\ me.at = "decrement"
  /\ pool' = [pool EXCEPT ![me.doc].priority = me.read.priority - 1]
  /\ claim' = [claim EXCEPT ![<<u, k>>].at = "insert"]
  /\ UNCHANGED <<live, copies, deletion, scoring, upload, missed>>

\* Writes the priority computed from the value read, not an increment.
ClaimDecrement(u, k) ==
  LET me == claim[<<u, k>>] IN
  /\ me.at = "decrement"
  /\ pool' = [pool EXCEPT
       ![me.doc].priority = me.read.priority - 1,
       ![me.doc].requireScore = IF me.read.requireScore = 1 THEN 2 ELSE @]
  /\ claim' = [claim EXCEPT ![<<u, k>>].at = "insert"]
  /\ UNCHANGED <<live, copies, deletion, scoring, upload, missed>>

\* A deleted id never comes back, so a copy in the hands of a deletion is
\* not a fresh id.
FreshCopies ==
  {c \in Copies \ Labeled :
     \A r \in Deleters : deletion[r] # Idle => deletion[r].copy # c}

ClaimInsert(u, k) ==
  LET me == claim[<<u, k>>] IN
  /\ me.at = "insert"
  /\ \E c \in FreshCopies :
       copies' = [copies EXCEPT ![c] =
         [project |-> me.read.project, session |-> me.read.session,
          sessionId |-> me.read.session, labeler |-> u, requireScore |-> me.read.requireScore,
          status |-> "labeling"]]
  /\ claim' = [claim EXCEPT ![<<u, k>>] = Idle]
  /\ UNCHANGED <<live, pool, deletion, scoring, upload, missed>>

\* BatchSetTask5Status with 已提交 by the labeller: one filtered UpdateMany.
HandIn(c) ==
  /\ Admitted
  /\ c \in Labeled
  /\ copies[c].status = "labeling"
  /\ copies' = [copies EXCEPT ![c].status = "handedIn"]
  /\ UNCHANGED <<live, pool, claim, deletion, scoring, upload, missed>>

\* UpdateTask5: a page saves a copy, whatever its status, and with it the whole
\* dialog it sends: the session id it once loaded, or an empty one.  (No page
\* sends the id of another session.)  Workload models the rest of the save.
UpdateTask5(c) ==
  /\ Admitted
  /\ c \in Labeled
  /\ \E id \in {copies[c].session, NoSession} :
       copies' = [copies EXCEPT ![c].sessionId = id]
  /\ UNCHANGED <<live, pool, claim, deletion, scoring, upload, missed>>

\* SearchTask5Count gives the copies that lost their session id the one their
\* name tells, each with a write of its own.
SearchTask5Count(c) ==
  /\ Admitted
  /\ c \in Labeled
  /\ copies[c].sessionId = NoSession
  /\ copies' = [copies EXCEPT ![c].sessionId = copies[c].session]
  /\ UNCHANGED <<live, pool, claim, deletion, scoring, upload, missed>>

-----------------------------------------------------------------------------
(* DeleteTask5: an administrator deletes a copy; a copy still 待标注 gives  *)
(* its claim back to the pool first.                                       *)

\* Slip: a copy handed in gives its claim back as well.
DeleteFindAnyCopy(r, c) ==
  /\ deletion[r] = Idle
  /\ Admitted
  /\ c \in Labeled
  /\ \A d \in Tasks : pool[d].priority < MaxPriority
  /\ deletion' = [deletion EXCEPT ![r] =
       [at |-> "findTask", copy |-> c, read |-> copies[c]]]
  /\ UNCHANGED <<live, pool, copies, claim, scoring, upload, missed>>

DeleteFindCopy(r, c) ==
  /\ deletion[r] = Idle
  /\ Admitted
  /\ c \in Labeled
  /\ \A d \in Tasks : pool[d].priority < MaxPriority
  /\ deletion' = [deletion EXCEPT ![r] =
       [at |-> IF copies[c].status = "labeling" THEN "findTask" ELSE "removeOther",
        copy |-> c, read |-> copies[c]]]
  /\ UNCHANGED <<live, pool, copies, claim, scoring, upload, missed>>

\* The templates a deletion finds by the session id of the copy: none for a
\* copy that lost it, and then the deletion ends with an error.
FoundFor(copy) ==
  {d \in Tasks : /\ pool[d].project = copy.project
                 /\ pool[d].session = copy.sessionId}

DeleteFindTask(r) ==
  LET me == deletion[r] IN
  /\ me.at = "findTask"
  /\ \/ /\ FoundFor(me.read) = {}
        /\ deletion' = [deletion EXCEPT ![r] = Idle]
     \/ \E d \in FoundFor(me.read) :
          deletion' = [deletion EXCEPT ![r] =
            [at |-> "increment", copy |-> me.copy, read |-> me.read,
             doc |-> d, old |-> pool[d]]]
  /\ UNCHANGED <<live, pool, copies, claim, scoring, upload, missed>>

DeleteIncrement(r) ==
  LET me == deletion[r] IN
  /\ me.at = "increment"
  /\ pool' = [pool EXCEPT ![me.doc].priority = me.old.priority + 1]
  /\ deletion' = [deletion EXCEPT ![r] =
       [at |-> "removeReturned", copy |-> me.copy, read |-> me.read, doc |-> me.doc]]
  /\ UNCHANGED <<live, copies, claim, scoring, upload, missed>>

DeleteRemove(r) ==
  /\ deletion[r].at \in {"removeOther", "removeReturned"}
  /\ copies' = [copies EXCEPT ![deletion[r].copy] = NoCopy]
  /\ missed' = missed \ {deletion[r].copy}
  /\ deletion' = [deletion EXCEPT ![r] = Idle]
  /\ UNCHANGED <<live, pool, claim, scoring, upload>>

-----------------------------------------------------------------------------
(* ProportionalScoring: mark a random sample of the tasks nobody has to    *)
(* score yet.  The proportion is the caller's, so any sample is possible.  *)

\* Slip: a sample may include what was scored before.
UnscoredOrTaken(p) == {d \in Tasks : pool[d].project = p /\ pool[d].requireScore # 1}

Unscored(p) == {d \in Tasks : pool[d].project = p /\ pool[d].requireScore = 0}

ScoreSample(r, p) ==
  /\ scoring[r] = Idle
  /\ Admitted
  /\ \E sample \in (SUBSET Unscored(p)) \ {{}} :
       scoring' = [scoring EXCEPT ![r] = [at |-> "update", sample |-> sample]]
  /\ UNCHANGED <<live, pool, copies, claim, deletion, upload, missed>>

ScoreUpdate(r) ==
  /\ scoring[r].at = "update"
  /\ pool' = [d \in Docs |-> IF d \in scoring[r].sample
                             THEN [pool[d] EXCEPT !.requireScore = 1]
                             ELSE pool[d]]
  /\ scoring' = [scoring EXCEPT ![r] = Idle]
  /\ UNCHANGED <<live, copies, claim, deletion, upload, missed>>

\* Deleting a project leaves its tasks where they are.
DeleteProject5(p) ==
  /\ Admitted
  /\ live' = live \ {p}
  /\ UNCHANGED <<pool, copies, claim, deletion, scoring, upload, missed>>

-----------------------------------------------------------------------------
(* A request cut off between two calls: the client went away and its       *)
(* context was cancelled, the call failed, or the server stopped.          *)

Abort(r) ==
  \/ /\ r \in Claimers
     /\ claim[r].at \in MayAbort
     /\ claim' = [claim EXCEPT ![r] = Idle]
     /\ UNCHANGED <<live, pool, copies, deletion, scoring, upload, missed>>
  \/ /\ r \in Deleters
     /\ deletion[r].at \in MayAbort
     /\ deletion' = [deletion EXCEPT ![r] = Idle]
     /\ UNCHANGED <<live, pool, copies, claim, scoring, upload, missed>>

Claiming(u, k) ==
  \/ \E p \in Projects : ClaimFindLabeling(u, k, p)
  \/ ClaimFindSessions(u, k)
  \/ ClaimFindTask(u, k)
  \/ ClaimDecrement(u, k)
  \/ ClaimInsert(u, k)

Deleting(r) ==
  \/ \E c \in Copies : DeleteFindCopy(r, c)
  \/ DeleteFindTask(r)
  \/ DeleteIncrement(r)
  \/ DeleteRemove(r)

Scoring(r) == (\E p \in Projects : ScoreSample(r, p)) \/ ScoreUpdate(r)

Uploading(r) ==
  \/ \E p \in Projects, b \in Batches : UploadFindOld(r, p, b)
  \/ UploadRefuse(r)
  \/ UploadInsert(r)

Next ==
  \/ \E u \in Users, k \in Clicks : Claiming(u, k)
  \/ \E c \in Copies : HandIn(c) \/ UpdateTask5(c) \/ SearchTask5Count(c)
  \/ \E r \in Deleters : Deleting(r)
  \/ \E r \in Scorers : Scoring(r)
  \/ \E r \in Uploaders : Uploading(r)
  \/ \E p \in Projects : DeleteProject5(p)
  \/ \E r \in Claimers \cup Deleters : Abort(r)

Spec == Init /\ [][Next]_vars

-----------------------------------------------------------------------------
(* Properties. *)

\* Every document and every request has the shape its handler gives it.
TypeOK ==
  /\ live \subseteq Projects
  /\ pool \in [Docs -> Doc \cup {NoDoc}]
  /\ copies \in [Copies -> Copy \cup {NoCopy}]
  /\ claim \in [Claimers -> ClaimState]
  /\ deletion \in [Deleters -> DeletionState]
  /\ scoring \in [Scorers -> ScoringState]
  /\ upload \in [Uploaders -> UploadState]
  /\ missed \subseteq Copies

\* A labeller has at most one 待标注 copy in a project (task5.go:309): the
\* check of AllocOneTask5 and its insert are five calls apart.
OneLabeling ==
  \A u \in Users, p \in Projects :
    \A c, e \in LabelingOf(u, p) : c = e

\* A labeller never gets the same session twice in projects that still exist
\* ($nin personSessionID, task5.go:361), whatever happens between that read and
\* the insert, and although every save rewrites the id that is read: only a copy
\* whose id was lost when a claim of its labeller looked at it can be repeated.
NoRepeatSession ==
  \A c, e \in Labeled \ missed :
    /\ copies[c].labeler = copies[e].labeler
    /\ copies[c].session = copies[e].session
    /\ {copies[c].project, copies[e].project} \subseteq live
    => c = e

\* The number of claims a task still accepts never drops below zero, although
\* AllocOneTask5 and DeleteTask5 write priorities computed from stale reads.
PriorityNonNegative == \A d \in Tasks : pool[d].priority >= 0

\* A project holds each session once: UploadTask5 uploads nothing when any
\* file of the batch is a duplicate (task5.go:85).
UniqueSessions ==
  \A d, e \in Tasks :
    /\ pool[d].project = pool[e].project
    /\ pool[d].session = pool[e].session
    => d = e

\* At most one labeller is asked to score a sampled session: the claim that
\* takes the request for a score turns requireScore to 2 on the template.
OneScorer ==
  \A c, e \in Labeled :
    /\ copies[c].project = copies[e].project
    /\ copies[c].session = copies[e].session
    /\ copies[c].requireScore = 1
    /\ copies[e].requireScore = 1
    => c = e

\* Once a claim has taken the request for a score, no later sample asks for
\* it again: ProportionalScoring samples only what has requireScore 0.
ScoredForGood ==
  [][\A d \in Tasks : pool[d].requireScore = 2 => pool'[d].requireScore = 2]_pool

\* Served one request at a time, the pool is the ledger of claims: the slot a
\* claim has taken and not yet turned into a copy is still free, the slot a
\* deletion has returned before removing its copy is not free yet.
LedgerFree ==
  [d \in Docs |->
     IF pool[d] = NoDoc THEN NoDoc
     ELSE pool[d].priority
            + Cardinality({r \in Claimers : claim[r].at = "insert" /\ claim[r].doc = d})
            - Cardinality({r \in Deleters : /\ deletion[r].at = "removeReturned"
                                            /\ deletion[r].doc = d})]
\* The templates of the session a copy was claimed of.
OriginsOf(copy) ==
  {d \in Tasks : /\ pool[d].project = copy.project
                 /\ pool[d].session = copy.session}
LedgerHeld ==
  [c \in Copies |->
     IF copies[c] = NoCopy THEN NoCopy
     ELSE [task |-> CHOOSE d \in Docs : d \in OriginsOf(copies[c]),
           done |-> copies[c].status = "handedIn"]]
Ledger == INSTANCE SlotLedger WITH
  Tasks <- Docs, Unpublished <- NoDoc, Nobody <- NoCopy,
  free <- LedgerFree, held <- LedgerHeld
ImplementsLedger == Ledger!Spec

=============================================================================
