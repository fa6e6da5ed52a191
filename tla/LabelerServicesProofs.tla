----------------------- MODULE LabelerServicesProofs -----------------------
(***************************************************************************)
(* Theorems about the services of the labeler, the scheduler and the       *)
(* handlers of requests, for any tasks, people, records, filters, folders, *)
(* jobs and roles.                                                         *)
(*                                                                         *)
(* Pages: NothingSkipped speaks of the tasks visited.  On the way to the   *)
(* next one the invariant adds the task the page is going to (Nears), and  *)
(* keeps of the two neighbours found that no task that stayed is nearer    *)
(* (NextStands, LastStands): tasks may enter and leave the list after they *)
(* were looked for, but those that stay were on it then.  The other        *)
(* services follow, each with the invariant of its own steps; ServicesNext *)
(* takes no others while it is the one that runs.                          *)
(***************************************************************************)
EXTENDS LabelerServices, TaskVersionsProofs, Sequences, SequenceTheorems,
        WellFoundedInduction, TLAPS

-----------------------------------------------------------------------------
(* Pages that go through tasks. *)

Walk ==
  [at : {"read", "next", "last", "shown"}, version : {"v4", "v5", "v6"},
   kind : {"label", "check", "manage"}, user : People, filter : Filters,
   task : Ids, next : Ids \cup {NoTask}, last : Ids \cup {NoTask},
   visited : SUBSET Ids, stayed : SUBSET Ids]

PagesOK ==
  /\ stored \in [Ids -> Records \cup {Gone}]
  /\ walk \in Walk \cup {Closed}

\* What stayed is still on the list.
Staying == walk # Closed => walk.stayed \subseteq Found

Nears ==
  walk # Closed =>
    \A t \in walk.stayed :
      Between(t, walk.visited \cup {walk.task}) => t \in walk.visited \cup {walk.task}

NextStands ==
  walk # Closed /\ walk.at \in {"last", "shown"} =>
    /\ walk.next = NoTask => \A t \in walk.stayed : t <= walk.task
    /\ walk.next # NoTask =>
         /\ walk.next > walk.task
         /\ \A t \in walk.stayed : t > walk.task => walk.next <= t

LastStands ==
  walk # Closed /\ walk.at = "shown" =>
    /\ walk.task \in walk.visited
    /\ walk.last = NoTask => \A t \in walk.stayed : walk.task <= t
    /\ walk.last # NoTask =>
         /\ walk.last < walk.task
         /\ \A t \in walk.stayed : t < walk.task => t <= walk.last

PagesInv ==
  /\ PagesOK /\ Staying /\ Nears /\ NextStands /\ LastStands /\ NothingSkipped

-----------------------------------------------------------------------------
LEMMA ClosedIsNoWalk == Closed \notin Walk
  BY DEF Closed, Walk

LEMMA AClosedPageKeepsAll ==
  ASSUME walk' = Closed, stored' = stored, PagesInv
  PROVE  PagesInv'
  BY DEF PagesInv, PagesOK, Staying, Nears, NextStands, LastStands, NothingSkipped

\* Whether a task is on the list depends on how the page was opened.
LEMMA SameList ==
  ASSUME NEW v, NEW w, v.kind = w.kind, v.version = w.version,
         v.filter = w.filter, v.user = w.user
  PROVE  \A rec : InWalk(v, rec) <=> InWalk(w, rec)
  BY DEF InWalk

LEMMA PagesInit ==
  ASSUME PageInit
  PROVE  PagesInv
  BY DEF PageInit, PagesInv, PagesOK, Staying, Nears, NextStands, LastStands, NothingSkipped

LEMMA OpenKeepsPages ==
  ASSUME PagesAssumption, PagesInv,
         NEW ver \in {"v4", "v5", "v6"}, NEW kind \in {"label", "check", "manage"},
         NEW u \in People, NEW filter \in Filters, NEW t \in Ids,
         Open(ver, kind, u, filter, t)
  PROVE  PagesInv'
<1> DEFINE w == [at |-> "read", version |-> ver, kind |-> kind, user |-> u,
                 filter |-> filter, task |-> t, next |-> NoTask, last |-> NoTask,
                 visited |-> {}, stayed |-> {}]
           stay == {o \in Here : InWalk(w, stored[o])}
<1>1. stored' = stored /\ walk' = [w EXCEPT !.stayed = stay]
  BY DEF Open
<1>2. /\ walk'.at = "read" /\ walk'.task = t /\ walk'.visited = {} /\ walk'.stayed = stay
      /\ walk'.kind = kind /\ walk'.version = ver /\ walk'.filter = filter
      /\ walk'.user = u
  BY <1>1
<1>3. walk' \in Walk
  BY <1>1 DEF Walk, Here
<1>4. PagesOK'
  BY <1>1, <1>3 DEF PagesInv, PagesOK
<1>5. Staying'
  <2>1. \A rec : InWalk(walk', rec) <=> InWalk(w, rec)
    BY <1>2, SameList
  <2> QED BY <1>1, <1>2, <2>1 DEF Staying, Found, Here
<1>6. Nears'
  BY <1>2 DEF Nears, Between, PagesAssumption, Here
<1>7. NextStands' /\ LastStands' /\ NothingSkipped'
  BY <1>2 DEF NextStands, LastStands, NothingSkipped, Between
<1> QED BY <1>4, <1>5, <1>6, <1>7 DEF PagesInv

LEMMA ReadKeepsPages ==
  ASSUME PagesAssumption, PagesInv, walk # Closed, ReadTask
  PROVE  PagesInv'
<1>1. CASE walk' = Closed
  BY <1>1, AClosedPageKeepsAll DEF ReadTask
<1>2. CASE walk' # Closed
  <2>1. walk' = [walk EXCEPT !.at = "next"] /\ stored' = stored /\ walk \in Walk
    BY <1>2 DEF ReadTask, PagesInv, PagesOK
  <2>2. /\ walk' \in Walk /\ walk'.at = "next"
        /\ walk'.task = walk.task /\ walk'.visited = walk.visited
        /\ walk'.stayed = walk.stayed
        /\ walk'.kind = walk.kind /\ walk'.version = walk.version
        /\ walk'.filter = walk.filter /\ walk'.user = walk.user
    BY <2>1 DEF Walk
  <2>3. Staying'
    <3>1. \A rec : InWalk(walk', rec) <=> InWalk(walk, rec)
      BY <2>2, SameList
    <3> QED BY <2>1, <2>2, <3>1 DEF PagesInv, Staying, Found, Here
  <2> QED BY <2>1, <2>2, <2>3
          DEF PagesInv, PagesOK, Nears, NextStands, LastStands, NothingSkipped
<1> QED BY <1>1, <1>2

LEMMA FindNextKeepsPages ==
  ASSUME PagesAssumption, PagesInv, walk # Closed, FindNext
  PROVE  PagesInv'
<1>1. PICK n \in Ids \cup {NoTask} :
        NextOf(n) /\ walk' = [walk EXCEPT !.at = "last", !.next = n]
  BY DEF FindNext
<1>2. walk \in Walk /\ stored' = stored
  BY DEF FindNext, PagesInv, PagesOK
<1>3. /\ walk' \in Walk /\ walk'.at = "last" /\ walk'.next = n
      /\ walk'.task = walk.task /\ walk'.visited = walk.visited
      /\ walk'.stayed = walk.stayed
      /\ walk'.kind = walk.kind /\ walk'.version = walk.version
      /\ walk'.filter = walk.filter /\ walk'.user = walk.user
  BY <1>1, <1>2 DEF Walk
<1>4. Staying'
  <2>1. \A rec : InWalk(walk', rec) <=> InWalk(walk, rec)
    BY <1>3, SameList
  <2> QED BY <1>2, <1>3, <2>1 DEF PagesInv, Staying, Found, Here
<1>5. NextStands'
  <2>1. walk.stayed \subseteq Found /\ Found \subseteq Ids /\ walk.task \in Ids
    BY <1>2 DEF PagesInv, Staying, Found, Here, Walk
  <2>2. \A t \in Ids : t \in Nat /\ t # NoTask
    BY DEF PagesAssumption, NoTask
  <2>3. CASE n = NoTask
    BY <1>1, <1>3, <2>1, <2>2, <2>3 DEF NextStands, NextOf
  <2>4. CASE n # NoTask
    BY <1>1, <1>3, <2>1, <2>2, <2>4 DEF NextStands, NextOf
  <2> QED BY <2>3, <2>4
<1> QED BY <1>2, <1>3, <1>4, <1>5
        DEF PagesInv, PagesOK, Nears, LastStands, NothingSkipped

LEMMA FindLastKeepsPages ==
  ASSUME PagesAssumption, PagesInv, walk # Closed, FindLast
  PROVE  PagesInv'
<1>1. PICK n \in Ids \cup {NoTask} :
        /\ LastOf(n)
        /\ walk' = [walk EXCEPT !.at = "shown", !.last = n,
                                !.visited = @ \cup {walk.task}]
  BY DEF FindLast
<1>2. walk \in Walk /\ stored' = stored /\ walk.at = "last"
  BY DEF FindLast, PagesInv, PagesOK
<1>3. /\ walk' \in Walk /\ walk'.at = "shown" /\ walk'.last = n
      /\ walk'.next = walk.next /\ walk'.task = walk.task
      /\ walk'.visited = walk.visited \cup {walk.task}
      /\ walk'.stayed = walk.stayed
      /\ walk'.kind = walk.kind /\ walk'.version = walk.version
      /\ walk'.filter = walk.filter /\ walk'.user = walk.user
  BY <1>1, <1>2 DEF Walk
<1>4. Staying'
  <2>1. \A rec : InWalk(walk', rec) <=> InWalk(walk, rec)
    BY <1>3, SameList
  <2> QED BY <1>2, <1>3, <2>1 DEF PagesInv, Staying, Found, Here
<1>5. LastStands'
  <2>1. walk.stayed \subseteq Found /\ Found \subseteq Ids /\ walk.task \in Ids
    BY <1>2 DEF PagesInv, Staying, Found, Here, Walk
  <2>2. \A t \in Ids : t \in Nat /\ t # NoTask
    BY DEF PagesAssumption, NoTask
  <2>3. CASE n = NoTask
    BY <1>1, <1>3, <2>1, <2>2, <2>3 DEF LastStands, LastOf
  <2>4. CASE n # NoTask
    BY <1>1, <1>3, <2>1, <2>2, <2>4 DEF LastStands, LastOf
  <2> QED BY <2>3, <2>4
<1>6. Nears'
  <2>1. walk'.visited \cup {walk'.task} = walk.visited \cup {walk.task}
    BY <1>3
  <2> QED BY <1>3, <2>1 DEF PagesInv, Nears
<1>7. NextStands'
  BY <1>2, <1>3 DEF PagesInv, NextStands
<1>8. NothingSkipped'
  <2>1. \A t \in walk'.stayed : Between(t, walk'.visited) => t \in walk'.visited
    BY <1>3 DEF PagesInv, Nears
  <2> QED BY <1>5, <1>7, <2>1 DEF NothingSkipped, NextStands, LastStands, NoTask
<1> QED BY <1>2, <1>3, <1>4, <1>5, <1>6, <1>7, <1>8 DEF PagesInv, PagesOK

\* Between the task shown and its neighbour no task stayed.
LEMMA GoToKeepsPages ==
  ASSUME PagesAssumption, PagesInv, NEW t \in Ids, GoTo(t)
  PROVE  PagesInv'
<1>1. walk \in Walk /\ walk # Closed /\ stored' = stored /\ walk.at = "shown"
      /\ t \in {walk.next, walk.last} /\ t # NoTask
  BY DEF GoTo, PagesInv, PagesOK
<1>2. walk' = [walk EXCEPT !.at = "read", !.task = t, !.next = NoTask, !.last = NoTask]
  BY DEF GoTo
<1>3. /\ walk' \in Walk /\ walk'.at = "read" /\ walk'.task = t
      /\ walk'.visited = walk.visited /\ walk'.stayed = walk.stayed
      /\ walk'.kind = walk.kind /\ walk'.version = walk.version
      /\ walk'.filter = walk.filter /\ walk'.user = walk.user
  BY <1>1, <1>2 DEF Walk
<1>4. Staying'
  <2>1. \A rec : InWalk(walk', rec) <=> InWalk(walk, rec)
    BY <1>3, SameList
  <2> QED BY <1>1, <1>3, <2>1 DEF PagesInv, Staying, Found, Here
<1>5. NothingSkipped'
  BY <1>1, <1>3 DEF PagesInv, NothingSkipped
<1>6. Nears'
  <2> SUFFICES ASSUME NEW s \in walk.stayed, Between(s, walk.visited \cup {t}),
                      s # t
               PROVE  s \in walk.visited
    BY <1>3 DEF Nears
  <2>1. \A o \in Ids : o \in Nat
    BY DEF PagesAssumption
  <2>2. s \in Nat /\ t \in Nat /\ walk.task \in Nat /\ walk.visited \subseteq Nat
    BY <1>1, <2>1 DEF Walk
  <2>3. walk.task \in walk.visited
    BY <1>1 DEF PagesInv, LastStands
  <2>4. \/ t > walk.task /\ (s > walk.task => t <= s)
        \/ t < walk.task /\ (s < walk.task => s <= t)
    BY <1>1 DEF PagesInv, NextStands, LastStands
  <2>5. Between(s, walk.visited)
    <3>1. PICK a \in walk.visited \cup {t}, b \in walk.visited \cup {t} : a <= s /\ s <= b
      BY DEF Between
    <3>2. CASE t > walk.task
      <4>1. walk.task <= s \/ s < walk.task
        BY <2>2
      <4> QED BY <2>2, <2>3, <2>4, <3>1, <3>2, <4>1 DEF Between
    <3>3. CASE t < walk.task
      BY <2>2, <2>3, <2>4, <3>1, <3>3 DEF Between
    <3> QED BY <2>2, <2>4, <3>2, <3>3
  <2> QED BY <1>1, <2>5 DEF PagesInv, NothingSkipped
<1>7. NextStands' /\ LastStands'
  BY <1>3 DEF NextStands, LastStands
<1> QED BY <1>1, <1>3, <1>4, <1>5, <1>6, <1>7 DEF PagesInv, PagesOK

\* A task that changes stays on the list or is struck off what stayed.
LEMMA ChangeKeepsPages ==
  ASSUME PagesAssumption, PagesInv, NEW t \in Ids, NEW rec \in Records \cup {Gone},
         Change(t, rec)
  PROVE  PagesInv'
<1>1. stored' \in [Ids -> Records \cup {Gone}] /\ stored' = [stored EXCEPT ![t] = rec]
  BY DEF Change, PagesInv, PagesOK
<1>2. CASE walk = Closed
  <2>1. walk' = Closed
    BY <1>2 DEF Change
  <2> QED BY <1>1, <2>1
          DEF PagesInv, PagesOK, Staying, Nears, NextStands, LastStands, NothingSkipped
<1>3. CASE walk # Closed
  <2>1. walk \in Walk
    BY <1>3 DEF PagesInv, PagesOK
  <2>2. /\ walk' \in Walk /\ walk'.stayed \subseteq walk.stayed
        /\ rec = Gone \/ ~InWalk(walk, rec) => t \notin walk'.stayed
        /\ walk'.at = walk.at /\ walk'.task = walk.task /\ walk'.visited = walk.visited
        /\ walk'.next = walk.next /\ walk'.last = walk.last
        /\ walk'.kind = walk.kind /\ walk'.version = walk.version
        /\ walk'.filter = walk.filter /\ walk'.user = walk.user
    BY <1>3, <2>1 DEF Change, Walk
  <2>3. Staying'
    <3>1. \A r : InWalk(walk', r) <=> InWalk(walk, r)
      BY <2>2, SameList
    <3>2. SUFFICES ASSUME NEW s \in walk'.stayed
                   PROVE  s \in Ids /\ stored'[s] # Gone /\ InWalk(walk, stored'[s])
      BY <3>1 DEF Staying, Found, Here
    <3>3. s \in Ids /\ stored[s] # Gone /\ InWalk(walk, stored[s])
      BY <1>3, <2>2 DEF PagesInv, Staying, Found, Here
    <3> QED BY <1>1, <2>2, <3>3 DEF PagesInv, PagesOK
  <2>4. Nears' /\ NextStands' /\ LastStands' /\ NothingSkipped'
    BY <1>3, <2>2
       DEF PagesInv, Nears, NextStands, LastStands, NothingSkipped
  <2> QED BY <1>1, <2>2, <2>3, <2>4 DEF PagesInv, PagesOK
<1> QED BY <1>2, <1>3

LEMMA PagesStep ==
  ASSUME PagesAssumption, PagesInv, [PageNext]_pageVars
  PROVE  PagesInv'
<1>1. CASE GetTask4 \/ GetTask5 \/ GetTask6
  <2>1. walk # Closed
    BY <1>1 DEF GetTask4, GetTask5, GetTask6
  <2>2. \/ ReadTask \/ FindNext \/ FindLast
        \/ walk' = Closed /\ stored' = stored
    BY <1>1 DEF GetTask4, GetTask5, GetTask6
  <2> QED BY <2>1, <2>2, ReadKeepsPages, FindNextKeepsPages, FindLastKeepsPages,
             AClosedPageKeepsAll
<1>2. CASE Close
  BY <1>2, AClosedPageKeepsAll DEF Close
<1>3. CASE UNCHANGED pageVars
  BY <1>3 DEF pageVars, PagesInv, PagesOK, Staying, Nears, NextStands, LastStands,
              NothingSkipped, Found, Here
<1> QED BY <1>1, <1>2, <1>3, OpenKeepsPages, GoToKeepsPages, ChangeKeepsPages DEF PageNext

\* Whoever goes through a list comes by every task that stays on it, and is
\* told of a next and a previous one as long as there is one, whatever is
\* uploaded, changed and deleted between the three reads (task4.go:640,
\* task5.go:928, task6.go:588).
THEOREM NoTaskIsSkipped ==
  ASSUME PagesAssumption
  PROVE  PageSpec => []NothingSkipped
<1>1. PageInit => PagesInv
  BY PagesInit
<1>2. PagesInv /\ [PageNext]_pageVars => PagesInv'
  BY PagesStep
<1>3. PagesInv => NothingSkipped
  BY DEF PagesInv
<1> QED BY <1>1, <1>2, <1>3, PTL DEF PageSpec

\* Side by side with the other services the tasks live and the pages go through
\* them as they do alone.
LEMMA ServicesRunTasksAndPages == ServicesSpec => Spec /\ PageSpec
<1>1. ServicesInit => Init /\ PageInit
  BY DEF ServicesInit
<1>2. [ServicesNext]_allVars => [Next]_vars /\ [PageNext]_pageVars
  BY DEF ServicesNext, allVars, TasksNext, PagesNext, WorkNext, SpaceNext, CronNext, HttpNext
<1> QED BY <1>1, <1>2, PTL DEF ServicesSpec, Spec, PageSpec

\* What is proved of the tasks of task.go, task2.go, task3.go, task5.go and
\* task6.go alone, and of the pages that go through them, holds in the sum of
\* the services that the run checks.
THEOREM ServicesKeepTasksAndPages ==
  ASSUME ServicesAssumption
  PROVE  ServicesSpec => /\ []MisfitOnlyIfOvertaken /\ []CountsAgree
                         /\ OwnContents /\ LeadsTaskLife
                         /\ []NothingSkipped
<1>1. Spec => []MisfitOnlyIfOvertaken /\ []CountsAgree /\ OwnContents /\ LeadsTaskLife
  BY MisfitsAreOvertaken, CountsAgreeWithLists, ContentsAreOwn, LedThroughLife
<1>2. PageSpec => []NothingSkipped
  BY NoTaskIsSkipped DEF ServicesAssumption
<1> QED BY <1>1, <1>2, ServicesRunTasksAndPages

-----------------------------------------------------------------------------
(* The folders. *)

SpaceShape ==
  /\ \A f \in Folders : folder[f].row \in {"none", "stored", "deleted"}
  /\ DOMAIN folder = Folders
  /\ cut \subseteq Space!Made

\* A folder was made after the one above it.
MadeInOrder ==
  /\ \A f \in Space!Made : \A g \in Folders : g < f => g \in Space!Made
  /\ \A f \in Space!Made :
       folder[f].in = Top \/ (folder[f].in \in Space!Made /\ folder[f].in < f)

\* What is cut off is just what is below something deleted.
CutBelow ==
  \A f \in Space!Made :
    f \in cut <=> folder[f].in \in cut \/ folder[f].in \in Space!Made \ Space!Stored

SpaceInv == SpaceShape /\ MadeInOrder /\ CutBelow

LEMMA SpaceStart ==
  ASSUME Space!Init
  PROVE  SpaceInv
<1>1. Space!Made = {}
  BY DEF Space!Init, Space!Made, Space!Row
<1>2. SpaceShape
  BY <1>1 DEF Space!Init, SpaceShape, Space!Row
<1> QED BY <1>1, <1>2 DEF SpaceInv, MadeInOrder, CutBelow

\* A folder is below some just if its parent is one of them or below them.
LEMMA BelowByParent ==
  ASSUME NEW fs, NEW f \in Space!Made
  PROVE  f \in Space!Below(fs) <=> folder[f].in \in fs \cup Space!Below(fs)
<1> DEFINE B == Space!Below(fs)
           S == {g \in Space!Made : folder[g].in \in fs \cup B}
<1>1. B \subseteq Space!Made
  BY DEF Space!Below
<1>2. Space!Closed(fs, B)
  <2> SUFFICES ASSUME NEW g \in Space!Made, folder[g].in \in fs \cup B,
                      NEW s \in SUBSET Space!Made, Space!Closed(fs, s)
               PROVE  g \in s
    BY DEF Space!Below, Space!Closed
  <2>1. B \subseteq s
    BY DEF Space!Below
  <2> QED BY <2>1 DEF Space!Closed
<1>3. S \subseteq B
  BY <1>2 DEF Space!Closed
<1>4. Space!Closed(fs, S)
  BY <1>3 DEF Space!Closed
<1>5. B \subseteq S
  BY <1>4 DEF Space!Below
<1> QED BY <1>3, <1>5

LEMMA CreateKeepsSpace ==
  ASSUME Space!WorkspaceAssumption, SpaceInv,
         NEW f \in Folders, NEW up \in Folders \cup {Top}, Space!CreateFolder(f, up)
  PROVE  SpaceInv'
<1>1. /\ f \notin Space!Made /\ up \in Space!Made \cup {Top}
      /\ \A g \in Folders : g < f => g \in Space!Made
      /\ folder' = [folder EXCEPT ![f] = [row |-> "stored", in |-> up]]
      /\ cut' = IF up \in cut \/ up \in Space!Made \ Space!Stored THEN cut \cup {f} ELSE cut
  BY DEF Space!CreateFolder, Space!Row
<1>2. Folders \subseteq Nat /\ Top \notin Folders
  BY DEF Space!WorkspaceAssumption
<1>3. DOMAIN folder = Folders /\ cut \subseteq Space!Made /\ Space!Made \subseteq Folders
      /\ Space!Stored \subseteq Space!Made
  BY DEF SpaceInv, SpaceShape, Space!Made, Space!Stored
<1>4. /\ folder'[f] = [row |-> "stored", in |-> up]
      /\ \A g \in Folders \ {f} : folder'[g] = folder[g]
  BY <1>1, <1>3
<1>5. Space!Made' = Space!Made \cup {f} /\ Space!Stored' = Space!Stored \cup {f}
  BY <1>4 DEF Space!Made, Space!Stored
<1>6. SpaceShape'
  BY <1>1, <1>3, <1>4, <1>5 DEF SpaceInv, SpaceShape
<1>7. MadeInOrder'
  <2>1. up \in Space!Made => up < f
    BY <1>1, <1>2, <1>3 DEF SpaceInv, MadeInOrder
  <2> QED BY <1>1, <1>3, <1>4, <1>5, <2>1 DEF SpaceInv, MadeInOrder
<1>8. CutBelow'
  <2>1. up # f /\ f \notin cut
    BY <1>1, <1>2, <1>3
  <2>2. \A g \in Space!Made : folder[g].in # f
    BY <1>1, <1>2, <1>3 DEF SpaceInv, MadeInOrder
  <2> QED BY <1>1, <1>3, <1>4, <1>5, <2>1, <2>2 DEF SpaceInv, CutBelow
<1> QED BY <1>6, <1>7, <1>8 DEF SpaceInv

LEMMA DeleteKeepsSpace ==
  ASSUME Space!WorkspaceAssumption, SpaceInv, NEW f \in Folders, Space!DeleteFolder(f)
  PROVE  SpaceInv'
<1>1. /\ f \in Space!Stored /\ cut' = cut \cup Space!Below({f})
      /\ folder' = [folder EXCEPT ![f].row = "deleted"]
  BY DEF Space!DeleteFolder
<1>2. Folders \subseteq Nat /\ Top \notin Folders
  BY DEF Space!WorkspaceAssumption
<1>3. DOMAIN folder = Folders /\ cut \subseteq Space!Made /\ Space!Made \subseteq Folders
      /\ Space!Stored \subseteq Space!Made
  BY DEF SpaceInv, SpaceShape, Space!Made, Space!Stored
<1>4. /\ folder'[f].row = "deleted"
      /\ \A g \in Folders \ {f} : folder'[g].row = folder[g].row
      /\ f \in Space!Made => folder'[f].in = folder[f].in
      /\ \A g \in Folders \ {f} : folder'[g].in = folder[g].in
  BY <1>1, <1>3
<1>5. Space!Made' = Space!Made /\ Space!Stored' = Space!Stored \ {f}
  BY <1>1, <1>4 DEF Space!Made, Space!Stored
<1>6. SpaceShape'
  <2>1. Space!Below({f}) \subseteq Space!Made
    BY DEF Space!Below
  <2> QED BY <1>1, <1>3, <1>4, <1>5, <2>1 DEF SpaceInv, SpaceShape
<1>7. MadeInOrder'
  BY <1>1, <1>3, <1>4, <1>5 DEF SpaceInv, MadeInOrder
<1>8. CutBelow'
  <2>1. \A g \in Space!Made : g \in Space!Below({f}) <=> folder[g].in \in {f} \cup Space!Below({f})
    BY BelowByParent
  <2>2. Space!Made' \ Space!Stored' = (Space!Made \ Space!Stored) \cup {f}
    BY <1>1, <1>3, <1>5
  <2>3. \A g \in Space!Made : folder'[g].in = folder[g].in
    BY <1>3, <1>4
  <2>4. \A g \in Space!Made :
          g \in cut <=> folder[g].in \in cut \/ folder[g].in \in Space!Made \ Space!Stored
    BY DEF SpaceInv, CutBelow
  <2>5. \A g \in Space!Made :
          g \in cut' <=> folder[g].in \in cut' \/ folder[g].in \in Space!Made' \ Space!Stored'
    BY <1>1, <2>1, <2>2, <2>4
  <2> QED BY <1>5, <2>3, <2>5 DEF CutBelow
<1> QED BY <1>6, <1>7, <1>8 DEF SpaceInv

LEMMA SpaceStep ==
  ASSUME Space!WorkspaceAssumption, SpaceInv, [Space!Next]_spaceVars
  PROVE  SpaceInv'
<1>1. CASE UNCHANGED <<folder, cut>>
  BY <1>1 DEF SpaceInv, SpaceShape, MadeInOrder, CutBelow, Space!Made, Space!Stored
<1>2. CASE Space!FolderPages
  BY <1>2, CreateKeepsSpace, DeleteKeepsSpace DEF Space!FolderPages
<1>3. CASE Space!ProjectPages
  <2>1. UNCHANGED <<folder, cut>>
    BY <1>3 DEF Space!ProjectPages, Space!CreateProject, Space!MoveProject, Space!LoadProject,
                Space!UpdateProject, Space!DeleteProject
  <2> QED BY <1>1, <2>1
<1>4. UNCHANGED spaceVars => UNCHANGED <<folder, cut>>
  BY DEF spaceVars
<1>5. Space!Next => Space!FolderPages \/ Space!ProjectPages
  BY DEF Space!Next, Space!Folders1, Space!Folders2, Space!Folders3, Space!Folders4,
         Space!Folders5, Space!Folders6, Space!Projects1, Space!Projects2, Space!Projects3,
         Space!Projects4, Space!Projects5, Space!Projects6
<1> QED BY <1>1, <1>2, <1>3, <1>4, <1>5

LEMMA SpaceInvariant ==
  ASSUME ServicesAssumption
  PROVE  ServicesSpec => [](service = "folders" => SpaceInv)
<1>1. ServicesInit => (service = "folders" => SpaceInv)
  BY SpaceStart DEF ServicesInit
<1>2. (service = "folders" => SpaceInv) /\ [ServicesNext]_allVars =>
        (service = "folders" => SpaceInv)'
  <2> SUFFICES ASSUME service = "folders" => SpaceInv, [ServicesNext]_allVars,
                      service' = "folders"
               PROVE  SpaceInv'
    OBVIOUS
  <2>1. service = "folders" /\ [Space!Next]_spaceVars
    BY DEF ServicesNext, allVars, TasksNext, PagesNext, WorkNext, SpaceNext, CronNext, HttpNext
  <2> QED BY <2>1, SpaceStep DEF ServicesAssumption
<1> QED BY <1>1, <1>2, PTL DEF ServicesSpec

\* A set of numbers that is not empty has a least one.
LEMMA LeastNumber ==
  ASSUME NEW T, T \subseteq Nat, T # {}
  PROVE  \E x \in T : \A y \in T : x <= y
<1> DEFINE R == {ss \in Nat \X Nat : ss[1] < ss[2]}
<1>1. IsWellFoundedOn(R, Nat)
  BY NatLessThanWellFounded DEF OpToRel
<1>2. \E x \in T : \A y \in T : ~ (<<y, x>> \in R)
  BY <1>1, WFMin
<1>3. PICK x \in T : \A y \in T : ~ (<<y, x>> \in R)
  BY <1>2
<1>4. \A y \in T : y \in Nat /\ x \in Nat /\ <<y, x>> \notin R
  BY <1>3
<1>5. ASSUME NEW y \in T PROVE x <= y
  <2>1. <<y, x>> \in Nat \X Nat /\ <<y, x>>[1] = y /\ <<y, x>>[2] = x
    BY <1>4
  <2>2. ~ y < x
    BY <1>4, <2>1
  <2> QED BY <1>4, <2>2
<1> QED BY <1>3, <1>5

\* A page unfolds every folder but what is cut off: the lowest number it missed
\* would have a parent it has.
LEMMA TreeIsWhole ==
  ASSUME Space!WorkspaceAssumption, SpaceInv
  PROVE  Space!Unfolded(Space!GetFolders) = Space!Stored \ cut
<1> DEFINE tree == Space!GetFolders
           whole == Space!Stored \ cut
           shown == Space!Unfolded(tree)
<1>1. /\ tree.roots = {f \in Space!Stored : folder[f].in = Top}
      /\ DOMAIN tree.children = Space!Stored
      /\ \A f \in Space!Stored : tree.children[f] = {g \in Space!Stored : folder[g].in = f}
  BY DEF Space!GetFolders, Space!FolderTree
<1>2. Folders \subseteq Nat /\ Top \notin Folders
  BY DEF Space!WorkspaceAssumption
<1>3. cut \subseteq Space!Made /\ Space!Made \subseteq Folders /\ Space!Stored \subseteq Space!Made
  BY DEF SpaceInv, SpaceShape, Space!Made, Space!Stored
<1>4. shown = {f \in Space!Stored :
                 \A s \in SUBSET Space!Stored : Space!Opens(tree, s) => f \in s}
  BY <1>1 DEF Space!Unfolded
<1>5. Space!Opens(tree, whole)
  <2>1. \A f \in Space!Stored : folder[f].in = Top => f \notin cut
    BY <1>2, <1>3 DEF SpaceInv, CutBelow
  <2>2. \A f \in whole, g \in Space!Stored : folder[g].in = f => g \notin cut
    BY <1>3 DEF SpaceInv, CutBelow
  <2> QED BY <1>1, <2>1, <2>2 DEF Space!Opens
<1>6. shown \subseteq whole
  BY <1>4, <1>5
<1>7. whole \subseteq shown
  <2> DEFINE missed == whole \ shown
  <2>1. SUFFICES ASSUME missed # {} PROVE FALSE
    OBVIOUS
  <2>2. PICK f \in missed : \A g \in missed : f <= g
    BY <1>2, <1>3, <2>1, LeastNumber
  <2>3. PICK s \in SUBSET Space!Stored : Space!Opens(tree, s) /\ f \notin s
    BY <1>4, <2>2
  <2>4. folder[f].in # Top
    BY <1>1, <2>2, <2>3 DEF Space!Opens
  <2>5. folder[f].in \in whole /\ folder[f].in < f
    BY <1>3, <2>2, <2>4 DEF SpaceInv, MadeInOrder, CutBelow
  <2>6. folder[f].in \in shown
    <3>1. PICK p : p = folder[f].in
      OBVIOUS
    <3>2. p \in Nat /\ f \in Nat /\ p < f
      BY <1>2, <1>3, <2>2, <2>5, <3>1
    <3>3. ~ (f <= p)
      BY <3>2
    <3> QED BY <2>2, <2>5, <3>1, <3>3
  <2>7. folder[f].in \in s
    BY <1>4, <2>3, <2>6
  <2> QED BY <1>1, <2>2, <2>3, <2>7 DEF Space!Opens
<1> QED BY <1>6, <1>7

\* The tree of folders shows every folder but those below a deleted one, and
\* the project unless its folder is not shown (FolderTree, folder.go:30).
THEOREM TreesAreWhole ==
  ASSUME ServicesAssumption
  PROVE  ServicesSpec => []TreeReachesAll
<1>1. (service = "folders" => SpaceInv) => TreeReachesAll
  BY TreeIsWhole DEF ServicesAssumption, TreeReachesAll, Space!TreeReachesAll, Space!SearchProject
<1> QED BY <1>1, SpaceInvariant, PTL

-----------------------------------------------------------------------------
(* The scheduled jobs. *)

\* A number of this process that is kept for a job is none of another's entry.
KnownFor(n, j) ==
  /\ n.id \in Nat /\ n.process \in Nat /\ n.process <= process
  /\ n.process = process /\ n.id # 0 =>
       n.id < next /\ \A e \in cron : e.id = n.id => e.job = j

Entries == \A e \in cron : e.id \in Nat /\ e.id # 0 /\ e.id < next

RowsKnown ==
  /\ job \in [Jobs -> [row : {"none", "stored", "deleted"}, enabled : BOOLEAN,
                       entry : [id : Nat, process : Nat]]]
  /\ \A j \in Jobs : KnownFor(job[j].entry, j)

SetupKnown ==
  /\ setup.at \in {"clear", "add", "save"} => setup.jobs \subseteq Jobs
  /\ setup.at = "save" =>
       /\ setup.job \in Jobs /\ setup.number \in [id : Nat, process : Nat]
       /\ KnownFor(setup.number, setup.job)

RequestKnown ==
  /\ serving.at \in {"add", "save"} => serving.job \in Jobs
  /\ serving.at = "save" =>
       /\ serving.number \in [id : Nat, process : Nat]
       /\ KnownFor(serving.number, serving.job)

RemovingKnown == \A r \in removing : KnownFor(r.entry, r.job)

PageKnown ==
  page # Cron!Idle =>
    /\ page.job \in Jobs /\ page.entry \in [id : Nat, process : Nat]
    /\ KnownFor(page.entry, page.job)

CronInv ==
  /\ next \in Nat /\ next # 0 /\ process \in Nat
  /\ Entries /\ RowsKnown /\ SetupKnown /\ RequestKnown /\ RemovingKnown /\ PageKnown

LEMMA CronStart ==
  ASSUME Cron!Init
  PROVE  CronInv
<1>1. \A j \in Jobs : job[j] = [row |-> "none", enabled |-> FALSE,
                                entry |-> [id |-> 0, process |-> 0]]
  BY DEF Cron!Init, Cron!Row, Cron!None
<1>2. RowsKnown
  BY <1>1 DEF Cron!Init, Cron!Row, Cron!None, RowsKnown, KnownFor
<1> QED BY <1>2 DEF Cron!Init, CronInv, Entries, SetupKnown, RequestKnown, RemovingKnown,
                    PageKnown, Cron!Idle

\* An entry more takes a number nobody has.
LEMMA AddJobKeepsNumbers ==
  ASSUME CronInv, NEW j \in Jobs, NEW n \in Cron!Number, Cron!AddJob(j, n),
         process' = process
  PROVE  /\ next' \in Nat /\ next' # 0 /\ Entries' /\ KnownFor(n, j)'
         /\ n \in [id : Nat, process : Nat]
         /\ \A m, i : KnownFor(m, i) => KnownFor(m, i)'
<1>1. n \in [id : Nat, process : Nat]
  <2>1. CASE n = Cron!None
    BY <2>1 DEF Cron!None
  <2>2. CASE n = [id |-> next, process |-> process]
    BY <2>2 DEF CronInv
  <2> QED BY <2>1, <2>2 DEF Cron!AddJob
<1>2. CASE n = Cron!None /\ UNCHANGED <<cron, next>>
  BY <1>1, <1>2 DEF Cron!None, CronInv, Entries, KnownFor
<1>3. CASE /\ cron' = cron \cup {[id |-> next, job |-> j]} /\ next' = next + 1
           /\ n = [id |-> next, process |-> process]
  <2>1. next \in Nat /\ next # 0 /\ process \in Nat
    BY DEF CronInv
  <2>2. Entries'
    BY <1>3, <2>1 DEF CronInv, Entries
  <2>3. \A m, i : KnownFor(m, i) => KnownFor(m, i)'
    BY <1>3, <2>1 DEF KnownFor
  <2>4. n.id = next /\ n.process = process
    BY <1>3
  <2>5. ASSUME NEW e \in cron', e.id = n.id PROVE e.job = j
    BY <1>3, <2>1, <2>4, <2>5 DEF CronInv, Entries
  <2> QED BY <1>1, <1>3, <2>1, <2>2, <2>3, <2>4, <2>5 DEF KnownFor
<1> QED BY <1>2, <1>3 DEF Cron!AddJob

LEMMA CronStep ==
  ASSUME CronInv, [Cron!Next]_cronVars
  PROVE  CronInv'
<1> DEFINE Numbers2 == [id : Nat, process : Nat]
<1>t. /\ next \in Nat /\ next # 0 /\ process \in Nat
      /\ Entries /\ RowsKnown /\ SetupKnown /\ RequestKnown /\ RemovingKnown /\ PageKnown
  BY DEF CronInv
<1>n. /\ Cron!None \in Numbers2
      /\ \A j : KnownFor(Cron!None, j)
  BY <1>t DEF Cron!None, KnownFor
<1>k. UNCHANGED <<cron, next, process>> =>
        Entries' /\ (\A m, i : KnownFor(m, i) => KnownFor(m, i)')
  BY <1>t DEF Entries, KnownFor
<1>0. CASE UNCHANGED cronVars
  BY <1>0, <1>t DEF cronVars, CronInv, Entries, RowsKnown, SetupKnown, RequestKnown,
                    RemovingKnown, PageKnown, KnownFor
<1>1. CASE Cron!GetList
  <2>1. SetupKnown'
    BY <1>1 DEF Cron!GetList, Cron!Stored, SetupKnown
  <2> QED BY <1>1, <1>t, <1>k, <2>1
       DEF Cron!GetList, CronInv, RowsKnown, RequestKnown, RemovingKnown, PageKnown
<1>2. CASE Cron!RemoveAllEntryID
  <2>1. SetupKnown'
    BY <1>2, <1>t DEF Cron!RemoveAllEntryID, SetupKnown
  <2>2. RowsKnown'
    <3>1. \A j \in Jobs : job'[j] = IF j \in Cron!Stored THEN [job[j] EXCEPT !.entry = Cron!None]
                                   ELSE job[j]
      BY <1>2 DEF Cron!RemoveAllEntryID
    <3>2. job' \in [Jobs -> [row : {"none", "stored", "deleted"}, enabled : BOOLEAN,
                             entry : Numbers2]]
      BY <1>2, <1>t, <1>n DEF Cron!RemoveAllEntryID, RowsKnown
    <3>3. \A j \in Jobs : job'[j].entry \in {job[j].entry, Cron!None}
      BY <3>1, <1>t DEF RowsKnown
    <3> QED BY <1>2, <1>t, <1>n, <1>k, <3>2, <3>3 DEF Cron!RemoveAllEntryID, RowsKnown
  <2> QED BY <1>2, <1>t, <1>k, <2>1, <2>2
       DEF Cron!RemoveAllEntryID, CronInv, RequestKnown, RemovingKnown, PageKnown
<1>3. CASE Cron!SetupAdd
  <2>1. PICK j \in setup.jobs, n \in Cron!Number :
          /\ Cron!AddJob(j, n)
          /\ setup' = [at |-> "save", jobs |-> setup.jobs \ {j}, job |-> j, number |-> n]
    BY <1>3 DEF Cron!SetupAdd
  <2>2. j \in Jobs /\ process' = process /\ setup.jobs \subseteq Jobs
    BY <1>3, <1>t DEF Cron!SetupAdd, SetupKnown
  <2>3. /\ next' \in Nat /\ next' # 0 /\ Entries' /\ KnownFor(n, j)' /\ n \in Numbers2
        /\ \A m, i : KnownFor(m, i) => KnownFor(m, i)'
    BY <2>1, <2>2, AddJobKeepsNumbers
  <2>4. SetupKnown'
    BY <2>1, <2>2, <2>3 DEF SetupKnown
  <2> QED BY <1>3, <1>t, <2>3, <2>4
       DEF Cron!SetupAdd, CronInv, RowsKnown, RequestKnown, RemovingKnown, PageKnown
<1>4. CASE Cron!SetupSave
  <2>1. setup.job \in Jobs /\ setup.number \in Numbers2 /\ KnownFor(setup.number, setup.job)
        /\ setup.jobs \subseteq Jobs
    BY <1>4, <1>t DEF Cron!SetupSave, SetupKnown
  <2>2. RowsKnown'
    BY <1>4, <1>t, <1>k, <2>1 DEF Cron!SetupSave, Cron!Enter, RowsKnown
  <2>3. SetupKnown'
    BY <1>4, <2>1 DEF Cron!SetupSave, SetupKnown
  <2> QED BY <1>4, <1>t, <1>k, <2>2, <2>3
       DEF Cron!SetupSave, CronInv, RequestKnown, RemovingKnown, PageKnown
<1>5. CASE Cron!Restart
  <2>1. process' = process + 1 /\ cron' = {} /\ next' = 1
    BY <1>5 DEF Cron!Restart
  <2>2. Entries' /\ (\A m, i : KnownFor(m, i) => KnownFor(m, i)')
    BY <1>t, <2>1 DEF Entries, KnownFor
  <2> QED BY <1>5, <1>t, <2>1, <2>2
       DEF Cron!Restart, Cron!Idle, CronInv, RowsKnown, SetupKnown, RequestKnown,
           RemovingKnown, PageKnown
<1>6. CASE Cron!StartJobAdd
  <2>1. PICK n \in Cron!Number :
          /\ Cron!AddJob(serving.job, n)
          /\ serving' = IF n = Cron!None THEN Cron!Idle
                        ELSE [at |-> "save", job |-> serving.job, number |-> n]
    BY <1>6 DEF Cron!StartJobAdd
  <2>2. serving.job \in Jobs /\ process' = process
    BY <1>6, <1>t DEF Cron!StartJobAdd, RequestKnown
  <2>o. PICK j \in Jobs : j = serving.job
    BY <2>2
  <2>3. /\ next' \in Nat /\ next' # 0 /\ Entries' /\ KnownFor(n, j)' /\ n \in Numbers2
        /\ \A m, i : KnownFor(m, i) => KnownFor(m, i)'
    BY <2>1, <2>2, <2>o, AddJobKeepsNumbers
  <2>4. RequestKnown'
    BY <2>1, <2>2, <2>3, <2>o DEF RequestKnown, Cron!Idle
  <2> QED BY <1>6, <1>t, <2>3, <2>4
       DEF Cron!StartJobAdd, CronInv, RowsKnown, SetupKnown, RemovingKnown, PageKnown
<1>7. CASE Cron!StartJobSave
  <2>1. serving.job \in Jobs /\ serving.number \in Numbers2 /\ KnownFor(serving.number, serving.job)
    BY <1>7, <1>t DEF Cron!StartJobSave, RequestKnown
  <2>2. RowsKnown'
    BY <1>7, <1>t, <1>k, <2>1 DEF Cron!StartJobSave, Cron!Row, RowsKnown
  <2> QED BY <1>7, <1>t, <1>k, <2>2
       DEF Cron!StartJobSave, Cron!Idle, CronInv, RequestKnown, SetupKnown, RemovingKnown, PageKnown
<1>8. CASE Cron!RemoveJobSave
  <2>1. job' \in [Jobs -> [row : {"none", "stored", "deleted"}, enabled : BOOLEAN,
                           entry : Numbers2]]
    BY <1>8, <1>t, <1>n DEF Cron!RemoveJobSave, RowsKnown
  <2>2. \A j \in Jobs : job'[j].entry \in {job[j].entry, Cron!None}
    <3>1. \A j \in Jobs : job'[j] \in {[job[j] EXCEPT !.entry = Cron!None], job[j]}
      BY <1>8 DEF Cron!RemoveJobSave
    <3> QED BY <3>1, <1>t DEF RowsKnown
  <2>3. RowsKnown'
    BY <1>8, <1>t, <1>n, <1>k, <2>1, <2>2 DEF Cron!RemoveJobSave, RowsKnown
  <2> QED BY <1>8, <1>t, <1>k, <2>3
       DEF Cron!RemoveJobSave, Cron!Idle, CronInv, RequestKnown, SetupKnown, RemovingKnown, PageKnown
<1>9. CASE Cron!RemoveJobTimeout
  BY <1>9, <1>t, <1>k
     DEF Cron!RemoveJobTimeout, Cron!Idle, CronInv, RowsKnown, RequestKnown, SetupKnown,
         RemovingKnown, PageKnown
<1>10. ASSUME NEW r \in removing, Cron!Remove(r)
       PROVE  CronInv'
  <2>1. cron' \subseteq cron /\ removing' \subseteq removing /\ UNCHANGED <<next, process>>
    BY <1>10 DEF Cron!Remove
  <2>2. Entries' /\ (\A m, i : KnownFor(m, i) => KnownFor(m, i)')
    BY <1>t, <2>1 DEF Entries, KnownFor
  <2> QED BY <1>10, <1>t, <2>1, <2>2
       DEF Cron!Remove, CronInv, RowsKnown, RequestKnown, SetupKnown, RemovingKnown, PageKnown
<1>11. ASSUME NEW j \in Jobs, Cron!StartJobRead(j)
       PROVE  CronInv'
  BY <1>11, <1>t, <1>k
     DEF Cron!StartJobRead, CronInv, RowsKnown, RequestKnown, SetupKnown,
         RemovingKnown, PageKnown
<1>12. ASSUME NEW j \in Jobs, Cron!RemoveJobRead(j)
       PROVE  CronInv'
  <2>1. KnownFor(job[j].entry, j)
    BY <1>t DEF RowsKnown
  <2>2. /\ removing' = removing \cup {[job |-> j, entry |-> job[j].entry]}
        /\ serving'.at = "wait" /\ UNCHANGED <<job, cron, next, process, setup, page>>
    BY <1>12 DEF Cron!RemoveJobRead
  <2>3. RemovingKnown'
    BY <1>t, <1>k, <2>1, <2>2 DEF RemovingKnown
  <2> QED BY <1>t, <1>k, <2>2, <2>3
     DEF CronInv, RowsKnown, RequestKnown, SetupKnown, PageKnown
<1>13. ASSUME NEW j \in Jobs, Cron!ViewAction(j)
       PROVE  CronInv'
  <2>1. KnownFor(job[j].entry, j) /\ job[j].entry \in Numbers2
    BY <1>t DEF RowsKnown
  <2>2. PageKnown'
    BY <1>13, <1>k, <2>1 DEF Cron!ViewAction, PageKnown
  <2> QED BY <1>13, <1>t, <1>k, <2>2
       DEF Cron!ViewAction, CronInv, RowsKnown, RequestKnown, SetupKnown, RemovingKnown
<1>14. ASSUME NEW j \in Jobs,
              Cron!DeleteAction(j) \/ \E enabled \in BOOLEAN : Cron!CreateAction(j, enabled)
       PROVE  CronInv'
  <2>1. PICK row \in {"stored", "deleted"}, enabled \in BOOLEAN :
          job' = [job EXCEPT ![j] = [row |-> row, enabled |-> enabled, entry |-> Cron!None]]
    <3>1. CASE Cron!DeleteAction(j)
      BY <3>1 DEF Cron!DeleteAction, Cron!Row
    <3>2. CASE \E enabled \in BOOLEAN : Cron!CreateAction(j, enabled)
      BY <3>2 DEF Cron!CreateAction, Cron!Row
    <3> QED BY <1>14, <3>1, <3>2
  <2>2. UNCHANGED <<cron, next, process, setup, serving, removing, page>>
    BY <1>14 DEF Cron!DeleteAction, Cron!CreateAction
  <2>3. RowsKnown'
    BY <1>t, <1>n, <1>k, <2>1, <2>2 DEF RowsKnown
  <2> QED BY <1>t, <1>k, <2>2, <2>3
       DEF CronInv, RequestKnown, SetupKnown, RemovingKnown, PageKnown
<1>15. ASSUME NEW enabled \in BOOLEAN, Cron!UpdateAction(enabled)
       PROVE  CronInv'
  <2>1. page.job \in Jobs /\ page.entry \in Numbers2 /\ KnownFor(page.entry, page.job)
        /\ UNCHANGED <<cron, next, process, setup, serving, removing>> /\ page' = Cron!Idle
    BY <1>15, <1>t DEF Cron!UpdateAction, PageKnown
  <2>2. /\ job' \in [Jobs -> [row : {"none", "stored", "deleted"}, enabled : BOOLEAN,
                              entry : Numbers2]]
        /\ \A j \in Jobs : \/ job'[j].entry = job[j].entry
                           \/ j = page.job /\ job'[j].entry = page.entry
    BY <1>15, <1>t, <2>1 DEF Cron!UpdateAction, Cron!Enter, RowsKnown
  <2>3. RowsKnown'
    BY <1>t, <1>k, <2>1, <2>2 DEF RowsKnown
  <2> QED BY <1>t, <1>k, <2>1, <2>3
       DEF CronInv, RequestKnown, SetupKnown, RemovingKnown, PageKnown
<1> QED BY <1>0, <1>1, <1>2, <1>3, <1>4, <1>5, <1>6, <1>7, <1>8, <1>9, <1>10, <1>11, <1>12,
           <1>13, <1>14, <1>15 DEF Cron!Next

LEMMA CronInvariant ==
  ServicesSpec => [](service = "jobs" => CronInv)
<1>1. ServicesInit => (service = "jobs" => CronInv)
  BY CronStart DEF ServicesInit
<1>2. (service = "jobs" => CronInv) /\ [ServicesNext]_allVars => (service = "jobs" => CronInv)'
  <2> SUFFICES ASSUME service = "jobs" => CronInv, [ServicesNext]_allVars, service' = "jobs"
               PROVE  CronInv'
    OBVIOUS
  <2>1. service = "jobs" /\ [Cron!Next]_cronVars
    BY DEF ServicesNext, allVars, TasksNext, PagesNext, WorkNext, SpaceNext, CronNext, HttpNext
  <2> QED BY <2>1, CronStep
<1> QED BY <1>1, <1>2, PTL DEF ServicesSpec

\* Only a removal takes an entry away while the process goes on.
LEMMA OnlyRemovalsStop ==
  ASSUME CronInv, [Cron!Next]_cronVars, process' = process, NEW e \in cron \ cron'
  PROVE  \E r \in removing :
           /\ r.entry.id = e.id
           /\ r.job = e.job \/ r.entry.process # process
<1>1. PICK r \in removing : Cron!Remove(r)
  <2>1. ~ Cron!Restart
    BY DEF Cron!Restart, CronInv
  <2>2. ~ (cron \subseteq cron')
    OBVIOUS
  <2>3. ~ (Cron!SetupAdd \/ Cron!StartJobAdd)
    BY <2>2 DEF Cron!SetupAdd, Cron!StartJobAdd, Cron!AddJob
  <2>4. ~ (Cron!GetList \/ Cron!RemoveAllEntryID \/ Cron!SetupSave \/ Cron!StartJobSave
           \/ Cron!RemoveJobSave \/ Cron!RemoveJobTimeout)
    BY <2>2 DEF Cron!GetList, Cron!RemoveAllEntryID, Cron!SetupSave, Cron!StartJobSave,
                Cron!RemoveJobSave, Cron!RemoveJobTimeout
  <2>5. ~ (\E j \in Jobs : \/ Cron!StartJobRead(j) \/ Cron!RemoveJobRead(j)
                           \/ Cron!ViewAction(j) \/ Cron!DeleteAction(j)
                           \/ \E enabled \in BOOLEAN : Cron!CreateAction(j, enabled))
    BY <2>2 DEF Cron!StartJobRead, Cron!RemoveJobRead, Cron!ViewAction, Cron!DeleteAction,
                Cron!CreateAction
  <2>6. ~ (\E enabled \in BOOLEAN : Cron!UpdateAction(enabled)) /\ ~ UNCHANGED cronVars
    BY <2>2 DEF Cron!UpdateAction, cronVars
  <2> QED BY <2>1, <2>3, <2>4, <2>5, <2>6 DEF Cron!Next
<1>2. r.entry.id = e.id
  BY <1>1 DEF Cron!Remove
<1>3. e.id # 0 /\ KnownFor(r.entry, r.job)
  BY DEF CronInv, Entries, RemovingKnown
<1> QED BY <1>2, <1>3 DEF KnownFor

\* Stopping a job stops no other, unless by a number that was read before a
\* restart (RemoveJob, jobs/service/sys_job.go:20).
THEOREM StopsSpareOthers ==
  ServicesSpec => NeverStopsAnother
<1>1. (service = "jobs" => CronInv) /\ [ServicesNext]_allVars =>
        [process' = process =>
           \A e \in cron \ cron' :
             \E r \in removing :
               /\ r.entry.id = e.id
               /\ r.job = e.job \/ r.entry.process # process]_cronVars
  <2> SUFFICES ASSUME service = "jobs" => CronInv, [ServicesNext]_allVars,
                      process' = process, NEW e \in cron \ cron'
               PROVE  \E r \in removing :
                        /\ r.entry.id = e.id
                        /\ r.job = e.job \/ r.entry.process # process
    OBVIOUS
  <2>1. CASE CronNext
    BY <2>1, OnlyRemovalsStop DEF CronNext
  <2>2. CASE ~CronNext
    BY <2>2 DEF ServicesNext, allVars, cronVars, TasksNext, PagesNext, WorkNext, SpaceNext,
                HttpNext
  <2> QED BY <2>1, <2>2
<1>2. cronVars = Cron!vars
  BY DEF cronVars, Cron!vars
<1> QED BY <1>1, <1>2, CronInvariant, PTL DEF ServicesSpec, NeverStopsAnother, Cron!NeverStopsAnother, cronVars, Cron!vars
-----------------------------------------------------------------------------
(* The handlers of requests. *)

\* Made like a handler.
Kind(h) ==
  /\ h = [guards |-> h.guards, right |-> h.right, unreadable |-> h.unreadable,
          needs |-> h.needs, signs |-> h.signs, silent |-> h.silent]
  /\ h.right \in {"anyone", "manager", "admin", "known"}
  /\ h.unreadable \in {"refused", "served", "never"}

\* What a handler must be for its name.
Fitting(name, h) ==
  /\ Kind(h)
  /\ h.unreadable = "served" => h.silent = {} /\ name \in Http!Unread
  /\ name = "ResetTasks" => h.right = "manager"
  /\ name = "AllocateCheckTasks" => h.right = "admin"
  /\ name \in Http!Personal => h.signs # {}

AllFit(table) == \A name \in DOMAIN table : Fitting(name, table[name])

\* What each refinement of a handler sets and what it leaves.
LEMMA RefinedKinds ==
  ASSUME NEW h, Kind(h)
  PROVE  /\ LET g == Http!ByToken(h) IN
              Kind(g) /\ g.signs # {} /\ g.right = h.right /\ g.unreadable = h.unreadable
         /\ LET g == Http!AsUser(h) IN
              Kind(g) /\ g.signs # {} /\ g.right = h.right /\ g.unreadable = h.unreadable
         /\ LET g == Http!InScope(h) IN
              Kind(g) /\ g.signs # {} /\ g.right = h.right /\ g.unreadable = h.unreadable
         /\ LET g == Http!InDept(h) IN
              Kind(g) /\ g.signs # {} /\ g.right = h.right /\ g.unreadable = h.unreadable
         /\ LET g == Http!ForManagers(h) IN
              Kind(g) /\ g.right = "manager" /\ g.unreadable = h.unreadable
         /\ LET g == Http!ForAdmins(h) IN
              Kind(g) /\ g.right = "admin" /\ g.unreadable = h.unreadable
         /\ LET g == Http!ForKnown(h) IN
              Kind(g) /\ g.right = "known" /\ g.unreadable = h.unreadable
         /\ LET g == Http!Blindly(h) IN Kind(g) /\ g.silent = h.silent
         /\ LET g == Http!Whole(h) IN Kind(g) /\ g.unreadable = "never"
<1>1. PICK gu, ri, un, ne, si, mu :
        h = [guards |-> gu, right |-> ri, unreadable |-> un, needs |-> ne, signs |-> si,
             silent |-> mu]
  BY DEF Kind
<1>2. \A w : /\ [h EXCEPT !.signs = w] = [guards |-> gu, right |-> ri, unreadable |-> un, needs |-> ne, signs |-> w, silent |-> mu]
             /\ [h EXCEPT !.right = w] = [guards |-> gu, right |-> w, unreadable |-> un, needs |-> ne, signs |-> si, silent |-> mu]
             /\ [h EXCEPT !.unreadable = w] = [guards |-> gu, right |-> ri, unreadable |-> w, needs |-> ne, signs |-> si, silent |-> mu]
             /\ [h EXCEPT !.silent = w] = [guards |-> gu, right |-> ri, unreadable |-> un, needs |-> ne, signs |-> si, silent |-> w]
  BY <1>1
<1>3. /\ Http!ByToken(h) = [h EXCEPT !.signs = si \cup {"token"}]
      /\ Http!AsUser(h) = [h EXCEPT !.signs = si \cup {"user"}]
      /\ Http!InScope(h) = [h EXCEPT !.signs = si \cup {"user", "scope"}]
      /\ Http!InDept(h) = [h EXCEPT !.signs = si \cup {"dept"}]
  BY <1>1 DEF Http!ByToken, Http!AsUser, Http!InScope, Http!InDept
<1> QED BY <1>1, <1>2, <1>3 DEF Http!ForManagers,
         Http!ForAdmins, Http!ForKnown, Http!Blindly, Http!Whole, Kind

LEMMA MuteKinds ==
  ASSUME NEW h, Kind(h), NEW failures
  PROVE  LET g == Http!Mute(h, failures) IN
           Kind(g) /\ g.signs = h.signs /\ g.right = h.right /\ g.unreadable = h.unreadable
<1>1. PICK gu, ri, un, ne, si, mu :
        h = [guards |-> gu, right |-> ri, unreadable |-> un, needs |-> ne, signs |-> si,
             silent |-> mu]
  BY DEF Kind
<1>2. Http!Mute(h, failures) = [guards |-> gu, right |-> ri, unreadable |-> un, needs |-> ne, signs |-> si, silent |-> failures]
  BY <1>1 DEF Http!Mute
<1> QED BY <1>1, <1>2 DEF Kind

LEMMA ChangedKinds ==
  ASSUME NEW h, Kind(h), NEW w
  PROVE  /\ LET g == [h EXCEPT !.guards = w] IN
              Kind(g) /\ g.unreadable = h.unreadable /\ g.silent = h.silent
         /\ LET g == [h EXCEPT !.needs = w] IN
              Kind(g) /\ g.unreadable = h.unreadable /\ g.silent = h.silent
<1>1. PICK gu, ri, un, ne, si, mu :
        h = [guards |-> gu, right |-> ri, unreadable |-> un, needs |-> ne, signs |-> si,
             silent |-> mu]
  BY DEF Kind
<1>2. /\ [h EXCEPT !.guards = w] = [guards |-> w, right |-> ri, unreadable |-> un, needs |-> ne, signs |-> si, silent |-> mu]
      /\ [h EXCEPT !.needs = w] = [guards |-> gu, right |-> ri, unreadable |-> un, needs |-> w, signs |-> si, silent |-> mu]
  BY <1>1
<1> QED BY <1>1, <1>2 DEF Kind

\* The plain handlers.
LEMMA PlainKinds ==
  /\ Kind(Http!Open) /\ Http!Open.unreadable = "refused" /\ Http!Open.silent = {}
  /\ Kind(Http!Plain) /\ Http!Plain.unreadable = "refused" /\ Http!Plain.silent = {}
  /\ Kind(Http!Admin) /\ Http!Admin.unreadable = "refused" /\ Http!Admin.silent = {}
  /\ Kind(Http!AdminInScope) /\ Http!AdminInScope.unreadable = "refused"
  /\ Http!AdminInScope.silent = {}
  /\ Kind(Http!NoInput) /\ Http!NoInput.unreadable = "never"
<1>1. Kind(Http!Open) /\ Http!Open.unreadable = "refused" /\ Http!Open.silent = {}
  BY DEF Http!Open, Kind
<1>2. \A w : LET g == [Http!Open EXCEPT !.guards = w] IN
             Kind(g) /\ g.unreadable = "refused" /\ g.silent = {}
  BY <1>1, ChangedKinds
<1>3. Kind(Http!Plain) /\ Http!Plain.unreadable = "refused" /\ Http!Plain.silent = {}
  BY <1>2 DEF Http!Plain
<1>4. Kind(Http!Admin) /\ Http!Admin.unreadable = "refused" /\ Http!Admin.silent = {}
  BY <1>2 DEF Http!Admin
<1>5. /\ Kind(Http!AdminInScope) /\ Http!AdminInScope.unreadable = "refused"
      /\ Http!AdminInScope.silent = {}
  BY <1>2 DEF Http!AdminInScope
<1>6. Kind(Http!NoInput) /\ Http!NoInput.unreadable = "never"
  BY <1>3, RefinedKinds DEF Http!NoInput
<1> QED BY <1>1, <1>3, <1>4, <1>5, <1>6

LEMMA NeedingKinds ==
  \A fields :
    /\ LET g == Http!Needing(fields) IN Kind(g) /\ g.unreadable = "refused" /\ g.silent = {}
    /\ LET g == Http!OpenNeeding(fields) IN
         Kind(g) /\ g.unreadable = "refused" /\ g.silent = {}
  BY PlainKinds, ChangedKinds DEF Http!Needing, Http!OpenNeeding

\* The tables of the labeler.
LEMMA LabelerTablesFit ==
  /\ AllFit(Http!TaskFiles)
  /\ AllFit(Http!TaskSharing)
  /\ AllFit(Http!TaskOwn)
  /\ AllFit(Http!Task2Sharing)
  /\ AllFit(Http!Task2Work)
  /\ AllFit(Http!Task3Sharing)
  /\ AllFit(Http!Task3Work)
  /\ AllFit(Http!Task4Sharing)
  /\ AllFit(Http!Task4Work)
  /\ AllFit(Http!Task4Rest)
  /\ AllFit(Http!Task5Sharing)
  /\ AllFit(Http!Task5Work)
  /\ AllFit(Http!Task5Rest)
  /\ AllFit(Http!Task6Sharing)
  /\ AllFit(Http!Task6Work)
  /\ AllFit(Http!Task6Rest)
  /\ AllFit(Http!FolderPages)
  /\ AllFit(Http!FolderPages2)
  /\ AllFit(Http!FolderPages3)
  /\ AllFit(Http!FolderPages4)
  /\ AllFit(Http!FolderPages5)
  /\ AllFit(Http!FolderPages6)
  /\ AllFit(Http!Projects2)
  /\ AllFit(Http!Projects)
  /\ AllFit(Http!Projects3)
  /\ AllFit(Http!Projects4)
  /\ AllFit(Http!Projects5)
  /\ AllFit(Http!Projects6)
  /\ AllFit(Http!Schemas)
  /\ AllFit(Http!UserPages)
<1>1. AllFit(Http!TaskFiles)
  BY PlainKinds, RefinedKinds, NeedingKinds
     DEF Http!TaskFiles, AllFit, Fitting, Http!Unread, Http!Personal
<1>2. AllFit(Http!TaskSharing)
  BY PlainKinds, RefinedKinds, NeedingKinds
     DEF Http!TaskSharing, AllFit, Fitting, Http!Unread, Http!Personal
<1>3. AllFit(Http!TaskOwn)
  BY PlainKinds, RefinedKinds, NeedingKinds
     DEF Http!TaskOwn, Http!Download, Http!ById, AllFit, Fitting, Http!Unread, Http!Personal
<1>4. AllFit(Http!Task2Sharing)
  BY PlainKinds, RefinedKinds, NeedingKinds
     DEF Http!Task2Sharing, AllFit, Fitting, Http!Unread, Http!Personal
<1>5. AllFit(Http!Task2Work)
  BY PlainKinds, RefinedKinds, NeedingKinds
     DEF Http!Task2Work, Http!ById, Http!Download, AllFit, Fitting, Http!Unread, Http!Personal
<1>6. AllFit(Http!Task3Sharing)
  BY <1>4 DEF Http!Task3Sharing, AllFit
<1>7. AllFit(Http!Task3Work)
  BY <1>5, PlainKinds, RefinedKinds, NeedingKinds DEF Http!Task3Work, AllFit, Fitting, Http!ById, Http!Unread, Http!Personal
<1>8. AllFit(Http!Task4Sharing)
  BY PlainKinds, RefinedKinds, NeedingKinds
     DEF Http!Task4Sharing, AllFit, Fitting, Http!Unread, Http!Personal
<1>9. AllFit(Http!Task4Work)
  BY PlainKinds, RefinedKinds, NeedingKinds
     DEF Http!Task4Work, Http!ById, Http!Download, AllFit, Fitting, Http!Unread, Http!Personal
<1>10. AllFit(Http!Task4Rest)
  BY PlainKinds, RefinedKinds, NeedingKinds
     DEF Http!Task4Rest, AllFit, Fitting, Http!Unread, Http!Personal
<1>11. AllFit(Http!Task5Sharing)
  BY PlainKinds, RefinedKinds, NeedingKinds
     DEF Http!Task5Sharing, Http!Task4Sharing, AllFit, Fitting, Http!Unread, Http!Personal
<1>12. AllFit(Http!Task5Work)
  BY <1>9 DEF Http!Task5Work
<1>13. AllFit(Http!Task5Rest)
  BY PlainKinds, RefinedKinds, NeedingKinds
     DEF Http!Task5Rest, AllFit, Fitting, Http!Unread, Http!Personal
<1>14. AllFit(Http!Task6Sharing)
  BY <1>8 DEF Http!Task6Sharing
<1>15. AllFit(Http!Task6Work)
  BY <1>9 DEF Http!Task6Work
<1>16. AllFit(Http!Task6Rest)
  BY PlainKinds, RefinedKinds, NeedingKinds
     DEF Http!Task6Rest, AllFit, Fitting, Http!Unread, Http!Personal
<1>17. AllFit(Http!FolderPages)
  BY PlainKinds, RefinedKinds, NeedingKinds
     DEF Http!FolderPages, Http!ById, AllFit, Fitting, Http!Unread, Http!Personal
<1>18. AllFit(Http!FolderPages2)
  BY <1>17 DEF Http!FolderPages2
<1>19. AllFit(Http!FolderPages3)
  BY <1>17 DEF Http!FolderPages3
<1>20. AllFit(Http!FolderPages4)
  BY <1>17 DEF Http!FolderPages4
<1>21. AllFit(Http!FolderPages5)
  BY <1>17 DEF Http!FolderPages5
<1>22. AllFit(Http!FolderPages6)
  BY <1>17 DEF Http!FolderPages6
<1>23. AllFit(Http!Projects2)
  BY PlainKinds, RefinedKinds, NeedingKinds
     DEF Http!Projects2, AllFit, Fitting, Http!Unread, Http!Personal
<1>24. AllFit(Http!Projects)
  BY <1>23, PlainKinds DEF Http!Projects, AllFit, Fitting, Http!Unread, Http!Personal
<1>25. AllFit(Http!Projects3)
  BY <1>23 DEF Http!Projects3
<1>26. AllFit(Http!Projects4)
  BY <1>23 DEF Http!Projects4
<1>27. AllFit(Http!Projects5)
  BY <1>23 DEF Http!Projects5
<1>28. AllFit(Http!Projects6)
  BY <1>23 DEF Http!Projects6
<1>29. AllFit(Http!Schemas)
  BY PlainKinds, RefinedKinds, NeedingKinds
     DEF Http!Schemas, Http!ById, AllFit, Fitting, Http!Unread, Http!Personal
<1>30. AllFit(Http!UserPages)
  BY PlainKinds, RefinedKinds
     DEF Http!UserPages, AllFit, Fitting, Http!Unread, Http!Personal
<1> QED BY <1>1, <1>2, <1>3, <1>4, <1>5, <1>6, <1>7, <1>8, <1>9, <1>10, <1>11, <1>12, <1>13, <1>14, <1>15, <1>16, <1>17, <1>18, <1>19, <1>20, <1>21, <1>22, <1>23, <1>24, <1>25, <1>26, <1>27, <1>28, <1>29, <1>30

\* Those of the call centre.
LEMMA ScrmTablesFit ==
  /\ AllFit(Http!ScrmProjects)
  /\ AllFit(Http!ScrmProjectRobots)
  /\ AllFit(Http!Calls)
  /\ AllFit(Http!Orders)
  /\ AllFit(Http!Robots)
  /\ AllFit(Http!Seats)
  /\ AllFit(Http!SeatsOfProjects)
  /\ AllFit(Http!ExportTasks)
  /\ AllFit(Http!LabelPages)
  /\ AllFit(Http!Phones)
  /\ AllFit(Http!VersionPages)
  /\ AllFit(Http!WeCom)
<1>1. AllFit(Http!ScrmProjects)
  BY PlainKinds, RefinedKinds, NeedingKinds
     DEF Http!ScrmProjects, AllFit, Fitting, Http!Unread, Http!Personal
<1>2. AllFit(Http!ScrmProjectRobots)
  BY PlainKinds, RefinedKinds, NeedingKinds
     DEF Http!ScrmProjectRobots, AllFit, Fitting, Http!Unread, Http!Personal
<1>3. AllFit(Http!Calls)
  BY PlainKinds, RefinedKinds, NeedingKinds
     DEF Http!Calls, AllFit, Fitting, Http!Unread, Http!Personal
<1>4. AllFit(Http!Orders)
  BY PlainKinds, RefinedKinds, NeedingKinds
     DEF Http!Orders, AllFit, Fitting, Http!Unread, Http!Personal
<1>5. AllFit(Http!Robots)
  BY PlainKinds, RefinedKinds, NeedingKinds
     DEF Http!Robots, AllFit, Fitting, Http!Unread, Http!Personal
<1>6. AllFit(Http!Seats)
  BY PlainKinds, RefinedKinds, NeedingKinds
     DEF Http!Seats, AllFit, Fitting, Http!Unread, Http!Personal
<1>7. AllFit(Http!SeatsOfProjects)
  BY PlainKinds, RefinedKinds
     DEF Http!SeatsOfProjects, AllFit, Fitting, Http!Unread, Http!Personal
<1>8. AllFit(Http!ExportTasks)
  BY PlainKinds, RefinedKinds, NeedingKinds
     DEF Http!ExportTasks, AllFit, Fitting, Http!Unread, Http!Personal
<1>9. AllFit(Http!LabelPages)
  BY PlainKinds, RefinedKinds
     DEF Http!LabelPages, AllFit, Fitting, Http!Unread, Http!Personal
<1>10. AllFit(Http!Phones)
  BY PlainKinds, RefinedKinds, NeedingKinds
     DEF Http!Phones, AllFit, Fitting, Http!Unread, Http!Personal
<1>11. AllFit(Http!VersionPages)
  BY PlainKinds, RefinedKinds
     DEF Http!VersionPages, AllFit, Fitting, Http!Unread, Http!Personal
<1>12. AllFit(Http!WeCom)
  BY PlainKinds, RefinedKinds
     DEF Http!WeCom, AllFit, Fitting, Http!Unread, Http!Personal
<1> QED BY <1>1, <1>2, <1>3, <1>4, <1>5, <1>6, <1>7, <1>8, <1>9, <1>10, <1>11, <1>12

\* Those of the administration.
LEMMA AdminTablesFit ==
  /\ AllFit(Http!SysApis)
  /\ AllFit(Http!SysConfigs)
  /\ AllFit(Http!SysConfigPages)
  /\ AllFit(Http!SysDepts)
  /\ AllFit(Http!SysDeptTrees)
  /\ AllFit(Http!SysDictData)
  /\ AllFit(Http!SysDictDataRest)
  /\ AllFit(Http!SysDictTypes)
  /\ AllFit(Http!SysDictTypesRest)
  /\ AllFit(Http!SysLoginLogs)
  /\ AllFit(Http!SysMenus)
  /\ AllFit(Http!SysMenuTrees)
  /\ AllFit(Http!SysOperaLogs)
  /\ AllFit(Http!SysPosts)
  /\ AllFit(Http!SysPostsRest)
  /\ AllFit(Http!SysRoles)
  /\ AllFit(Http!SysRoleChanges)
  /\ AllFit(Http!SysUsers)
  /\ AllFit(Http!SysUserChanges)
  /\ AllFit(Http!SysUserPasswords)
  /\ AllFit(Http!SysUserSelf)
  /\ AllFit(Http!Captcha)
<1>1. AllFit(Http!SysApis)
  BY PlainKinds, RefinedKinds, MuteKinds
     DEF Http!SysApis, AllFit, Fitting, Http!Unread, Http!Personal
<1>2. AllFit(Http!SysConfigs)
  BY PlainKinds, RefinedKinds, MuteKinds
     DEF Http!SysConfigs, AllFit, Fitting, Http!Unread, Http!Personal
<1>3. AllFit(Http!SysConfigPages)
  BY PlainKinds, RefinedKinds, MuteKinds
     DEF Http!SysConfigPages, AllFit, Fitting, Http!Unread, Http!Personal
<1>4. AllFit(Http!SysDepts)
  BY PlainKinds, RefinedKinds
     DEF Http!SysDepts, AllFit, Fitting, Http!Unread, Http!Personal
<1>5. AllFit(Http!SysDeptTrees)
  BY PlainKinds, RefinedKinds
     DEF Http!SysDeptTrees, AllFit, Fitting, Http!Unread, Http!Personal
<1>6. AllFit(Http!SysDictData)
  BY PlainKinds, RefinedKinds
     DEF Http!SysDictData, AllFit, Fitting, Http!Unread, Http!Personal
<1>7. AllFit(Http!SysDictDataRest)
  BY PlainKinds, RefinedKinds
     DEF Http!SysDictDataRest, AllFit, Fitting, Http!Unread, Http!Personal
<1>8. AllFit(Http!SysDictTypes)
  BY PlainKinds, RefinedKinds, MuteKinds
     DEF Http!SysDictTypes, AllFit, Fitting, Http!Unread, Http!Personal
<1>9. AllFit(Http!SysDictTypesRest)
  BY PlainKinds, RefinedKinds
     DEF Http!SysDictTypesRest, AllFit, Fitting, Http!Unread, Http!Personal
<1>10. AllFit(Http!SysLoginLogs)
  BY PlainKinds, RefinedKinds
     DEF Http!SysLoginLogs, AllFit, Fitting, Http!Unread, Http!Personal
<1>11. AllFit(Http!SysMenus)
  BY PlainKinds, RefinedKinds
     DEF Http!SysMenus, AllFit, Fitting, Http!Unread, Http!Personal
<1>12. AllFit(Http!SysMenuTrees)
  BY PlainKinds, RefinedKinds
     DEF Http!SysMenuTrees, AllFit, Fitting, Http!Unread, Http!Personal
<1>13. AllFit(Http!SysOperaLogs)
  BY PlainKinds, RefinedKinds
     DEF Http!SysOperaLogs, AllFit, Fitting, Http!Unread, Http!Personal
<1>14. AllFit(Http!SysPosts)
  BY PlainKinds, RefinedKinds
     DEF Http!SysPosts, AllFit, Fitting, Http!Unread, Http!Personal
<1>15. AllFit(Http!SysPostsRest)
  BY PlainKinds, RefinedKinds
     DEF Http!SysPostsRest, AllFit, Fitting, Http!Unread, Http!Personal
<1>16. AllFit(Http!SysRoles)
  BY PlainKinds, RefinedKinds
     DEF Http!SysRoles, AllFit, Fitting, Http!Unread, Http!Personal
<1>17. AllFit(Http!SysRoleChanges)
  BY PlainKinds, RefinedKinds, MuteKinds
     DEF Http!SysRoleChanges, AllFit, Fitting, Http!Unread, Http!Personal
<1>18. AllFit(Http!SysUsers)
  BY PlainKinds, RefinedKinds, MuteKinds
     DEF Http!SysUsers, AllFit, Fitting, Http!Unread, Http!Personal
<1>19. AllFit(Http!SysUserChanges)
  BY PlainKinds, RefinedKinds, MuteKinds
     DEF Http!SysUserChanges, AllFit, Fitting, Http!Unread, Http!Personal
<1>20. AllFit(Http!SysUserPasswords)
  BY PlainKinds, RefinedKinds, MuteKinds
     DEF Http!SysUserPasswords, AllFit, Fitting, Http!Unread, Http!Personal
<1>21. AllFit(Http!SysUserSelf)
  BY PlainKinds, RefinedKinds
     DEF Http!SysUserSelf, AllFit, Fitting, Http!Unread, Http!Personal
<1>22. AllFit(Http!Captcha)
  BY PlainKinds, RefinedKinds
     DEF Http!Captcha, AllFit, Fitting, Http!Unread, Http!Personal
<1> QED BY <1>1, <1>2, <1>3, <1>4, <1>5, <1>6, <1>7, <1>8, <1>9, <1>10, <1>11, <1>12, <1>13, <1>14, <1>15, <1>16, <1>17, <1>18, <1>19, <1>20, <1>21, <1>22

LEMMA HandlersFit ==
  ASSUME NEW table \in Http!Handlers, NEW name \in DOMAIN table
  PROVE  Fitting(name, table[name])
<1>1. AllFit(table)
  BY LabelerTablesFit, ScrmTablesFit, AdminTablesFit
     DEF Http!Handlers, Http!Labeler, Http!Scrm, Http!Administration
<1> QED BY <1>1 DEF AllFit

HttpSteps == {"idle", "guards", "service", "done"}

\* Before the service is called nothing is answered, and the role found is one
\* the user had since the request came.
GuardsHold ==
  asked.at = "guards" =>
    /\ asked = [at |-> "guards", ahead |-> asked.ahead, name |-> asked.name, h |-> asked.h,
                flaw |-> asked.flaw, found |-> asked.found]
    /\ Fitting(asked.name, asked.h) /\ asked.flaw \in Http!Flaws(asked.h)
    /\ answers = <<>> /\ role \in held /\ asked.found \in held \cup {NoRole}

\* What is with the service was admitted, and answered only if it is served unread.
ServiceHolds ==
  asked.at = "service" =>
    /\ Fitting(asked.name, asked.h)
    /\ asked.name = "ResetTasks" => held \cap Managers # {}
    /\ asked.name = "AllocateCheckTasks" => token \in Admins
    /\ asked.name \in Http!Personal => asked.user \in {"bearer", "nobody"}
    /\ asked.scope \in held \cup {NoRole}
    /\ \/ asked.flaw = "none" /\ answers = <<>>
       \/ asked.flaw = "unreadable" /\ asked.h.unreadable = "served" /\ answers = <<"refused">>

OneAnswer ==
  asked.at = "done" =>
    \/ asked.blind = TRUE /\ Len(answers) = 2 /\ answers[1] = "refused"
    \/ /\ asked.blind = FALSE
       /\ Len(answers) = 1 \/ (asked.silent # {} /\ answers = <<>>)

HttpInv == asked.at \in HttpSteps /\ GuardsHold /\ ServiceHolds /\ OneAnswer

LEMMA HttpStart ==
  ASSUME Http!Init
  PROVE  HttpInv
  BY DEF Http!Init, HttpInv, HttpSteps, GuardsHold, ServiceHolds, OneAnswer

LEMMA ReceiveKeepsHttp ==
  ASSUME HttpInv, Http!Receive
  PROVE  HttpInv'
<1>a. PICK table \in Http!Handlers : \E name \in DOMAIN table :
        \E flaw \in Http!Flaws(table[name]) :
        asked' = [at |-> "guards", ahead |-> table[name].guards, name |-> name,
                  h |-> table[name], flaw |-> flaw, found |-> NoRole]
  BY DEF Http!Receive
<1>b. PICK name \in DOMAIN table : \E flaw \in Http!Flaws(table[name]) :
        asked' = [at |-> "guards", ahead |-> table[name].guards, name |-> name,
                  h |-> table[name], flaw |-> flaw, found |-> NoRole]
  BY <1>a
<1>1. PICK flaw \in Http!Flaws(table[name]) :
        asked' = [at |-> "guards", ahead |-> table[name].guards, name |-> name,
                  h |-> table[name], flaw |-> flaw, found |-> NoRole]
  BY <1>b
<1>2. PICK h : h = table[name]
  OBVIOUS
<1>3. Fitting(name, h)
  BY <1>2, HandlersFit
<1>4. /\ asked'.at = "guards" /\ asked'.name = name /\ asked'.h = h /\ asked'.flaw = flaw
      /\ asked'.found = NoRole /\ answers' = <<>> /\ held' = {role} /\ role' = role
      /\ asked' = [at |-> "guards", ahead |-> asked'.ahead, name |-> asked'.name, h |-> asked'.h,
                   flaw |-> asked'.flaw, found |-> asked'.found]
  BY <1>1, <1>2 DEF Http!Receive
<1>5. Http!Flaws(asked'.h) = Http!Flaws(h) /\ flaw \in Http!Flaws(h)
  BY <1>2, <1>4
<1> QED BY <1>3, <1>4, <1>5 DEF HttpInv, HttpSteps, GuardsHold, ServiceHolds, OneAnswer

\* A guard that lets the request pass, with the role it found.
LEMMA PastKeepsHttp ==
  ASSUME HttpInv, asked.at = "guards", NEW found \in held \cup {NoRole},
         asked' = Http!Past(found), UNCHANGED <<role, token, answers, held>>
  PROVE  HttpInv'
<1>1. PICK ahead, name, h, flaw, was :
        asked = [at |-> "guards", ahead |-> ahead, name |-> name, h |-> h, flaw |-> flaw,
                 found |-> was]
  BY DEF HttpInv, GuardsHold
<1>2. PICK rest : asked' = [asked EXCEPT !.ahead = rest, !.found = found]
  BY DEF Http!Past
<1>3. asked' = [at |-> "guards", ahead |-> rest, name |-> name, h |-> h, flaw |-> flaw,
                found |-> found]
  BY <1>1, <1>2
<1> QED BY <1>1, <1>3 DEF HttpInv, HttpSteps, GuardsHold, ServiceHolds, OneAnswer

LEMMA StopKeepsHttp ==
  ASSUME HttpInv, asked.at = "guards", Http!Stop
  PROVE  HttpInv'
<1>1. answers' = <<"refused">> /\ asked'.at = "done" /\ asked'.blind = FALSE
  BY DEF Http!Stop, Http!Done, HttpInv, GuardsHold
<1> QED BY <1>1 DEF HttpInv, HttpSteps, GuardsHold, ServiceHolds, OneAnswer

LEMMA HandleKeepsHttp ==
  ASSUME Http!HandlersAssumption, HttpInv, Http!Handle
  PROVE  HttpInv'
<1>1. PICK name, h, flaw, found :
        /\ asked.name = name /\ asked.h = h /\ asked.flaw = flaw /\ asked.found = found
  OBVIOUS
<1>2. /\ asked.at = "guards" /\ UNCHANGED <<role, token, held>>
      /\ Fitting(name, h) /\ flaw \in Http!Flaws(h) /\ answers = <<>>
      /\ found \in held \cup {NoRole}
  BY <1>1 DEF Http!Handle, HttpInv, GuardsHold
<1>3. CASE Http!Refuse
  <2>1. asked' = [at |-> "done", blind |-> FALSE, silent |-> h.silent]
    BY <1>1, <1>3 DEF Http!Refuse, Http!Done
  <2>2. answers' = IF "refused" \in h.silent THEN <<>> ELSE Append(<<>>, "refused")
    BY <1>1, <1>2, <1>3 DEF Http!Refuse
  <2>3. answers' = <<"refused">> \/ (h.silent # {} /\ answers' = <<>>)
    BY <2>2
  <2> QED BY <2>1, <2>3 DEF HttpInv, HttpSteps, GuardsHold, ServiceHolds, OneAnswer
<1>4. CASE Http!Call
  <2>1. /\ asked'.at = "service" /\ asked'.name = name /\ asked'.h = h /\ asked'.flaw = flaw
        /\ asked'.user = Http!Signed(h.signs)
        /\ asked'.scope \in {found, NoRole}
    BY <1>1, <1>4 DEF Http!Call
  <2>2. \/ flaw = "none" /\ answers' = <<>>
        \/ flaw = "unreadable" /\ h.unreadable = "served" /\ answers' = <<"refused">>
    BY <1>1, <1>2, <1>4 DEF Http!Call, Http!Flawed, Http!Flaws, Fitting, Kind
  <2>3. name = "ResetTasks" => held \cap Managers # {}
    <3>1. ASSUME name = "ResetTasks" PROVE found \in Managers
      BY <1>1, <1>2, <1>4, <3>1 DEF Http!Call, Http!Admitted, Fitting
    <3> QED BY <1>2, <3>1 DEF Http!HandlersAssumption
  <2>4. name = "AllocateCheckTasks" => token \in Admins
    BY <1>1, <1>2, <1>4 DEF Http!Call, Http!Admitted, Fitting
  <2>5. name \in Http!Personal => asked'.user \in {"bearer", "nobody"}
    BY <1>2, <2>1 DEF Http!Signed, Fitting
  <2> QED BY <1>2, <2>1, <2>2, <2>3, <2>4, <2>5
          DEF HttpInv, HttpSteps, GuardsHold, ServiceHolds, OneAnswer
<1> QED BY <1>3, <1>4 DEF Http!Handle

LEMMA AnswerKeepsHttp ==
  ASSUME HttpInv, Http!Answer
  PROVE  HttpInv'
<1>1. PICK h, flaw : asked.h = h /\ asked.flaw = flaw
  OBVIOUS
<1>2. /\ Fitting(asked.name, h)
      /\ \/ flaw = "none" /\ answers = <<>>
         \/ flaw = "unreadable" /\ h.unreadable = "served" /\ answers = <<"refused">>
  BY <1>1 DEF Http!Answer, HttpInv, ServiceHolds
<1>3. PICK outcome \in {"done", "failed"} :
        answers' = IF outcome \in h.silent THEN answers ELSE Append(answers, outcome)
  BY <1>1 DEF Http!Answer
<1>4. asked' = [at |-> "done", blind |-> flaw = "unreadable", silent |-> h.silent]
  BY <1>1 DEF Http!Answer, Http!Done
<1>5. asked'.at = "done" /\ asked'.silent = h.silent
  BY <1>4
<1>6. CASE flaw = "none"
  <2>1. asked'.blind = FALSE
    BY <1>4, <1>6
  <2>2. answers' = <<outcome>> \/ (h.silent # {} /\ answers' = <<>>)
    BY <1>2, <1>3, <1>6
  <2>3. OneAnswer'
    BY <1>5, <2>1, <2>2 DEF OneAnswer
  <2> QED BY <1>5, <2>3 DEF HttpInv, HttpSteps, GuardsHold, ServiceHolds
<1>7. CASE flaw = "unreadable"
  <2>1. asked'.blind = TRUE
    BY <1>4, <1>7
  <2>2. h.silent = {} /\ answers = <<"refused">>
    BY <1>2, <1>7 DEF Fitting
  <2>3. answers' = Append(<<"refused">>, outcome)
    BY <1>3, <2>2
  <2>5. \A x, y : Len(Append(<<x>>, y)) = 2 /\ Append(<<x>>, y)[1] = x
    OBVIOUS
  <2>4. OneAnswer'
    BY <1>5, <2>1, <2>3, <2>5 DEF OneAnswer
  <2> QED BY <1>5, <2>4 DEF HttpInv, HttpSteps, GuardsHold, ServiceHolds
<1> QED BY <1>2, <1>6, <1>7

LEMMA HttpStep ==
  ASSUME Http!HandlersAssumption, HttpInv, [Http!Next]_httpVars
  PROVE  HttpInv'
<1>1. CASE UNCHANGED httpVars
  BY <1>1 DEF httpVars, HttpInv, HttpSteps, GuardsHold, ServiceHolds, OneAnswer
<1>2. CASE Http!ChangeRole
  <2>1. /\ UNCHANGED <<token, asked, answers>> /\ held \subseteq held'
        /\ asked.at = "guards" => role' \in held'
    BY <1>2 DEF Http!ChangeRole, Http!Idle
  <2> QED BY <2>1 DEF HttpInv, HttpSteps, GuardsHold, ServiceHolds, OneAnswer
<1>3. CASE Http!Login
  BY <1>3 DEF Http!Login, Http!Idle, HttpInv, HttpSteps, GuardsHold, ServiceHolds, OneAnswer
<1>4. CASE Http!AuthCheckRole
  BY <1>4, PastKeepsHttp, StopKeepsHttp DEF Http!AuthCheckRole, Http!Guarded
<1>5. CASE Http!PermissionAction
  <2>1. asked.at = "guards" /\ role \in held /\ UNCHANGED <<role, token, held>>
    BY <1>5 DEF Http!PermissionAction, Http!Guarded, HttpInv, GuardsHold
  <2>2. CASE Http!Stop
    BY <2>1, <2>2, StopKeepsHttp
  <2>3. ASSUME NEW found \in {role, NoRole}, asked' = Http!Past(found), UNCHANGED answers
        PROVE  HttpInv'
    BY <2>1, <2>3, PastKeepsHttp
  <2> QED BY <1>5, <2>2, <2>3 DEF Http!PermissionAction
<1> QED BY <1>1, <1>2, <1>3, <1>4, <1>5, ReceiveKeepsHttp, HandleKeepsHttp, AnswerKeepsHttp
        DEF Http!Next

LEMMA HttpInvariant ==
  ASSUME ServicesAssumption
  PROVE  ServicesSpec => [](service = "http" => HttpInv)
<1>1. ServicesInit => (service = "http" => HttpInv)
  BY HttpStart DEF ServicesInit
<1>2. (service = "http" => HttpInv) /\ [ServicesNext]_allVars => (service = "http" => HttpInv)'
  <2> SUFFICES ASSUME service = "http" => HttpInv, [ServicesNext]_allVars, service' = "http"
               PROVE  HttpInv'
    OBVIOUS
  <2>1. service = "http" /\ [Http!Next]_httpVars
    BY DEF ServicesNext, allVars, TasksNext, PagesNext, WorkNext, SpaceNext, CronNext, HttpNext
  <2> QED BY <2>1, HttpStep DEF ServicesAssumption
<1> QED BY <1>1, <1>2, PTL DEF ServicesSpec

\* A request reaches its service only with the right it needs, in its user's own
\* name and scope, and is answered once (labeler/api, scrm/api, admin/apis).
THEOREM RequestsAreServedAsAllowed ==
  ASSUME ServicesAssumption
  PROVE  ServicesSpec => []ServedAsAllowed
<1>1. (service = "http" => HttpInv) => ServedAsAllowed
  BY DEF HttpInv, ServiceHolds, OneAnswer, Fitting, ServedAsAllowed, Http!ServedAsAllowed
<1> QED BY <1>1, HttpInvariant, PTL
-----------------------------------------------------------------------------
(* The credit for a save. *)

\* n letters of the first i of s appear, in their order, in the first j of t.
Match(s, t, from, to, n) ==
  /\ \A a \in 1..n : s[from[a]] = t[to[a]]
  /\ \A a, b \in 1..n : a < b => from[a] < from[b] /\ to[a] < to[b]
Taken(s, t, i, j, n) ==
  \E from \in [1..n -> 1..i], to \in [1..n -> 1..j] : Match(s, t, from, to, n)

\* w letters of the first j of t, and no less, are not taken from the first i of s.
Owed(s, t, i, j, w) ==
  /\ w \in Nat
  /\ \E n \in Nat : Taken(s, t, i, j, n) /\ w = j - n
  /\ \A n \in Nat : Taken(s, t, i, j, n) => w <= j - n

\* The n-th letter taken is the n-th of t or a later one.
LEMMA TakenFits ==
  ASSUME NEW s, NEW t, NEW i \in Nat, NEW j \in Nat, NEW n \in Nat, Taken(s, t, i, j, n)
  PROVE  n <= j
<1>1. PICK from \in [1..n -> 1..i], to \in [1..n -> 1..j] : Match(s, t, from, to, n)
  BY DEF Taken
<1> DEFINE early == {a \in 1..n : to[a] < a}
<1>2. CASE early = {}
  <2>1. n # 0 => n \in 1..n /\ n \notin early
    BY <1>2
  <2>2. n # 0 => to[n] \in 1..j /\ ~(to[n] < n)
    BY <1>1, <2>1
  <2> QED BY <2>2
<1>3. CASE early # {}
  <2>0. early \subseteq Nat
    OBVIOUS
  <2>1. PICK a \in early : \A b \in early : a <= b
    <3> HIDE DEF early
    <3> QED BY <1>3, <2>0, LeastNumber
  <2>2. a \in 1..n /\ to[a] < a /\ to[a] \in 1..j
    BY <1>1, <2>1
  <2>3. a - 1 \in 1..n /\ a - 1 \notin early
    BY <2>1, <2>2
  <2>4. to[a - 1] < to[a] /\ to[a - 1] >= a - 1 /\ to[a - 1] \in 1..j
    BY <1>1, <2>2, <2>3 DEF Match
  <2> QED BY <2>2, <2>4
<1> QED BY <1>2, <1>3

LEMMA NothingTaken ==
  ASSUME NEW s, NEW t, NEW i \in Nat, NEW j \in Nat
  PROVE  Taken(s, t, i, j, 0)
<1> DEFINE none == [a \in 1..0 |-> a]
<1>1. none \in [1..0 -> 1..i] /\ none \in [1..0 -> 1..j] /\ Match(s, t, none, none, 0)
  BY DEF Match
<1> QED BY <1>1 DEF Taken

LEMMA TakenFromMore ==
  ASSUME NEW s, NEW t, NEW i \in Nat, NEW j \in Nat, NEW k \in Nat, NEW l \in Nat, NEW n \in Nat,
         Taken(s, t, i, j, n), i <= k, j <= l
  PROVE  Taken(s, t, k, l, n)
<1>1. PICK from \in [1..n -> 1..i], to \in [1..n -> 1..j] : Match(s, t, from, to, n)
  BY DEF Taken
<1>2. from \in [1..n -> 1..k] /\ to \in [1..n -> 1..l]
  OBVIOUS
<1> QED BY <1>1, <1>2 DEF Taken

\* One more letter, at the end of both.
LEMMA TakenOneMore ==
  ASSUME NEW s, NEW t, NEW i \in Nat, NEW j \in Nat, NEW n \in Nat, i # 0, j # 0,
         s[i] = t[j], Taken(s, t, i - 1, j - 1, n)
  PROVE  Taken(s, t, i, j, n + 1)
<1>1. PICK from \in [1..n -> 1..(i - 1)], to \in [1..n -> 1..(j - 1)] :
        Match(s, t, from, to, n)
  BY DEF Taken
<1> DEFINE f == [a \in 1..(n + 1) |-> IF a = n + 1 THEN i ELSE from[a]]
           g == [a \in 1..(n + 1) |-> IF a = n + 1 THEN j ELSE to[a]]
<1>2. \A a \in 1..(n + 1) : a # n + 1 => a \in 1..n
  OBVIOUS
<1>3. f \in [1..(n + 1) -> 1..i] /\ g \in [1..(n + 1) -> 1..j]
  BY <1>2
<1>4. \A a \in 1..(n + 1) : s[f[a]] = t[g[a]]
  BY <1>1, <1>2 DEF Match
<1>5. ASSUME NEW a \in 1..(n + 1), NEW b \in 1..(n + 1), a < b
      PROVE  f[a] < f[b] /\ g[a] < g[b]
  <2>1. a \in 1..n /\ f[a] = from[a] /\ g[a] = to[a]
    BY <1>5
  <2>2. CASE b = n + 1
    BY <1>1, <2>1, <2>2
  <2>3. CASE b # n + 1
    BY <1>1, <1>2, <1>5, <2>1, <2>3 DEF Match
  <2> QED BY <2>2, <2>3
<1>6. Match(s, t, f, g, n + 1)
  BY <1>4, <1>5 DEF Match
<1> QED BY <1>3, <1>6 DEF Taken

\* One less, and with it the last of both.
LEMMA TakenOneLess ==
  ASSUME NEW s, NEW t, NEW i \in Nat, NEW j \in Nat, NEW n \in Nat, i # 0, j # 0, n # 0,
         Taken(s, t, i, j, n)
  PROVE  Taken(s, t, i - 1, j - 1, n - 1)
<1>1. PICK from \in [1..n -> 1..i], to \in [1..n -> 1..j] : Match(s, t, from, to, n)
  BY DEF Taken
<1> DEFINE f == [a \in 1..(n - 1) |-> from[a]]
           g == [a \in 1..(n - 1) |-> to[a]]
<1>2. \A a \in 1..(n - 1) : a \in 1..n /\ a < n /\ n \in 1..n
  OBVIOUS
<1>3. \A a \in 1..(n - 1) : from[a] \in 1..(i - 1) /\ to[a] \in 1..(j - 1)
  BY <1>1, <1>2 DEF Match
<1>4. f \in [1..(n - 1) -> 1..(i - 1)] /\ g \in [1..(n - 1) -> 1..(j - 1)]
  BY <1>3
<1>5. Match(s, t, f, g, n - 1)
  BY <1>1, <1>2 DEF Match
<1> QED BY <1>4, <1>5 DEF Taken

\* If the last letters differ, one of them is not taken.
LEMMA TakenWithoutLast ==
  ASSUME NEW s, NEW t, NEW i \in Nat, NEW j \in Nat, NEW n \in Nat, i # 0, j # 0,
         s[i] # t[j], Taken(s, t, i, j, n)
  PROVE  Taken(s, t, i - 1, j, n) \/ Taken(s, t, i, j - 1, n)
<1>1. PICK from \in [1..n -> 1..i], to \in [1..n -> 1..j] : Match(s, t, from, to, n)
  BY DEF Taken
<1>2. CASE n = 0
  BY <1>2, NothingTaken
<1>3. ASSUME n # 0, from[n] # i PROVE Taken(s, t, i - 1, j, n)
  <2>1. n \in 1..n /\ from[n] <= i - 1
    BY <1>3
  <2>2. \A a \in 1..n : a = n \/ from[a] < from[n]
    BY <1>1, <2>1 DEF Match
  <2>3. ASSUME NEW a \in 1..n PROVE from[a] \in 1..(i - 1)
    <3>1. from[a] \in 1..i /\ from[n] \in 1..i
      BY <1>1, <2>1
    <3>2. from[a] <= i - 1
      BY <2>1, <2>2, <3>1
    <3> QED BY <3>1, <3>2
  <2>4. from \in [1..n -> 1..(i - 1)]
    BY <2>3
  <2> QED BY <1>1, <2>4 DEF Taken
<1>4. ASSUME n # 0, to[n] # j PROVE Taken(s, t, i, j - 1, n)
  <2>1. n \in 1..n /\ to[n] <= j - 1
    BY <1>4
  <2>2. \A a \in 1..n : a = n \/ to[a] < to[n]
    BY <1>1, <2>1 DEF Match
  <2>3. ASSUME NEW a \in 1..n PROVE to[a] \in 1..(j - 1)
    <3>1. to[a] \in 1..j /\ to[n] \in 1..j
      BY <1>1, <2>1
    <3>2. to[a] <= j - 1
      BY <2>1, <2>2, <3>1
    <3> QED BY <3>1, <3>2
  <2>4. to \in [1..n -> 1..(j - 1)]
    BY <2>3
  <2> QED BY <1>1, <2>4 DEF Taken
<1>5. n # 0 => from[n] # i \/ to[n] # j
  <2>1. n # 0 => n \in 1..n
    OBVIOUS
  <2> QED BY <1>1, <2>1 DEF Match
<1> QED BY <1>2, <1>3, <1>4, <1>5

LEMMA SomethingOwed ==
  ASSUME NEW s, NEW t, NEW i \in Nat, NEW j \in Nat
  PROVE  \E w \in Nat : Owed(s, t, i, j, w)
<1> DEFINE T == {w \in Nat : \E n \in Nat : Taken(s, t, i, j, n) /\ w = j - n}
<1>1. j \in T
  BY NothingTaken
<1>2. PICK w \in T : \A v \in T : w <= v
  BY <1>1, LeastNumber
<1>3. ASSUME NEW n \in Nat, Taken(s, t, i, j, n) PROVE w <= j - n
  <2>1. j - n \in Nat
    BY <1>3, TakenFits
  <2> QED BY <1>2, <1>3, <2>1
<1> QED BY <1>2, <1>3 DEF Owed

LEMMA OneAmountOwed ==
  ASSUME NEW s, NEW t, NEW i \in Nat, NEW j \in Nat, NEW w, NEW v,
         Owed(s, t, i, j, w), Owed(s, t, i, j, v)
  PROVE  w = v
  BY DEF Owed

LEMMA OwedAtFirst ==
  ASSUME NEW s, NEW t
  PROVE  /\ \A j \in Nat : Owed(s, t, 0, j, j)
         /\ \A i \in Nat : Owed(s, t, i, 0, 0)
<1>1. ASSUME NEW j \in Nat PROVE Owed(s, t, 0, j, j)
  <2>1. Taken(s, t, 0, j, 0)
    BY NothingTaken
  <2>2. ASSUME NEW n \in Nat, Taken(s, t, 0, j, n) PROVE n = 0
    <3>1. PICK from \in [1..n -> 1..0] : TRUE
      BY <2>2 DEF Taken
    <3>2. n # 0 => 1 \in 1..n
      OBVIOUS
    <3> QED BY <3>1, <3>2
  <2> QED BY <2>1, <2>2 DEF Owed
<1>2. ASSUME NEW i \in Nat PROVE Owed(s, t, i, 0, 0)
  <2>1. Taken(s, t, i, 0, 0)
    BY NothingTaken
  <2>2. \A n \in Nat : Taken(s, t, i, 0, n) => n <= 0
    BY TakenFits
  <2> QED BY <2>1, <2>2 DEF Owed
<1> QED BY <1>1, <1>2

LEMMA OwedIfLastAlike ==
  ASSUME NEW s, NEW t, NEW i \in Nat, NEW j \in Nat, i # 0, j # 0, s[i] = t[j],
         NEW w, Owed(s, t, i - 1, j - 1, w)
  PROVE  Owed(s, t, i, j, w)
<1>1. PICK n \in Nat : Taken(s, t, i - 1, j - 1, n) /\ w = (j - 1) - n
  BY DEF Owed
<1>2. Taken(s, t, i, j, n + 1) /\ w = j - (n + 1) /\ w \in Nat
  <2>1. Taken(s, t, i, j, n + 1)
    BY <1>1, TakenOneMore
  <2> QED BY <1>1, <2>1 DEF Owed
<1>3. ASSUME NEW m \in Nat, Taken(s, t, i, j, m) PROVE w <= j - m
  <2>1. CASE m = 0
    BY <1>1, <1>2, <2>1
  <2>2. CASE m # 0
    <3>1. Taken(s, t, i - 1, j - 1, m - 1)
      BY <1>3, <2>2, TakenOneLess
    <3>2. w <= (j - 1) - (m - 1)
      BY <2>2, <3>1 DEF Owed
    <3> QED BY <1>2, <3>2
  <2> QED BY <2>1, <2>2
<1> QED BY <1>2, <1>3 DEF Owed

LEMMA OwedIfLastDiffer ==
  ASSUME NEW s, NEW t, NEW i \in Nat, NEW j \in Nat, i # 0, j # 0, s[i] # t[j],
         NEW u, Owed(s, t, i - 1, j, u), NEW v, Owed(s, t, i, j - 1, v),
         NEW w, Owed(s, t, i - 1, j - 1, w)
  PROVE  Owed(s, t, i, j, Work!minThree(u, v + 1, w + 1))
<1> DEFINE x == Work!minThree(u, v + 1, w + 1)
<1>1. u \in Nat /\ v \in Nat /\ w \in Nat
  BY DEF Owed
<1>2. x \in Nat /\ x \in {u, v + 1, w + 1} /\ x <= u /\ x <= v + 1
  BY <1>1 DEF Work!minThree, Work!Smaller
<1>3. \E n \in Nat : Taken(s, t, i, j, n) /\ u = j - n
  <2>1. PICK n \in Nat : Taken(s, t, i - 1, j, n) /\ u = j - n
    BY DEF Owed
  <2> QED BY <2>1, TakenFromMore
<1>4. \E n \in Nat : Taken(s, t, i, j, n) /\ v + 1 = j - n
  <2>1. PICK n \in Nat : Taken(s, t, i, j - 1, n) /\ v = (j - 1) - n
    BY DEF Owed
  <2> QED BY <2>1, TakenFromMore
<1>5. \E n \in Nat : Taken(s, t, i, j, n) /\ w + 1 = j - n
  <2>1. PICK n \in Nat : Taken(s, t, i - 1, j - 1, n) /\ w = (j - 1) - n
    BY DEF Owed
  <2> QED BY <2>1, TakenFromMore
<1>6. ASSUME NEW n \in Nat, Taken(s, t, i, j, n) PROVE x <= j - n
  <2>1. CASE Taken(s, t, i - 1, j, n)
    <3>1. u <= j - n
      BY <2>1 DEF Owed
    <3> QED BY <1>1, <1>2, <3>1
  <2>2. CASE Taken(s, t, i, j - 1, n)
    <3>1. v <= (j - 1) - n
      BY <2>2 DEF Owed
    <3> QED BY <1>1, <1>2, <3>1
  <2> QED BY <1>6, <2>1, <2>2, TakenWithoutLast
<1>7. \E n \in Nat : Taken(s, t, i, j, n) /\ x = j - n
  BY <1>2, <1>3, <1>4, <1>5
<1> QED
  <2>1. PICK y : y = x
    OBVIOUS
  <2>2. Owed(s, t, i, j, y)
    <3> HIDE DEF x
    <3> QED BY <1>2, <1>6, <1>7, <2>1 DEF Owed
  <2> QED BY <2>1, <2>2

-----------------------------------------------------------------------------
(* editDistance fills a table of what is owed. *)

Cells(s, t) == (0..Len(s)) \X (0..Len(t))
Table(s, t, dp) ==
  [at \in Cells(s, t) |->
     IF at[1] = 0 THEN at[2]
     ELSE IF at[2] = 0 THEN 0
     ELSE IF s[at[1]] = t[at[2]] THEN dp[<<at[1] - 1, at[2] - 1>>]
     ELSE Work!minThree(dp[<<at[1] - 1, at[2]>>], dp[<<at[1], at[2] - 1>>] + 1,
                        dp[<<at[1] - 1, at[2] - 1>>] + 1)]

\* A table whose earlier cells are right has the next one right.
LEMMA CellOwed ==
  ASSUME NEW s, NEW t, Len(s) \in Nat, Len(t) \in Nat, NEW dp,
         NEW i \in 0..Len(s), NEW j \in 0..Len(t),
         \A k \in 0..Len(s), l \in 0..Len(t) :
           k + l < i + j => Owed(s, t, k, l, dp[<<k, l>>])
  PROVE  Owed(s, t, i, j, Table(s, t, dp)[<<i, j>>])
<1> DEFINE w == Table(s, t, dp)[<<i, j>>]
<1>1. w = IF i = 0 THEN j
          ELSE IF j = 0 THEN 0
          ELSE IF s[i] = t[j] THEN dp[<<i - 1, j - 1>>]
          ELSE Work!minThree(dp[<<i - 1, j>>], dp[<<i, j - 1>>] + 1, dp[<<i - 1, j - 1>>] + 1)
  <2>1. <<i, j>> \in Cells(s, t) /\ <<i, j>>[1] = i /\ <<i, j>>[2] = j
    BY DEF Cells
  <2> QED BY <2>1 DEF Table
<1>2. i \in Nat /\ j \in Nat
  OBVIOUS
<1>3. CASE i = 0
  BY <1>1, <1>2, <1>3, OwedAtFirst
<1>4. CASE i # 0 /\ j = 0
  BY <1>1, <1>2, <1>4, OwedAtFirst
<1>5. CASE i # 0 /\ j # 0
  <2>1. /\ i - 1 \in 0..Len(s) /\ j - 1 \in 0..Len(t)
        /\ (i - 1) + j < i + j /\ i + (j - 1) < i + j /\ (i - 1) + (j - 1) < i + j
    BY <1>2, <1>5
  <2>2. /\ Owed(s, t, i - 1, j, dp[<<i - 1, j>>])
        /\ Owed(s, t, i, j - 1, dp[<<i, j - 1>>])
        /\ Owed(s, t, i - 1, j - 1, dp[<<i - 1, j - 1>>])
    BY <2>1
  <2>3. CASE s[i] = t[j]
    BY <1>1, <1>2, <1>5, <2>2, <2>3, OwedIfLastAlike
  <2>4. CASE s[i] # t[j]
    BY <1>1, <1>2, <1>5, <2>2, <2>4, OwedIfLastDiffer
  <2> QED BY <2>3, <2>4
<1> QED BY <1>3, <1>4, <1>5

\* Every table that is filled so has all cells right: none is the first wrong one.
LEMMA TableOwed ==
  ASSUME NEW s, NEW t, Len(s) \in Nat, Len(t) \in Nat, NEW dp, dp = Table(s, t, dp)
  PROVE  \A i \in 0..Len(s), j \in 0..Len(t) : Owed(s, t, i, j, dp[<<i, j>>])
<1> DEFINE wrong == {n \in Nat : \E i \in 0..Len(s), j \in 0..Len(t) :
                                  n = i + j /\ ~ Owed(s, t, i, j, dp[<<i, j>>])}
<1>1. CASE wrong = {}
  <2> SUFFICES ASSUME NEW i \in 0..Len(s), NEW j \in 0..Len(t)
               PROVE  Owed(s, t, i, j, dp[<<i, j>>])
    OBVIOUS
  <2>1. i + j \in Nat
    OBVIOUS
  <2>2. i + j \notin wrong
    <3> HIDE DEF wrong
    <3> QED BY <1>1
  <2> QED BY <2>1, <2>2
<1>2. CASE wrong # {}
  <2>0. wrong \subseteq Nat
    OBVIOUS
  <2>1. PICK n \in wrong : \A m \in wrong : n <= m
    <3> HIDE DEF wrong
    <3> QED BY <1>2, <2>0, LeastNumber
  <2>2. PICK i \in 0..Len(s), j \in 0..Len(t) : n = i + j /\ ~ Owed(s, t, i, j, dp[<<i, j>>])
    BY <2>1
  <2>3. ASSUME NEW k \in 0..Len(s), NEW l \in 0..Len(t), k + l < i + j
        PROVE  Owed(s, t, k, l, dp[<<k, l>>])
    <3>1. k + l \in Nat /\ n \in Nat /\ ~ (n <= k + l)
      BY <2>2, <2>3
    <3>2. k + l \notin wrong
      <4> HIDE DEF wrong
      <4> QED BY <2>1, <3>1
    <3> QED BY <3>1, <3>2
  <2>4. Owed(s, t, i, j, Table(s, t, dp)[<<i, j>>])
    BY <2>3, CellOwed
  <2> QED BY <2>2, <2>4
<1> QED BY <1>1, <1>2

\* There is such a table: the one of what is owed.
LEMMA SomeTable ==
  ASSUME NEW s, NEW t, Len(s) \in Nat, Len(t) \in Nat
  PROVE  \E dp : dp = Table(s, t, dp)
<1> DEFINE dp == [at \in Cells(s, t) |-> CHOOSE w \in Nat : Owed(s, t, at[1], at[2], w)]
<1>1. ASSUME NEW i \in 0..Len(s), NEW j \in 0..Len(t)
      PROVE  Owed(s, t, i, j, dp[<<i, j>>])
  <2>1. <<i, j>> \in Cells(s, t) /\ <<i, j>>[1] = i /\ <<i, j>>[2] = j
    BY DEF Cells
  <2>2. dp[<<i, j>>] = CHOOSE w \in Nat : Owed(s, t, i, j, w)
    BY <2>1
  <2>3. \E w \in Nat : Owed(s, t, i, j, w)
    <3>1. i \in Nat /\ j \in Nat
      OBVIOUS
    <3> QED BY <3>1, SomethingOwed
  <2> QED BY <2>2, <2>3
<1> HIDE DEF dp
<1>2. ASSUME NEW i \in 0..Len(s), NEW j \in 0..Len(t)
      PROVE  dp[<<i, j>>] = Table(s, t, dp)[<<i, j>>]
  <2>1. Owed(s, t, i, j, Table(s, t, dp)[<<i, j>>])
    BY <1>1, CellOwed
  <2>2. Owed(s, t, i, j, dp[<<i, j>>]) /\ i \in Nat /\ j \in Nat
    BY <1>1
  <2> QED BY <2>1, <2>2, OneAmountOwed
<1>3. \A at \in Cells(s, t) : dp[at] = Table(s, t, dp)[at]
  <2> SUFFICES ASSUME NEW at \in Cells(s, t) PROVE dp[at] = Table(s, t, dp)[at]
    OBVIOUS
  <2>1. PICK i \in 0..Len(s), j \in 0..Len(t) : at = <<i, j>>
    BY DEF Cells
  <2> QED BY <1>2, <2>1
<1>4. dp = [at \in Cells(s, t) |-> dp[at]]
  BY DEF dp
<1>5. Table(s, t, dp) = [at \in Cells(s, t) |-> Table(s, t, dp)[at]]
  BY DEF Table
<1>6. dp = Table(s, t, dp)
  BY <1>3, <1>4, <1>5
<1> QED BY <1>6

LEMMA DistanceOwed ==
  ASSUME NEW s, NEW t, Len(s) \in Nat, Len(t) \in Nat
  PROVE  Owed(s, t, Len(s), Len(t), Work!editDistance(s, t))
<1> DEFINE full == CHOOSE dp : dp = Table(s, t, dp)
<1>1. full = Table(s, t, full)
  BY SomeTable
<1>2. Work!editDistance(s, t) = full[<<Len(s), Len(t)>>]
  BY DEF Work!editDistance, Table, Cells
<1> HIDE DEF full
<1>3. Len(s) \in 0..Len(s) /\ Len(t) \in 0..Len(t)
  OBVIOUS
<1> QED BY <1>1, <1>2, <1>3, TableOwed

LEMMA WrittenOwed ==
  ASSUME NEW s, NEW t, Len(s) \in Nat, Len(t) \in Nat
  PROVE  Owed(s, t, Len(s), Len(t), Work!Written(s, t))
<1> DEFINE lengths == {n \in 0..Len(t) : Taken(s, t, Len(s), Len(t), n)}
<1>1. \A n \in Nat : Work!TakenOver(s, t, n) <=> Taken(s, t, Len(s), Len(t), n)
  BY DEF Work!TakenOver, Taken, Match
<1>2. Work!Written(s, t) = Len(t) - CHOOSE n \in lengths : \A m \in lengths : m <= n
  <2>1. {n \in 0..Len(t) : Work!TakenOver(s, t, n)} = lengths
    BY <1>1
  <2> HIDE DEF lengths
  <2> QED BY <2>1 DEF Work!Written
<1>3. PICK w \in Nat : Owed(s, t, Len(s), Len(t), w)
  BY SomethingOwed
<1>4. PICK n \in Nat : Taken(s, t, Len(s), Len(t), n) /\ w = Len(t) - n
  BY <1>3 DEF Owed
<1>5. n \in lengths
  BY <1>4, TakenFits
<1>6. \A m \in lengths : m <= n
  BY <1>3, <1>4 DEF Owed
<1>7. \A m \in lengths : m \in Nat
  OBVIOUS
<1>8. (CHOOSE l \in lengths : \A m \in lengths : m <= l) = n
  <2> HIDE DEF lengths
  <2>1. PICK k : k = CHOOSE l \in lengths : \A m \in lengths : m <= l
    OBVIOUS
  <2>2. k \in lengths /\ \A m \in lengths : m <= k
    BY <1>5, <1>6, <2>1
  <2> QED BY <1>5, <1>6, <1>7, <2>1, <2>2
<1> QED BY <1>2, <1>3, <1>4, <1>8

\* The table of editDistance ends with the letters that must be written, for
\* texts of any length.
LEMMA DistanceIsWritten ==
  ASSUME NEW s, NEW t, Len(s) \in Nat, Len(t) \in Nat
  PROVE  Work!editDistance(s, t) = Work!Written(s, t)
  BY DistanceOwed, WrittenOwed, OneAmountOwed

-----------------------------------------------------------------------------
WorkInv ==
  /\ Len(model) \in Nat /\ Len(copy.note) \in Nat
  /\ save # Work!Idle => /\ Len(save.model) \in Nat /\ Len(save.output) \in Nat
                        /\ Len(save.note) \in Nat /\ Len(save.found) \in Nat

LEMMA TextsHaveLengths ==
  \A n, s : s \in Work!Texts(n) /\ n \in Nat => Len(s) \in Nat
<1> SUFFICES ASSUME NEW n \in Nat, NEW s \in Work!Texts(n) PROVE Len(s) \in Nat
  OBVIOUS
<1>1. PICK k \in 0..n : s \in [1..k -> Letters]
  BY DEF Work!Texts
<1>2. s \in Seq(Letters)
  BY <1>1, SeqDef
<1> QED BY <1>2

LEMMA WorkStart ==
  ASSUME Work!WorkloadAssumption, Work!Init
  PROVE  WorkInv
  BY TextsHaveLengths DEF Work!Init, WorkInv, Work!Idle, Work!WorkloadAssumption

LEMMA WorkStep ==
  ASSUME Work!WorkloadAssumption, WorkInv, [Work!Next]_workVars
  PROVE  WorkInv'
<1>1. CASE UNCHANGED workVars
  BY <1>1 DEF workVars, WorkInv
<1>2. ASSUME NEW sent \in Work!Texts(MaxOutput), NEW output \in Work!Texts(MaxOutput),
             NEW note \in Work!Texts(MaxNote), Work!UpdateTask5Read(sent, output, note)
      PROVE  WorkInv'
  <2>1. /\ save'.model = sent /\ save'.output = output /\ save'.note = note /\ save'.found = copy.note
        /\ UNCHANGED <<model, copy>>
    BY <1>2 DEF Work!UpdateTask5Read
  <2>2. Len(sent) \in Nat /\ Len(output) \in Nat /\ Len(note) \in Nat
    BY TextsHaveLengths DEF Work!WorkloadAssumption
  <2> QED BY <2>1, <2>2 DEF WorkInv
<1>3. CASE Work!UpdateTask5Write
  <2>1. copy'.note = save.note /\ save' = Work!Idle /\ model' = save.model /\ save # Work!Idle
    BY <1>3 DEF Work!UpdateTask5Write
  <2> QED BY <2>1 DEF WorkInv
<1> QED BY <1>1, <1>2, <1>3 DEF Work!Next

LEMMA WorkInvariant ==
  ASSUME ServicesAssumption
  PROVE  ServicesSpec => [](service = "work" => WorkInv)
<1>1. ServicesInit => (service = "work" => WorkInv)
  BY WorkStart DEF ServicesInit, ServicesAssumption
<1>2. (service = "work" => WorkInv) /\ [ServicesNext]_allVars => (service = "work" => WorkInv)'
  <2> SUFFICES ASSUME service = "work" => WorkInv, [ServicesNext]_allVars, service' = "work"
               PROVE  WorkInv'
    OBVIOUS
  <2>1. service = "work" /\ [Work!Next]_workVars
    BY DEF ServicesNext, allVars, TasksNext, PagesNext, WorkNext, SpaceNext, CronNext, HttpNext
  <2> QED BY <2>1, WorkStep DEF ServicesAssumption
<1> QED BY <1>1, <1>2, PTL DEF ServicesSpec

\* A save credits exactly the letters its author must have written, however long
\* the texts (editDistance, task5.go:1949, UpdateTask5, task5.go:497).
THEOREM SavesCreditWhatIsWritten ==
  ASSUME ServicesAssumption
  PROVE  ServicesSpec => CreditsWritten
<1>1. (service = "work" => WorkInv) /\ [ServicesNext]_allVars =>
        [save # Work!Idle =>
           copy'.editQuantity = Work!Written(save.model, save.output)
                                + Work!Written(save.found, save.note)]_workVars
  <2> SUFFICES ASSUME service = "work" => WorkInv, [ServicesNext]_allVars,
                      save # Work!Idle, ~ UNCHANGED workVars
               PROVE  copy'.editQuantity = Work!Written(save.model, save.output)
                                           + Work!Written(save.found, save.note)
    OBVIOUS
  <2>1. service = "work" /\ Work!Next
    BY DEF ServicesNext, allVars, workVars, TasksNext, PagesNext, WorkNext, SpaceNext,
           CronNext, HttpNext
  <2>2. Work!UpdateTask5Write
    BY <2>1 DEF Work!Next, Work!UpdateTask5Read
  <2>3. copy'.editQuantity = Work!editDistance(save.model, save.output)
                             + Work!editDistance(save.found, save.note)
    BY <2>2 DEF Work!UpdateTask5Write
  <2>4. PICK m, o, f, n : m = save.model /\ o = save.output /\ f = save.found /\ n = save.note
    OBVIOUS
  <2>5. Len(m) \in Nat /\ Len(o) \in Nat /\ Len(f) \in Nat /\ Len(n) \in Nat
    BY <2>1, <2>4 DEF WorkInv
  <2> QED BY <2>3, <2>4, <2>5, DistanceIsWritten
<1> QED BY <1>1, WorkInvariant, PTL
        DEF ServicesSpec, CreditsWritten, Work!CreditsWritten, workVars, Work!vars
=============================================================================
