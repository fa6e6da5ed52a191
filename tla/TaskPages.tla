------------------------------ MODULE TaskPages ------------------------------
(***************************************************************************)
(* Going through the tasks of a list one by one (versions 4, 5 and 6:      *)
(* service/task4.go, task5.go, task6.go).  A page opens a task of a list   *)
(* and asks for it; the answer names the next and the previous task, found *)
(* by _id with the filter of the list, and the person goes on from there.  *)
(* The task, its next and its previous one are read one after the other,   *)
(* while the tasks change in any way: that is the environment here.        *)
(*                                                                         *)
(* Lists come in pages, and any task of a list may be opened.  Names and   *)
(* times of filters are left out.  FindOne without a sort is taken to      *)
(* follow the index on _id, the only one there is.                         *)
(***************************************************************************)
EXTENDS Integers

CONSTANTS
  Ids,       \* task ids of the project, numbers in the order of uploads
  People,    \* who may label and check
  Records,   \* what a task can be, [status, labeler, checker]
  Filters    \* what pages filter by, [statuses, labeler, checker]

\* Checked where the module is used.
PagesAssumption == Ids \subseteq Nat \ {0}

VARIABLES
  stored,    \* the tasks; Gone before the upload and after the deletion
  walk       \* the page

pageVars == <<stored, walk>>

-----------------------------------------------------------------------------
Gone == [status |-> "gone"]
NoTask == 0
Closed == [at |-> "closed"]
Here == {t \in Ids : stored[t] # Gone}

PageInit ==
  /\ stored = [t \in Ids |-> Gone]
  /\ walk = Closed

\* A field of a filter that is empty matches everything.
Matches(set, x) == set = {} \/ x \in set

buildFilter(filter, rec) ==
  /\ Matches(filter.statuses, rec.status)
  /\ Matches(filter.labeler, rec.labeler)
  /\ Matches(filter.checker, rec.checker)

buildTask4DetailFilter(filter, rec) == buildFilter(filter, rec)
buildTask5DetailFilter(filter, rec) == buildFilter(filter, rec)
buildTask6DetailFilter(filter, rec) == buildFilter(filter, rec)

Own(kind, u, rec) ==
  \/ kind = "label" /\ rec.labeler = u
  \/ kind = "check" /\ rec.checker = u

-----------------------------------------------------------------------------
(* The lists: a manager's, and that of a labeller or a checker. *)

SearchTask4(filter) == {t \in Here : buildFilter(filter, stored[t])}
SearchTask5(filter) == {t \in Here : buildFilter(filter, stored[t])}
SearchTask6(filter) == {t \in Here : buildFilter(filter, stored[t])}

Mine(kind, u, statuses) ==
  {t \in Here : Own(kind, u, stored[t]) /\ Matches(statuses, stored[t].status)}

SearchMyTask4(kind, u, statuses) == Mine(kind, u, statuses)
SearchMyTask5(kind, u, statuses) == Mine(kind, u, statuses)
SearchMyTask6Walk(kind, u, statuses) == Mine(kind, u, statuses)

OnList(version, kind, u, filter) ==
  CASE version = "v4" -> IF kind = "manage" THEN SearchTask4(filter)
                         ELSE SearchMyTask4(kind, u, filter.statuses)
    [] version = "v5" -> IF kind = "manage" THEN SearchTask5(filter)
                         ELSE SearchMyTask5(kind, u, filter.statuses)
    [] version = "v6" -> IF kind = "manage" THEN SearchTask6(filter)
                         ELSE SearchMyTask6Walk(kind, u, filter.statuses)

\* The filter of the answer, which takes a missing list of statuses from a
\* labeller or a checker for an empty one.
InWalk(w, rec) ==
  IF w.kind = "manage"
  THEN CASE w.version = "v4" -> buildTask4DetailFilter(w.filter, rec)
         [] w.version = "v5" -> buildTask5DetailFilter(w.filter, rec)
         [] w.version = "v6" -> buildTask6DetailFilter(w.filter, rec)
  ELSE Own(w.kind, w.user, rec) /\ rec.status \in w.filter.statuses

Found == {t \in Here : InWalk(walk, stored[t])}

-----------------------------------------------------------------------------
Open(version, kind, u, filter, t) ==
  /\ walk = Closed
  /\ t \in OnList(version, kind, u, filter)
  /\ LET w == [at |-> "read", version |-> version, kind |-> kind, user |-> u,
               filter |-> filter, task |-> t, next |-> NoTask, last |-> NoTask,
               visited |-> {}, stayed |-> {}]
     IN walk' = [w EXCEPT !.stayed = {o \in Here : InWalk(w, stored[o])}]
  /\ UNCHANGED stored

ReadTask ==
  /\ walk.at = "read"
  /\ walk' = IF /\ walk.task \in Here
                /\ walk.kind = "manage" \/ Own(walk.kind, walk.user, stored[walk.task])
             THEN [walk EXCEPT !.at = "next"] ELSE Closed
  /\ UNCHANGED stored

NextOf(n) ==
  IF \A t \in Found : t <= walk.task THEN n = NoTask
  ELSE /\ n \in Found /\ n > walk.task
       /\ \A t \in Found : t > walk.task => n <= t

FindNext ==
  /\ walk.at = "next"
  /\ \E n \in Ids \cup {NoTask} :
       NextOf(n) /\ walk' = [walk EXCEPT !.at = "last", !.next = n]
  /\ UNCHANGED stored

\* Slip: without the sort.
LastOfUnsorted(n) ==
  IF \A t \in Found : t >= walk.task THEN n = NoTask
  ELSE /\ n \in Found /\ n < walk.task
       /\ \A t \in Found : n <= t

LastOf(n) ==
  IF \A t \in Found : t >= walk.task THEN n = NoTask
  ELSE /\ n \in Found /\ n < walk.task
       /\ \A t \in Found : t < walk.task => t <= n

FindLast ==
  /\ walk.at = "last"
  /\ \E n \in Ids \cup {NoTask} :
       /\ LastOf(n)
       /\ walk' = [walk EXCEPT !.at = "shown", !.last = n,
                               !.visited = @ \cup {walk.task}]
  /\ UNCHANGED stored

GetTask4 == walk # Closed /\ walk.version = "v4" /\ (ReadTask \/ FindNext \/ FindLast)
GetTask5 == walk # Closed /\ walk.version = "v5" /\ (ReadTask \/ FindNext \/ FindLast)

\* Version 6 goes on to read the project and the folder, which may be gone.
GetTask6 ==
  /\ walk # Closed
  /\ walk.version = "v6"
  /\ \/ ReadTask \/ FindNext \/ FindLast
     \/ walk.at = "last" /\ walk' = Closed /\ UNCHANGED stored

\* The person goes on, or leaves.
GoTo(t) ==
  /\ walk # Closed
  /\ walk.at = "shown"
  /\ t \in {walk.next, walk.last} \ {NoTask}
  /\ walk' = [walk EXCEPT !.at = "read", !.task = t, !.next = NoTask,
                          !.last = NoTask]
  /\ UNCHANGED stored

Close ==
  /\ walk # Closed
  /\ walk' = Closed
  /\ UNCHANGED stored

\* Anybody changes a task, uploads or deletes it.
Change(t, rec) ==
  /\ stored' = [stored EXCEPT ![t] = rec]
  /\ walk' = IF walk # Closed /\ (rec = Gone \/ ~InWalk(walk, rec))
             THEN [walk EXCEPT !.stayed = @ \ {t}] ELSE walk

PageNext ==
  \/ \E version \in {"v4", "v5", "v6"}, kind \in {"label", "check", "manage"},
        u \in People, filter \in Filters, t \in Ids :
       Open(version, kind, u, filter, t)
  \/ GetTask4 \/ GetTask5 \/ GetTask6 \/ Close
  \/ \E t \in Ids : GoTo(t)
  \/ \E t \in Ids : \E rec \in Records \cup {Gone} : Change(t, rec)

PageSpec == PageInit /\ [][PageNext]_pageVars

-----------------------------------------------------------------------------
(* Properties. *)

Between(t, set) == (\E a \in set : a <= t) /\ (\E b \in set : t <= b)

\* Who goes through a list, back and forth, comes by every task that stays on
\* it meanwhile, whatever happens to the others between the reads; and when no
\* next or previous task is offered, none that stayed is left on that side,
\* unless a labeller or checker named no status.
NothingSkipped ==
  walk # Closed =>
    /\ \A t \in walk.stayed : Between(t, walk.visited) => t \in walk.visited
    /\ walk.at = "shown" /\ walk.next = NoTask =>
         \A t \in walk.stayed : t <= walk.task
    /\ walk.at = "shown" /\ walk.last = NoTask =>
         \A t \in walk.stayed : walk.task <= t

=============================================================================
