----------------------------- MODULE TaskCounts -----------------------------
(***************************************************************************)
(* What the pages show of the tasks of a project: the list of one person   *)
(* (SearchMyTask of each version) and the numbers of the project page      *)
(* (ProjectCount of each version).  Both are worked out from statuses,     *)
(* while allocations look at the people as well.                           *)
(*                                                                         *)
(* Pages of a list are taken together.  A count is taken at one moment;    *)
(* that of version 6 is three calls, whose numbers need not fit together   *)
(* while tasks change.  The numbers of version 5 count the slots of its    *)
(* pool and are left out.                                                  *)
(***************************************************************************)
EXTENDS TaskVersions

CONSTANT Labels, Checks  \* req.TaskType: 标注 and 审核; a list also has both

ASSUME KindsAssumption == Labels # Checks

Listed(u, kind, statuses) ==
  {t \in Stored :
     /\ statuses = {} \/ task[t].status \in statuses
     /\ \/ kind # Checks /\ task[t].labeler = u
        \/ kind # Labels /\ task[t].checker = u}

SearchMyTask(u, kind, statuses) == Listed(u, kind, statuses)
SearchMyTask2(u, kind, statuses) == Listed(u, kind, statuses)
SearchMyTask3(u, statuses) == Listed(u, Labels, statuses)
SearchMyTask6(u, kind, statuses) == Listed(u, kind, statuses)

MyTasks(u, kind) ==
  CASE version = "v1" -> SearchMyTask(u, kind, {})
    [] version = "v2" -> SearchMyTask2(u, kind, {})
    [] version = "v3" -> SearchMyTask3(u, {})
    [] version = "v6" -> SearchMyTask6(u, kind, {})

\* All lists of one kind together.
OnLists(kind) == UNION {MyTasks(u, kind) : u \in Users}

-----------------------------------------------------------------------------
Count(statuses) == Cardinality({t \in Stored : task[t].status \in statuses})

\* Slip: tasks that failed their review are forgotten.
ProjectCountUnfailed ==
  [unallocatedLabel |-> Count({"allocate"}),
   allocatedLabel   |-> Cardinality(Stored) - Count({"allocate"}),
   unallocatedCheck |-> Count({"submit"}),
   allocatedCheck   |-> Count({"checking"}) + Count({"passed"})]

ProjectCount ==
  [unallocatedLabel |-> Count({"allocate"}),
   allocatedLabel   |-> Cardinality(Stored) - Count({"allocate"}),
   unallocatedCheck |-> Count({"submit"}),
   allocatedCheck   |-> Count({"checking"}) + Count({"passed"}) + Count({"failed"})]

Project2Count == ProjectCount

Project3Count ==
  [unallocatedLabel |-> Count({"allocate"}),
   allocatedLabel   |-> Cardinality(Stored) - Count({"allocate"})]

Project6Count ==
  [unallocatedLabel |-> Count({"allocate"}),
   allocatedLabel   |-> Count({"labeling"})
     + Cardinality({t \in Stored : /\ task[t].status \in {"submit"} \cup Reviewed
                                   /\ task[t].labeler # Nobody}),
   unallocatedCheck |-> Count({"submit"}),
   allocatedCheck   |-> Count({"checking"})
     + Cardinality({t \in Stored : /\ task[t].status \in {"passed", "failed"}
                                   /\ task[t].checker # Nobody})]

SearchMyTask6Count(u, kind) ==
  [s \in Statuses \ {"allocate"} |->
     Cardinality({t \in Listed(u, IF kind = Labels THEN Labels ELSE Checks, {}) :
                    task[t].status = s})]

-----------------------------------------------------------------------------
(* Properties. *)

\* The numbers of the project page, worked out from statuses, are those the
\* allocations would find and the lists of all people hold, as long as no
\* outdated write mixed up status and people.  A manager's hand-in or review
\* of a task nobody holds makes version 3 count it as given out and version 2
\* count it as being checked.
CountsAgree ==
  overtaken = {} =>
  /\ version \in {"v1", "v2"} =>
       /\ ProjectCount.unallocatedLabel = Cardinality(Free)
       /\ ProjectCount.allocatedLabel = Cardinality(OnLists(Labels))
       /\ ProjectCount.unallocatedCheck = Cardinality(HandedIn)
  /\ version = "v1" =>
       ProjectCount.allocatedCheck = Cardinality(OnLists(Checks))
  /\ version = "v2" =>
       Project2Count.allocatedCheck >= Cardinality(OnLists(Checks))
  /\ version = "v3" =>
       /\ Project3Count.unallocatedLabel <= Cardinality(Free)
       /\ Project3Count.allocatedLabel >= Cardinality(OnLists(Labels))
  /\ version = "v6" =>
       /\ Project6Count.unallocatedLabel = Cardinality(Free)
       /\ Project6Count.allocatedLabel = Cardinality(OnLists(Labels))
       /\ Project6Count.allocatedCheck = Cardinality(OnLists(Checks))
       /\ \A u \in Users :
            LET n == SearchMyTask6Count(u, Labels) IN
            n["labeling"] + n["submit"] + n["checking"] + n["passed"] + n["failed"]
              = Cardinality(MyTasks(u, Labels))

=============================================================================
