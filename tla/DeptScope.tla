------------------------------ MODULE DeptScope ------------------------------
(***************************************************************************)
(* Departments and the rows of the call centre that belong to them.  A     *)
(* department stores the path of the departments above it, worked out when *)
(* it is saved (admin/service/sys_dept.go); the pages of a user show the   *)
(* rows whose department has his own in its path (common/actions/          *)
(* permission.go and its callers in scrm/service).                         *)
(*                                                                         *)
(* A path is the set of the ids that stand in it between two slashes, with *)
(* NoDept for the 0 it begins with.  One row stands for all of its kind.   *)
(***************************************************************************)
EXTENDS Integers, FiniteSets

CONSTANTS
  Depts,  \* department ids
  NoDept  \* the parent of a department without one, and the id 0

DeptAssumption == IsFiniteSet(Depts) /\ NoDept \notin Depts

VARIABLES
  dept,   \* sys_dept
  item,   \* a row that belongs to a department
  behind  \* history: departments whose path misses a change above them

vars == <<dept, item, behind>>

-----------------------------------------------------------------------------
Kinds == {"project", "order", "robot", "export", "user"}
Made == {d \in Depts : dept[d].row # "none"}
Stored == {d \in Depts : dept[d].row = "stored"}

Init ==
  /\ dept = [d \in Depts |-> [row |-> "none", up |-> NoDept, path |-> {}]]
  /\ item = [kind |-> "project", row |-> "none", dept |-> NoDept, called |-> FALSE]
  /\ behind = {}

\* A department and those above it, as the rows name them: what one reaches
\* from it, from parent to parent.
Line(d) ==
  LET closed == {up \in SUBSET (Depts \cup {NoDept}) :
                   \A x \in up \ {NoDept} : dept[x].up \in up}
  IN {e \in Depts \cup {NoDept} : \A up \in closed : d \in up => e \in up}

-----------------------------------------------------------------------------
(* The departments. *)

\* Behind a parent that is not found the path begins without a slash.
Path(d, up) ==
  IF up = NoDept THEN {NoDept, d}
  ELSE IF up \in Stored THEN dept[up].path \cup {d} ELSE {}

\* Whether a path worked out now follows the rows.
Follows(d, up) ==
  up = NoDept \/ (up \in Stored \ behind /\ d \notin Line(up))

\* Pages may show departments deleted since.
Insert(d, up) ==
  /\ dept[d].row = "none"
  /\ up \in Made \cup {NoDept}
  /\ dept' = [dept EXCEPT ![d] = [row |-> "stored", up |-> up, path |-> Path(d, up)]]
  /\ behind' = IF Follows(d, up) THEN behind ELSE behind \cup {d}
  /\ UNCHANGED item

\* Slip: the path is the one the page sends back.
UpdateKeepPath(d, up) ==
  /\ d \in Made
  /\ up \in Made \cup {NoDept}
  /\ dept' = [dept EXCEPT ![d].row = "stored", ![d].up = up]
  /\ behind' = ((IF Follows(d, up) THEN behind \ {d} ELSE behind \cup {d})
                  \cup {x \in Made \ {d} : d \in Line(x)})
  /\ UNCHANGED item

\* Only the department's own path is worked out anew.  A deleted department
\* is stored again, or its key refuses it.
Update(d, up) ==
  /\ d \in Made
  /\ up \in Made \cup {NoDept}
  /\ dept' = [dept EXCEPT ![d] = [row |-> "stored", up |-> up, path |-> Path(d, up)]]
  /\ behind' = ((IF Follows(d, up) THEN behind \ {d} ELSE behind \cup {d})
                  \cup {x \in Made \ {d} : d \in Line(x)})
  /\ UNCHANGED item

Remove(d) ==
  /\ d \in Stored
  /\ dept' = [dept EXCEPT ![d].row = "deleted"]
  /\ UNCHANGED <<item, behind>>

\* The tree of the pages: what the departments without a parent reach.
SetDeptTree ==
  LET closed == {down \in SUBSET Stored :
                   \A d \in Stored : dept[d].up \in down \cup {NoDept} => d \in down}
  IN {d \in Stored : \A down \in closed : d \in down}

-----------------------------------------------------------------------------
(* The rows.  The department of a user is NoDept when he has none. *)

\* The subquery on sys_dept sees deleted departments.
DeptPermission(user, d) == user = NoDept \/ (d \in Depts /\ user \in dept[d].path)

Is(kind) == item.kind = kind /\ item.row = "stored"
Scoped(user, kind) == Is(kind) /\ DeptPermission(user, item.dept)

SearchProjects(user) == Scoped(user, "project")
SetProjectRobots(user) == Scoped(user, "project")
SetProjectConcurrency(user) == Scoped(user, "project")
SearchProjectsOfSeat(user) == Scoped(user, "project")
GetOrderList(user) == Scoped(user, "order")
GetOrderDetail(user) == Scoped(user, "order")
ExportOrders(user) == Scoped(user, "order")
SearchExportTask(user) == Scoped(user, "export")
SearchRobots(user) == Is("robot")
UpdateRobot(user) == Scoped(user, "robot")

\* Groups are not deleted with their orders.
SearchOrderGroup(user) ==
  item.kind = "order" /\ item.row # "none" /\ DeptPermission(user, item.dept)

\* For user 0 the pattern asks for the 0 that paths begin with.
GetSeatList(user) == Is("user") /\ item.dept \in Depts /\ user \in dept[item.dept].path

\* The list joins orders as gorm does, without the deleted ones; the detail
\* page joins all.
SearchCallHistory(user) == item.called /\ (user = NoDept \/ Scoped(user, "order"))
ExportCallHistory(user) == item.called /\ (user = NoDept \/ Scoped(user, "order"))
GetCallDetail(user) == item.called /\ DeptPermission(user, item.dept)

Create(kind, d) ==
  /\ item.row = "none"
  /\ d \in Made \cup {NoDept}
  /\ item' = [kind |-> kind, row |-> "stored", dept |-> d, called |-> FALSE]
  /\ UNCHANGED <<dept, behind>>

CreateProject(d) == Create("project", d)
UploadOrderGroupAndCreateOrders(d) == Create("order", d)
CreateRobot(d) == Create("robot", d)
AsyncExportCallHistory(user) == Create("export", user)
CreateUser(d) == Create("user", d)

Delete(user, kind) ==
  /\ Scoped(user, kind)
  /\ item' = [item EXCEPT !.row = "deleted"]
  /\ UNCHANGED <<dept, behind>>

DeleteProject(user) == Delete(user, "project")
DeleteOrder(user) == Delete(user, "order")
DeleteRobot(user) == Delete(user, "robot")

\* PushOrder makes a call for an order.
PushOrder ==
  /\ Is("order")
  /\ item' = [item EXCEPT !.called = TRUE]
  /\ UNCHANGED <<dept, behind>>

-----------------------------------------------------------------------------
Next ==
  \/ \E d \in Depts : Remove(d) \/ \E up \in Depts \cup {NoDept} : Insert(d, up) \/ Update(d, up)
  \/ \E d \in Depts \cup {NoDept} :
       \/ CreateProject(d) \/ UploadOrderGroupAndCreateOrders(d) \/ CreateRobot(d)
       \/ AsyncExportCallHistory(d) \/ CreateUser(d)
       \/ DeleteProject(d) \/ DeleteOrder(d) \/ DeleteRobot(d)
  \/ PushOrder

Spec == Init /\ [][Next]_vars

-----------------------------------------------------------------------------
(* Properties. *)

Listed(user) ==
  \/ SearchProjects(user) \/ GetOrderList(user) \/ SearchExportTask(user)
  \/ GetSeatList(user)

\* However departments are saved, moved and deleted: a row of a department
\* whose path is not behind is listed to exactly the departments on the line
\* above it and itself; saving a department puts those below it behind until
\* they are saved again, from the top.  What a user may change or open he
\* finds in a list, but for the calls of deleted orders.
ScopeFollowsTree ==
  /\ \A d \in Made \ behind : dept[d].path = Line(d)
  /\ LET tree == SetDeptTree IN
       \A d \in tree \ behind : dept[d].path \subseteq tree \cup {NoDept}
  /\ item.row = "stored" /\ item.kind # "robot" /\ item.dept \in Made \ behind =>
       {user \in Depts : Listed(user)} = dept[item.dept].path \ {NoDept}
  /\ \A user \in Depts \cup {NoDept} :
       /\ SetProjectRobots(user) \/ SetProjectConcurrency(user) \/ SearchProjectsOfSeat(user)
            => SearchProjects(user)
       /\ GetOrderDetail(user) \/ ExportOrders(user) => GetOrderList(user)
       /\ GetOrderList(user) => SearchOrderGroup(user)
       /\ UpdateRobot(user) => SearchRobots(user)
       /\ ExportCallHistory(user) => SearchCallHistory(user)
       /\ GetCallDetail(user) /\ item.row = "stored" => SearchCallHistory(user)

=============================================================================
