---------------------------- MODULE ScrmServices ----------------------------
(***************************************************************************)
(* The services of the call centre side by side.  Each module closes its   *)
(* component with everything the others may do to it (seats and projects   *)
(* in any state they can be in, calls created at any time, columns written *)
(* by others), so that the product of all of them has no step a component  *)
(* cannot take alone.  A behaviour is therefore that of one of them, which *)
(* Init chooses; the rest stay where they begin.                           *)
(***************************************************************************)
EXTENDS OrderPush

CONSTANTS
  Services,  \* the components that are checked
  Conns, Cap, Server,
  Reports, SwitchTime, Users, NoTime,
  Tasks, Unsupported, Stamps, Ids, BatchSize, MaxFailures, NoTask,
  Depts, NoDept

VARIABLES
  service,
  project, agent, run, close,
  seat, registered, closed, buffer, shown, proc, overlap, silent,
  report, reported, row, called, cdr, written,
  rows, task, file, export, began, failures,
  dept, item, behind

Project == INSTANCE ScrmProject
Hub == INSTANCE SeatHub
Call == INSTANCE CallRecord WITH order <- called, pull <- cdr
Export == INSTANCE ExportQueue
Scope == INSTANCE DeptScope

ASSUME ServicesAssumption ==
  /\ PushAssumption /\ Hub!HubAssumption
  /\ Call!RecordAssumption /\ Export!ExportAssumption /\ Scope!DeptAssumption

projectVars == <<project, agent, run, close>>
hubVars == <<seat, registered, closed, buffer, shown, proc, overlap, silent>>
callVars == <<report, reported, row, called, cdr, written>>
exportVars == <<rows, task, file, export, began, failures>>
scopeVars == <<dept, item, behind>>
allVars == <<service, vars, projectVars, hubVars, callVars, exportVars, scopeVars>>

-----------------------------------------------------------------------------
ServicesInit ==
  /\ service \in Services
  /\ Init /\ Project!Init /\ Hub!Init /\ Export!Init /\ Scope!Init
  /\ Call!Init
  /\ service # "call" => report = CHOOSE r \in Reports : TRUE

PushNext ==
  /\ service = "push" /\ Next
  /\ UNCHANGED <<service, projectVars, hubVars, callVars, exportVars, scopeVars>>
ProjectNext ==
  /\ service = "project" /\ Project!Next
  /\ UNCHANGED <<service, vars, hubVars, callVars, exportVars, scopeVars>>
HubNext ==
  /\ service = "hub" /\ Hub!Next
  /\ UNCHANGED <<service, vars, projectVars, callVars, exportVars, scopeVars>>
CallNext ==
  /\ service = "call" /\ Call!Next
  /\ UNCHANGED <<service, vars, projectVars, hubVars, exportVars, scopeVars>>
ExportNext ==
  /\ service = "export" /\ Export!Next
  /\ UNCHANGED <<service, vars, projectVars, hubVars, callVars, scopeVars>>
ScopeNext ==
  /\ service = "scope" /\ Scope!Next
  /\ UNCHANGED <<service, vars, projectVars, hubVars, callVars, exportVars>>

ServicesNext ==
  PushNext \/ ProjectNext \/ HubNext \/ CallNext \/ ExportNext \/ ScopeNext

\* Each component's own fairness, of its own steps.
Fairness ==
  /\ WF_projectVars(service = "project" /\ Project!CloseProject)
  /\ \A c \in Conns : WF_hubVars(service = "hub" /\ Hub!CheckConnOfUser(c))
  /\ WF_exportVars(service = "export" /\ Export!Run)

ServicesSpec == ServicesInit /\ [][ServicesNext]_allVars /\ Fairness

-----------------------------------------------------------------------------
(* The properties of the components; their modules say what they are about. *)
(* Those of the orders are OrderPush's own.                                 *)

\* A running project nobody serves is closed in the end (CloseProject,
\* cti.go:176).
DesertedCloses == Project!DesertedCloses

\* A connection's channel is closed exactly once (deleteClient, seat_ws.go:360).
ClosedOnce == service = "hub" => Hub!ClosedOnce

\* Connections show the state of the store unless updates overlapped, but for
\* what is written without being sent and sent without being written
\* (SendMessage, seat_ws.go:384).
ShownCurrent == service = "hub" => Hub!ShownCurrent

\* A due check of an agent without connections checks the agent out
\* (CheckConnOfUser, seat_ws.go:245).
LeftChecksOut == Hub!LeftChecksOut

\* The row of a call agrees with the reports on it and loses no write
\* (PullCDR, cti.go:420; UpdateDuration, model/call.go:64).
RecordAgrees == service = "call" => Call!RecordAgrees

\* An exported file holds every call of its beginning exactly once
\* (BatchQueryExcludeNull, common/database/batch_query.go:35).
FileComplete == service = "export" => Export!FileComplete

\* A waiting export no unsupported one precedes is done in the end (Run,
\* export_task.go:51).
Exported == Export!Exported

\* Pages list a row to the departments above it whose paths are not behind
\* (Update, sys_dept.go:95; Permission, common/actions/permission.go:97).
ScopeFollowsTree == service = "scope" => Scope!ScopeFollowsTree

=============================================================================
