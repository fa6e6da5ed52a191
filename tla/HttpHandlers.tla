---------------------------- MODULE HttpHandlers ----------------------------
(***************************************************************************)
(* Requests to the pages of the labeler, the call centre and the           *)
(* administration.  The guards of a route look at the user's token and     *)
(* role (common/middleware/permission.go, common/actions/permission.go);   *)
(* the handler checks rights, reads the request, refuses what is wrong or  *)
(* missing, fills in who asks, calls the service and answers.  What the    *)
(* services do is the matter of the other modules.                         *)
(*                                                                         *)
(* One user with one session, whose role the administration may change at  *)
(* any time.  His token names the role he had at login; PermissionAction   *)
(* finds the one he has.                                                   *)
(***************************************************************************)
EXTENDS Naturals, Sequences

CONSTANTS
  Roles,     \* rows of sys_role
  Managers,  \* those whose data scope is 1 or 2
  Admins,    \* those marked admin
  NoRole     \* what PermissionAction leaves if it finds no database or no user

HandlersAssumption ==
  Managers \subseteq Roles /\ Admins \subseteq Roles /\ NoRole \notin Roles

VARIABLES
  role,     \* sys_user: the role of the user
  token,    \* the role his token names
  request,  \* the request under way, or the last one
  answers,  \* what has been answered to it
  held      \* history: the roles of the user since the request came

vars == <<role, token, request, answers, held>>

-----------------------------------------------------------------------------
(* The handlers: the guards of the route, whose requests are taken (right), *)
(* what becomes of a request that cannot be read, the fields that must be   *)
(* right, what is filled in rather than read, and the failures that are     *)
(* logged without an answer (silent).                                       *)

Open ==
  [guards |-> <<>>, right |-> "anyone", unreadable |-> "refused", needs |-> {},
   signs |-> {}, silent |-> {}]
Plain == [Open EXCEPT !.guards = <<"PermissionAction">>]
Admin == [Open EXCEPT !.guards = <<"AuthCheckRole">>]
AdminInScope == [Open EXCEPT !.guards = <<"AuthCheckRole", "PermissionAction">>]

Whole(h) == [h EXCEPT !.unreadable = "never"]
NoInput == Whole(Plain)
Needing(fields) == [Plain EXCEPT !.needs = fields]
OpenNeeding(fields) == [Open EXCEPT !.needs = fields]

\* What cannot be read is refused and, without a return, served as read so far.
Blindly(h) == [h EXCEPT !.unreadable = "served"]
ById == Blindly(Needing({"id"}))

ByToken(h) == [h EXCEPT !.signs = @ \cup {"token"}]
AsUser(h) == [h EXCEPT !.signs = @ \cup {"user"}]
InScope(h) == [h EXCEPT !.signs = @ \cup {"user", "scope"}]
InDept(h) == [h EXCEPT !.signs = @ \cup {"dept"}]
ForManagers(h) == [h EXCEPT !.right = "manager"]
ForAdmins(h) == [h EXCEPT !.right = "admin"]
ForKnown(h) == [h EXCEPT !.right = "known"]
Mute(h, failures) == [h EXCEPT !.silent = failures]

Download == Needing({"project", "status"})

(* labeler/api, by file. *)
TaskFiles == [
  UploadTask |-> Plain,
  LabelTask |-> ByToken(Needing({"id"})),
  SearchTask |-> InScope(Plain),
  GetTask |-> Plain]
TaskSharing == [
  AllocateTasks |-> Needing({"project"}),
  ModelParse |-> Needing({"modelURL"}),
  ResetTasks |-> ForManagers(Needing({"project"})),
  CheckTask |-> ByToken(Needing({"id"})),
  CommentTask |-> ByToken(Needing({"id"})),
  AllocateCheckTasks |-> ForAdmins(Plain)]
TaskOwn == [
  SearchMyTask |-> AsUser(Plain),
  DownloadTask |-> Download,
  DeleteTask |-> ById]

Task2Sharing == [
  UploadTask |-> Plain,
  SearchTask |-> InScope(Plain),
  BatchAllocLabeler |-> Needing({"project"}),
  BatchAllocChecker |-> ForAdmins(Plain)]
Task2Work == [
  ResetTasks |-> ForManagers(Needing({"project"})),
  UpdateTask |-> InScope(Needing({"id"})),
  BatchSetTaskStatus |-> InScope(Plain),
  SearchMyTask |-> AsUser(Plain),
  DeleteTask |-> ById,
  DownloadTask |-> Download]

Task3Sharing == [n \in DOMAIN Task2Sharing \ {"BatchAllocChecker"} |-> Task2Sharing[n]]
Task3Work ==
  [n \in DOMAIN Task2Work \cup {"GetTask"} |->
     IF n = "GetTask" THEN ById ELSE Task2Work[n]]

Task4Sharing == [
  UploadTask |-> Plain,
  SearchTask |-> InScope(Plain),
  BatchAllocLabeler |-> Needing({"project"}),
  ResetTasks |-> ForManagers(Needing({"project", "statuses", "persons", "type"}))]
Task4Work == [
  UpdateTask |-> InScope(Needing({"id"})),
  BatchSetTaskStatus |-> InScope(Needing({"type"})),
  SearchMyTask |-> AsUser(Needing({"type"})),
  DeleteTask |-> ById,
  DownloadTask |-> Download,
  GetTask |-> InScope(Needing({"id", "type"}))]
Task4Rest == [
  BatchAllocChecker |-> Needing({"project"}),
  SearchMyTaskCount |-> AsUser(Needing({"type"}))]

Task5Sharing == [
  UploadTask |-> Plain,
  SearchTask |-> InScope(Plain),
  AllocOneTask |-> AsUser(Needing({"project"})),
  ResetTasks |-> Task4Sharing.ResetTasks]
Task5Work == Task4Work
Task5Rest == [
  SearchMyTaskCount |-> AsUser(Needing({"type"})),
  GetActionTags |-> NoInput,
  DownloadScore |-> Plain,
  DownloadWorkload |-> Plain,
  ProportionalScoring |-> Plain,
  SearchTaskCount |-> Plain,
  BatchAllocChecker |-> Needing({"project"})]

Task6Sharing == Task4Sharing
Task6Work == Task4Work
Task6Rest == [SearchMyTaskCount |-> AsUser(Needing({"type"}))]

FolderPages == [
  CreateFolder |-> Needing({"name"}),
  UpdateFolder |-> Needing({"id", "name"}),
  DeleteFolder |-> ById,
  GetFolders |-> NoInput]
FolderPages2 == FolderPages
FolderPages3 == FolderPages
FolderPages4 == FolderPages
FolderPages5 == FolderPages
FolderPages6 == FolderPages

Projects2 == [
  CreateProject |-> Needing({"folder"}),
  UpdateProject |-> Plain,
  DeleteProject |-> Plain,
  SearchProject |-> Plain,
  ProjectCount |-> Needing({"id"})]
Projects ==
  [n \in DOMAIN Projects2 \cup {"ProjectDetail"} |->
     IF n = "ProjectDetail" THEN Plain ELSE Projects2[n]]
Projects3 == Projects2
Projects4 == Projects2
Projects5 == Projects2
Projects6 == Projects2

Schemas == [
  CreateSchema |-> Needing({"name"}),
  UpdateSchema |-> Needing({"id", "name"}),
  DeleteSchema |-> ById,
  GetSchema |-> NoInput]
UserPages == [GetUserList |-> NoInput]

Labeler ==
  {TaskFiles, TaskSharing, TaskOwn, Task2Sharing, Task2Work, Task3Sharing,
   Task3Work, Task4Sharing, Task4Work, Task4Rest, Task5Sharing, Task5Work,
   Task5Rest, Task6Sharing, Task6Work, Task6Rest, FolderPages, FolderPages2,
   FolderPages3, FolderPages4, FolderPages5, FolderPages6, Projects, Projects2,
   Projects3, Projects4, Projects5, Projects6, Schemas, UserPages}

(* scrm/api, by file.  SeatHandleWs is not here: SeatHub has it. *)
ScrmProjects == [
  SearchProjects |-> Plain,
  CreateProject |-> ByToken(Plain),
  DeleteProject |-> ByToken(Needing({"id"})),
  GetProjectDetail |-> Needing({"id"}),
  GetSeatDetailOfProject |-> Needing({"id"}),
  UnlockProjectSeat |-> Plain,
  RunProject |-> ByToken(Needing({"id"})),
  SetProjectSeats |-> ByToken(Needing({"id"}))]
ScrmProjectRobots == [
  SetProjectRobots |-> ByToken(Needing({"id", "robots"})),
  SetProjectConcurrency |-> Plain]
Calls == [
  SearchCallHistory |-> Plain,
  GetCallDetail |-> Needing({"id"}),
  UpdateCall |-> Plain,
  ModelUpdateCallLabel |-> Open,
  ModelUpdateCallSwitchTime |-> Open,
  ExportCallHistory |-> Plain,
  AsyncExportCallHistory |-> Plain,
  ReportModelCallHistory |-> OpenNeeding({"call", "project"})]
Orders == [
  UploadOrderGroup |-> ForKnown(InDept(ByToken(Needing({"file", "project"})))),
  SearchOrderGroup |-> Plain,
  GetOrderList |-> Plain,
  GetOrderDetail |-> Needing({"id"}),
  DeleteOrder |-> Needing({"id"}),
  ExportOrders |-> Plain]
Robots == [
  CreateRobot |-> InDept(ByToken(Plain)),
  DeleteRobot |-> Needing({"id"}),
  UpdateRobot |-> ByToken(Needing({"id"})),
  SearchRobots |-> Plain,
  GetRobot |-> Needing({"id"})]
Seats == [
  CreateSeat |-> Plain,
  GetSeatList |-> InDept(Plain),
  DelSeat |-> Needing({"id"}),
  SetSeat |-> Plain]
SeatsOfProjects == [
  LockSeat |-> Open,
  GetSeatListOfProject |-> Open,
  UnlockSeat |-> Open,
  SearchProjectsOfSeat |-> AsUser(NoInput),
  SetSeatPreReady |-> AsUser(NoInput)]
ExportTasks == [SearchExportTask |-> Plain, ExportTaskFile |-> Needing({"id"})]
LabelPages == [GetLabels |-> NoInput]
Phones == [ExportNotConsumedPhone |-> Needing({"files"})]
VersionPages == [GetVersion |-> Whole(Open)]
WeCom == [
  BindSeatAndWeCom |-> Blindly(Plain),
  AddFriend |-> Blindly(Plain),
  SearchBindStatus |-> NoInput]

Scrm ==
  {ScrmProjects, ScrmProjectRobots, Calls, Orders, Robots, Seats,
   SeatsOfProjects, ExportTasks, LabelPages, Phones, VersionPages, WeCom}

(* admin/apis, by file: the handlers that have a route.  Each looks for its  *)
(* database while it reads, so each may refuse.  Update2DataScope signs a    *)
(* row it does not save.                                                     *)
SysApis == [
  GetPage |-> Admin,
  Get |-> Admin,
  Update |-> Mute(ByToken(Admin), {"refused"})]
SysConfigs == [
  GetPage |-> Mute(Admin, {"refused"}),
  Get |-> Admin,
  Insert |-> ByToken(Admin),
  Update |-> ByToken(Admin),
  Delete |-> ByToken(Admin)]
SysConfigPages == [
  Get2SysApp |-> Mute(Open, {"refused"}),
  Get2Set |-> Open,
  Update2Set |-> Open,
  GetSysConfigByKEYForService |-> Open]
SysDepts == [
  GetPage |-> Admin,
  Get |-> Admin,
  Insert |-> ByToken(Admin),
  Update |-> ByToken(Admin)]
SysDeptTrees == [
  Delete |-> Admin,
  Get2Tree |-> Open,
  GetDeptTreeRoleSelect |-> Admin]
SysDictData == [
  GetPage |-> Admin,
  Get |-> Admin,
  Insert |-> ByToken(Admin),
  Update |-> ByToken(Admin)]
SysDictDataRest == [Delete |-> ByToken(Admin), GetAll |-> Admin]
SysDictTypes == [
  GetPage |-> Admin,
  Get |-> Admin,
  Insert |-> ByToken(Admin),
  Update |-> Mute(ByToken(Admin), {"failed"})]
SysDictTypesRest == [Delete |-> ByToken(Admin), GetAll |-> Admin]
SysLoginLogs == [GetPage |-> Admin, Get |-> Admin, Delete |-> Admin]
SysMenus == [
  GetPage |-> Admin,
  Get |-> Admin,
  Insert |-> ByToken(Admin),
  Update |-> ByToken(Admin)]
SysMenuTrees == [
  Delete |-> Admin,
  GetMenuRole |-> ByToken(Open),
  GetMenuTreeSelect |-> Admin]
SysOperaLogs == [GetPage |-> Admin, Get |-> Admin, Delete |-> Admin]
SysPosts == [
  GetPage |-> Admin,
  Get |-> Admin,
  Insert |-> ByToken(Admin),
  Update |-> ByToken(Admin)]
SysPostsRest == [Delete |-> ByToken(Admin)]
SysRoles == [
  GetPage |-> Admin,
  Get |-> Admin,
  Insert |-> ByToken(Admin)]
SysRoleChanges == [
  Update |-> Mute(ByToken(Admin), {"failed"}),
  Delete |-> Admin,
  Update2Status |-> ByToken(Open),
  Update2DataScope |-> Open]
SysUsers == [
  GetPage |-> InScope(AdminInScope),
  Get |-> InScope(AdminInScope),
  Insert |-> ByToken(AdminInScope),
  Update |-> Mute(ByToken(InScope(AdminInScope)), {"failed"})]
SysUserChanges == [
  Delete |-> Mute(ByToken(InScope(AdminInScope)), {"failed"}),
  InsetAvatar |-> Mute(InScope(AdminInScope), {"failed"}),
  UpdateStatus |-> Mute(ByToken(InScope(AdminInScope)), {"failed"})]
SysUserPasswords == [
  ResetPwd |-> Mute(ByToken(InScope(AdminInScope)), {"failed"}),
  UpdatePwd |-> ByToken(InScope(AdminInScope))]
SysUserSelf == [
  GetProfile |-> ByToken(AdminInScope),
  GetInfo |-> ByToken(Open)]
Captcha == [GenerateCaptchaHandler |-> Open]

Administration ==
  {SysApis, SysConfigs, SysConfigPages, SysDepts, SysDeptTrees, SysDictData,
   SysDictDataRest, SysDictTypes, SysDictTypesRest, SysLoginLogs, SysMenus,
   SysMenuTrees, SysOperaLogs, SysPosts, SysPostsRest, SysRoles,
   SysRoleChanges, SysUsers, SysUserChanges, SysUserPasswords, SysUserSelf,
   Captcha}

Handlers == Labeler \cup Scrm \cup Administration

-----------------------------------------------------------------------------
Init ==
  /\ role \in Roles /\ token = role
  /\ request = [at |-> "idle"]
  /\ answers = <<>> /\ held = {}

Idle == request.at \in {"idle", "done"}
Guarded(g) == request.at = "guards" /\ request.ahead # <<>> /\ Head(request.ahead) = g
Past(found) == [request EXCEPT !.ahead = Tail(@), !.found = found]
Done(blind) == [at |-> "done", blind |-> blind, silent |-> request.h.silent]

\* SysUser.Update: the administration gives the user another role.
ChangeRole ==
  /\ \E r \in Roles \ {role} : role' = r /\ held' = IF Idle THEN held ELSE held \cup {r}
  /\ UNCHANGED <<token, request, answers>>

\* A new token names the role as it is.
Login ==
  /\ Idle /\ token' = role
  /\ UNCHANGED <<role, request, answers, held>>

Flaws(h) ==
  {"none"} \cup (IF h.needs = {} THEN {} ELSE {"missing"})
           \cup (IF h.unreadable = "never" THEN {} ELSE {"unreadable"})

Receive ==
  /\ Idle
  /\ \E table \in Handlers : \E name \in DOMAIN table :
       LET h == table[name] IN
       \E flaw \in Flaws(h) :
         request' = [at |-> "guards", ahead |-> h.guards, name |-> name, h |-> h,
                     flaw |-> flaw, found |-> NoRole]
  /\ answers' = <<>> /\ held' = {role}
  /\ UNCHANGED <<role, token>>

\* A guard that answers ends the request.
Stop ==
  /\ answers' = Append(answers, "refused") /\ request' = Done(FALSE)

\* The policies of the token's role allow the page or not.
AuthCheckRole ==
  /\ Guarded("AuthCheckRole")
  /\ \/ request' = Past(NoRole) /\ UNCHANGED answers
     \/ Stop
  /\ UNCHANGED <<role, token, held>>

\* Slip: the role is taken from the token.
PermissionActionByToken ==
  /\ Guarded("PermissionAction")
  /\ \/ request' = Past(token) /\ UNCHANGED answers
     \/ Stop
  /\ UNCHANGED <<role, token, held>>

\* The role of the user now; none if the request has no database or the user
\* is gone: the request goes on.  A query that fails ends it.
PermissionAction ==
  /\ Guarded("PermissionAction")
  /\ \/ \E found \in {role, NoRole} : request' = Past(found) /\ UNCHANGED answers
     \/ Stop
  /\ UNCHANGED <<role, token, held>>

Admitted ==
  CASE request.h.right = "anyone" -> TRUE
    [] request.h.right = "manager" -> request.found \in Managers
    [] request.h.right = "admin" -> token \in Admins
    [] request.h.right = "known" -> request.found # NoRole

Flawed ==
  \/ request.flaw = "missing"
  \/ request.flaw = "unreadable" /\ request.h.unreadable = "refused"

\* Who the service is told asks, and with which scope.
Signed(signs) ==
  IF signs = {} THEN "client"
  ELSE IF "token" \notin signs /\ request.found = NoRole THEN "nobody" ELSE "bearer"

\* An admin's right is read from the database, which may fail.
Refuse ==
  /\ ~Admitted \/ Flawed \/ request.h.right = "admin"
  /\ answers' = IF "refused" \in request.h.silent THEN answers
                ELSE Append(answers, "refused")
  /\ request' = Done(FALSE)

Call ==
  /\ Admitted /\ ~Flawed
  /\ answers' = IF request.flaw = "unreadable" THEN Append(answers, "refused")
                ELSE answers
  /\ request' = [at |-> "service", name |-> request.name, h |-> request.h,
                 flaw |-> request.flaw, user |-> Signed(request.h.signs),
                 scope |-> IF "scope" \in request.h.signs THEN request.found
                           ELSE NoRole]

Handle ==
  /\ request.at = "guards" /\ request.ahead = <<>>
  /\ Refuse \/ Call
  /\ UNCHANGED <<role, token, held>>

\* The service returns and the handler answers.
Answer ==
  /\ request.at = "service"
  /\ \E outcome \in {"done", "failed"} :
       answers' = IF outcome \in request.h.silent THEN answers
                  ELSE Append(answers, outcome)
  /\ request' = Done(request.flaw = "unreadable")
  /\ UNCHANGED <<role, token, held>>

Next ==
  ChangeRole \/ Login \/ Receive \/ AuthCheckRole \/ PermissionAction \/ Handle \/ Answer

Spec == Init /\ [][Next]_vars

-----------------------------------------------------------------------------
\* What people do in their own name.
Personal ==
  {"LabelTask", "CheckTask", "CommentTask", "UpdateTask", "BatchSetTaskStatus",
   "SearchMyTask", "SearchMyTaskCount", "AllocOneTask", "SearchProjectsOfSeat",
   "SetSeatPreReady", "InsetAvatar", "UpdatePwd", "GetProfile", "GetInfo"}

\* What is served unread: a missing return after the answer.
Unread ==
  {"DeleteTask", "GetTask", "DeleteFolder", "DeleteSchema", "BindSeatAndWeCom",
   "AddFriend"}

\* A request reaches its service only as allowed.  Tasks are reset for a user who
\* was a manager at some time since the request came, checkers allocated in
\* version 1 for a token of an admin.  What people do in their own name is done
\* in theirs or, without a database, in nobody's, never in one the request gives.
\* Rows are scoped by a role the user had during the request, whatever his token
\* says.  No request is served unread but for six kinds.  Whatever happens, one
\* answer is sent: to those six a refusal and another, and none where a failure
\* is only logged (labeler/api, scrm/api, admin/apis; common/actions/permission.go).
ServedAsAllowed ==
  /\ request.at = "service" =>
       /\ request.name = "ResetTasks" => held \cap Managers # {}
       /\ request.name = "AllocateCheckTasks" => token \in Admins
       /\ request.name \in Personal => request.user \in {"bearer", "nobody"}
       /\ request.scope \in held \cup {NoRole}
       /\ request.flaw # "none" => request.name \in Unread
  /\ request.at = "done" =>
       IF request.blind THEN Len(answers) = 2 /\ answers[1] = "refused"
       ELSE Len(answers) = 1 \/ (request.silent # {} /\ answers = <<>>)
=============================================================================
