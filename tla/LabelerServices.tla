--------------------------- MODULE LabelerServices ---------------------------
(***************************************************************************)
(* The services of the labeler that share no state of these modules, the   *)
(* scheduler of the administration service and the handlers of requests,   *)
(* side by side: the life of the tasks with the lists and counts made of   *)
(* it, the pages that go through tasks, the work credited to a save, the   *)
(* folders and projects, the scheduled jobs, the handlers.  As in          *)
(* ScrmServices a behaviour is that of one of them, which Init chooses.    *)
(***************************************************************************)
EXTENDS TaskCounts, TaskPages

CONSTANTS
  Services,  \* the components that are checked
  Letters, MaxOutput, MaxNote,
  Editions, Folders, Top,
  Jobs, ExecJobs, MaxEntries, MaxRestarts, MaxRemovals,
  Roles, Managers, Admins, NoRole

VARIABLES
  service,
  model, copy, save,
  edition, folder, project, form, cut,
  job, cron, next, process, setup, serving, removing, page,
  role, token, asked, answers, held

Work == INSTANCE Workload
Space == INSTANCE Workspace
Cron == INSTANCE CronJobs WITH request <- serving
Http == INSTANCE HttpHandlers WITH request <- asked

workVars == <<model, copy, save>>
spaceVars == <<edition, folder, project, form, cut>>
cronVars == <<job, cron, next, process, setup, serving, removing, page>>
httpVars == <<role, token, asked, answers, held>>
allVars == <<service, vars, pageVars, workVars, spaceVars, cronVars, httpVars>>

ASSUME ServicesAssumption ==
  /\ PagesAssumption /\ Work!WorkloadAssumption
  /\ Space!WorkspaceAssumption /\ Http!HandlersAssumption

-----------------------------------------------------------------------------
\* A component that is not chosen begins in one way only.
ServicesInit ==
  /\ service \in Services
  /\ Init /\ (service # "tasks" => version = CHOOSE v \in Versions : TRUE)
  /\ PageInit
  /\ Work!Init /\ (service # "work" => model = <<>>)
  /\ Space!Init /\ (service # "folders" => edition = CHOOSE e \in Editions : TRUE)
  /\ Cron!Init
  /\ Http!Init /\ (service # "http" => role = CHOOSE r \in Roles : TRUE)

TasksNext ==
  /\ service = "tasks" /\ Next
  /\ UNCHANGED <<service, pageVars, workVars, spaceVars, cronVars, httpVars>>
PagesNext ==
  /\ service = "pages" /\ PageNext
  /\ UNCHANGED <<service, vars, workVars, spaceVars, cronVars, httpVars>>
WorkNext ==
  /\ service = "work" /\ Work!Next
  /\ UNCHANGED <<service, vars, pageVars, spaceVars, cronVars, httpVars>>
SpaceNext ==
  /\ service = "folders" /\ Space!Next
  /\ UNCHANGED <<service, vars, pageVars, workVars, cronVars, httpVars>>
CronNext ==
  /\ service = "jobs" /\ Cron!Next
  /\ UNCHANGED <<service, vars, pageVars, workVars, spaceVars, httpVars>>
HttpNext ==
  /\ service = "http" /\ Http!Next
  /\ UNCHANGED <<service, vars, pageVars, workVars, spaceVars, cronVars>>

ServicesNext ==
  TasksNext \/ PagesNext \/ WorkNext \/ SpaceNext \/ CronNext \/ HttpNext

ServicesSpec == ServicesInit /\ [][ServicesNext]_allVars

-----------------------------------------------------------------------------
(* The properties of the other components; their modules say what they are *)
(* about.  Those of the tasks are the extended modules' own.               *)

\* A save credits exactly the letters written (UpdateTask5, task5.go:497).
CreditsWritten == Work!CreditsWritten

\* The tree of folders shows all but what is cut off (FolderTree, folder.go:30).
TreeReachesAll == service = "folders" => Space!TreeReachesAll

\* Stopping a job stops no other (RemoveJob, jobs/service/sys_job.go:20).
NeverStopsAnother == Cron!NeverStopsAnother

\* A request reaches its service only as allowed (labeler/api, scrm/api, admin/apis).
ServedAsAllowed == service = "http" => Http!ServedAsAllowed

=============================================================================
