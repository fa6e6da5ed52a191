------------------------------ MODULE CronJobs ------------------------------
(***************************************************************************)
(* The scheduled jobs of the administration service (app/jobs): rows of    *)
(* sys_job that name an entry of the scheduler, and the scheduler in the   *)
(* memory of one process, which numbers its entries from 1.                *)
(*                                                                         *)
(* When the process starts, setup lists the enabled jobs, clears the       *)
(* numbers of the last process and starts the jobs one by one, while pages *)
(* already start, stop and edit jobs.  A page that saves a job sends the   *)
(* number it loaded.  A stop gives up after a second and leaves the        *)
(* removal to itself.                                                      *)
(*                                                                         *)
(* A number carries the process that gave it as history: the code compares *)
(* the numbers alone.  Jobs are of type 1 or 2, as the pages offer; edits  *)
(* of what a job does are left out.                                        *)
(***************************************************************************)
EXTENDS Integers, FiniteSets

CONSTANTS
  Jobs,        \* ids of sys_job
  ExecJobs,    \* those of type 2
  MaxEntries,  \* bound: entries a process starts
  MaxRestarts, \* bound: restarts of the process
  MaxRemovals  \* bound: removals under way

VARIABLES
  job,       \* sys_job
  cron,      \* entries of the scheduler, [id, job]
  next,      \* its next number
  process,   \* history: which process this is
  setup,     \* where setup is
  request,   \* a start or stop being served
  removing,  \* removals under way
  page       \* a job as a page loaded it

vars == <<job, cron, next, process, setup, request, removing, page>>

-----------------------------------------------------------------------------
None == [id |-> 0, process |-> 0]
Number == [id : 0..MaxEntries, process : 0..MaxRestarts]
Idle == [at |-> "idle"]

Row(row, enabled, entry) == [row |-> row, enabled |-> enabled, entry |-> entry]
Stored == {j \in Jobs : job[j].row = "stored"}

Init ==
  /\ job = [j \in Jobs |-> Row("none", FALSE, None)]
  /\ cron = {}
  /\ next = 1
  /\ process = 0
  /\ setup = [at |-> "list"]
  /\ request = Idle
  /\ removing = {}
  /\ page = Idle

\* addJob; a cron expression that cannot be read gives no entry.
AddJob(j, number) ==
  \/ /\ next <= MaxEntries
     /\ cron' = cron \cup {[id |-> next, job |-> j]}
     /\ next' = next + 1
     /\ number = [id |-> next, process |-> process]
  \/ /\ number = None
     /\ UNCHANGED <<cron, next>>

\* Updates leaves columns alone whose new value is zero.
Enter(j, number) ==
  IF j \in Stored /\ number # None
  THEN [job EXCEPT ![j].entry = number] ELSE job

-----------------------------------------------------------------------------
(* setup, and the process it belongs to. *)

GetList ==
  /\ setup.at = "list"
  /\ setup' = [at |-> "clear", jobs |-> {j \in Stored : job[j].enabled}]
  /\ UNCHANGED <<job, cron, next, process, request, removing, page>>

\* The loop writes each number with the one struct sysJob.
RemoveAllEntryID ==
  /\ setup.at = "clear"
  /\ job' = [j \in Jobs |-> IF j \in Stored THEN [job[j] EXCEPT !.entry = None]
                            ELSE job[j]]
  /\ setup' = [at |-> "add", jobs |-> setup.jobs, number |-> None]
  /\ UNCHANGED <<cron, next, process, request, removing, page>>

\* Slip: jobs of type 2 do not take the number of their own entry.
SetupAddKeep ==
  /\ setup.at = "add"
  /\ \E j \in setup.jobs, n \in Number :
       /\ AddJob(j, n)
       /\ setup' = [at |-> "save", jobs |-> setup.jobs \ {j}, job |-> j,
                    number |-> IF j \in ExecJobs THEN setup.number ELSE n]
  /\ UNCHANGED <<job, process, request, removing, page>>

SetupAdd ==
  /\ setup.at = "add"
  /\ \E j \in setup.jobs, n \in Number :
       /\ AddJob(j, n)
       /\ setup' = [at |-> "save", jobs |-> setup.jobs \ {j}, job |-> j,
                    number |-> n]
  /\ UNCHANGED <<job, process, request, removing, page>>

SetupSave ==
  /\ setup.at = "save"
  /\ job' = Enter(setup.job, setup.number)
  /\ setup' = [at |-> "add", jobs |-> setup.jobs, number |-> setup.number]
  /\ UNCHANGED <<cron, next, process, request, removing, page>>

Restart ==
  /\ process < MaxRestarts
  /\ process' = process + 1
  /\ cron' = {} /\ next' = 1
  /\ setup' = [at |-> "list"]
  /\ request' = Idle /\ removing' = {}
  /\ UNCHANGED <<job, page>>

-----------------------------------------------------------------------------
(* StartJob writes back the row it read, with the new number. *)

StartJobRead(j) ==
  /\ request = Idle
  /\ j \in Stored /\ job[j].enabled
  /\ request' = [at |-> "add", job |-> j]
  /\ UNCHANGED <<job, cron, next, process, setup, removing, page>>

StartJobAdd ==
  /\ request.at = "add"
  /\ \E n \in Number :
       /\ AddJob(request.job, n)
       /\ request' = IF n = None THEN Idle
                     ELSE [at |-> "save", job |-> request.job, number |-> n]
  /\ UNCHANGED <<job, process, setup, removing, page>>

StartJobSave ==
  /\ request.at = "save"
  /\ job' = IF request.job \in Stored
            THEN [job EXCEPT ![request.job] = Row("stored", TRUE, request.number)]
            ELSE job
  /\ request' = Idle
  /\ UNCHANGED <<cron, next, process, setup, removing, page>>

-----------------------------------------------------------------------------
(* RemoveJob hands the removal to a goroutine and waits a second for it.   *)

RemoveJobRead(j) ==
  /\ request = Idle
  /\ j \in Stored
  /\ Cardinality(removing) < MaxRemovals
  /\ LET r == [job |-> j, entry |-> job[j].entry] IN
       /\ request' = [at |-> "wait", remove |-> r]
       /\ removing' = removing \cup {r}
  /\ UNCHANGED <<job, cron, next, process, setup, page>>

Remove(r) ==
  /\ r \in removing
  /\ cron' = {e \in cron : e.id # r.entry.id}
  /\ removing' = removing \ {r}
  /\ UNCHANGED <<job, next, process, setup, request, page>>

\* Every row with the number loses it.
RemoveJobSave ==
  /\ request.at = "wait"
  /\ request.remove \notin removing
  /\ job' = [j \in Jobs |->
       IF j \in Stored /\ job[j].entry.id = request.remove.entry.id
       THEN [job[j] EXCEPT !.entry = None] ELSE job[j]]
  /\ request' = Idle
  /\ UNCHANGED <<cron, next, process, setup, removing, page>>

RemoveJobTimeout ==
  /\ request.at = "wait"
  /\ request' = Idle
  /\ UNCHANGED <<job, cron, next, process, setup, removing, page>>

-----------------------------------------------------------------------------
(* The pages of the jobs. *)

CreateAction(j, enabled) ==
  /\ job[j].row = "none"
  /\ job' = [job EXCEPT ![j] = Row("stored", enabled, None)]
  /\ UNCHANGED <<cron, next, process, setup, request, removing, page>>

ViewAction(j) ==
  /\ j \in Stored
  /\ page' = [at |-> "shown", job |-> j, entry |-> job[j].entry]
  /\ UNCHANGED <<job, cron, next, process, setup, request, removing>>

\* The entry goes on running as it was started.
UpdateAction(enabled) ==
  /\ page # Idle
  /\ job' = IF page.job \in Stored
            THEN [Enter(page.job, page.entry) EXCEPT ![page.job].enabled = enabled]
            ELSE job
  /\ page' = Idle
  /\ UNCHANGED <<cron, next, process, setup, request, removing>>

\* The entry goes on running without a row.
DeleteAction(j) ==
  /\ j \in Stored
  /\ job' = [job EXCEPT ![j] = Row("deleted", FALSE, None)]
  /\ UNCHANGED <<cron, next, process, setup, request, removing, page>>

-----------------------------------------------------------------------------
Next ==
  \/ GetList \/ RemoveAllEntryID \/ SetupAdd \/ SetupSave \/ Restart
  \/ StartJobAdd \/ StartJobSave \/ RemoveJobSave \/ RemoveJobTimeout
  \/ \E r \in removing : Remove(r)
  \/ \E j \in Jobs : \/ StartJobRead(j) \/ RemoveJobRead(j)
                     \/ ViewAction(j) \/ DeleteAction(j)
                     \/ \E enabled \in BOOLEAN : CreateAction(j, enabled)
  \/ \E enabled \in BOOLEAN : UpdateAction(enabled)

Spec == Init /\ [][Next]_vars

-----------------------------------------------------------------------------
(* Properties. *)

\* Stopping one job stops no other: an entry disappears by a request that
\* read its number from its own job's row, unless the number is one of an
\* earlier process, read before setup cleared it or brought back by a page.
NeverStopsAnother ==
  [][process' = process =>
       \A e \in cron \ cron' :
         \E r \in removing :
           /\ r.entry.id = e.id
           /\ r.job = e.job \/ r.entry.process # process]_vars

=============================================================================
