# TLA+ models of the labeler and SCRM services

The repository holds two services on the go-admin framework: **labeler**, where
people label texts, tables and recorded sessions and others check them
(`app/labeler`, MongoDB), and **scrm**, an outbound call centre (`app/scrm`: SQL
database, Redis, websockets, an external telephone system called CTI). Both serve every request in a
goroutine of its own and keep their state in databases, so a handler is a series
of atomic calls that other handlers interleave with. That is what the modules
here model: **an action is one database (or locked) call; what a handler read
earlier stays in the record of its request.**

Paths below are relative to `src/`. `PROJECT.json` maps each definition to its lines.

## 1. Inventory

### labeler

There are six versions of "task", one per kind of data. Each has a collection of
documents with a status (未分配 `allocate`, 待标注 `labeling`, 已提交 `submit`,
待审核 `checking`, 已审核 `passed`, 审核不通过 `failed`), a labeller and a checker
(`model/task.go`), and the same life cycle with variations.

| part | state | operations | hard behaviour | what makes it correct |
|---|---|---|---|---|
| v1 `service/task.go` | `CollectionTask` | upload, label, check, allocate, reset, status | read, decide, write by `_id` | a status changes only as the table of `TaskStatusCheck` says |
| v2 `task2.go` | `CollectionTask2` | as v4, with a sharing loop of its own | map iteration order, swap-delete while looping | fair shares, nobody checks his own, loop ends |
| v3 `task3.go` | `CollectionTask3` | labelling only | as v4 | as v4 |
| v4 `task4.go` | `CollectionTask4` | upload, allocate labellers/checkers, reset, set status, delete, update | allocations read first and write by `_id` later | labeller is not checker, work is not taken away, review follows hand-in |
| v5 `task5.go` | `CollectionTask5` (templates), `CollectionLabeledTask5` (copies) | upload, claim, hand in, review, delete, proportional scoring | claims are five calls long, priorities are written from stale reads | one open copy per labeller, no session twice, slots are not lost or invented, work is credited as written |
| v6 `task6.go` | `CollectionTask6` with a `version` | load, save, allocate, reset, delete | repeated and overtaking saves | no lost update |
| detail pages (v4, v5, v6) | the page's filter and place | read a task, its next and previous one | three reads while tasks change | nobody who goes through a list misses a task |
| lists and counts | none | `SearchMyTask*`, `Project*Count` | numbers from statuses, lists from people | both agree |
| projects, folders, schemas | one collection each | CRUD, folder tree | a deletion leaves what it held | a tree shows all that is not cut off |
| `app/labeler/api` | none | checks rights, binds requests, calls the service | role of the token and role of the user differ | a request is served as allowed, with one answer |

### scrm

| part | state | operations | hard behaviour | what makes it correct |
|---|---|---|---|---|
| seat store (`seat.go`, `seat_ws.go`) | Redis `seat:<id>`, `call:<id>:seat` | check in/out, ready/busy, pre-ready, lock, unlock | two keys written in two steps; late connection checks | a ready seat is really there, a call's end frees its seat and no other |
| websocket hub (`seat_ws.go`) | connections per user | connect, broadcast, delayed check | unlocked reads of the map, reordered broadcasts, a full channel | channels are closed once, clients see the store's state, a seat without connection is checked out |
| CTI manager (`cti.go`) | SQL calls and orders, Redis queues | PushOrder, PullCDR, CleanOrders, CloseProject | commit then push, pop then store, counts of different moments | every order is called once, within all limits |
| projects (`project.go`) | SQL projects | run, close, assign, unlock a seat | closing races running | a project nobody serves does not stay open |
| orders, phones, calls | SQL rows | import, search, delete | two reports of one call in any order | a call row agrees with its reports |
| export tasks (`export_task.go`) | SQL rows, object store | take, read in batches, put, mark | rows inserted while it reads, restarts | a file holds every call once |
| robots, wecom, labels, statistics, metrics | proxies and counters | | | |

### admin, jobs, common

`app/admin` keeps users, roles, departments, menus and dictionaries in SQL. Two parts of it
decide what the others do: the paths of departments (`sys_dept.go`), by which rows are shown,
and roles, by which requests are served. `app/jobs` keeps scheduled jobs in SQL and in the
scheduler's memory; what is hard is that the two meet at start-up while pages are served already.
The rest of `app/admin`, `app/other`, `common` and `cmd` is the go-admin
framework (menus, dictionaries, code generator, middleware) and start-up code.

**How parts interact.** Pages call the api, the api calls the service, the service
calls MongoDB; nothing else connects the labeler's requests. In scrm, agents change seats over websockets, the CTI locks and
unlocks them over HTTP, `PullCDR` unlocks them at the end of a call, `PushOrder`
and `CloseProject` read them to decide how many orders to push and which projects to stop.

The hazards of this code are listed with their lines in `PROJECT.json`.

## 2. Modules

| module | models | proofs | runs |
|---|---|---|---|
| `Task5Pool` | the session pool of v5, call by call | `Task5PoolProofs` | `task5_serial`, `task5_concurrent`, `task5_double_click` |
| `SlotLedger` | the abstract ledger of claims that `Task5Pool` implements | `Task5PoolProofs` | through `task5_serial` |
| `Task4Review` | the life of a v4 task under workers and managers | `Task4ReviewProofs` | `task4_review`, `task4_overlap` |
| `Task2Alloc` | the sharing loop of v2 and `counter.go` | `Task2AllocProofs` | `task2_alloc` |
| `Task6Document` | one v6 task under its version | `Task6DocumentProofs` | `task6_document` |
| `SeatStore` | seats and call keys in Redis | `SeatStoreProofs` | `seat_store`, `seat_preready` |
| `TaskVersions` | the life of the tasks of v1, v2, v3, v5, v6 | `TaskVersionsProofs` | `labeler_services`, `task1_label` |
| `TaskLife` | the abstract life that `TaskVersions` implements | `TaskVersionsProofs` | through `labeler_services` |
| `TaskCounts` | lists of a person, numbers of a project (extends `TaskVersions`) | `TaskVersionsProofs` | `labeler_services` |
| `TaskPages` | going through a list task by task (v4, v5, v6) | `LabelerServicesProofs` | `labeler_services` |
| `Workload` | `editDistance` and what a save of v5 credits | `LabelerServicesProofs` | `labeler_services` |
| `Workspace` | folders and a project, any version | `LabelerServicesProofs` | `labeler_services` |
| `CronJobs` | `app/jobs` and the scheduler | `LabelerServicesProofs` | `labeler_services` |
| `HttpHandlers` | the handlers of labeler, scrm and admin with their guards | `LabelerServicesProofs` | `labeler_services` |
| `LabelerServices` | the six modules above side by side | `LabelerServicesProofs` | `labeler_services` |
| `OrderPush` | orders, `PushOrder`, `PullCDR`, `CleanOrders` and the CTI | `ScrmServicesProofs` | `scrm_services` |
| `ScrmProject` | running and closing projects | | `scrm_services` |
| `SeatHub` | the websocket hub of one agent | `ScrmServicesProofs` | `scrm_services` |
| `CallRecord` | one row of `scrm_call` and its order | `ScrmServicesProofs` | `scrm_services` |
| `ExportQueue` | the export service and its batches | `ScrmServicesProofs` | `scrm_services` |
| `DeptScope` | departments, and who is shown which rows | `ScrmServicesProofs` | `scrm_services` |
| `ScrmServices` | the six modules above side by side | `ScrmServicesProofs` | `scrm_services` |

The `MC...` modules give constants their values for TLC. Operators commented
"Slip" are plausible bugs of the definition that follows them; no specification
uses them, they are what `PROJECT.json` lists under `mutants`.

`LabelerServices` and `ScrmServices` are sums, not products: `Init` chooses the component
whose behaviour is looked at. Where components share state, each module has the others'
writes as actions of its own, in the most general form (seats and projects in any state,
calls created at any time, columns written by others, any task changed or deleted), so a
component has no step in a product that it does not have in its own module. The price is
that no property can speak of two components at once; where that matters the modules overlap instead: `CallRecord` has the order of its call and what the project page shows of
both, `ScrmProject` the seats, `SeatHub` the store, `TaskCounts` the tasks themselves.
A behaviour of a sum is one of each of its parts: `ServicesKeepTasksAndPages` and `ServicesPushOrders`
carry what is proved of `TaskVersions`, `TaskCounts`, `TaskPages` and `OrderPush` over to the sums.

### Task5Pool and SlotLedger

`pool` is `CollectionTask5`, `copies` is `CollectionLabeledTask5`, `live` the
projects not deleted; `claim`, `deletion`, `scoring`, `upload` hold the requests in
progress with what they read. `AllocOneTask5` is `ClaimFindLabeling`,
`ClaimFindSessions`, `ClaimFindTask`, `ClaimDecrement`, `ClaimInsert`; `DeleteTask5`
is `DeleteFindCopy`, `DeleteFindTask`, `DeleteIncrement`, `DeleteRemove`;
`ProportionalScoring` and `UploadTask5` have a read and a write each;
`BatchSetTask5Status` is a single filtered update. `Abort` cuts a request off
between two calls. A document keeps project, session, the priority of its first
dialog entry (the claims it still accepts) and `requireScore`. `ClaimFindSessions` makes one step
of two calls, the list of projects and the copies in them.

A copy keeps the `session` it is of and, apart from it, the `sessionId` its dialog holds. The code
reads the latter (`task5.go:355`, `task5.go:786`), and `UpdateTask5` stores whatever dialog a page sends
(`task5.go:553`, `task5.go:562`): here the id the page had loaded, or an empty one, which is the damage
`SearchTask5Count` exists to repair (`task5.go:1995`). Both are actions. While a copy has no id, its labeller's next
claim does not see it and may draw the same session again: `missed` is history, the copies a claim read over like that.
`NoRepeatSession` is about all other copies. A page that sends the id of some other session is not modelled.

What holds depends on what may overlap:

* **Requests of different people overlap and are cut off anywhere**
  (`task5_concurrent`): `OneLabeling`, `NoRepeatSession`, `PriorityNonNegative`.
* **One request at a time** (`task5_serial`): the pool implements `SlotLedger`: each
  claim takes exactly one slot, deleting an unfinished copy returns it, a finished
  copy keeps it, a claim cut off after its decrement forfeits it. The refinement maps
  `free` to the priority, corrected by the claim that has taken its slot and not
  yet inserted, and the deletion that has returned its slot and not yet removed.
  A deletion cut off exactly there is excluded (`MCMayAbort`), because repeating it returns the slot twice.
  `UniqueSessions`, `OneScorer` and `ScoredForGood` also need this restriction:
  overlapping uploads, or a sampling that overlaps a claim, break them, as no
  call checks again what an earlier one read.
* **Two clicks of one labeller** (`task5_double_click`) violate `OneLabeling`: a finding.
* **A batch that holds one session twice** is not among the uploads: `repeatingTask5s` compares the files with the
  collection only, so both are stored and `UniqueSessions` fails at once. The theorem states the restriction (`BatchesApart`).

### Task4Review

`task` is the collection, `manager` the manager requests in progress. Workers'
status changes are atomic per document (`SetStatus`; MongoDB filters each
document of an `UpdateMany` on its own), managers' allocations are a read
followed by writes by `_id`. The two status tables are those of
`BatchSetTask4Status`. With one manager request at a time the properties hold although workers act
between any two writes. With two (`task4_overlap`) a labeller becomes his own checker: between find and write of an allocation, a
manager's status change makes the task 已提交 although nobody has it, and an allocation of checkers finds it: a finding.

### Task2Alloc

One request of `Task2BatchAllocChecker` from its arguments to its writes: the
request, the tasks found and all ties are arbitrary. The greedy order is not
optimal and `NothingLeftBehind` does not say so: with tasks labelled by u1, u2, u3, u3,
checkers u1 and u2 and number 4, three tasks may be shared although four could
be. The persons of a request are taken to be distinct.

### Task6Document

One document, the pages that show it and the `UpdateTask6` requests on their way.
A page sends what it loaded with the version plus one; requests are duplicated,
lost, overtaken, and an answer may not arrive. `base` in a request is history: what the page
had loaded, for stating `NoLostUpdate`. The version of a document stored before the field existed is `Missing`.

### SeatStore

`seat` and `keyOf` are the two kinds of Redis keys, `lock` the `LockSeat` requests between
their two writes, `ended` the calls whose CDR was processed, `asked` a history
variable for `PreReadyCleared`. `redisSeatStateStore` serialises its operations with
one mutex, so each is one step. `CheckConnOfUser` runs a minute after a connection
closed and looks for connections without the store's lock: it may happen at any time.

The CTI is not in this repository. `MayAsk`, `MayRelease` and `MayEnd` state what
`EndedCallHoldsNoSeat` needs of it, for the calls in `Orderly` only: one request at
a time, one seat at a time, the CDR after the answers. Other calls do as they
like; `SeatConsistent` and `ReleasedByOwnCall` hold for them too. Agents' events
that repeat the stored state write nothing, which violates the change log's rule
on `preready` (`seat_preready`): a finding.

### TaskVersions, TaskLife and TaskCounts

Versions 1, 2, 3, 5 and 6 are five programs on one plan; `version` says
which one a behaviour is of, and each handler is an action guarded by its version. Allocations
find and then write task by task (`FindShare`, `GiveShare`; `FindHandedIn`, `GiveToChecker`);
labelling, checking and editing decide on a read (`LabelTask`, `CheckTask`, `UpdateTask2`, ...) and write by `_id`
(`SaveWithStatus`, `SaveContents`); uploads, deletions, resets and batch status changes are one
update each. `Abort` ends a request between two calls.

No write by `_id` compares what was read. The history variable `overtaken` holds the tasks
such a write hit after they had changed, until they are made free or deleted. Then
`MisfitOnlyIfOvertaken` says exactly what this costs: status, labeller and checker of a task fit
together (`Fits`, version by version) in every other case. `OwnContents` says the same of whose work a
task contains, and leaves out the labelling of version 1 (below). `LeadsTaskLife` is the refinement: each version implements `TaskLife`, an
abstract task of six stages, with overtaken tasks at the stage "suspended".
`CountsAgree` compares the numbers of the project page with the tasks the allocations find and the lists of people.

The versions differ in ways the tables keep: v3 has no review and accepts a hand-in from any status;
v3 and v6 let a manager hand in a task nobody holds; v6 allocates tasks by status, the others by the missing labeller; only v1 changes the
status together with the contents. `LabelTask` of v1 compares the sender with the labeller the request
names, not with the stored one (`task.go:56`): the action takes any sender, the read holds what he claims, and
his write counts as one on a record that was otherwise. So in v1, and there alone, a task may be "overtaken" although
nothing changed after the read, and `MisfitOnlyIfOvertaken`, `CountsAgree` and `LeadsTaskLife` say less of such a task.
That contents come from who holds the task (`LabelledByHolder`, the rule behind the message at `task.go:57`) is violated: `task1_label`, a finding.

### TaskPages, Workload, Workspace

`TaskPages` has one page that goes back and forth through a list while anything happens to the
tasks. `NothingSkipped` is about tasks that match the filter all the time (`stayed`): none between
two visited ones is missed, and none is left beyond the end shown. A work type without any
status lists all tasks but finds no neighbours (`InWalk`); the property excludes it by its `stayed`.
Version 6 reads project and folder last, which may be gone.

`Workload` is `UpdateTask5`'s `editQuantity`. The output of the model comes with the request and is stored as it comes
(`task5.go:537`, `task5.go:562`), so a page decides what its labeller is compared with; `CreditsWritten` is about the
output it sent. Remarks and word counts, which are added to the work quantity, are left out. The dynamic programme fills row 0 and leaves column 0 zero, so deleting letters is
free: `editDistance` is compared with a definition of its own (`Written`): the letters of the new text that are
not taken over, in order, from the old one. A
repeated save counts its notes no second time; credit falls then, which the property allows.

`Workspace`: deleting a folder deletes one document. `cut` is history: what hangs below a deleted folder.
`FolderTree` sees folders newest first and needs its two passes. What a tree shows, and what lies below a
folder, are least sets closed under a step, which is how loops over a tree are written here and in `DeptScope`.

### CronJobs

The rows of `sys_job` and one scheduler, which numbers entries from 1 in every process. `setup` runs while
pages are served (`cmd/admin/server.go:90`). `NeverStopsAnother` says that a removal stops only the entry
whose number the request read from its own row, numbers of an earlier process excepted: such numbers come
back by a page that was loaded before the restart and saved after it. Starting twice leaves an entry that no row names, and so does deleting a running job; no
property forbids it, as no document of the repository does.

### HttpHandlers

The handlers are data: per route the guards, whose requests are taken, the fields that must be there, what is
filled in from the session, and which failures are logged without an answer. The actions are
the course of a request: `AuthCheckRole`, `PermissionAction`, `Handle` (`Refuse` or `Call`), `Answer`. `token` names the role at login, `role` the role now;
the two differ after `ChangeRole`. Six kinds of handler answer an unreadable request and go on (`Blindly`), so the client gets two answers; `ServedAsAllowed` names them.
`Update2DataScope` signs a row it does not save (`sys_role.go:272`), so its `Open` entry signs nothing.
`response.Error` of go-admin-core aborts the chain: external. `InsetAvatar` with a body that is no form panics; bodies are taken to be of their form.

### OrderPush, CallRecord, ScrmProject

`OrderPush` has the loop of `PushOrder` query by query, with the CTI (external) and all other loops
and people between the queries. Loads are counted in halves, as the columns of a new project are 3 and 0.5.
`WithinLimits`, `CalledOnce` and `BatchFitsSeats` hold although nothing is compared again, because only this loop makes orders `processing`.
An order whose call is committed and never handed over, or whose report is lost, is finished by `CleanOrders`, at any time in the model.
`CheckLoad` counts rows that are 处理中 (`cti.go:630`), so `CleanOrders` and `DeleteOrder` make room while the call of the order is still
on the list or on the telephone. `WithinLimits` says what is left: rows, and calls whose order nobody gave up (`GivenUp`, with the
history `cleaned`), stay within the robots; together with the calls given up they may not.

`CallRecord` is one call from its dialling: its two reports in any order, the writers of its other columns, and the
times as columns that writers name one by one. `RecordAgrees` also says what the queue of the project page can show:
"calling" or "over" only, as the times that would tell robot from seat come with the hang-up (`cti.go:480`). Durations are cut off towards zero, as Go does, so the shares make up
the whole only when the seat answers after the customer and before the end.

`ScrmProject` lets seats change in any way `SeatStore` allows between the reads and the write of `RunProject`, which looks at
one seat after the other, and of `CloseProject`.

### SeatHub

One agent's connections, their channels of `Cap` messages and their loops. A handler writes the store and broadcasts in a second step.
The seat has the four fields that say what it may be used for (check-in, ready, preready, locked); messages carry all of them.
Messages take every form the code gives them: the state written; for an event that changes nothing, the state with
preready cleared, which is not stored (`Echo`, `seat_ws.go:437`); for an event that is refused, an error with no state (`Refuse`), which fills
channels as well. `UnlockSeat` is the unlocking by the CTI, by the project page and by `PullCDR`: it broadcasts nothing.

`ShownCurrent` compares the last state put into each client's channel with the store, field by field. Two histories say where
it cannot hold. `overlap`: a state was written or read while another waited to be sent, so broadcasts may arrive in the wrong order and the
older one stays; nothing in the code prevents it, and no property catches it. `silent`: a field was
written without a broadcast, or broadcast without a write. The field `locked` after an unlock and `preReady` after an echo are
shown wrong until the next broadcast, in the code as in the model.

The check of a connection that closes is started only if another one remains (`seat_ws.go:180`), which `LeftChecksOut` has as its premise.

### ExportQueue, DeptScope

`ExportQueue` reads batches after the key `<<created_at, id>>` of the last row. Rows may be
created with keys that tie or come late; `FileComplete` is about those there when the export began. An unsupported type is taken first for ever: `Exported` is about tasks none of these precedes.

`DeptScope`: a department stores its path when it is saved; moving one leaves those below it `behind`. `ScopeFollowsTree` ties the lists,
the detail pages and the changes of all kinds of rows to the tree. Robots are listed to all and changed within scope; calls of deleted orders can be opened though no list has them.

## 3. Runs, bounds, fairness

| run | bounds | distinct states |
|---|---|---|
| `task5_serial` | 2 labellers, 3 templates, 3 copies, 2 sessions, 1 project, 1 request at a time | 756 thousand |
| `task5_concurrent` | 2 labellers, 2 templates, 2 copies, 2 projects, 3 requests at a time | 838 thousand |
| `task4_review` | 2 tasks, 3 persons, 1 manager, numbers 1 to 3 | 18 thousand |
| `task2_alloc` | all requests up to 4 tasks, 3 persons, numbers 0 to 4 | 215 thousand |
| `task6_document` | 2 pages, 3 requests, 2 contents, versions to 2 | 83 thousand |
| `seat_store` | 2 seats, 2 calls, 2 overlapping locks, 1 project | 110 thousand |
| `labeler_services` | tasks: 5 versions, 2 tasks, 2 people, 2 requests; pages: 3 tasks; work: texts of 3 and 2 letters; 3 folders; 2 jobs, 2 processes; 2 roles, all handlers | 378 thousand |
| `scrm_services` | push: 3 orders, 2 projects, 1 seat; hub: 2 connections, channels of 1; call: all orders of the times of two reports; export: 3 tasks, 3 ids, batches of 1, 1 failure; 3 departments | 275 thousand |

The four runs that expect a violation are findings: `task5_double_click`, `task1_label`, `task4_overlap`, `seat_preready`.

Named bounds: `Docs` and `Copies` limit uploads and claims; `MaxInFlight` the
requests worked on at once; `MaxPriority` stops deletions from starting while a
priority is at the bound; `MaxVersion` stops a page from sending higher versions;
`SlotsPerVersion` is 5 in the code and 2 in the runs; `MaxOutput` and `MaxNote` limit texts;
`MaxEntries`, `MaxRestarts` and `MaxRemovals` the scheduler; `MaxFailures` the failures of an export. The bounds suffice for the cases the
properties are about: two slots let two people claim one template and a third
find none; three requests let a deletion and a claim overlap another claim; two
versions let a save, its repetition and a rival meet; two tasks and three persons let
an allocation be interrupted between its writes; a channel of one is full after one message;
two entries and one restart let a number of one process meet an entry of the next;
a batch of one row ends at every key, ties included. The theorems hold for any value of them.

Both sums narrow their behaviours (`Narrow` in the `MC` modules) where that leaves no kind of step out: in
`labeler_services` requests overlap while a task is still to be uploaded, and run one at a time beside
the single updates once all are; walks take one filter builder each; a save changes the output or the note, and sends another
output of the model than the stored one in the first save only. In `scrm_services` there are two departments once there is a row, one deleted and one
cleaned order, at most two broadcasts under way, no seat that is locked and ready or preready, and none preready once updates overlapped; a
project is stopped by hand while it has no seats, and its seat serves no project, the first or both.

A version-0 file (no slots) and a batch of two files are among the uploads. Symmetry
is declared where no definition chooses among the permuted values and no liveness is checked.

**Fairness** is stated for loops and timers of the code alone, per component: `WF` of the handler's
own steps in `Task2Alloc`; of `CloseProject` in `ScrmProject`, a loop of the server; of a due `CheckConnOfUser`
in `SeatHub`, a timer; of `Run` in `ExportQueue`, the loop of a process of its own, with finitely many failures (`MaxFailures`). Nothing is
assumed of people, of the CTI or of requests: those may stop at any time, and everything else checked is safety.

Deadlock is checked in every run except `task2_alloc`, where an answered request stops, and the two sums, where a
component may come to rest (all folders created and deleted, all exports done, an order finished).

## 4. Proofs

Theorems hold for every value of the constants under the named assumptions of
the modules (finite sets where something is counted, sentinels outside the sets they stand for).

* **Task5PoolProofs.** `PoolInv` strengthens type correctness and non-negative
  priorities with: a claim at `decrement` read a priority above zero, a deletion read one of at least zero.
  Stale writes then keep the bound, however many overlap: a theorem about any number of requests.
  `ClaimInv` (when `Clicks = {k}`) adds: while a labeller's claim is past its first call he has no open copy in
  that project, and past the second the sessions it read contain those of all his
  copies in live projects but the ones it `missed`. It needs that only this request can add copies of his, hence the assumption,
  and it is what `task5_double_click` breaks.
  `SerialInv` (when `MaxInFlight = 1`, and no batch has a session twice, `BatchesApart`) says that at most one request is
  on its way and what it read is still so, and that a copy asking for a score took it from its template. It gives
  `SessionsStayUnique`, `ScoredByOne` and `ScoredOnceForGood`. These are the restrictions of `task5_serial`, and the code needs them:
  a batch that repeats a session breaks uniqueness without the second, overlapping uploads, or a sampling that overlaps a claim, break them without the first.
  `PoolIsALedger` proves the refinement step by step, for templates, copies and people of any number, under one assumption more: a deletion
  is not cut off between its two writes (`"removeReturned" \notin MayAbort`), as repeating it would return the slot twice.
* **Task4ReviewProofs.** `ReviewInv` adds `ReadStands`: what the manager's request found
  still describes the tasks it has yet to write, since workers cannot move a task from 已提交
  or 未分配 in a way that matters. Needs `Managers = {m}`; `task4_overlap` shows why.
* **Task2AllocProofs.** `SharingInv`: the tasks left and the shares partition the tasks found, the
  counter counts own tasks left, and whoever left the counter with room in his share has only own tasks left to take.
* **Task6DocumentProofs.** `DocumentInv`: a request whose version would match the stored one carries
  as `base` the content stored; nothing is ahead of the store.
* **SeatStoreProofs.** `StoreInv` adds `OrderlyInv`: an orderly call holds at most one seat, a seat it
  holds is the one its key names, and an ended orderly call has no lock request in flight.
* **TaskVersionsProofs.** `LifeInv` adds to `MisfitOnlyIfOvertaken` what each kind of request
  read: tasks found for labellers had none, tasks found for checkers were 已提交, a status sent by
  `LabelTask` or `CheckTask` was allowed from the one seen (`RequestsOK`). It says nothing of whether that still holds when the
  write comes, so the theorem is about any number of overlapping requests; the write either meets what
  was read, and then the record fits, or is counted as overtaking. `ContentsAreOwn` follows from it step by step, for everything but
  the labelling of version 1, of which it says nothing.
  So does the refinement `LedThroughLife`: a write that meets what was read moves each task along an edge of `TaskLife`, any other
  suspends it, so no step of any version leaves the abstract life. `CountsAgreeWithLists` needs no more than `LifeInv`: the
  numbers count tasks by status, the lists by their people, and where every task fits its status (`Fits`) both describe the same sets.
* **LabelerServicesProofs.** One invariant for each part.
  `PagesInv` adds what the searches found: no task that stayed lies between the
  page and the neighbours it offers (`NextStands`, `LastStands`), whatever entered and left the list since; and
  the task the page is about to show counts as visited (`Nears`), which makes the invariant inductive while the page is on its way.
  `SpaceInv`: a folder is made after the one above it, and what is cut off is just what lies below a deletion;
  if a tree missed a folder, the oldest one missed would have its parent shown, and so be shown (`TreesAreWhole`).
  `CronInv`: every number that is kept anywhere (rows, `setup`, requests, removals, pages) is of an earlier process or was
  given in this one, and then no entry of another job has it (`KnownFor`); hence `StopsSpareOthers`.
  `HttpInv` follows a request through its guards with what each has established; it needs a form of the handlers (`Fitting`), which
  `AllFit` is proved to hold of every row of the tables.
  `SavesCreditWhatIsWritten` is about texts of any length: each cell of the table of `editDistance` holds the letters owed for
  its two prefixes (`DistanceOwed`), and that number is unique (`OneAmountOwed`).
* **ScrmServicesProofs.** `CallInv` (for `OrdersAreCalledOnce`): an order the loop has picked
  has no call yet, and no loop but this one makes calls. `LimitInv` (for `LimitsAreKept`, `BatchesFitSeats`): what the
  loop counted remains an upper bound until it writes, since everything else only
  finishes orders and takes from the list, and each choice of a batch is of the size computed, so cardinalities add up.
  That there is one `PushOrder` loop, in one process, is in the module itself.
  `HubInv`: a connection enters the hub only between its first message and its end, which is why each channel is closed once
  although the map is read without its lock; and unless updates overlapped at most one broadcast of a state waits (errors carry none), it agrees
  with the store in every field that is not `silent`, and so does what the clients it has passed or does not reach were shown.
  `RecordInv`: the times in the row are those of the reports written, no others, and what a report that is being processed
  read of them is still so, as no one else writes them.
  `DeptInv`: departments are made below those that are made, and the path of each that is not `behind` is its line upwards.
  `ExportInv`: what is in the file is ascending, and what was there when the export began is in it or comes after its last row.

The tables of `editDistance`, the trees of folders and the keys of exports are data of any size. What is proved of them goes by the least
counterexample (`LeastNumber`, from `NatLessThanWellFounded`), since theorems of induction over a predicate cannot be used here.

Every safety invariant and action property that a passing run checks is stated by a theorem. Only model-checked are: the
liveness properties `Answered`, `DesertedCloses`, `LeftChecksOut` and `Exported`, as liveness and `ENABLED` are out of the prover's reach;
so no theorem is about `ScrmProject`, whose property is `DesertedCloses`. Type invariants are theorems where the invariant contains them
(`TypeCorrect`, `ReviewTypes`, `SharingTypes`, `DocumentTypes`, `StoreTypes`, `ChannelsNeverOverflow`).

## 5. Abstractions and what is not modelled

* Upload files are well formed and `InsertMany` is atomic. Contents, remarks, word
  counts, times, names, statistics and downloads are left out, but for the contents the properties are about.
* `BatchSetTask*Status` gives a status outside its map no source filter; it is taken that the
  pages send only the statuses of the maps.
* `UpdateTask4` and `CheckTask4` write contents without touching status or permissions and are
  left out; `TaskVersions` has the same handlers of v2, v3 and v5, `Task6Document` that of v6, where the version guards them.
* A seat's projects are a set; Redis keys do not expire (24 hours in the code); Redis and MongoDB calls
  fail only by cutting the request off.
* The lists of Redis between the server and the CTI are sets: no loop depends on their order.

Not modelled, with the reason:

* **v1**: `CommentTask` appends a remark nobody's decision depends on; `ModelParse` calls a model service.
* **v5**: `ResetTasks5` and `SearchMyTask5Count` look in `CollectionTask5`, whose documents never have a labeller: they change
  nothing and find nothing. `getTask5ScoreExcle` and the other exports turn 460 lines of data into cells of a spreadsheet.
* **v4, v5**: `Project4Count`, `Project5Count` and `SearchMyTask4Count` count fields that a reset leaves as an empty person, which
  `Task4Review` does not tell from a missing one.
* **Downloads** of all versions: read and format, nothing is decided.
* **labeler schemas**: documents without relations; the `schema` of a task is part of its contents.
* **scrm**: `PullCallerChannel` (`cti.go:154`) is started by nothing; wecom sessions, robots' settings and statistics are calls to other services; labels are
  a constant; metrics count for monitoring; the detail pages of projects and seats only read; the comparison of phone lists and the reading of spreadsheets are formats.
* **admin**: the services of users, roles, menus, dictionaries, posts and logs store one row at a time in SQL and rules in casbin, after the
  framework; what depends on them (roles, scopes, paths) is in `HttpHandlers` and `DeptScope`.
* **jobs**: what a job does when it runs (an HTTP call, a named function). `setup` blocks in the first database's loop, so jobs of further databases do not
  start; one database is modelled.
* **other tools, commands, configuration**: code generator, file upload, server monitor, migration, start-up: I/O that runs once or keeps nothing.

## 6. Plan

1. Theorems: lemmas about the operators (the shares of `Task2Alloc`, the tables of statuses, the paths of departments); safety of
   `ScrmProject`; what the assumptions of `Task5PoolProofs` cost, by theorems with weaker ones.
2. Larger instances of the sums by splitting them, where time allows: two seats in `OrderPush`, three connections in `SeatHub`.
