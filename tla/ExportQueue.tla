---------------------------- MODULE ExportQueue ----------------------------
(***************************************************************************)
(* The export service (service/export_task.go): a process of its own takes *)
(* the first waiting task, reads the calls it names in batches             *)
(* (BatchQueryExcludeNull: a batch goes on after the creation time and id  *)
(* of the last row of the one before), writes the file to the object store *)
(* and then marks the task done.  Calls are created while it reads, with   *)
(* creation times that tie or that come late; the process may fail or be   *)
(* restarted between any two steps and then starts the task again.         *)
(*                                                                         *)
(* A call row is its key <<created_at, id>>.  A file is the sequence of    *)
(* its rows: names, columns and layout are left out.  A restart is a       *)
(* failure of the step it interrupts.                                      *)
(***************************************************************************)
EXTENDS Integers, Sequences, SequencesExt, FiniteSetsExt, FiniteSets

CONSTANTS
  Tasks,        \* task ids, numbered in the order they are created
  Unsupported,  \* tasks of a type no exporter serves, or with arguments it
                \* cannot read
  Stamps,       \* creation times
  Ids,          \* call ids
  BatchSize,
  MaxFailures,  \* bound of the model: failures of the exporter
  NoTask

ExportAssumption ==
  /\ Tasks \subseteq Nat /\ Stamps \subseteq Nat /\ Ids \subseteq Nat
  /\ BatchSize \in Nat \ {0}
  /\ NoTask \notin Tasks

VARIABLES
  rows,     \* scrm_call
  task,     \* scrm_export_task: the status of a task
  file,     \* the object store
  export,   \* what the exporter is at
  began,    \* history: the rows that were there when a task was last begun
  failures

vars == <<rows, task, file, export, began, failures>>

-----------------------------------------------------------------------------
Rows == Stamps \X Ids
Before(r, s) == r[1] < s[1] \/ (r[1] = s[1] /\ r[2] < s[2])
Idle == [at |-> "idle"]

Waiting == {t \in Tasks : task[t] = "waiting"}

Init ==
  /\ rows = {}
  /\ task = [t \in Tasks |-> "none"]
  /\ file = [t \in Tasks |-> <<>>]
  /\ export = Idle
  /\ began = {}
  /\ failures = 0

-----------------------------------------------------------------------------
CreateCall(r) ==
  /\ \A s \in rows : s[2] # r[2]
  /\ rows' = rows \cup {r}
  /\ UNCHANGED <<task, file, export, began, failures>>

AsyncExportCallHistory(t) ==
  /\ task[t] = "none"
  /\ \A u \in Tasks : u < t => task[u] # "none"
  /\ task' = [task EXCEPT ![t] = "waiting"]
  /\ UNCHANGED <<rows, file, export, began, failures>>

-----------------------------------------------------------------------------
\* A task no exporter serves is left as it is; it is the first again.
Take ==
  /\ export = Idle
  /\ Waiting # {}
  /\ Min(Waiting) \notin Unsupported
  /\ export' = [at |-> "read", task |-> Min(Waiting), out |-> <<>>]
  /\ began' = rows
  /\ UNCHANGED <<rows, task, file, failures>>

\* Slip: a batch goes on after the creation time alone.
RemainingByStamp ==
  IF export.out = <<>> THEN rows ELSE {r \in rows : Last(export.out)[1] < r[1]}

\* What comes after the last row read.
Remaining ==
  IF export.out = <<>> THEN rows ELSE {r \in rows : Before(Last(export.out), r)}

\* ORDER BY created_at, id LIMIT BatchSize: the first rows, in order.
FirstRows(remaining) ==
  {batch \in UNION {[1..n -> remaining] : n \in 1..BatchSize} :
     /\ \A i, j \in DOMAIN batch : i < j => Before(batch[i], batch[j])
     /\ Len(batch) = BatchSize \/ remaining \subseteq Range(batch)
     /\ \A r \in remaining \ Range(batch), i \in DOMAIN batch : Before(batch[i], r)}

ReadBatch ==
  /\ export.at = "read"
  /\ \/ Remaining = {} /\ export' = [export EXCEPT !.at = "put"]
     \/ Remaining # {} /\ \E batch \in FirstRows(Remaining) :
                             export' = [export EXCEPT !.out = @ \o batch]
  /\ UNCHANGED <<rows, task, file, began, failures>>

PutObject ==
  /\ export.at = "put"
  /\ file' = [file EXCEPT ![export.task] = export.out]
  /\ export' = [export EXCEPT !.at = "done"]
  /\ UNCHANGED <<rows, task, began, failures>>

\* Slip: the update names no task.
MarkDoneNone ==
  /\ export.at = "done"
  /\ export' = Idle
  /\ UNCHANGED <<rows, task, file, began, failures>>

MarkDone ==
  /\ export.at = "done"
  /\ task' = [task EXCEPT ![export.task] = "done"]
  /\ export' = Idle
  /\ UNCHANGED <<rows, file, began, failures>>

Fail ==
  /\ export # Idle
  /\ failures < MaxFailures
  /\ failures' = failures + 1
  /\ export' = Idle
  /\ UNCHANGED <<rows, task, file, began>>

-----------------------------------------------------------------------------
Run == Take \/ ReadBatch \/ PutObject \/ MarkDone

Next ==
  \/ \E r \in Rows : CreateCall(r)
  \/ \E t \in Tasks : AsyncExportCallHistory(t)
  \/ Run \/ Fail

\* The loop of Run goes on for ever.
Fairness == WF_vars(Run)

Spec == Init /\ [][Next]_vars /\ Fairness

-----------------------------------------------------------------------------
(* Properties. *)

\* A file that is put in the store holds every call there was when its export
\* began exactly once, in the order of creation, whatever calls are created
\* between the batches and however often the export is begun again.
FileComplete ==
  export.at = "done" =>
    LET out == file[export.task] IN
    /\ IsInjective(out)
    /\ began \subseteq Range(out)
    /\ \A i, j \in DOMAIN out : i < j => Before(out[i], out[j])

\* A waiting task is exported in the end, unless an earlier one never can be:
\* the exporter asks for the first waiting task only.
Exported ==
  \A t \in Tasks :
    (task[t] = "waiting" /\ ~\E u \in Unsupported : u <= t) ~> task[t] = "done"

=============================================================================
