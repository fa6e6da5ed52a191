------------------------- MODULE MCLabelerServices -------------------------
(* Every version with two tasks, two people and two requests; walks through *)
(* three tasks; outputs of three letters; three folders; two jobs and two   *)
(* processes; two roles.                                                    *)
EXTENDS LabelerServices, TLC

Symmetry == Permutations(Tasks) \cup Permutations(Users) \cup Permutations(Requests)

Busy == {r \in Requests : request[r] # Idle}

\* Bounds.  Requests overlap while a task is not uploaded yet and none was
\* written on an outdated read; else they run one at a time beside the single
\* updates, and not at all once one is overtaken and every task is uploaded, in
\* version 2 whatever is uploaded.
\* The walks of the versions differ in the filters they build and are taken
\* with one of them each.  A save changes the output or the note, which are
\* counted apart, and the first save alone sends another output of the model than
\* the one stored, with an empty note.  A loaded page of jobs meets only the starts and stops that
\* follow it, and is not loaded between the clearing and the saving of a number.
Uploaded == \A t \in Tasks : task[t].status # "absent"

Narrow ==
  /\ Uploaded \/ overtaken # {} => Cardinality(Busy) <= 1
  /\ (Uploaded \/ version = "v2") /\ overtaken # {} => Busy = {}
  /\ Cardinality(overtaken) <= 1
  /\ walk # Closed =>
       <<walk.version, walk.kind>> \in
         {<<"v4", "manage">>, <<"v5", "check">>, <<"v6", "label">>}
  /\ save # Work!Idle =>
       \/ save.model = model /\ (save.output = model \/ save.note = save.found)
       \/ save.note = <<>> /\ save.found = <<>> /\ copy.editQuantity = 0
  /\ page # Cron!Idle =>
       serving = Cron!Idle /\ removing = {} /\ setup.at \in {"list", "add"}

MCRecords ==
  {[status |-> "labeling", labeler |-> "u", checker |-> "w"],
   [status |-> "failed", labeler |-> "u", checker |-> "w"],
   [status |-> "labeling", labeler |-> "w", checker |-> "u"]}

MCFilters ==
  {[statuses |-> {"labeling"}, labeler |-> {}, checker |-> {}],
   [statuses |-> {}, labeler |-> {"u"}, checker |-> {}]}

=============================================================================
