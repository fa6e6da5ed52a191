----------------------------- MODULE CallRecord -----------------------------
(***************************************************************************)
(* One row of scrm_call from the moment it is dialled, its order and what  *)
(* the project page shows of both (service/cti.go, service/call.go,        *)
(* model/call.go, service/project.go).  The CTI reports a call in up to    *)
(* two stages, the customer's leg and the seat's leg, in any order.        *)
(* PullCDR reads the row, finishes the order when the report is the        *)
(* customer's, puts the times of the report into the row, works the        *)
(* durations out anew and writes the columns it names.  In between, the    *)
(* robot marks the moment it switches to a seat, LockSeat writes the seat, *)
(* the robot and the agent their labels, each by its own columns.          *)
(*                                                                         *)
(* Times are half seconds, durations whole ones (util.DurationSecs cuts    *)
(* the rest off).  The robot marks the switch once.                        *)
(***************************************************************************)
EXTENDS Integers, FiniteSets

CONSTANTS
  Reports,     \* pairs of reports, [1..2 -> [created, answered, hangup]]
  SwitchTime,  \* when the robot switches
  Users,       \* whoever writes a column of its own: seat and labels
  NoTime

RecordAssumption ==
  /\ NoTime \notin Int
  /\ SwitchTime \in Nat
  /\ \A pair \in Reports :
       pair \in [1..2 -> [created : Nat, answered : Nat \cup {NoTime}, hangup : Nat]]

VARIABLES
  report,    \* what the CTI will report
  reported,  \* the stages whose report PullCDR has taken off the list
  row,       \* the row of the call
  order,     \* the status of its order in scrm_order
  pull,      \* PullCDR between its read and its write
  written    \* history: stages whose report is in the row, own columns, and
             \* whether a report could not finish the order

vars == <<report, reported, row, order, pull, written>>

-----------------------------------------------------------------------------
NoLeg == [created |-> NoTime, answered |-> NoTime]
Durations == {"customRinging", "seatRinging", "ai", "seatCall", "switching", "total"}
Idle == [at |-> "idle"]

Init ==
  /\ report \in Reports
  /\ reported = {}
  /\ row = [leg |-> [s \in 1..2 |-> NoLeg], hangup |-> NoTime, switch |-> NoTime,
            own |-> [u \in Users |-> FALSE], secs |-> [d \in Durations |-> 0]]
  /\ order = "processing"
  /\ pull = Idle
  /\ written = [stages |-> {}, own |-> {}, unfinished |-> FALSE]

-----------------------------------------------------------------------------
(* UpdateDuration: a duration ends with the answer or, without one, with   *)
(* the end of the call, and is left alone when neither is known.           *)

Either(t, u) == IF t # NoTime THEN t ELSE u
Secs(from, to, old) ==
  IF from = NoTime \/ to = NoTime THEN old
  ELSE IF from <= to THEN (to - from) \div 2 ELSE -((from - to) \div 2)

\* Slip: the robot's share runs to the end of the call.
UpdateDurationToEnd(r) ==
  LET custom == r.leg[1]  seat == r.leg[2] IN
  [customRinging |-> Secs(custom.created, Either(custom.answered, r.hangup), r.secs.customRinging),
   seatRinging |-> Secs(seat.created, Either(seat.answered, r.hangup), r.secs.seatRinging),
   ai |-> Secs(custom.answered, r.hangup, r.secs.ai),
   seatCall |-> Secs(seat.answered, r.hangup, r.secs.seatCall),
   switching |-> Secs(r.switch, Either(seat.answered, r.hangup), r.secs.switching),
   total |-> Secs(custom.answered, r.hangup, r.secs.total)]

UpdateDuration(r) ==
  LET custom == r.leg[1]  seat == r.leg[2] IN
  [customRinging |-> Secs(custom.created, Either(custom.answered, r.hangup), r.secs.customRinging),
   seatRinging |-> Secs(seat.created, Either(seat.answered, r.hangup), r.secs.seatRinging),
   ai |-> Secs(custom.answered, Either(seat.answered, r.hangup), r.secs.ai),
   seatCall |-> Secs(seat.answered, r.hangup, r.secs.seatCall),
   switching |-> Secs(r.switch, Either(seat.answered, r.hangup), r.secs.switching),
   total |-> Secs(custom.answered, r.hangup, r.secs.total)]

\* The row with a report put in.
Reported(r, s) ==
  [r EXCEPT !.leg[s] = [created |-> report[s].created, answered |-> report[s].answered],
            !.hangup = report[s].hangup]

-----------------------------------------------------------------------------
PullCDRRead(s) ==
  /\ pull = Idle
  /\ s \notin reported
  /\ reported' = reported \cup {s}
  /\ pull' = [at |-> IF s = 1 THEN "order" ELSE "write", stage |-> s, row |-> row]
  /\ UNCHANGED <<report, row, order, written>>

\* An error is logged and passed over; a deleted order is not found.
PullCDROrder ==
  /\ pull.at = "order"
  /\ \/ order' = "finished" /\ UNCHANGED written
     \/ order' = order /\ written' = [written EXCEPT !.unfinished = TRUE]
  /\ pull' = [pull EXCEPT !.at = "write"]
  /\ UNCHANGED <<report, reported, row>>

\* Slip: the end of the call is left out of the columns.
PullCDRWriteOpen ==
  /\ pull.at = "write"
  /\ LET r == Reported(pull.row, pull.stage) IN
       row' = [row EXCEPT !.leg = r.leg, !.secs = UpdateDuration(r)]
  /\ written' = [written EXCEPT !.stages = @ \cup {pull.stage}]
  /\ pull' = Idle
  /\ UNCHANGED <<report, reported, order>>

\* Slip: the row is saved as it was read.
PullCDRSave ==
  /\ pull.at = "write"
  /\ LET r == Reported(pull.row, pull.stage) IN
       row' = [r EXCEPT !.secs = UpdateDuration(r)]
  /\ written' = [written EXCEPT !.stages = @ \cup {pull.stage}]
  /\ pull' = Idle
  /\ UNCHANGED <<report, reported, order>>

\* Select(...).Updates: the times of both legs and the durations, but neither
\* the switch nor the columns of others.
PullCDRWrite ==
  /\ pull.at = "write"
  /\ LET r == Reported(pull.row, pull.stage) IN
       row' = [row EXCEPT !.leg = r.leg, !.hangup = r.hangup, !.secs = UpdateDuration(r)]
  /\ written' = [written EXCEPT !.stages = @ \cup {pull.stage}]
  /\ pull' = Idle
  /\ UNCHANGED <<report, reported, order>>

\* The report is off the list and lost.
PullCDRAbort ==
  /\ pull # Idle
  /\ pull' = Idle
  /\ UNCHANGED <<report, reported, row, order, written>>

\* ModelUpdateCallSwitchTime.
SwitchSeat ==
  /\ row.switch = NoTime
  /\ row' = [row EXCEPT !.switch = SwitchTime]
  /\ UNCHANGED <<report, reported, order, pull, written>>

\* LockSeat (seat_id), UpdateCall (seat_label_id, comment) and
\* ModelUpdateCallLabel (label_id, hangup_label_id).
UpdateOwn(u) ==
  /\ row' = [row EXCEPT !.own[u] = TRUE]
  /\ written' = [written EXCEPT !.own = @ \cup {u}]
  /\ UNCHANGED <<report, reported, order, pull>>

\* An hour after it was called, whatever became of the call.
CleanOrders ==
  /\ order' = "finished"
  /\ UNCHANGED <<report, reported, row, pull, written>>

-----------------------------------------------------------------------------
(* The queue of the project page: calls of orders in progress by how far    *)
(* they are.                                                               *)

callProcessingStatus(r) ==
  LET custom == r.leg[1]  seat == r.leg[2] IN
  IF custom.created = NoTime \/ custom.answered = NoTime THEN "calling"
  ELSE IF r.hangup # NoTime THEN "over"
  ELSE IF r.switch = NoTime THEN "robot"
  ELSE IF seat.answered = NoTime THEN "switching" ELSE "seat"

LoadQueueStatus == IF order = "processing" THEN callProcessingStatus(row) ELSE "none"

-----------------------------------------------------------------------------
Next ==
  \/ \E s \in 1..2 : PullCDRRead(s)
  \/ PullCDROrder \/ PullCDRWrite \/ PullCDRAbort
  \/ SwitchSeat \/ CleanOrders
  \/ \E u \in Users : UpdateOwn(u)

Spec == Init /\ [][Next]_vars

-----------------------------------------------------------------------------
(* Properties. *)

\* Whichever report comes first and whoever writes the row meanwhile: what
\* was written stays, the row has the times of every report that was
\* processed, and the robot's and the seat's share make up the whole call,
\* up to the second that cutting off may lose (durations below zero are cut
\* off upwards, so this is about seats that answer between the customer's
\* answer and the end).  Until its order is finished
\* the page shows the call as being dialled, and no call ever as talking to
\* the robot or a seat or as being switched: those times come with its end.
RecordAgrees ==
  /\ \A u \in written.own : row.own[u]
  /\ \A s \in written.stages :
       row.leg[s] = [created |-> report[s].created, answered |-> report[s].answered]
  /\ /\ row.leg[1].answered # NoTime /\ row.leg[2].answered # NoTime
     /\ row.leg[1].answered <= row.leg[2].answered
     /\ row.leg[2].answered <= row.hangup
     => row.secs.total - (row.secs.ai + row.secs.seatCall) \in {0, 1}
  /\ LoadQueueStatus \in {"none", "calling", "over"}
  /\ LoadQueueStatus = "over" => written.unfinished

=============================================================================
