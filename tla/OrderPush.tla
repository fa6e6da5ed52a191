----------------------------- MODULE OrderPush -----------------------------
(***************************************************************************)
(* Work orders on their way to the telephone system (service/cti.go,       *)
(* service/order.go).  PushOrder counts what is under way, works out how   *)
(* many calls the seats can take, marks that many waiting orders as being  *)
(* processed together with a call for each, and only then hands the calls  *)
(* to the CTI over a Redis list.  PullCDR takes the reports of finished    *)
(* calls off another list; CleanOrders gives up on what is never reported. *)
(*                                                                         *)
(* One server runs one loop of each.  Every count of PushOrder is a query  *)
(* of its own, and agents, managers, the CTI and the other loops go on     *)
(* between them.  Seats (SeatStore, SeatHub) and projects (ScrmProject) may *)
(* change at any time: a query finds them in any state they can be in.  An *)
(* hour's age (CleanOrders) is taken to be reached at any time.  Loads are *)
(* counted in halves, the columns of a new project being 3 and 0.5.  The   *)
(* lists of Redis are sets: no loop depends on their order.                *)
(***************************************************************************)
EXTENDS Integers, FiniteSets, FiniteSetsExt

CONSTANTS
  Orders,          \* order ids
  Projects,        \* project ids
  ProjectOf,       \* the project an order is uploaded to
  Seats,           \* seat ids
  SeatStates,      \* what seats can say of themselves
  Columns,         \* values of (running, spare_seat_c, busy_seat_c)
  MaxRobotCon,     \* calls the robots can hold
  MaxCTIQueueLen,  \* length of the list of calls to make
  NoOrder

PushAssumption ==
  /\ IsFiniteSet(Orders)
  /\ IsFiniteSet(Seats)
  /\ ProjectOf \in [Orders -> Projects]
  /\ SeatStates \subseteq [checkIn : BOOLEAN, free : BOOLEAN, locked : BOOLEAN,
                           projects : SUBSET Projects]
  /\ Columns \subseteq [running : BOOLEAN, spare : Nat, busy : Nat]
  /\ MaxRobotCon \in Nat
  /\ MaxCTIQueueLen \in Nat
  /\ NoOrder \notin Orders

VARIABLES
  order,    \* scrm_order: status and whether it is deleted
  calls,    \* how many rows of scrm_call an order has
  push,     \* where PushOrder is, with what it found
  queue,    \* PushOrderKey: orders whose call is to be made
  live,     \* orders whose call the CTI is making
  cdrs,     \* PullCDRKey: orders whose call is reported
  pull,     \* the order whose report PullCDR took off the list
  cleaned   \* history: orders CleanOrders finished

vars == <<order, calls, push, queue, live, cdrs, pull, cleaned>>
cti == <<queue, live, cdrs, pull, cleaned>>

-----------------------------------------------------------------------------
Status == {"none", "waiting", "processing", "finished"}
Row == [status : Status, deleted : BOOLEAN]

\* Rows gorm shows: those not deleted.
WithStatus(s) == {o \in Orders : order[o].status = s /\ ~order[o].deleted}

Idle == [at |-> "idle"]

Init ==
  /\ order = [o \in Orders |-> [status |-> "none", deleted |-> FALSE]]
  /\ calls = [o \in Orders |-> 0]
  /\ push = Idle
  /\ queue = {} /\ live = {} /\ cdrs = {} /\ pull = NoOrder
  /\ cleaned = {}

-----------------------------------------------------------------------------
(* The people. *)

UploadOrders(os) ==
  /\ os # {}
  /\ \A o \in os : order[o].status = "none"
  /\ \E p \in Projects : \A o \in os : ProjectOf[o] = p
  /\ order' = [o \in Orders |->
       IF o \in os THEN [status |-> "waiting", deleted |-> FALSE] ELSE order[o]]
  /\ UNCHANGED <<calls, push, cti>>

\* An order is deleted in whatever state it is; its row stays.
DeleteOrder(o) ==
  /\ order[o].status # "none" /\ ~order[o].deleted
  /\ order' = [order EXCEPT ![o].deleted = TRUE]
  /\ UNCHANGED <<calls, push, cti>>

-----------------------------------------------------------------------------
(* PushOrder: MakeCheckFun, query by query. *)

\* Slip: a list as long as allowed counts as short.
CheckQueueOff ==
  /\ push = Idle
  /\ Cardinality(queue) <= MaxCTIQueueLen
  /\ push' = [at |-> "load", room |-> MaxCTIQueueLen + 1 - Cardinality(queue)]
  /\ UNCHANGED <<order, calls, cti>>

CheckQueue ==
  /\ push = Idle
  /\ Cardinality(queue) < MaxCTIQueueLen
  /\ push' = [at |-> "load", room |-> MaxCTIQueueLen - Cardinality(queue)]
  /\ UNCHANGED <<order, calls, cti>>

AtMost(a, b) == IF a > b THEN b ELSE a

\* Slip: the calls under way do not shorten the batch.
CheckLoadKeepRoom ==
  /\ push.at = "load"
  /\ LET realLoad == Cardinality(WithStatus("processing")) IN
       push' = IF realLoad >= MaxRobotCon THEN Idle
               ELSE [at |-> "seats", room |-> push.room]
  /\ UNCHANGED <<order, calls, cti>>

CheckLoad ==
  /\ push.at = "load"
  /\ LET realLoad == Cardinality(WithStatus("processing")) IN
       push' = IF realLoad >= MaxRobotCon THEN Idle
               ELSE [at |-> "seats",
                     room |-> AtMost(push.room, MaxRobotCon - realLoad)]
  /\ UNCHANGED <<order, calls, cti>>

\* Seats that are ready or pre-ready, among those checked in.
Serving(state, p) ==
  {s \in Seats : state[s].checkIn /\ state[s].free /\ p \in state[s].projects}

CheckSeats(state) ==
  /\ push.at = "seats"
  /\ push' =
       IF \A p \in Projects : Serving(state, p) = {} THEN Idle
       ELSE [at |-> "projects", room |-> push.room,
             spare |-> [p \in Projects |->
               Cardinality({s \in Serving(state, p) : ~state[s].locked})],
             busy |-> [p \in Projects |->
               Cardinality({s \in Serving(state, p) : state[s].locked})]]
  /\ UNCHANGED <<order, calls, cti>>

\* This count goes past gorm and includes deleted orders.
Count(p) == Cardinality({o \in Orders : /\ ProjectOf[o] = p
                                        /\ order[o].status = "processing"})

\* What its seats can take of a project; one that stands still is not found.
MaxLoad(found, p) ==
  IF found[p].running
  THEN push.spare[p] * found[p].spare + push.busy[p] * (found[p].busy + 2)
  ELSE 0

\* Slip: the calls under way are not taken off.
CapacityOfSeats(found, p) == MaxLoad(found, p)

Capacity(found, p) ==
  IF found[p].running THEN MaxLoad(found, p) - 2 * Count(p) ELSE 0

CheckProjects(found) ==
  /\ push.at = "projects"
  /\ push' =
       IF \A p \in Projects : Capacity(found, p) <= 0 THEN Idle
       ELSE [at |-> "select", room |-> push.room,
             capacity |-> [p \in Projects |-> Capacity(found, p)],
             limit |-> [p \in Projects |-> MaxLoad(found, p)]]
  /\ UNCHANGED <<order, calls, cti>>

\* A project gets one more order as long as some capacity is left of it.
Ceiling(halves) == IF halves > 0 THEN (halves + 1) \div 2 ELSE 0

OfProject(os, p) == {o \in os : ProjectOf[o] = p}

\* The query has a limit and no order; what exceeds the capacity of its
\* project is left out after it.
Picks(found, picked) ==
  /\ picked \subseteq found
  /\ \A p \in Projects :
       Cardinality(OfProject(picked, p)) =
         AtMost(Cardinality(OfProject(found, p)), Ceiling(push.capacity[p]))

SelectOrders ==
  LET offered == {o \in WithStatus("waiting") : push.capacity[ProjectOf[o]] > 0} IN
  /\ push.at = "select"
  /\ IF offered = {} THEN push' = Idle
     ELSE \E found \in kSubset(AtMost(push.room, Cardinality(offered)), offered) :
          \E picked \in SUBSET found :
            /\ Picks(found, picked)
            /\ push' = [at |-> "commit", picked |-> picked, limit |-> push.limit]
  /\ UNCHANGED <<order, calls, cti>>

\* Slip: the orders keep their status.
CommitCallsOnly ==
  /\ push.at = "commit"
  /\ calls' = [o \in Orders |-> IF o \in push.picked THEN calls[o] + 1 ELSE calls[o]]
  /\ push' = [at |-> "dial", picked |-> push.picked]
  /\ UNCHANGED <<order, cti>>

\* One transaction.  Only the id of an order is compared; gorm passes over
\* the rows that were deleted since.
Commit ==
  /\ push.at = "commit"
  /\ calls' = [o \in Orders |-> IF o \in push.picked THEN calls[o] + 1 ELSE calls[o]]
  /\ order' = [o \in Orders |-> IF o \in push.picked /\ ~order[o].deleted
                                THEN [order[o] EXCEPT !.status = "processing"]
                                ELSE order[o]]
  /\ push' = [at |-> "dial", picked |-> push.picked]
  /\ UNCHANGED <<cti>>

Dial ==
  /\ push.at = "dial"
  /\ queue' = queue \cup push.picked
  /\ push' = Idle
  /\ UNCHANGED <<order, calls, live, cdrs, pull, cleaned>>

\* A query or RPush fails, or the server stops.
PushAbort ==
  /\ push # Idle
  /\ push' = Idle
  /\ UNCHANGED <<order, calls, cti>>

-----------------------------------------------------------------------------
(* The CTI, from how PushOrder and PullCDR use it: it makes the calls, and *)
(* reports each at most once.                                              *)

MakeCall(o) ==
  /\ o \in queue
  /\ queue' = queue \ {o}
  /\ live' = live \cup {o}
  /\ UNCHANGED <<order, calls, push, cdrs, pull, cleaned>>

ReportCall(o) ==
  /\ o \in live
  /\ live' = live \ {o}
  /\ cdrs' = cdrs \cup {o}
  /\ UNCHANGED <<order, calls, push, queue, pull, cleaned>>

LoseCall(o) ==
  /\ o \in live
  /\ live' = live \ {o}
  /\ UNCHANGED <<order, calls, push, queue, cdrs, pull, cleaned>>

-----------------------------------------------------------------------------
(* PullCDR and CleanOrders. *)

PullCDRTake(o) ==
  /\ pull = NoOrder
  /\ o \in cdrs
  /\ cdrs' = cdrs \ {o}
  /\ pull' = o
  /\ UNCHANGED <<order, calls, push, queue, live, cleaned>>

FinishedNow(os) ==
  [o \in Orders |-> IF o \in os /\ ~order[o].deleted
                    THEN [order[o] EXCEPT !.status = "finished"] ELSE order[o]]

PullCDRFinish ==
  /\ pull # NoOrder
  /\ order' = FinishedNow({pull})
  /\ pull' = NoOrder
  /\ UNCHANGED <<calls, push, queue, live, cdrs, cleaned>>

\* The report is off the list: after an error or a stop it is gone.
PullCDRAbort ==
  /\ pull # NoOrder
  /\ pull' = NoOrder
  /\ UNCHANGED <<order, calls, push, queue, live, cdrs, cleaned>>

CleanOrders(o) ==
  /\ order[o].status = "processing" /\ ~order[o].deleted
  /\ order' = FinishedNow({o})
  /\ cleaned' = cleaned \cup {o}
  /\ UNCHANGED <<calls, push, queue, live, cdrs, pull>>

-----------------------------------------------------------------------------
PushOrder ==
  \/ CheckQueue \/ CheckLoad
  \/ \E state \in [Seats -> SeatStates] : CheckSeats(state)
  \/ \E found \in [Projects -> Columns] : CheckProjects(found)
  \/ SelectOrders \/ Commit \/ Dial \/ PushAbort

Next ==
  \/ \E os \in SUBSET Orders : UploadOrders(os)
  \/ PushOrder
  \/ PullCDRFinish \/ PullCDRAbort
  \/ \E o \in Orders :
       \/ DeleteOrder(o)
       \/ MakeCall(o) \/ ReportCall(o) \/ LoseCall(o)
       \/ PullCDRTake(o)
       \/ CleanOrders(o)

Spec == Init /\ [][Next]_vars

-----------------------------------------------------------------------------
(* Properties. *)

TypeOK ==
  /\ order \in [Orders -> Row]
  /\ calls \in [Orders -> Nat]
  /\ queue \subseteq Orders /\ live \subseteq Orders /\ cdrs \subseteq Orders
  /\ pull \in Orders \cup {NoOrder} /\ cleaned \subseteq Orders
  /\ push.at \in {"idle", "load", "seats", "projects", "select", "commit", "dial"}

\* Orders the people or CleanOrders gave up, whether their call was over or not.
GivenUp == cleaned \cup {o \in Orders : order[o].deleted}

\* However the counts of PushOrder interleave with calls that end and the CTI
\* taking calls: the orders that show as being processed, and the calls on the
\* list or on the telephone whose order nobody gave up, are never more than the
\* robots hold, and the list never exceeds its length.  The calls of orders that
\* were deleted or cleaned are left out: CheckLoad no longer counts them, and
\* together with theirs the robots may be given more.
WithinLimits ==
  /\ Cardinality(WithStatus("processing")) <= MaxRobotCon
  /\ Cardinality((queue \cup live) \ GivenUp) <= MaxRobotCon
  /\ Cardinality(queue) <= MaxCTIQueueLen

\* A customer is called once: an order gets one call at most, although the
\* status it was selected by is not compared again, and what is on a list or
\* on the telephone is an order with its call, in one place only.
CalledOnce ==
  /\ \A o \in Orders : calls[o] <= 1
  /\ \A o \in queue \cup live \cup cdrs \cup ({pull} \ {NoOrder}) : calls[o] = 1
  /\ queue \cap live = {} /\ queue \cap cdrs = {} /\ live \cap cdrs = {}
  /\ pull \notin queue \cup live \cup cdrs

\* A batch never brings a project above what its seats could take when they
\* were counted (limit, kept for this), rounded up to whole calls, although
\* counting, choosing and marking are separate and orders end in between.
BatchFitsSeats ==
  push.at = "commit" =>
    \A p \in Projects :
      OfProject(push.picked, p) # {} =>
        2 * (Count(p) + Cardinality(OfProject(push.picked, p)) - 1) < push.limit[p]

=============================================================================
