------------------------- MODULE ScrmServicesProofs -------------------------
(***************************************************************************)
(* Theorems about the services of the call centre, for any orders,         *)
(* projects, seats, connections, reports, calls, departments and limits.   *)
(*                                                                         *)
(* Orders: no query of PushOrder is repeated before the batch is marked,   *)
(* so the invariant keeps what each count left room for, up to the moment  *)
(* it is used: calls end, orders are deleted and the CTI takes from the    *)
(* list meanwhile, all of which makes more room, and nothing else marks    *)
(* orders as being processed.  The other services follow, each with the    *)
(* invariant of its own steps; ServicesNext takes no others while it is    *)
(* the one that runs.                                                      *)
(***************************************************************************)
EXTENDS ScrmServices, Sequences, FiniteSetTheorems, SequenceTheorems,
        WellFoundedInduction, TLAPS

-----------------------------------------------------------------------------
(* Orders out. *)

OrdersOK ==
  /\ order \in [Orders -> Row]
  /\ calls \in [Orders -> Nat]
  /\ queue \subseteq Orders /\ live \subseteq Orders /\ cdrs \subseteq Orders
  /\ pull \in Orders \cup {NoOrder}
  /\ push.at \in {"commit", "dial"} => push.picked \subseteq Orders

\* An order that waits has no call, neither has one that is picked; what was
\* just marked has its call and is on no list yet.
Uncalled ==
  /\ \A o \in Orders :
       /\ order[o].status = "none" => ~order[o].deleted
       /\ order[o].status \in {"none", "waiting"} /\ ~order[o].deleted => calls[o] = 0
  /\ push.at = "commit" => \A o \in push.picked : calls[o] = 0
  /\ push.at = "dial" =>
       \A o \in push.picked :
         calls[o] = 1 /\ o \notin queue \cup live \cup cdrs /\ o # pull

CallInv == OrdersOK /\ CalledOnce /\ Uncalled

-----------------------------------------------------------------------------
(* Nobody is called twice. *)

LEMMA CallInit ==
  ASSUME PushAssumption, Init
  PROVE  CallInv
  BY DEF PushAssumption, Init, CallInv, OrdersOK, CalledOnce, Uncalled, Row, Status, Idle

LEMMA PicksAreOffered ==
  ASSUME NEW k, NEW offered, NEW found \in kSubset(k, offered)
  PROVE  found \subseteq offered /\ Cardinality(found) = k
  BY DEF kSubset

\* The steps of PushOrder that only look, or give up.
LEMMA LookingKeepsCalls ==
  ASSUME PushAssumption, CallInv, UNCHANGED <<order, calls, queue, live, cdrs, pull>>,
         push'.at \notin {"commit", "dial"}
  PROVE  CallInv'
  BY DEF CallInv, OrdersOK, CalledOnce, Uncalled

LEMMA PushKeepsCalls ==
  ASSUME PushAssumption, CallInv, PushOrder
  PROVE  CallInv'
<1>1. CASE CheckQueue \/ PushAbort
  <2>1. push'.at \notin {"commit", "dial"}
    BY <1>1 DEF CheckQueue, PushAbort, Idle
  <2>2. UNCHANGED <<order, calls, queue, live, cdrs, pull>>
    BY <1>1 DEF CheckQueue, PushAbort, cti
  <2> QED BY <2>1, <2>2, LookingKeepsCalls
<1>2. CASE CheckLoad
  <2>1. push'.at \notin {"commit", "dial"}
    BY <1>2 DEF CheckLoad, Idle
  <2>2. UNCHANGED <<order, calls, queue, live, cdrs, pull>>
    BY <1>2 DEF CheckLoad, cti
  <2> QED BY <2>1, <2>2, LookingKeepsCalls
<1>3. ASSUME NEW state \in [Seats -> SeatStates], CheckSeats(state)
      PROVE  CallInv'
  <2>1. push'.at \notin {"commit", "dial"}
    BY <1>3 DEF CheckSeats, Idle
  <2>2. UNCHANGED <<order, calls, queue, live, cdrs, pull>>
    BY <1>3 DEF CheckSeats, cti
  <2> QED BY <2>1, <2>2, LookingKeepsCalls
<1>4. ASSUME NEW found \in [Projects -> Columns], CheckProjects(found)
      PROVE  CallInv'
  <2>1. push'.at \notin {"commit", "dial"}
    BY <1>4 DEF CheckProjects, Idle
  <2>2. UNCHANGED <<order, calls, queue, live, cdrs, pull>>
    BY <1>4 DEF CheckProjects, cti
  <2> QED BY <2>1, <2>2, LookingKeepsCalls
<1>5. CASE SelectOrders
  <2>1. UNCHANGED <<order, calls, queue, live, cdrs, pull>>
    BY <1>5 DEF SelectOrders, cti
  <2>2. CASE push' = Idle
    <3>1. push'.at \notin {"commit", "dial"}
      BY <2>2 DEF Idle
    <3> QED BY <2>1, <3>1, LookingKeepsCalls
  <2>3. CASE push' # Idle
    <3> DEFINE offered == {o \in WithStatus("waiting") : push.capacity[ProjectOf[o]] > 0}
               k == AtMost(push.room, Cardinality(offered))
    <3>a. PICK found \in kSubset(k, offered) : \E picked \in SUBSET found :
            push' = [at |-> "commit", picked |-> picked, limit |-> push.limit]
      BY <1>5, <2>3 DEF SelectOrders
    <3>b. found \subseteq offered
      BY PicksAreOffered
    <3>1. PICK picked \in SUBSET WithStatus("waiting") :
            push' = [at |-> "commit", picked |-> picked, limit |-> push.limit]
      BY <3>a, <3>b
    <3>2. \A o \in picked : o \in Orders /\ calls[o] = 0
      BY <3>1 DEF WithStatus, CallInv, Uncalled
    <3> QED BY <2>1, <3>1, <3>2 DEF CallInv, OrdersOK, CalledOnce, Uncalled
  <2> QED BY <2>2, <2>3
<1>6. CASE Commit
  <2> DEFINE picked == push.picked
  <2>1. /\ push.at = "commit" /\ picked \subseteq Orders
        /\ \A o \in picked : calls[o] = 0
    BY <1>6 DEF Commit, CallInv, OrdersOK, Uncalled
  <2>2. /\ push' = [at |-> "dial", picked |-> picked]
        /\ UNCHANGED <<queue, live, cdrs, pull>>
    BY <1>6 DEF Commit, cti
  <2>3. \A o \in Orders :
          /\ calls'[o] = IF o \in picked THEN calls[o] + 1 ELSE calls[o]
          /\ order'[o] = IF o \in picked /\ ~order[o].deleted
                         THEN [order[o] EXCEPT !.status = "processing"] ELSE order[o]
    BY <1>6 DEF Commit
  <2>c. \A o \in Orders : calls'[o] = IF o \in picked THEN calls[o] + 1 ELSE calls[o]
    BY <2>3
  <2>4. calls' \in [Orders -> Nat]
    BY <1>6 DEF Commit, CallInv, OrdersOK
  <2>5. order' \in [Orders -> Row]
    BY <1>6 DEF Commit, CallInv, OrdersOK, Row, Status
  <2>6. OrdersOK'
    BY <2>1, <2>2, <2>4, <2>5 DEF CallInv, OrdersOK
  <2>7. \A o \in picked : o \notin queue \cup live \cup cdrs /\ o # pull
    BY <2>1 DEF CallInv, CalledOnce, OrdersOK, PushAssumption
  <2>8. CalledOnce'
    <3>1. \A o \in Orders : calls'[o] <= 1
      BY <2>1, <2>c DEF CallInv, CalledOnce, OrdersOK
    <3>2. \A o \in queue \cup live \cup cdrs \cup ({pull} \ {NoOrder}) : calls'[o] = 1
      BY <2>c, <2>7 DEF CallInv, CalledOnce, OrdersOK
    <3> QED BY <2>2, <3>1, <3>2 DEF CallInv, CalledOnce
  <2>9. Uncalled'
    <3>1. \A o \in Orders : order'[o].deleted = order[o].deleted
      BY <2>3 DEF CallInv, OrdersOK, Row
    <3>2. \A o \in Orders : ~ order[o].deleted /\ o \in picked =>
            order'[o].status = "processing"
      BY <2>3 DEF CallInv, OrdersOK, Row
    <3>3. \A o \in Orders : o \notin picked =>
            order'[o] = order[o] /\ calls'[o] = calls[o]
      BY <2>3
    <3>4. \A o \in Orders :
            /\ order'[o].status = "none" => ~order'[o].deleted
            /\ order'[o].status \in {"none", "waiting"} /\ ~order'[o].deleted
                 => calls'[o] = 0
      <4> TAKE o \in Orders
      <4>1. CASE o \notin picked
        BY <4>1, <3>3 DEF CallInv, Uncalled
      <4>2. CASE o \in picked /\ ~order[o].deleted
        BY <4>2, <3>1, <3>2
      <4>3. CASE o \in picked /\ order[o].deleted
        BY <4>3, <2>3, <3>1 DEF CallInv, Uncalled
      <4> QED BY <4>1, <4>2, <4>3
    <3>5. \A o \in picked : calls'[o] = 1
      BY <2>1, <2>c
    <3> QED BY <2>1, <2>2, <2>7, <3>4, <3>5 DEF Uncalled
  <2> QED BY <2>6, <2>8, <2>9 DEF CallInv
<1>7. CASE Dial
  BY <1>7 DEF Dial, CallInv, OrdersOK, CalledOnce, Uncalled, Idle, PushAssumption
<1> QED BY <1>1, <1>2, <1>3, <1>4, <1>5, <1>6, <1>7 DEF PushOrder

\* What finishes has its call, or was deleted.
LEMMA FinishingKeepsCalls ==
  ASSUME PushAssumption, CallInv, NEW os,
         order' = FinishedNow(os), UNCHANGED <<calls, push, queue, live, cdrs>>,
         pull' \in {pull, NoOrder}
  PROVE  CallInv'
<1>1. \A o \in Orders :
        order'[o] = IF o \in os /\ ~order[o].deleted
                    THEN [order[o] EXCEPT !.status = "finished"] ELSE order[o]
  BY DEF FinishedNow
<1>2. order' \in [Orders -> Row]
  BY DEF FinishedNow, CallInv, OrdersOK, Row, Status
<1>3. OrdersOK'
  BY <1>2 DEF CallInv, OrdersOK
<1>4. CalledOnce'
  BY DEF CallInv, CalledOnce, OrdersOK, PushAssumption
<1>5. \A o \in Orders : \/ order'[o] = order[o]
                        \/ order'[o].status = "finished"
  BY <1>1 DEF CallInv, OrdersOK, Row
<1>6. Uncalled'
  BY <1>5 DEF CallInv, Uncalled, OrdersOK, PushAssumption
<1> QED BY <1>3, <1>4, <1>6 DEF CallInv

LEMMA OthersKeepCalls ==
  ASSUME PushAssumption, CallInv, Next, ~PushOrder
  PROVE  CallInv'
<1>1. ASSUME NEW os \in SUBSET Orders, UploadOrders(os)
      PROVE  CallInv'
  <2>1. order' \in [Orders -> Row]
    BY <1>1 DEF UploadOrders, CallInv, OrdersOK, Row, Status
  <2>2. \A o \in Orders : \/ order'[o] = order[o]
                          \/ order[o].status = "none" /\ order'[o].status = "waiting"
    BY <1>1 DEF UploadOrders, CallInv, OrdersOK
  <2> QED BY <1>1, <2>1, <2>2 DEF UploadOrders, CallInv, OrdersOK, CalledOnce, Uncalled, cti
<1>2. ASSUME NEW o \in Orders, DeleteOrder(o)
      PROVE  CallInv'
  <2>1. order' \in [Orders -> Row]
    BY <1>2 DEF DeleteOrder, CallInv, OrdersOK, Row
  <2>2. \A r \in Orders : \/ order'[r] = order[r]
                          \/ order'[r].deleted /\ order'[r].status # "none"
    BY <1>2 DEF DeleteOrder, CallInv, OrdersOK, Row
  <2> QED BY <1>2, <2>1, <2>2 DEF DeleteOrder, CallInv, OrdersOK, CalledOnce, Uncalled, cti
<1>3. ASSUME NEW o \in Orders, MakeCall(o) \/ ReportCall(o) \/ LoseCall(o) \/ PullCDRTake(o)
      PROVE  CallInv'
  <2>1. CASE MakeCall(o)
    BY <2>1 DEF MakeCall, CallInv, OrdersOK, CalledOnce, Uncalled
  <2>2. CASE ReportCall(o)
    BY <2>2 DEF ReportCall, CallInv, OrdersOK, CalledOnce, Uncalled
  <2>3. CASE LoseCall(o)
    BY <2>3 DEF LoseCall, CallInv, OrdersOK, CalledOnce, Uncalled
  <2>4. CASE PullCDRTake(o)
    BY <2>4 DEF PullCDRTake, CallInv, OrdersOK, CalledOnce, Uncalled, PushAssumption
  <2> QED BY <1>3, <2>1, <2>2, <2>3, <2>4
<1>4. CASE PullCDRFinish
  <2>1. order' = FinishedNow({pull}) /\ UNCHANGED <<calls, push, queue, live, cdrs>>
        /\ pull' = NoOrder
    BY <1>4 DEF PullCDRFinish
  <2> QED BY <2>1, FinishingKeepsCalls
<1>5. ASSUME NEW o \in Orders, CleanOrders(o)
      PROVE  CallInv'
  <2>1. order' = FinishedNow({o}) /\ UNCHANGED <<calls, push, queue, live, cdrs, pull>>
    BY <1>5 DEF CleanOrders, cti
  <2> QED BY <2>1, FinishingKeepsCalls
<1>6. CASE PullCDRAbort
  BY <1>6 DEF PullCDRAbort, CallInv, OrdersOK, CalledOnce, Uncalled, PushAssumption
<1> QED BY <1>1, <1>2, <1>3, <1>4, <1>5, <1>6 DEF Next

LEMMA CallStep ==
  ASSUME PushAssumption, CallInv, [Next]_vars
  PROVE  CallInv'
<1>1. CASE UNCHANGED vars
  BY <1>1 DEF vars, CallInv, OrdersOK, CalledOnce, Uncalled
<1> QED BY <1>1, PushKeepsCalls, OthersKeepCalls

\* However the loops, the people, the CTI and deletions interleave, and
\* wherever PushOrder is cut off, an order is called once at most and is on
\* one list or on the telephone, never on two (cti.go:304).
THEOREM OrdersAreCalledOnce ==
  ASSUME PushAssumption
  PROVE  Spec => []CalledOnce
<1>1. Init => CallInv
  BY CallInit
<1>2. CallInv /\ [Next]_vars => CallInv'
  BY CallStep
<1>3. CallInv => CalledOnce
  BY DEF CallInv
<1> QED BY <1>1, <1>2, <1>3, PTL DEF Spec

-----------------------------------------------------------------------------
(* Room left stays left. *)

\* What PushOrder counts.
RowsWithin ==
  /\ Cardinality(WithStatus("processing")) <= MaxRobotCon
  /\ Cardinality(queue) <= MaxCTIQueueLen

RoomInv ==
  /\ RowsWithin
  /\ push.at \in {"load", "seats", "projects", "select"} =>
       push.room \in Nat /\ Cardinality(queue) + push.room <= MaxCTIQueueLen
  /\ push.at \in {"seats", "projects", "select"} =>
       Cardinality(WithStatus("processing")) + push.room <= MaxRobotCon
  /\ push.at \in {"commit", "dial"} =>
       Cardinality(queue) + Cardinality(push.picked) <= MaxCTIQueueLen
  /\ push.at = "commit" =>
       Cardinality(WithStatus("processing")) + Cardinality(push.picked) <= MaxRobotCon

\* A project that is short of orders has room for a positive capacity.
BatchInv ==
  /\ push.at = "projects" => push.spare \in [Projects -> Nat] /\ push.busy \in [Projects -> Nat]
  /\ push.at \in {"select", "commit"} => push.limit \in [Projects -> Int]
  /\ push.at = "select" =>
       /\ push.capacity \in [Projects -> Int]
       /\ \A p \in Projects : push.capacity[p] > 0 =>
            2 * Count(p) <= push.limit[p] - push.capacity[p]
  /\ BatchFitsSeats

LimitInv == CallInv /\ RoomInv /\ BatchInv

LEMMA SetsAreFinite ==
  ASSUME PushAssumption, OrdersOK
  PROVE  /\ IsFiniteSet(WithStatus("processing"))
         /\ Cardinality(WithStatus("processing")) \in Nat
         /\ IsFiniteSet(queue) /\ Cardinality(queue) \in Nat
         /\ \A os \in SUBSET Orders : IsFiniteSet(os) /\ Cardinality(os) \in Nat
<1>1. \A os \in SUBSET Orders : IsFiniteSet(os) /\ Cardinality(os) \in Nat
  BY FS_Subset, FS_CardinalityType DEF PushAssumption
<1>2. WithStatus("processing") \subseteq Orders
  BY DEF WithStatus
<1> QED BY <1>1, <1>2 DEF OrdersOK

LEMMA CountIsNat ==
  ASSUME PushAssumption, OrdersOK, NEW p \in Projects
  PROVE  Count(p) \in Nat
<1>1. {o \in Orders : ProjectOf[o] = p /\ order[o].status = "processing"} \in SUBSET Orders
  OBVIOUS
<1> QED BY <1>1, SetsAreFinite DEF Count

LEMMA SmallerIsLess ==
  ASSUME PushAssumption, NEW small, NEW large \in SUBSET Orders, small \subseteq large
  PROVE  /\ Cardinality(small) \in Nat /\ Cardinality(large) \in Nat
         /\ Cardinality(small) <= Cardinality(large)
  BY FS_Subset, FS_CardinalityType DEF PushAssumption

\* A step that marks no order and puts none on the list keeps all room.
LEMMA LessLeavesRoom ==
  ASSUME PushAssumption, LimitInv, OrdersOK',
         push' = push \/ push'.at \in {"idle"},
         queue' \subseteq queue,
         \A o \in Orders : order'[o].status = "processing"
                           => order[o].status = "processing",
         \A o \in Orders : order'[o].status = "processing" /\ ~order'[o].deleted
                           => ~order[o].deleted
  PROVE  RoomInv' /\ BatchInv'
<1>1. /\ Cardinality(queue)' \in Nat /\ Cardinality(queue) \in Nat
      /\ Cardinality(queue)' <= Cardinality(queue)
  BY SmallerIsLess DEF LimitInv, CallInv, OrdersOK
<1>2. WithStatus("processing")' \subseteq WithStatus("processing")
  BY DEF WithStatus
<1>3. WithStatus("processing") \in SUBSET Orders
  BY DEF WithStatus
<1>4. /\ Cardinality(WithStatus("processing"))' \in Nat
      /\ Cardinality(WithStatus("processing")) \in Nat
      /\ Cardinality(WithStatus("processing"))' <= Cardinality(WithStatus("processing"))
  BY <1>2, <1>3, SmallerIsLess
<1>5. \A p \in Projects : Count(p)' \in Nat /\ Count(p) \in Nat /\ Count(p)' <= Count(p)
  <2> TAKE p \in Projects
  <2> DEFINE now == {o \in Orders : ProjectOf[o] = p /\ order[o].status = "processing"}
             then == {o \in Orders : ProjectOf[o] = p /\ order'[o].status = "processing"}
  <2>1. then \subseteq now /\ now \in SUBSET Orders
    OBVIOUS
  <2>2. Cardinality(then) \in Nat /\ Cardinality(now) \in Nat /\ Cardinality(then) <= Cardinality(now)
    BY <2>1, SmallerIsLess
  <2> QED BY <2>2 DEF Count
<1>6. CASE push' = push
  <2>1. \A os \in SUBSET Orders : Cardinality(os) \in Nat
    BY SetsAreFinite DEF LimitInv, CallInv
  <2>2. RoomInv'
    <3>1. push.at \in {"commit", "dial"} => Cardinality(push.picked) \in Nat
      BY <2>1 DEF LimitInv, CallInv, OrdersOK
    <3> QED BY <1>1, <1>4, <1>6, <3>1 DEF LimitInv, RoomInv, RowsWithin, PushAssumption
  <2>3. BatchFitsSeats'
    <3> SUFFICES ASSUME push.at = "commit", NEW p \in Projects, OfProject(push.picked, p) # {}
                 PROVE  2 * (Count(p)' + Cardinality(OfProject(push.picked, p)) - 1)
                          < push.limit[p]
      BY <1>6 DEF BatchFitsSeats, OfProject
    <3>1. 2 * (Count(p) + Cardinality(OfProject(push.picked, p)) - 1) < push.limit[p]
      BY DEF LimitInv, BatchInv, BatchFitsSeats
    <3>2. push.limit[p] \in Int
      BY DEF LimitInv, BatchInv
    <3>3. OfProject(push.picked, p) \in SUBSET Orders
      BY DEF OfProject, LimitInv, CallInv, OrdersOK
    <3>4. Cardinality(OfProject(push.picked, p)) \in Nat
      BY <2>1, <3>3
    <3> QED BY <1>5, <3>1, <3>2, <3>4
  <2>4. push.at = "select" =>
          \A p \in Projects : push.capacity[p] > 0 =>
            2 * Count(p)' <= push.limit[p] - push.capacity[p]
    <3> SUFFICES ASSUME push.at = "select", NEW p \in Projects, push.capacity[p] > 0
                 PROVE  2 * Count(p)' <= push.limit[p] - push.capacity[p]
      OBVIOUS
    <3>1. push.limit[p] \in Int /\ push.capacity[p] \in Int
      BY DEF LimitInv, BatchInv
    <3>2. 2 * Count(p) <= push.limit[p] - push.capacity[p]
      BY DEF LimitInv, BatchInv
    <3> QED BY <1>5, <3>1, <3>2
  <2> QED BY <1>6, <2>2, <2>3, <2>4 DEF LimitInv, BatchInv
<1>7. CASE push'.at = "idle"
  BY <1>1, <1>4, <1>7 DEF LimitInv, RoomInv, BatchInv, BatchFitsSeats, RowsWithin, PushAssumption
<1> QED BY <1>6, <1>7

LEMMA LimitInit ==
  ASSUME PushAssumption, Init
  PROVE  LimitInv
<1>1. CallInv
  BY CallInit
<1>2. WithStatus("processing") = {} /\ queue = {} /\ push.at = "idle"
  BY DEF Init, WithStatus, Idle
<1>3. Cardinality({}) = 0
  BY FS_EmptySet
<1> QED BY <1>1, <1>2, <1>3
        DEF LimitInv, RoomInv, BatchInv, BatchFitsSeats, RowsWithin, PushAssumption

LEMMA OthersLeaveRoom ==
  ASSUME PushAssumption, LimitInv, OrdersOK', Next, ~PushOrder
  PROVE  RoomInv' /\ BatchInv'
<1> USE DEF LimitInv, CallInv
<1>1. ASSUME NEW os \in SUBSET Orders, UploadOrders(os)
      PROVE  RoomInv' /\ BatchInv'
  <2>1. \A o \in Orders : order'[o].status = "processing" => order'[o] = order[o]
    BY <1>1 DEF UploadOrders
  <2> QED BY <1>1, <2>1, LessLeavesRoom DEF UploadOrders, cti
<1>2. ASSUME NEW o \in Orders, DeleteOrder(o)
      PROVE  RoomInv' /\ BatchInv'
  <2>1. \A r \in Orders : /\ order'[r].status = order[r].status
                          /\ ~order'[r].deleted => ~order[r].deleted
    BY <1>2 DEF DeleteOrder, OrdersOK, Row
  <2> QED BY <1>2, <2>1, LessLeavesRoom DEF DeleteOrder, cti
<1>3. ASSUME NEW os, order' = FinishedNow(os), UNCHANGED <<push, queue>>
      PROVE  RoomInv' /\ BatchInv'
  <2>1. \A o \in Orders : \/ order'[o] = order[o]
                          \/ order'[o].status = "finished"
    BY <1>3 DEF FinishedNow, OrdersOK, Row
  <2> QED BY <1>3, <2>1, LessLeavesRoom
<1>4. CASE PullCDRFinish
  BY <1>3, <1>4 DEF PullCDRFinish
<1>5. ASSUME NEW o \in Orders, CleanOrders(o)
      PROVE  RoomInv' /\ BatchInv'
  BY <1>3, <1>5 DEF CleanOrders, cti
<1>6. ASSUME NEW o \in Orders, MakeCall(o) \/ ReportCall(o) \/ LoseCall(o) \/ PullCDRTake(o)
      PROVE  RoomInv' /\ BatchInv'
  <2>1. queue' \subseteq queue /\ order' = order /\ push' = push
    BY <1>6 DEF MakeCall, ReportCall, LoseCall, PullCDRTake
  <2> QED BY <2>1, LessLeavesRoom
<1>7. CASE PullCDRAbort
  BY <1>7, LessLeavesRoom DEF PullCDRAbort
<1> QED BY <1>1, <1>2, <1>4, <1>5, <1>6, <1>7 DEF Next

\* What a step that only looks finds is measured against the same rows.
LEMMA SameRows ==
  ASSUME UNCHANGED <<order, queue>>
  PROVE  /\ WithStatus("processing")' = WithStatus("processing")
         /\ queue' = queue
         /\ \A p \in Projects : Count(p)' = Count(p)
  BY DEF WithStatus, Count

LEMMA CheckQueueLeavesRoom ==
  ASSUME PushAssumption, LimitInv, CheckQueue
  PROVE  RoomInv' /\ BatchInv'
<1>1. Cardinality(queue) \in Nat /\ MaxCTIQueueLen \in Nat
  BY SetsAreFinite DEF LimitInv, CallInv, PushAssumption
<1>2. push' = [at |-> "load", room |-> MaxCTIQueueLen - Cardinality(queue)]
      /\ UNCHANGED <<order, queue>> /\ Cardinality(queue) < MaxCTIQueueLen
  BY DEF CheckQueue, cti
<1>3. RowsWithin'
  BY <1>2, SameRows DEF RowsWithin, LimitInv, RoomInv
<1> QED BY <1>1, <1>2, <1>3 DEF RoomInv, BatchInv, BatchFitsSeats

LEMMA CheckLoadLeavesRoom ==
  ASSUME PushAssumption, LimitInv, CheckLoad
  PROVE  RoomInv' /\ BatchInv'
<1> DEFINE load == Cardinality(WithStatus("processing"))
<1>1. Cardinality(queue) \in Nat /\ load \in Nat /\ MaxCTIQueueLen \in Nat /\ MaxRobotCon \in Nat
  BY SetsAreFinite DEF LimitInv, CallInv, PushAssumption
<1>2. UNCHANGED <<order, queue>> /\ load' = load
  BY SameRows DEF CheckLoad, cti
<1>3. RowsWithin'
  BY <1>2, SameRows DEF RowsWithin, LimitInv, RoomInv
<1>4. CASE push'.at = "idle"
  BY <1>3, <1>4 DEF RoomInv, BatchInv, BatchFitsSeats
<1>5. CASE push'.at # "idle"
  <2>1. load < MaxRobotCon
        /\ push' = [at |-> "seats", room |-> AtMost(push.room, MaxRobotCon - load)]
    BY <1>1, <1>5 DEF CheckLoad, Idle
  <2>2. push.room \in Nat /\ Cardinality(queue) + push.room <= MaxCTIQueueLen
    BY DEF CheckLoad, LimitInv, RoomInv
  <2>3. /\ push'.room \in Nat /\ push'.room <= push.room
        /\ load + push'.room <= MaxRobotCon
    BY <1>1, <2>1, <2>2 DEF AtMost
  <2>4. push'.at = "seats"
    BY <2>1
  <2>5. Cardinality(queue)' + push'.room <= MaxCTIQueueLen
    BY <1>1, <1>2, <2>2, <2>3
  <2> QED BY <1>2, <1>3, <2>3, <2>4, <2>5 DEF RoomInv, BatchInv, BatchFitsSeats
<1> QED BY <1>4, <1>5

LEMMA CheckSeatsLeavesRoom ==
  ASSUME PushAssumption, LimitInv, NEW state \in [Seats -> SeatStates], CheckSeats(state)
  PROVE  RoomInv' /\ BatchInv'
<1>1. UNCHANGED <<order, queue>> /\ push.at = "seats"
  BY DEF CheckSeats, cti
<1>2. RowsWithin'
  BY <1>1, SameRows DEF RowsWithin, LimitInv, RoomInv
<1>3. CASE push' = Idle
  BY <1>2, <1>3 DEF RoomInv, BatchInv, BatchFitsSeats, Idle
<1>4. CASE push' # Idle
  <2> DEFINE spare == [p \in Projects |->
               Cardinality({s \in Serving(state, p) : ~state[s].locked})]
             busy == [p \in Projects |->
               Cardinality({s \in Serving(state, p) : state[s].locked})]
  <2>1. push' = [at |-> "projects", room |-> push.room, spare |-> spare, busy |-> busy]
    BY <1>4 DEF CheckSeats
  <2>2. \A seats \in SUBSET Seats : Cardinality(seats) \in Nat
    BY FS_Subset, FS_CardinalityType DEF PushAssumption
  <2>3. spare \in [Projects -> Nat] /\ busy \in [Projects -> Nat]
    BY <2>2 DEF Serving
  <2>4. push'.at = "projects" /\ push'.room = push.room
        /\ push'.spare = spare /\ push'.busy = busy
    BY <2>1
  <2>5. RoomInv'
    BY <1>1, <1>2, <2>4, SameRows DEF LimitInv, RoomInv
  <2> HIDE DEF spare, busy
  <2> QED BY <2>3, <2>4, <2>5 DEF BatchInv, BatchFitsSeats
<1> QED BY <1>3, <1>4

LEMMA LoadIsNat ==
  \A a, b, c, d \in Nat : a * b + c * (d + 2) \in Nat
OBVIOUS

LEMMA CheckProjectsLeavesRoom ==
  ASSUME PushAssumption, LimitInv, NEW found \in [Projects -> Columns], CheckProjects(found)
  PROVE  RoomInv' /\ BatchInv'
<1>1. UNCHANGED <<order, queue>> /\ push.at = "projects"
  BY DEF CheckProjects, cti
<1>2. RowsWithin'
  BY <1>1, SameRows DEF RowsWithin, LimitInv, RoomInv
<1>3. CASE push' = Idle
  BY <1>2, <1>3 DEF RoomInv, BatchInv, BatchFitsSeats, Idle
<1>4. CASE push' # Idle
  <2> DEFINE capacity == [p \in Projects |-> Capacity(found, p)]
             limit == [p \in Projects |-> MaxLoad(found, p)]
  <2>1. push' = [at |-> "select", room |-> push.room, capacity |-> capacity, limit |-> limit]
    BY <1>4 DEF CheckProjects
  <2>2. push'.at = "select" /\ push'.room = push.room
        /\ push'.capacity = capacity /\ push'.limit = limit
    BY <2>1
  <2>3. \A p \in Projects : MaxLoad(found, p) \in Nat
    <3> TAKE p \in Projects
    <3>1. found[p].spare \in Nat /\ found[p].busy \in Nat
      BY DEF PushAssumption
    <3>2. push.spare[p] \in Nat /\ push.busy[p] \in Nat
      BY <1>1 DEF LimitInv, BatchInv
    <3> QED BY <3>1, <3>2, LoadIsNat DEF MaxLoad
  <2>4. \A p \in Projects :
          /\ Capacity(found, p) \in Int
          /\ Capacity(found, p) > 0 =>
               2 * Count(p) = MaxLoad(found, p) - Capacity(found, p)
    <3> TAKE p \in Projects
    <3>1. Count(p) \in Nat /\ MaxLoad(found, p) \in Nat
      BY <2>3, CountIsNat DEF LimitInv, CallInv
    <3> QED BY <3>1 DEF Capacity
  <2>5. RoomInv'
    BY <1>1, <1>2, <2>2, SameRows DEF LimitInv, RoomInv
  <2>6. capacity \in [Projects -> Int] /\ limit \in [Projects -> Int]
    BY <2>3, <2>4
  <2>7. \A p \in Projects : capacity[p] > 0 => 2 * Count(p)' <= limit[p] - capacity[p]
    <3> SUFFICES ASSUME NEW p \in Projects, Capacity(found, p) > 0
                 PROVE  2 * Count(p)' <= MaxLoad(found, p) - Capacity(found, p)
      OBVIOUS
    <3>1. Count(p)' = Count(p) /\ Count(p) \in Nat
      BY <1>1, SameRows, CountIsNat DEF LimitInv, CallInv
    <3> QED BY <2>3, <2>4, <3>1
  <2> HIDE DEF capacity, limit
  <2> QED BY <2>2, <2>5, <2>6, <2>7 DEF BatchInv, BatchFitsSeats
<1> QED BY <1>3, <1>4

\* A batch is within the room that was left and the capacity of each project.
LEMMA PicksFit ==
  ASSUME PushAssumption, LimitInv, push.at = "select",
         NEW found \in SUBSET Orders, NEW picked \in SUBSET found, Picks(found, picked),
         NEW p \in Projects, OfProject(picked, p) # {}
  PROVE  2 * (Count(p) + Cardinality(OfProject(picked, p)) - 1) < push.limit[p]
<1> DEFINE n == Cardinality(OfProject(picked, p))
           m == Cardinality(OfProject(found, p))
           c == push.capacity[p]
<1>1. OfProject(picked, p) \in SUBSET Orders /\ OfProject(found, p) \in SUBSET Orders
  BY DEF OfProject
<1>2. n \in Nat /\ m \in Nat /\ IsFiniteSet(OfProject(picked, p))
  BY <1>1, SetsAreFinite DEF LimitInv, CallInv
<1>3. n # 0
  BY <1>2, FS_EmptySet
<1>4. c \in Int /\ push.limit[p] \in Int /\ Count(p) \in Nat
  BY CountIsNat DEF LimitInv, CallInv, BatchInv
<1>5. n = AtMost(m, Ceiling(c))
  BY DEF Picks
<1> HIDE DEF n, m, c
<1>6. c > 0 /\ 2 * n <= c + 1
  BY <1>2, <1>3, <1>4, <1>5 DEF AtMost, Ceiling
<1>7. 2 * Count(p) <= push.limit[p] - c
  BY <1>6 DEF LimitInv, BatchInv, c
<1>8. 2 * (Count(p) + n - 1) < push.limit[p]
  BY <1>2, <1>4, <1>6, <1>7
<1> QED BY <1>8 DEF n

LEMMA SelectOrdersLeavesRoom ==
  ASSUME PushAssumption, LimitInv, SelectOrders
  PROVE  RoomInv' /\ BatchInv'
<1>1. UNCHANGED <<order, queue>> /\ push.at = "select"
  BY DEF SelectOrders, cti
<1>2. RowsWithin'
  BY <1>1, SameRows DEF RowsWithin, LimitInv, RoomInv
<1>3. CASE push' = Idle
  BY <1>2, <1>3 DEF RoomInv, BatchInv, BatchFitsSeats, Idle
<1>4. CASE push' # Idle
  <2> DEFINE offered == {o \in WithStatus("waiting") : push.capacity[ProjectOf[o]] > 0}
             k == AtMost(push.room, Cardinality(offered))
             load == Cardinality(WithStatus("processing"))
  <2>1. PICK found \in kSubset(k, offered) : \E picked \in SUBSET found :
          /\ Picks(found, picked)
          /\ push' = [at |-> "commit", picked |-> picked, limit |-> push.limit]
    BY <1>4 DEF SelectOrders
  <2>2. PICK picked \in SUBSET found :
          /\ Picks(found, picked)
          /\ push' = [at |-> "commit", picked |-> picked, limit |-> push.limit]
    BY <2>1
  <2>3. offered \in SUBSET Orders /\ found \subseteq offered /\ Cardinality(found) = k
    BY <2>1, PicksAreOffered DEF WithStatus
  <2>4. found \in SUBSET Orders /\ Cardinality(offered) \in Nat
    BY <2>3, SetsAreFinite DEF LimitInv, CallInv
  <2>5. push.room \in Nat /\ Cardinality(queue) + push.room <= MaxCTIQueueLen
        /\ load + push.room <= MaxRobotCon
    BY <1>1 DEF LimitInv, RoomInv
  <2>6. k <= push.room
    BY <2>4, <2>5 DEF AtMost
  <2>7. Cardinality(picked) \in Nat /\ Cardinality(found) \in Nat
        /\ Cardinality(picked) <= Cardinality(found)
    BY <2>4, SmallerIsLess
  <2>8. Cardinality(queue) \in Nat /\ load \in Nat
        /\ MaxCTIQueueLen \in Nat /\ MaxRobotCon \in Nat
    BY SetsAreFinite DEF LimitInv, CallInv, PushAssumption
  <2> HIDE DEF k, load, offered
  <2>9. Cardinality(queue) + Cardinality(picked) <= MaxCTIQueueLen
        /\ load + Cardinality(picked) <= MaxRobotCon
    BY <2>3, <2>5, <2>6, <2>7, <2>8
  <2>10. push'.at = "commit" /\ push'.picked = picked /\ push'.limit = push.limit
    BY <2>2
  <2>11. RoomInv'
    BY <1>1, <1>2, <2>9, <2>10, SameRows DEF RoomInv, load
  <2>12. BatchFitsSeats'
    <3> SUFFICES ASSUME NEW p \in Projects, OfProject(picked, p) # {}
                 PROVE  2 * (Count(p)' + Cardinality(OfProject(picked, p)) - 1)
                          < push.limit[p]
      BY <2>10 DEF BatchFitsSeats, OfProject
    <3>1. Count(p)' = Count(p)
      BY <1>1, SameRows
    <3> QED BY <1>1, <2>2, <2>4, <3>1, PicksFit
  <2>13. push.limit \in [Projects -> Int]
    BY <1>1 DEF LimitInv, BatchInv
  <2> QED BY <2>10, <2>11, <2>12, <2>13 DEF BatchInv
<1> QED BY <1>3, <1>4

LEMMA CommitLeavesRoom ==
  ASSUME PushAssumption, LimitInv, Commit
  PROVE  RoomInv' /\ BatchInv'
<1> DEFINE marked == WithStatus("processing")
<1>1. queue' = queue /\ push' = [at |-> "dial", picked |-> push.picked]
      /\ push.at = "commit"
  BY DEF Commit, cti
<1>2. marked' \subseteq marked \cup push.picked
  BY DEF Commit, WithStatus, LimitInv, CallInv, OrdersOK
<1>3. marked \in SUBSET Orders /\ push.picked \in SUBSET Orders
  BY <1>1 DEF WithStatus, LimitInv, CallInv, OrdersOK
<1>4. IsFiniteSet(marked) /\ IsFiniteSet(push.picked)
      /\ Cardinality(marked) \in Nat /\ Cardinality(push.picked) \in Nat
      /\ Cardinality(marked \cap push.picked) \in Nat
  BY <1>3, SetsAreFinite DEF LimitInv, CallInv
<1>5. Cardinality(marked \cup push.picked)
        = Cardinality(marked) + Cardinality(push.picked) - Cardinality(marked \cap push.picked)
  BY <1>4, FS_Union
<1>6. Cardinality(marked') \in Nat /\ Cardinality(marked \cup push.picked) \in Nat
      /\ Cardinality(marked') <= Cardinality(marked \cup push.picked)
  BY <1>2, <1>3, SmallerIsLess
<1>7. Cardinality(marked) + Cardinality(push.picked) <= MaxRobotCon
      /\ Cardinality(queue) + Cardinality(push.picked) <= MaxCTIQueueLen
      /\ Cardinality(queue) <= MaxCTIQueueLen
  BY <1>1 DEF LimitInv, RoomInv, RowsWithin
<1>8. MaxRobotCon \in Nat
  BY DEF PushAssumption
<1> HIDE DEF marked
<1>9. Cardinality(marked') <= MaxRobotCon
  BY <1>4, <1>5, <1>6, <1>7, <1>8
<1>10. push'.at = "dial" /\ push'.picked = push.picked
  BY <1>1
<1> QED BY <1>1, <1>7, <1>9, <1>10
        DEF RoomInv, BatchInv, BatchFitsSeats, RowsWithin, marked

LEMMA DialLeavesRoom ==
  ASSUME PushAssumption, LimitInv, Dial
  PROVE  RoomInv' /\ BatchInv'
<1>1. queue' = queue \cup push.picked /\ push' = Idle /\ order' = order
      /\ push.at = "dial"
  BY DEF Dial
<1>2. push.picked \in SUBSET Orders /\ queue \in SUBSET Orders
  BY <1>1 DEF LimitInv, CallInv, OrdersOK
<1>3. IsFiniteSet(queue) /\ IsFiniteSet(push.picked)
      /\ Cardinality(queue) \in Nat /\ Cardinality(push.picked) \in Nat
      /\ Cardinality(queue \cap push.picked) \in Nat
  BY <1>2, SetsAreFinite DEF LimitInv, CallInv
<1>4. Cardinality(queue \cup push.picked)
        = Cardinality(queue) + Cardinality(push.picked) - Cardinality(queue \cap push.picked)
  BY <1>3, FS_Union
<1>5. Cardinality(queue) + Cardinality(push.picked) <= MaxCTIQueueLen
  BY <1>1 DEF LimitInv, RoomInv
<1>6. Cardinality(queue') <= MaxCTIQueueLen
  BY <1>1, <1>3, <1>4, <1>5 DEF PushAssumption
<1>7. WithStatus("processing")' = WithStatus("processing")
  BY <1>1 DEF WithStatus
<1> QED BY <1>1, <1>6, <1>7
        DEF LimitInv, RoomInv, BatchInv, BatchFitsSeats, RowsWithin, Idle

LEMMA AbortLeavesRoom ==
  ASSUME PushAssumption, LimitInv, PushAbort
  PROVE  RoomInv' /\ BatchInv'
<1>1. UNCHANGED <<order, queue>> /\ push'.at = "idle"
  BY DEF PushAbort, cti, Idle
<1>2. RowsWithin'
  BY <1>1, SameRows DEF RowsWithin, LimitInv, RoomInv
<1> QED BY <1>1, <1>2 DEF RoomInv, BatchInv, BatchFitsSeats

LEMMA LimitStep ==
  ASSUME PushAssumption, LimitInv, [Next]_vars
  PROVE  LimitInv'
<1>1. CallInv'
  BY CallStep DEF LimitInv
<1>2. CASE UNCHANGED vars
  <2>1. push' = push /\ queue' = queue /\ order' = order
    BY <1>2 DEF vars
  <2> QED BY <1>1, <2>1, LessLeavesRoom DEF LimitInv, CallInv
<1>3. CASE Next /\ ~PushOrder
  BY <1>1, <1>3, OthersLeaveRoom DEF LimitInv, CallInv
<1>4. CASE PushOrder
  <2>1. RoomInv' /\ BatchInv'
    BY <1>4, CheckQueueLeavesRoom, CheckLoadLeavesRoom, CheckSeatsLeavesRoom,
       CheckProjectsLeavesRoom, SelectOrdersLeavesRoom, CommitLeavesRoom,
       DialLeavesRoom, AbortLeavesRoom DEF PushOrder
  <2> QED BY <1>1, <2>1 DEF LimitInv
<1> QED BY <1>2, <1>3, <1>4

\* A call on the list or on the telephone is that of an order being processed,
\* unless somebody gave the order up; so is one that is about to be listed.
Processed(o) == o \in GivenUp \/ o \in WithStatus("processing")

UnderWay ==
  /\ \A o \in queue \cup live : Processed(o)
  /\ push.at = "dial" => \A o \in push.picked : Processed(o)

LEMMA UnderWayStep ==
  ASSUME PushAssumption, CallInv, UnderWay, [Next]_vars
  PROVE  UnderWay'
<1>1. ASSUME \A o \in queue \cup live : Processed(o) => Processed(o)',
             queue' \cup live' \subseteq queue \cup live,
             push'.at = "dial" => push' = push /\ \A o \in push.picked :
                                    Processed(o) => Processed(o)'
      PROVE  UnderWay'
  BY <1>1 DEF UnderWay
<1>2. ASSUME order' = order, cleaned' = cleaned
      PROVE  \A o : Processed(o) => Processed(o)'
  BY <1>2 DEF Processed, GivenUp, WithStatus
<1>3. CASE UNCHANGED vars
  BY <1>1, <1>2, <1>3 DEF vars
<1>4. ASSUME NEW os \in SUBSET Orders, UploadOrders(os)
      PROVE  UnderWay'
  <2>1. \A o \in Orders : /\ order[o].status = "processing" => order'[o] = order[o]
                          /\ order[o].deleted => order'[o] = order[o]
    BY <1>4 DEF UploadOrders, CallInv, Uncalled, OrdersOK
  <2>2. cleaned' = cleaned /\ push' = push /\ queue' = queue /\ live' = live
    BY <1>4 DEF UploadOrders, cti
  <2>3. \A o \in Orders : Processed(o) => Processed(o)'
    BY <2>1, <2>2 DEF Processed, GivenUp, WithStatus
  <2> QED BY <1>1, <2>2, <2>3 DEF CallInv, OrdersOK
<1>5. ASSUME NEW r \in Orders, DeleteOrder(r)
      PROVE  UnderWay'
  <2>1. \A o \in Orders : /\ order[o].deleted => order'[o].deleted
                          /\ order'[o] = order[o] \/ order'[o].deleted
    BY <1>5 DEF DeleteOrder, CallInv, OrdersOK, Row
  <2>2. cleaned' = cleaned /\ push' = push /\ queue' = queue /\ live' = live
    BY <1>5 DEF DeleteOrder, cti
  <2>3. \A o \in Orders : Processed(o) => Processed(o)'
    BY <2>1, <2>2 DEF Processed, GivenUp, WithStatus
  <2> QED BY <1>1, <2>2, <2>3 DEF CallInv, OrdersOK
<1>6. ASSUME NEW r \in Orders, MakeCall(r) \/ ReportCall(r) \/ LoseCall(r) \/ PullCDRTake(r)
      PROVE  UnderWay'
  <2>1. order' = order /\ cleaned' = cleaned /\ push' = push
        /\ queue' \cup live' \subseteq queue \cup live
    BY <1>6 DEF MakeCall, ReportCall, LoseCall, PullCDRTake
  <2> QED BY <1>1, <1>2, <2>1
<1>7. CASE PullCDRAbort
  BY <1>1, <1>2, <1>7 DEF PullCDRAbort
\* The order whose report came in is on no list and not about to be listed.
<1>8. CASE PullCDRFinish
  <2>1. \A o \in Orders \ {pull} : order'[o] = order[o]
    BY <1>8 DEF PullCDRFinish, FinishedNow
  <2>2. cleaned' = cleaned /\ push' = push /\ queue' = queue /\ live' = live
    BY <1>8 DEF PullCDRFinish
  <2>3. \A o \in Orders \ {pull} : Processed(o) => Processed(o)'
    BY <2>1, <2>2 DEF Processed, GivenUp, WithStatus
  <2>4. pull \notin queue \cup live /\ (push.at = "dial" => pull \notin push.picked)
    BY <1>8 DEF PullCDRFinish, CallInv, CalledOnce, Uncalled
  <2> QED BY <1>1, <2>2, <2>3, <2>4 DEF CallInv, OrdersOK
<1>9. ASSUME NEW r \in Orders, CleanOrders(r)
      PROVE  UnderWay'
  <2>1. \A o \in Orders : /\ order[o].deleted => order'[o].deleted
                          /\ o # r => order'[o] = order[o]
    BY <1>9 DEF CleanOrders, FinishedNow, CallInv, OrdersOK, Row
  <2>2. cleaned' = cleaned \cup {r} /\ push' = push /\ queue' = queue /\ live' = live
    BY <1>9 DEF CleanOrders
  <2>3. \A o \in Orders : Processed(o) => Processed(o)'
    BY <2>1, <2>2 DEF Processed, GivenUp, WithStatus
  <2> QED BY <1>1, <2>2, <2>3 DEF CallInv, OrdersOK
<1>10. CASE PushOrder
  <2>1. CASE CheckQueue \/ CheckLoad \/ PushAbort \/ SelectOrders
             \/ (\E state \in [Seats -> SeatStates] : CheckSeats(state))
             \/ (\E found \in [Projects -> Columns] : CheckProjects(found))
    <3>1. order' = order /\ cleaned' = cleaned /\ queue' = queue /\ live' = live
      BY <2>1 DEF CheckQueue, CheckLoad, PushAbort, SelectOrders, CheckSeats,
                  CheckProjects, cti
    <3>2. CASE SelectOrders
      <4>1. push' = Idle \/ \E picked : push' = [at |-> "commit", picked |-> picked,
                                                limit |-> push.limit]
        BY <3>2 DEF SelectOrders
      <4>2. push'.at # "dial"
        BY <4>1 DEF Idle
      <4> QED BY <1>1, <1>2, <3>1, <4>2
    <3>3. CASE ~SelectOrders
      <4>1. push'.at # "dial"
        BY <2>1, <3>3 DEF CheckQueue, CheckLoad, PushAbort, CheckSeats, CheckProjects, Idle
      <4> QED BY <1>1, <1>2, <3>1, <4>1
    <3> QED BY <3>2, <3>3
  <2>2. CASE Commit
    <3>1. push' = [at |-> "dial", picked |-> push.picked] /\ push.picked \subseteq Orders
          /\ cleaned' = cleaned /\ queue' = queue /\ live' = live
      BY <2>2 DEF Commit, cti, CallInv, OrdersOK
    <3>2. \A o \in Orders : order'[o] = IF o \in push.picked /\ ~order[o].deleted
                                         THEN [order[o] EXCEPT !.status = "processing"]
                                         ELSE order[o]
      BY <2>2 DEF Commit
    <3>3. \A o \in Orders : /\ order'[o].deleted = order[o].deleted
                            /\ order[o].status = "processing"
                                 => order'[o].status = "processing"
                            /\ o \in push.picked /\ ~order[o].deleted
                                 => order'[o].status = "processing"
      BY <3>2 DEF CallInv, OrdersOK, Row
    <3>4. \A o \in Orders : Processed(o) \/ o \in push.picked => Processed(o)'
      BY <3>1, <3>3 DEF Processed, GivenUp, WithStatus
    <3> QED BY <3>1, <3>4 DEF UnderWay, CallInv, OrdersOK
  <2>3. CASE Dial
    <3>1. queue' = queue \cup push.picked /\ live' = live /\ push' = Idle
          /\ push.at = "dial" /\ order' = order /\ cleaned' = cleaned
      BY <2>3 DEF Dial
    <3> QED BY <1>2, <3>1 DEF UnderWay, Idle
  <2> QED BY <1>10, <2>1, <2>2, <2>3 DEF PushOrder
<1> QED BY <1>3, <1>4, <1>5, <1>6, <1>7, <1>8, <1>9, <1>10 DEF Next

\* The orders shown as being processed, and the calls on the list or on the
\* telephone but for those of orders that were deleted or cleaned, are never
\* more than the robots hold, and the list to the CTI is never longer than
\* allowed, although PushOrder counts at other moments than it fills (cti.go:610).
THEOREM LimitsAreKept ==
  ASSUME PushAssumption
  PROVE  Spec => []WithinLimits
<1>1. Init => LimitInv /\ UnderWay
  <2>1. Init => UnderWay
    BY DEF Init, UnderWay, Idle
  <2> QED BY <2>1, LimitInit
<1>2. LimitInv /\ UnderWay /\ [Next]_vars => (LimitInv /\ UnderWay)'
  BY LimitStep, UnderWayStep DEF LimitInv
<1>3. LimitInv /\ UnderWay => WithinLimits
  <2> SUFFICES ASSUME LimitInv, UnderWay
               PROVE  WithinLimits
    OBVIOUS
  <2>1. (queue \cup live) \ GivenUp \subseteq WithStatus("processing")
        /\ WithStatus("processing") \in SUBSET Orders
    BY DEF UnderWay, Processed, WithStatus
  <2>2. /\ Cardinality((queue \cup live) \ GivenUp) \in Nat
        /\ Cardinality(WithStatus("processing")) \in Nat
        /\ Cardinality((queue \cup live) \ GivenUp)
             <= Cardinality(WithStatus("processing"))
    BY <2>1, SmallerIsLess
  <2> QED BY <2>2 DEF LimitInv, RoomInv, RowsWithin, WithinLimits, PushAssumption
<1> QED BY <1>1, <1>2, <1>3, PTL DEF Spec

\* A batch keeps a project within what its seats could take when they were
\* counted, rounded up to a whole call (cti.go:726).
THEOREM BatchesFitSeats ==
  ASSUME PushAssumption
  PROVE  Spec => []BatchFitsSeats
<1>1. Init => LimitInv
  BY LimitInit
<1>2. LimitInv /\ [Next]_vars => LimitInv'
  BY LimitStep
<1>3. LimitInv => BatchFitsSeats
  BY DEF LimitInv, BatchInv
<1> QED BY <1>1, <1>2, <1>3, PTL DEF Spec
\* The services side by side take the steps of the orders and no others.
THEOREM ServicesPushOrders ==
  ASSUME ServicesAssumption
  PROVE  ServicesSpec => Spec /\ [](CalledOnce /\ WithinLimits /\ BatchFitsSeats)
<1>1. ServicesInit => Init
  BY DEF ServicesInit
<1>2. [ServicesNext]_allVars => [Next]_vars
  BY DEF ServicesNext, allVars, PushNext, ProjectNext, HubNext, CallNext, ExportNext, ScopeNext
<1>3. PushAssumption
  BY DEF ServicesAssumption
<1>4. ServicesSpec => Spec
  BY <1>1, <1>2, PTL DEF ServicesSpec, Spec
<1>5. Spec => [](CalledOnce /\ WithinLimits /\ BatchFitsSeats)
  BY <1>3, OrdersAreCalledOnce, LimitsAreKept, BatchesFitSeats, PTL
<1> QED BY <1>4, <1>5

-----------------------------------------------------------------------------
(* The hub. *)

HubStages ==
  [at : {"new", "start", "loop", "left", "sleep", "update", "done"}]
  \cup [at : {"send", "checked"}, msg : Hub!Seat \cup {Hub!NoState}, to : SUBSET Conns]

HubShape ==
  /\ seat \in Hub!Seat
  /\ registered \subseteq Conns
  /\ closed \in [Conns -> Nat]
  /\ shown \in [Conns -> Hub!Seat \cup {Hub!NoState}]
  /\ proc \in [Conns \cup {Server} -> HubStages]

\* A client is in the hub only between its first message and its end.
Entered ==
  \A c \in Conns : proc[c].at = "new" => c \notin registered /\ shown[c] = Hub!NoState

Sends(w) == proc[w].at \in {"send", "checked"}
Senders == {w \in Conns \cup {Server} : Sends(w) /\ proc[w].msg # Hub!NoState}

\* What a connection is shown, or going to be shown.
Agrees(d) == d = Hub!NoState \/ \A f \in Hub!Fields \ silent : d[f] = seat[f]

\* Unless updates overlapped, one state at most waits to be sent; it agrees with
\* the store, and what it will not reach agrees with the store already.
OneBroadcast ==
  ~overlap =>
    /\ \A v, w \in Senders : v = w
    /\ \A w \in Senders : Agrees(proc[w].msg)
    /\ (\A w \in Senders : proc[w].to # Conns) => \A c \in registered : Agrees(shown[c])

HubInv == HubShape /\ Hub!ClosedOnce /\ Entered /\ OneBroadcast

LEMMA WaitingStages ==
  ASSUME HubShape
  PROVE  /\ \A w \in Conns \cup {Server} :
              /\ Hub!MustSend(w) <=> Sends(w)
              /\ Sends(w) => proc[w] \in [at : {"send", "checked"},
                                          msg : Hub!Seat \cup {Hub!NoState}, to : SUBSET Conns]
         /\ Hub!StateWaits <=> Senders # {}
<1>1. ASSUME NEW w \in Conns \cup {Server}
      PROVE  /\ "msg" \in DOMAIN proc[w] <=> proc[w].at \in {"send", "checked"}
             /\ proc[w].at \in {"send", "checked"} =>
                  proc[w] \in [at : {"send", "checked"},
                               msg : Hub!Seat \cup {Hub!NoState}, to : SUBSET Conns]
  <2>1. proc[w] \in HubStages
    BY DEF HubShape
  <2> QED BY <2>1 DEF HubStages
<1>2. DOMAIN proc = Conns \cup {Server}
  BY DEF HubShape
<1> QED BY <1>1, <1>2 DEF Hub!MustSend, Sends, Hub!StateWaits, Senders

LEMMA SeatStatesOfStore ==
  /\ Hub!Out \in Hub!Seat
  /\ \A d \in Hub!Seat :
       /\ [d EXCEPT !.preReady = FALSE] \in Hub!Seat
       /\ [d EXCEPT !.preReady = TRUE] \in Hub!Seat
       /\ [d EXCEPT !.locked = FALSE] \in Hub!Seat
       /\ [d EXCEPT !.checkIn = FALSE, !.ready = FALSE] \in Hub!Seat
       /\ [d EXCEPT !.locked = TRUE, !.ready = FALSE, !.preReady = FALSE] \in Hub!Seat
       /\ \A in \in BOOLEAN :
            [d EXCEPT !.checkIn = in, !.ready = @ /\ in, !.preReady = FALSE] \in Hub!Seat
       /\ \A ready \in BOOLEAN : (ready => d.checkIn) =>
            [d EXCEPT !.ready = ready, !.preReady = FALSE] \in Hub!Seat
<1>1. Hub!Out \in Hub!Seat
  BY DEF Hub!Out, Hub!Seat, Hub!Fields
<1>2. ASSUME NEW d \in Hub!Seat
      PROVE  /\ [d EXCEPT !.preReady = FALSE] \in Hub!Seat
             /\ [d EXCEPT !.preReady = TRUE] \in Hub!Seat
             /\ [d EXCEPT !.locked = FALSE] \in Hub!Seat
  BY DEF Hub!Seat, Hub!Fields
<1>3. ASSUME NEW d \in Hub!Seat
      PROVE  [d EXCEPT !.checkIn = FALSE, !.ready = FALSE] \in Hub!Seat
  BY DEF Hub!Seat, Hub!Fields
<1>4. ASSUME NEW d \in Hub!Seat
      PROVE  [d EXCEPT !.locked = TRUE, !.ready = FALSE, !.preReady = FALSE] \in Hub!Seat
  BY DEF Hub!Seat, Hub!Fields
<1>5. ASSUME NEW d \in Hub!Seat, NEW in \in BOOLEAN
      PROVE  [d EXCEPT !.checkIn = in, !.ready = @ /\ in, !.preReady = FALSE] \in Hub!Seat
  BY DEF Hub!Seat, Hub!Fields
<1>6. ASSUME NEW d \in Hub!Seat, NEW ready \in BOOLEAN, ready => d.checkIn
      PROVE  [d EXCEPT !.ready = ready, !.preReady = FALSE] \in Hub!Seat
  BY <1>6 DEF Hub!Seat, Hub!Fields
<1> QED BY <1>1, <1>2, <1>3, <1>4, <1>5, <1>6

LEMMA HubStart ==
  ASSUME Hub!HubAssumption, Hub!Init
  PROVE  HubInv
<1>1. HubShape
  BY SeatStatesOfStore DEF Hub!Init, HubShape, HubStages, Hub!At
<1>2. Senders = {}
  BY DEF Hub!Init, Senders, Sends, Hub!At
<1>3. \A c \in Conns : closed[c] = 0 /\ shown[c] = Hub!NoState
      /\ proc[c].at = "new"
  BY DEF Hub!Init, Hub!At, Hub!HubAssumption
<1>4. registered = {}
  BY DEF Hub!Init
<1>5. Hub!ClosedOnce /\ Entered
  BY <1>3, <1>4 DEF Hub!ClosedOnce, Entered
<1>6. OneBroadcast
  BY <1>2, <1>4 DEF OneBroadcast
<1> QED BY <1>1, <1>5, <1>6 DEF HubInv

\* One process goes from stage to stage without a state to send, and the rest
\* stays.
LEMMA StageMoves ==
  ASSUME HubInv, NEW w \in Conns \cup {Server}, NEW stage \in HubStages,
         stage.at # "new", stage.at \in {"send", "checked"} => stage.msg = Hub!NoState,
         proc[w].at # "new", ~Sends(w),
         proc' = [proc EXCEPT ![w] = stage],
         UNCHANGED <<seat, registered, closed, shown, overlap, silent>>
  PROVE  HubInv'
<1>1. HubShape' /\ proc'[w] = stage
      /\ \A v \in Conns \cup {Server} : v # w => proc'[v] = proc[v]
  BY DEF HubInv, HubShape
<1>2. Senders' = Senders /\ w \notin Senders
  BY <1>1 DEF Senders, Sends
<1>3. Hub!ClosedOnce' /\ Entered'
  BY <1>1 DEF HubInv, Hub!ClosedOnce, Entered
<1>4. OneBroadcast'
  <2>1. \A v \in Senders : proc'[v] = proc[v]
    BY <1>1, <1>2 DEF Senders
  <2>2. \A d : Agrees(d)' <=> Agrees(d)
    BY DEF Agrees
  <2> QED BY <1>2, <2>1, <2>2 DEF HubInv, OneBroadcast, Agrees
<1> QED BY <1>1, <1>3, <1>4 DEF HubInv

\* A process is going to send state d to all, which agrees with the store.
LEMMA SenderMoves ==
  ASSUME HubInv, NEW w \in Conns \cup {Server}, NEW d \in Hub!Seat, NEW stage \in {"send", "checked"},
         proc[w].at \in {"loop", "update"}, seat' \in Hub!Seat, Agrees(d)',
         overlap' = Hub!StateWaits, proc' = [proc EXCEPT ![w] = Hub!Sending(stage, d, Conns)],
         UNCHANGED <<registered, closed, shown>>
  PROVE  HubInv'
<1>1. /\ HubShape' /\ proc'[w] = [at |-> stage, msg |-> d, to |-> Conns]
      /\ \A v \in Conns \cup {Server} : v # w => proc'[v] = proc[v]
  BY DEF HubInv, HubShape, HubStages, Hub!Sending
<1>2. Hub!ClosedOnce' /\ Entered'
  BY <1>1 DEF HubInv, Hub!ClosedOnce, Entered
<1>3. ASSUME ~overlap' PROVE Senders = {}
  BY <1>3, WaitingStages DEF HubInv
<1>4. ~overlap' => Senders' \subseteq {w}
  BY <1>1, <1>3 DEF Senders, Sends
<1>5. d # Hub!NoState
  BY DEF Hub!Seat, Hub!NoState, Hub!Out, Hub!Fields
<1>6. w \in Senders'
  BY <1>1, <1>5 DEF Senders, Sends
<1>7. OneBroadcast'
  BY <1>1, <1>4, <1>6 DEF OneBroadcast, Agrees
<1> QED BY <1>1, <1>2, <1>7 DEF HubInv

LEMMA WriterMoves ==
  ASSUME HubInv, NEW w \in Conns \cup {Server}, NEW d \in Hub!Seat, NEW stage \in {"send", "checked"},
         proc[w].at \in {"loop", "update"}, Hub!Writes(w, stage, d), UNCHANGED Hub!hub
  PROVE  HubInv'
<1>1. Agrees(d)'
  BY DEF Agrees, Hub!Writes
<1> QED BY <1>1, SenderMoves DEF Hub!Writes, Hub!hub

LEMMA EchoMoves ==
  ASSUME HubInv, NEW c \in Conns, proc[c].at = "loop", Hub!Echo(c)
  PROVE  HubInv'
<1>0. PICK d : d = [seat EXCEPT !.preReady = FALSE]
  OBVIOUS
<1>1. d \in Hub!Seat /\ seat \in Hub!Seat
  BY <1>0, SeatStatesOfStore DEF HubInv, HubShape
<1>2. seat' = seat /\ silent' = IF seat.preReady THEN {"preReady"} ELSE {}
  BY DEF Hub!Echo
<1>3. \A f \in Hub!Fields : f # "preReady" \/ ~seat.preReady => d[f] = seat[f]
  BY <1>0, <1>1 DEF Hub!Seat, Hub!Fields
<1>4. Agrees(d)'
  BY <1>2, <1>3 DEF Agrees
<1>5. /\ overlap' = Hub!StateWaits
      /\ proc' = [proc EXCEPT ![c] = Hub!Sending("send", d, Conns)]
      /\ UNCHANGED <<registered, closed, shown>>
  BY <1>0 DEF Hub!Echo, Hub!hub
<1> QED BY <1>1, <1>2, <1>4, <1>5, SenderMoves

\* What is written without being sent is set aside.
LEMMA UnlockMoves ==
  ASSUME HubInv, Hub!UnlockSeat
  PROVE  HubInv'
<1>1. /\ seat' = [seat EXCEPT !.locked = FALSE] /\ silent' = silent \cup {"locked"}
      /\ UNCHANGED <<registered, closed, shown, proc, overlap>>
  BY DEF Hub!UnlockSeat, Hub!hub
<1>2. HubShape' /\ Hub!ClosedOnce' /\ Entered' /\ Senders' = Senders
  BY <1>1, SeatStatesOfStore DEF HubInv, HubShape, Hub!ClosedOnce, Entered, Senders, Sends
<1>3. \A f \in Hub!Fields : f # "locked" => seat'[f] = seat[f]
  BY <1>1 DEF HubInv, HubShape, Hub!Seat, Hub!Fields
<1>4. ASSUME NEW d, Agrees(d)
      PROVE  d = Hub!NoState \/ \A f \in Hub!Fields \ silent' : d[f] = seat'[f]
  BY <1>1, <1>3, <1>4 DEF Agrees
<1>5. /\ \A w \in Senders : Agrees(proc[w].msg) => Agrees(proc[w].msg)'
      /\ \A c \in registered : Agrees(shown[c]) => Agrees(shown[c])'
  <2>1. \A d : Agrees(d) => d = Hub!NoState \/ \A f \in Hub!Fields \ silent' : d[f] = seat'[f]
    BY <1>4
  <2>2. ASSUME NEW w \in Senders, Agrees(proc[w].msg)
        PROVE  Agrees(proc[w].msg)'
    <3>1. PICK d : d = proc[w].msg
      OBVIOUS
    <3>2. d = Hub!NoState \/ \A f \in Hub!Fields \ silent' : d[f] = seat'[f]
      BY <2>1, <2>2, <3>1
    <3>3. proc'[w].msg = d
      BY <1>1, <3>1
    <3> QED BY <3>2, <3>3 DEF Agrees
  <2>3. ASSUME NEW c \in registered, Agrees(shown[c])
        PROVE  Agrees(shown[c])'
    <3>1. PICK d : d = shown[c]
      OBVIOUS
    <3>2. d = Hub!NoState \/ \A f \in Hub!Fields \ silent' : d[f] = seat'[f]
      BY <2>1, <2>3, <3>1
    <3>3. shown'[c] = d
      BY <1>1, <3>1
    <3> QED BY <3>2, <3>3 DEF Agrees
  <2> QED BY <2>2, <2>3
<1>6. OneBroadcast'
  BY <1>1, <1>2, <1>5 DEF HubInv, OneBroadcast
<1> QED BY <1>2, <1>6 DEF HubInv

LEMMA ClientsMove ==
  ASSUME Hub!HubAssumption, HubInv, NEW c \in Conns,
         Hub!MakeClient(c) \/ Hub!Greet(c) \/ Hub!DeleteClient(c)
  PROVE  HubInv'
<1>c. c # Server
  BY DEF Hub!HubAssumption
<1>1. CASE Hub!MakeClient(c)
  <2>1. /\ proc[c].at = "new" /\ registered' = registered \cup {c}
        /\ UNCHANGED <<seat, closed, shown, overlap, silent>>
    BY <1>1 DEF Hub!MakeClient, Hub!past
  <2>2. /\ HubShape' /\ proc'[c].at = "start"
        /\ \A v \in Conns \cup {Server} : v # c => proc'[v] = proc[v]
    BY <1>1, <2>1 DEF HubInv, HubShape, HubStages, Hub!At, Hub!MakeClient
  <2>3. Hub!ClosedOnce' /\ Entered'
    BY <2>1, <2>2 DEF HubInv, Hub!ClosedOnce, Entered
  <2>4. Senders' = Senders /\ \A v \in Senders : proc'[v] = proc[v]
    BY <2>1, <2>2 DEF Senders, Sends
  <2>5. shown[c] = Hub!NoState
    BY <2>1 DEF HubInv, Entered
  <2>6. OneBroadcast'
    BY <2>1, <2>4, <2>5 DEF HubInv, OneBroadcast, Agrees
  <2> QED BY <2>2, <2>3, <2>6 DEF HubInv
<1>2. CASE Hub!Greet(c)
  <2>1. /\ proc[c].at = "start"
        /\ overlap' = (overlap \/ Hub!StateWaits)
        /\ UNCHANGED <<seat, registered, closed, shown, silent>>
    BY <1>2 DEF Hub!Greet, Hub!hub
  <2>2. /\ HubShape' /\ proc'[c] = [at |-> "send", msg |-> seat, to |-> {c}]
        /\ \A v \in Conns \cup {Server} : v # c => proc'[v] = proc[v]
    BY <1>2, <2>1 DEF HubInv, HubShape, HubStages, Hub!Sending, Hub!Greet
  <2>3. Hub!ClosedOnce' /\ Entered'
    BY <2>1, <2>2 DEF HubInv, Hub!ClosedOnce, Entered
  <2>4. ASSUME ~overlap' PROVE Senders = {} /\ ~overlap
    BY <2>1, <2>4, WaitingStages DEF HubInv
  <2>5. ~overlap' => Senders' \subseteq {c}
    BY <2>2, <2>4 DEF Senders, Sends
  <2>6. ~overlap' => \A e \in registered : Agrees(shown[e])
    BY <2>4 DEF HubInv, OneBroadcast
  <2>7. OneBroadcast'
    BY <2>1, <2>2, <2>5, <2>6 DEF OneBroadcast, Agrees
  <2> QED BY <2>2, <2>3, <2>7 DEF HubInv
<1>3. CASE Hub!DeleteClient(c)
  <2>1. /\ proc[c].at \in {"start", "loop"}
        /\ UNCHANGED <<seat, overlap, silent>>
        /\ registered' = registered \ {c}
        /\ closed' = [e \in Conns |-> IF e \in {c} \cap registered THEN closed[e] + 1
                                      ELSE closed[e]]
        /\ shown' = [shown EXCEPT ![c] = Hub!NoState]
    BY <1>3 DEF Hub!DeleteClient, Hub!Deleted, Hub!past
  <2>2. /\ HubShape' /\ proc'[c].at = "left"
        /\ \A v \in Conns \cup {Server} : v # c => proc'[v] = proc[v]
    <3>1. closed' \in [Conns -> Nat] /\ shown' \in [Conns -> Hub!Seat \cup {Hub!NoState}]
      BY <2>1 DEF HubInv, HubShape
    <3> QED BY <1>3, <2>1, <3>1 DEF HubInv, HubShape, HubStages, Hub!At, Hub!DeleteClient
  <2>3. Hub!ClosedOnce'
    BY <2>1, <2>2 DEF HubInv, Hub!ClosedOnce
  <2>4. \A e \in Conns : e # c => shown'[e] = shown[e]
    BY <2>1 DEF HubInv, HubShape
  <2>5. Entered'
    BY <2>1, <2>2, <2>4 DEF HubInv, Entered
  <2>6. Senders' = Senders /\ \A v \in Senders : proc'[v] = proc[v]
    BY <2>1, <2>2 DEF Senders, Sends
  <2>7. registered \subseteq Conns
    BY DEF HubInv, HubShape
  <2>8. OneBroadcast'
    BY <2>1, <2>4, <2>6, <2>7 DEF HubInv, OneBroadcast, Agrees
  <2> QED BY <2>2, <2>3, <2>5, <2>8 DEF HubInv
<1> QED BY <1>1, <1>2, <1>3

\* A broadcast closes the channels that are full, and leaves its state in the
\* others.
LEMMA BroadcastMoves ==
  ASSUME Hub!HubAssumption, HubInv, NEW w \in Conns \cup {Server}, Hub!SendMessage(w)
  PROVE  HubInv'
<1> DEFINE targets == registered \cap proc[w].to
           full == {c \in targets : buffer[c] = Cap}
<1>1. /\ Sends(w)
      /\ proc[w] \in [at : {"send", "checked"}, msg : Hub!Seat \cup {Hub!NoState},
                      to : SUBSET Conns]
  BY WaitingStages DEF Hub!SendMessage, HubInv
<1>2. PICK m \in [at : {"send", "checked"}, msg : Hub!Seat \cup {Hub!NoState},
                  to : SUBSET Conns] : m = proc[w]
  BY <1>1
<1>3. /\ registered' = registered \ full
      /\ closed' = [c \in Conns |-> IF c \in full \cap registered THEN closed[c] + 1
                                    ELSE closed[c]]
      /\ shown' = [c \in Conns |-> CASE c \in full -> Hub!NoState
                                     [] c \in targets \ full /\ m.msg # Hub!NoState -> m.msg
                                     [] OTHER -> shown[c]]
      /\ UNCHANGED <<seat, overlap, silent>>
  BY <1>2 DEF Hub!SendMessage, Hub!Deleted, Hub!past
<1>4. /\ proc' \in [Conns \cup {Server} -> HubStages] /\ proc'[w].at \in {"loop", "done"}
      /\ \A v \in Conns \cup {Server} : v # w => proc'[v] = proc[v]
  BY DEF Hub!SendMessage, HubInv, HubShape, HubStages, Hub!At
<1>s. \A c \in Conns :
        shown'[c] = IF c \in full THEN Hub!NoState
                    ELSE IF c \in targets /\ m.msg # Hub!NoState THEN m.msg ELSE shown[c]
  BY <1>3
<1>5. HubShape'
  <2>1. closed' \in [Conns -> Nat]
    BY <1>3 DEF HubInv, HubShape
  <2>2. \A c \in Conns : shown'[c] \in Hub!Seat \cup {Hub!NoState}
    BY <1>2, <1>s DEF HubInv, HubShape
  <2>3. shown' \in [Conns -> Hub!Seat \cup {Hub!NoState}]
    BY <1>3, <2>2
  <2> QED BY <1>3, <1>4, <2>1, <2>3 DEF HubInv, HubShape
<1>6. Hub!ClosedOnce' /\ Entered'
  <2>1. \A c \in Conns : proc'[c].at = "new" <=> proc[c].at = "new"
    BY <1>1, <1>4 DEF Sends
  <2>2. \A c \in Conns : c \notin registered => shown'[c] = shown[c]
    BY <1>s
  <2> QED BY <1>3, <2>1, <2>2 DEF HubInv, Hub!ClosedOnce, Entered
<1>7. OneBroadcast'
  <2>1. Senders' = Senders \ {w} /\ \A v \in Senders' : proc'[v] = proc[v]
    BY <1>4 DEF Senders, Sends
  <2>2. SUFFICES ASSUME ~overlap
                 PROVE  /\ \A v, x \in Senders' : v = x
                        /\ \A v \in Senders' : Agrees(proc[v].msg)
                        /\ (\A v \in Senders' : proc[v].to # Conns) =>
                             \A c \in registered' : Agrees(shown'[c])
    BY <1>3, <2>1 DEF OneBroadcast, Agrees
  <2>3. /\ \A v, x \in Senders : v = x
        /\ \A v \in Senders : Agrees(proc[v].msg)
        /\ (\A v \in Senders : proc[v].to # Conns) => \A c \in registered : Agrees(shown[c])
    BY <2>2 DEF HubInv, OneBroadcast
  <2>4. registered \subseteq Conns
    BY DEF HubInv, HubShape
  <2>5. CASE m.msg = Hub!NoState
    <3>1. w \notin Senders
      BY <1>2, <2>5 DEF Senders
    <3>2. \A c \in registered' : shown'[c] = shown[c] /\ c \in registered
      BY <1>3, <1>s, <2>4, <2>5
    <3> QED BY <2>1, <2>3, <3>1, <3>2
  <2>6. CASE m.msg # Hub!NoState
    <3>1. Senders = {w} /\ Agrees(m.msg) /\ Senders' = {}
      BY <1>1, <1>2, <2>1, <2>3, <2>6 DEF Senders
    <3>2. CASE m.to = Conns
      BY <1>2, <1>3, <1>s, <2>4, <2>6, <3>1, <3>2
    <3>3. CASE m.to # Conns
      BY <1>2, <1>3, <1>s, <2>3, <2>4, <2>6, <3>1, <3>3
    <3> QED BY <3>2, <3>3
  <2> QED BY <2>5, <2>6
<1> QED BY <1>5, <1>6, <1>7 DEF HubInv

LEMMA HubStep ==
  ASSUME Hub!HubAssumption, HubInv, [Hub!Next]_hubVars
  PROVE  HubInv'
<1>0. seat \in Hub!Seat
  BY DEF HubInv, HubShape
<1>1. CASE UNCHANGED hubVars
  BY <1>1 DEF hubVars, HubInv, HubShape, Hub!ClosedOnce, Entered, OneBroadcast, Senders,
              Sends, Agrees
<1>2. ASSUME NEW c \in Conns, NEW in \in BOOLEAN, Hub!CheckInChanged(c, in)
      PROVE  HubInv'
  <2> DEFINE d == [seat EXCEPT !.checkIn = in, !.ready = @ /\ in, !.preReady = FALSE]
  <2>1. d \in Hub!Seat
    BY <1>0, SeatStatesOfStore
  <2>2. /\ proc[c].at = "loop"
        /\ Hub!Echo(c) \/ (Hub!Writes(c, "send", d) /\ UNCHANGED Hub!hub)
    BY <1>2 DEF Hub!CheckInChanged
  <2> HIDE DEF d
  <2> QED BY <2>1, <2>2, EchoMoves, WriterMoves
<1>3. ASSUME NEW c \in Conns, NEW ready \in BOOLEAN, NEW other \in BOOLEAN,
             Hub!ReadinessChanged(c, ready, other)
      PROVE  HubInv'
  <2> DEFINE d == [seat EXCEPT !.ready = ready, !.preReady = FALSE]
  <2>1. /\ proc[c].at = "loop"
        /\ \/ Hub!Echo(c)
           \/ (ready => seat.checkIn) /\ Hub!Writes(c, "send", d) /\ UNCHANGED Hub!hub
    BY <1>3 DEF Hub!ReadinessChanged
  <2>2. (ready => seat.checkIn) => d \in Hub!Seat
    BY <1>0, SeatStatesOfStore
  <2> HIDE DEF d
  <2> QED BY <2>1, <2>2, EchoMoves, WriterMoves
<1>4. ASSUME NEW c \in Conns, Hub!SendLoop(c)
      PROVE  HubInv'
  BY <1>4 DEF Hub!SendLoop, Hub!past, HubInv, HubShape, Hub!ClosedOnce, Entered,
              OneBroadcast, Senders, Sends, Agrees
<1>5. ASSUME NEW c \in Conns, Hub!StartCheck(c) \/ Hub!CheckConn(c) \/ Hub!Refuse(c)
      PROVE  HubInv'
  <2>1. PICK to \in {"sleep", "done", "update"} :
          proc' \in {[proc EXCEPT ![c] = Hub!At(to)],
                     [proc EXCEPT ![c] = Hub!Sending("send", Hub!NoState, {c})]}
    <3>1. CASE Hub!StartCheck(c)
      BY <3>1 DEF Hub!StartCheck
    <3>2. CASE Hub!CheckConn(c)
      BY <3>2 DEF Hub!CheckConn
    <3>3. CASE Hub!Refuse(c)
      BY <3>3 DEF Hub!Refuse
    <3> QED BY <1>5, <3>1, <3>2, <3>3
  <2>2. /\ proc[c].at \in {"left", "sleep", "loop"}
        /\ UNCHANGED <<seat, registered, closed, shown, overlap, silent>>
    BY <1>5 DEF Hub!StartCheck, Hub!CheckConn, Hub!Refuse, Hub!hub, Hub!past
  <2>3. \A x \in {Hub!At(to), Hub!Sending("send", Hub!NoState, {c})} :
          /\ x \in HubStages /\ x.at # "new"
          /\ x.at \in {"send", "checked"} => x.msg = Hub!NoState
    BY DEF HubStages, Hub!At, Hub!Sending
  <2>4. proc[c].at # "new" /\ ~Sends(c)
    BY <2>2 DEF Sends
  <2>5. PICK x \in {Hub!At(to), Hub!Sending("send", Hub!NoState, {c})} :
          proc' = [proc EXCEPT ![c] = x]
    BY <2>1
  <2> QED BY <2>2, <2>3, <2>4, <2>5, StageMoves
<1>6. ASSUME NEW c \in Conns, Hub!CheckOut(c)
      PROVE  HubInv'
  <2> DEFINE d == [seat EXCEPT !.checkIn = FALSE, !.ready = FALSE]
  <2>1. d \in Hub!Seat
    BY <1>0, SeatStatesOfStore
  <2>2. proc[c].at = "update" /\ Hub!Writes(c, "checked", d) /\ UNCHANGED Hub!hub
    BY <1>6 DEF Hub!CheckOut
  <2> HIDE DEF d
  <2> QED BY <2>1, <2>2, WriterMoves
<1>7. ASSUME Hub!LockSeat \/ Hub!SetSeatPreReady
      PROVE  HubInv'
  <2>1. PICK d \in {[seat EXCEPT !.locked = TRUE, !.ready = FALSE, !.preReady = FALSE],
                    [seat EXCEPT !.preReady = TRUE]} :
          proc[Server].at = "loop" /\ Hub!Writes(Server, "send", d) /\ UNCHANGED Hub!hub
    BY <1>7 DEF Hub!LockSeat, Hub!SetSeatPreReady
  <2>2. d \in Hub!Seat
    BY <1>0, <2>1, SeatStatesOfStore
  <2> QED BY <2>1, <2>2, WriterMoves
<1> QED BY <1>1, <1>2, <1>3, <1>4, <1>5, <1>6, <1>7, ClientsMove, BroadcastMoves, UnlockMoves
        DEF Hub!Next, Hub!CheckConnOfUser

LEMMA HubInvariant ==
  ASSUME ServicesAssumption
  PROVE  ServicesSpec => [](service = "hub" => HubInv)
<1> DEFINE Inv == service = "hub" => HubInv
<1>1. ServicesInit => Inv
  BY HubStart DEF ServicesInit, ServicesAssumption
<1>2. Inv /\ [ServicesNext]_allVars => Inv'
  <2> SUFFICES ASSUME Inv, [ServicesNext]_allVars, service' = "hub"
               PROVE  HubInv'
    OBVIOUS
  <2>1. service = "hub" /\ [Hub!Next]_hubVars
    BY DEF ServicesNext, allVars, PushNext, ProjectNext, HubNext, CallNext, ExportNext, ScopeNext
  <2> QED BY <2>1, HubStep DEF ServicesAssumption
<1> QED BY <1>1, <1>2, PTL DEF ServicesSpec

\* A channel never holds more messages than its length: a broadcast drops the
\* client instead of waiting for it (SendMessage, seat_ws.go:384).
THEOREM ChannelsNeverOverflow ==
  ASSUME ServicesAssumption
  PROVE  ServicesSpec => [](service = "hub" => Hub!TypeOK)
<1> DEFINE Fits == /\ buffer \in [Conns -> 0..Cap]
                   /\ overlap \in BOOLEAN /\ silent \subseteq Hub!Fields
           Inv == service = "hub" => HubInv /\ Fits
<1>1. ServicesInit => Inv
  <2>1. ASSUME Hub!HubAssumption, Hub!Init
        PROVE  Fits
    <3>1. 0 \in 0..Cap
      BY <2>1 DEF Hub!HubAssumption
    <3>2. buffer = [c \in Conns |-> 0] /\ overlap = FALSE /\ silent = {}
      BY <2>1 DEF Hub!Init
    <3> QED BY <3>1, <3>2
  <2> QED BY <2>1, HubStart DEF ServicesInit, ServicesAssumption
<1>2. ASSUME Hub!HubAssumption, HubInv, Fits, [Hub!Next]_hubVars
      PROVE  Fits'
  <2>1. CASE UNCHANGED hubVars
    BY <1>2, <2>1 DEF hubVars
  <2>2. ASSUME NEW w \in Conns \cup {Server}, Hub!SendMessage(w)
        PROVE  Fits'
    <3> DEFINE targets == registered \cap proc[w].to
               full == {c \in targets : buffer[c] = Cap}
    <3>1. /\ buffer' = [c \in Conns |-> IF c \in targets \ full THEN buffer[c] + 1
                                       ELSE buffer[c]]
          /\ overlap' = overlap /\ silent' = silent
      BY <2>2 DEF Hub!SendMessage, Hub!past
    <3>2. \A c \in targets \ full : c \in Conns => buffer[c] + 1 \in 0..Cap
      BY <1>2 DEF Hub!HubAssumption
    <3> HIDE DEF targets, full
    <3> QED BY <1>2, <3>1, <3>2
  <2>3. ASSUME NEW c \in Conns, Hub!SendLoop(c)
        PROVE  Fits'
    BY <1>2, <2>3 DEF Hub!SendLoop, Hub!HubAssumption, Hub!past
  <2>w. ASSUME NEW w, NEW d, NEW stage, Hub!Writes(w, stage, d), UNCHANGED Hub!hub
        PROVE  Fits'
    BY <1>2, <2>w DEF Hub!Writes, Hub!StateWaits, Hub!hub
  <2>e. ASSUME NEW c, Hub!Echo(c)
        PROVE  Fits'
    BY <1>2, <2>e DEF Hub!Echo, Hub!StateWaits, Hub!hub, Hub!Fields
  <2>4. ASSUME NEW c \in Conns, NEW in \in BOOLEAN, NEW ready \in BOOLEAN, NEW other \in BOOLEAN,
               \/ Hub!CheckInChanged(c, in) \/ Hub!ReadinessChanged(c, ready, other)
               \/ Hub!CheckOut(c)
        PROVE  Fits'
    <3>1. CASE Hub!CheckInChanged(c, in)
      BY <3>1, <2>w, <2>e DEF Hub!CheckInChanged
    <3>2. CASE Hub!ReadinessChanged(c, ready, other)
      BY <3>2, <2>w, <2>e DEF Hub!ReadinessChanged
    <3>3. CASE Hub!CheckOut(c)
      BY <3>3, <2>w DEF Hub!CheckOut
    <3> QED BY <2>4, <3>1, <3>2, <3>3
  <2>5. ASSUME NEW c \in Conns,
               \/ Hub!MakeClient(c) \/ Hub!Greet(c) \/ Hub!DeleteClient(c)
               \/ Hub!StartCheck(c) \/ Hub!CheckConn(c) \/ Hub!Refuse(c)
        PROVE  Fits'
    BY <1>2, <2>5 DEF Hub!MakeClient, Hub!Greet, Hub!DeleteClient, Hub!StartCheck,
                      Hub!CheckConn, Hub!Refuse, Hub!hub, Hub!past, Hub!StateWaits
  <2>6. ASSUME Hub!LockSeat \/ Hub!SetSeatPreReady
        PROVE  Fits'
    BY <2>6, <2>w DEF Hub!LockSeat, Hub!SetSeatPreReady
  <2>7. ASSUME Hub!UnlockSeat
        PROVE  Fits'
    BY <1>2, <2>7 DEF Hub!UnlockSeat, Hub!hub, Hub!Fields
  <2> HIDE DEF Fits
  <2> QED BY <1>2, <2>1, <2>2, <2>3, <2>4, <2>5, <2>6, <2>7
          DEF Hub!Next, Hub!CheckConnOfUser
<1>3. Inv /\ [ServicesNext]_allVars => Inv'
  <2> SUFFICES ASSUME Inv, [ServicesNext]_allVars, service' = "hub"
               PROVE  HubInv' /\ Fits'
    OBVIOUS
  <2>1. service = "hub" /\ [Hub!Next]_hubVars
    BY DEF ServicesNext, allVars, PushNext, ProjectNext, HubNext, CallNext, ExportNext, ScopeNext
  <2> HIDE DEF Fits
  <2> QED BY <1>2, <2>1, HubStep DEF ServicesAssumption
<1>4. HubInv /\ Fits => Hub!TypeOK
  BY DEF HubInv, HubShape, Hub!TypeOK
<1> QED BY <1>1, <1>3, <1>4, PTL DEF ServicesSpec

\* A connection's channel is closed once, exactly when its client leaves the hub
\* (deleteClient, seat_ws.go:360).
THEOREM ChannelsClosedOnce ==
  ASSUME ServicesAssumption
  PROVE  ServicesSpec => []ClosedOnce
<1>1. (service = "hub" => HubInv) => ClosedOnce
  BY DEF ClosedOnce, HubInv
<1> QED BY <1>1, HubInvariant, PTL

\* The connections show the state of the store once nothing is left to send,
\* unless updates overlapped, and but for what is written or sent alone
\* (SendMessage, seat_ws.go:384).
THEOREM ConnectionsShowTheStore ==
  ASSUME ServicesAssumption
  PROVE  ServicesSpec => []ShownCurrent
<1>1. HubInv => Hub!ShownCurrent
  <2> SUFFICES ASSUME HubInv, ~overlap, ~Hub!StateWaits
               PROVE  \A c \in registered : Agrees(shown[c])
    BY DEF Hub!ShownCurrent, Agrees
  <2>1. Senders = {}
    BY WaitingStages DEF HubInv
  <2> QED BY <2>1 DEF HubInv, OneBroadcast
<1> QED BY <1>1, HubInvariant, PTL DEF ShownCurrent

-----------------------------------------------------------------------------
(* The row of a call. *)

Leg == [created : Nat \cup {NoTime}, answered : Nat \cup {NoTime}]
CallRow == [leg : [1..2 -> Leg], hangup : Nat \cup {NoTime}, switch : {NoTime, SwitchTime},
            own : [Users -> BOOLEAN], secs : [Call!Durations -> Int]]

CallShape ==
  /\ report \in Reports
  /\ reported \subseteq 1..2 /\ written.stages \subseteq reported
  /\ row \in CallRow
  /\ called \in {"processing", "finished"}
  /\ cdr \in {Call!Idle} \cup [at : {"order", "write"}, stage : 1..2, row : CallRow]
  /\ written \in [stages : SUBSET (1..2), own : SUBSET Users, unfinished : BOOLEAN]

\* PullCDR is the only writer of the times: what it read of them is still so.
CDRCurrent ==
  cdr # Call!Idle =>
    /\ cdr.stage \in reported \ written.stages
    /\ cdr.row.leg = row.leg /\ cdr.row.hangup = row.hangup /\ cdr.row.secs = row.secs
    /\ cdr.at = "write" /\ cdr.stage = 1 => called = "finished" \/ written.unfinished

\* The times are those of the reports that were written, and no others.
TimesReported ==
  /\ \A s \in 1..2 :
       row.leg[s] = IF s \in written.stages
                    THEN [created |-> report[s].created, answered |-> report[s].answered]
                    ELSE Call!NoLeg
  /\ written.stages # {} => row.hangup # NoTime
  /\ 1 \in written.stages => called = "finished" \/ written.unfinished

\* What the own columns and the durations say.
ColumnsKept == \A u \in written.own : row.own[u]
SharesAgree ==
  /\ row.leg[1].answered # NoTime /\ row.leg[2].answered # NoTime
  /\ row.leg[1].answered <= row.leg[2].answered
  /\ row.leg[2].answered <= row.hangup
  => row.secs.total - (row.secs.ai + row.secs.seatCall) \in {0, 1}

RecordInv == CallShape /\ CDRCurrent /\ TimesReported /\ ColumnsKept /\ SharesAgree

LEMMA ReportedRow ==
  ASSUME Call!RecordAssumption, report \in Reports, NEW r \in CallRow, NEW s \in 1..2
  PROVE  /\ Call!Reported(r, s) \in CallRow
         /\ Call!Reported(r, s).leg
              = [r.leg EXCEPT ![s] = [created |-> report[s].created,
                                      answered |-> report[s].answered]]
         /\ Call!Reported(r, s).hangup = report[s].hangup
         /\ Call!Reported(r, s).secs = r.secs
<1>1. report[s] \in [created : Nat, answered : Nat \cup {NoTime}, hangup : Nat]
  BY DEF Call!RecordAssumption
<1> QED BY <1>1 DEF Call!Reported, CallRow, Leg

LEMMA DurationsOfRow ==
  ASSUME Call!RecordAssumption, NEW r \in CallRow
  PROVE  Call!UpdateDuration(r) \in [Call!Durations -> Int]
<1>1. \A d \in Call!Durations : r.secs[d] \in Int
  BY DEF CallRow
<1>2. \A t, u \in Nat \cup {NoTime}, old \in Int : Call!Secs(t, u, old) \in Int
  BY DEF Call!Secs, Call!RecordAssumption
<1>3. \A t, u \in Nat \cup {NoTime} : Call!Either(t, u) \in Nat \cup {NoTime}
  BY DEF Call!Either
<1>4. /\ r.hangup \in Nat \cup {NoTime} /\ r.switch \in Nat \cup {NoTime}
      /\ \A s \in 1..2 : /\ r.leg[s].created \in Nat \cup {NoTime}
                         /\ r.leg[s].answered \in Nat \cup {NoTime}
  BY DEF CallRow, Leg, Call!RecordAssumption
<1>5. \A t, u, v, w, x, y \in Int :
        [customRinging |-> t, seatRinging |-> u, ai |-> v, seatCall |-> w,
         switching |-> x, total |-> y] \in [Call!Durations -> Int]
  BY DEF Call!Durations
<1>6. \A d \in {"customRinging", "seatRinging", "ai", "seatCall", "switching", "total"} :
        r.secs[d] \in Int
  BY <1>1 DEF Call!Durations
<1>7. \A s \in 1..2 : Call!Either(r.leg[s].answered, r.hangup) \in Nat \cup {NoTime}
  BY <1>3, <1>4
<1>8. 1 \in 1..2 /\ 2 \in 1..2
  OBVIOUS
<1> QED BY <1>2, <1>4, <1>5, <1>6, <1>7, <1>8 DEF Call!UpdateDuration

\* Cutting the shares off loses a second at most.
LEMMA SharesMakeUpTotal ==
  ASSUME NEW a \in Int, NEW b \in Int, NEW c \in Int, a <= b, b <= c
  PROVE  ((c - a) \div 2) - (((b - a) \div 2) + ((c - b) \div 2)) \in {0, 1}
OBVIOUS

LEMMA SharesOfRow ==
  ASSUME Call!RecordAssumption, NEW r \in CallRow,
         r.leg[1].answered # NoTime, r.leg[2].answered # NoTime, r.hangup # NoTime,
         r.leg[1].answered <= r.leg[2].answered, r.leg[2].answered <= r.hangup
  PROVE  LET secs == Call!UpdateDuration(r) IN
         secs.total - (secs.ai + secs.seatCall) \in {0, 1}
<1> DEFINE a == r.leg[1].answered
           b == r.leg[2].answered
           c == r.hangup
           secs == Call!UpdateDuration(r)
<1>1. a \in Int /\ b \in Int /\ c \in Int /\ a <= b /\ b <= c /\ a <= c
  BY DEF CallRow, Leg
<1>2. /\ secs.total = (c - a) \div 2
      /\ secs.ai = (b - a) \div 2
      /\ secs.seatCall = (c - b) \div 2
  BY <1>1 DEF Call!UpdateDuration, Call!Secs, Call!Either
<1> QED BY <1>1, <1>2, SharesMakeUpTotal

LEMMA RecordStart ==
  ASSUME Call!RecordAssumption, Call!Init
  PROVE  RecordInv
<1>1. row = [leg |-> [s \in 1..2 |-> Call!NoLeg], hangup |-> NoTime, switch |-> NoTime,
             own |-> [u \in Users |-> FALSE], secs |-> [d \in Call!Durations |-> 0]]
      /\ written = [stages |-> {}, own |-> {}, unfinished |-> FALSE]
      /\ cdr = Call!Idle /\ reported = {} /\ called = "processing" /\ report \in Reports
  BY DEF Call!Init
<1>2. Call!NoLeg \in Leg /\ Call!NoLeg.answered = NoTime
  BY DEF Call!NoLeg, Leg
<1>3. CallShape
  <2>1. row \in CallRow
    BY <1>1, <1>2 DEF CallRow
  <2> QED BY <1>1, <2>1 DEF CallShape
<1>4. row.leg[1].answered = NoTime
  BY <1>1, <1>2
<1> QED BY <1>1, <1>3, <1>4
        DEF RecordInv, CDRCurrent, TimesReported, ColumnsKept, SharesAgree

LEMMA RecordAgreesThen ==
  ASSUME Call!RecordAssumption, RecordInv
  PROVE  Call!RecordAgrees
<1>1. written.stages \subseteq 1..2 /\ called \in {"processing", "finished"}
  BY DEF RecordInv, CallShape
<1>2. /\ Call!LoadQueueStatus \in {"none", "calling", "over"}
      /\ Call!LoadQueueStatus = "over" => written.unfinished
  <2>1. CASE called # "processing"
    BY <2>1 DEF Call!LoadQueueStatus
  <2>2. CASE called = "processing" /\ 1 \in written.stages
    <3>1. row.hangup # NoTime /\ written.unfinished
      BY <2>2 DEF RecordInv, TimesReported
    <3> QED BY <2>2, <3>1 DEF Call!LoadQueueStatus, Call!callProcessingStatus
  <2>3. CASE called = "processing" /\ 1 \notin written.stages
    <3>1. row.leg[1] = Call!NoLeg
      BY <2>3 DEF RecordInv, TimesReported
    <3>2. row.leg[1].created = NoTime
      BY <3>1 DEF Call!NoLeg
    <3> QED BY <2>3, <3>2 DEF Call!LoadQueueStatus, Call!callProcessingStatus
  <2> QED BY <2>1, <2>2, <2>3
<1> QED BY <1>1, <1>2 DEF Call!RecordAgrees, RecordInv, TimesReported, ColumnsKept, SharesAgree

LEMMA PullMoves ==
  ASSUME Call!RecordAssumption, RecordInv, NEW s \in 1..2,
         Call!PullCDRRead(s) \/ Call!PullCDROrder \/ Call!PullCDRAbort
  PROVE  RecordInv'
<1>1. CASE Call!PullCDRRead(s)
  <2>1. /\ cdr = Call!Idle /\ s \notin reported /\ reported' = reported \cup {s}
        /\ cdr' = [at |-> IF s = 1 THEN "order" ELSE "write", stage |-> s, row |-> row]
        /\ UNCHANGED <<report, row, called, written>>
    BY <1>1 DEF Call!PullCDRRead
  <2>2. CallShape'
    BY <2>1 DEF RecordInv, CallShape
  <2>3. CDRCurrent'
    BY <2>1 DEF RecordInv, CallShape, CDRCurrent
  <2> QED BY <2>1, <2>2, <2>3 DEF RecordInv, TimesReported, ColumnsKept, SharesAgree
<1>2. CASE Call!PullCDROrder
  <2>1. /\ cdr.at = "order" /\ cdr' = [cdr EXCEPT !.at = "write"]
        /\ UNCHANGED <<report, reported, row>>
        /\ \/ called' = "finished" /\ UNCHANGED written
           \/ called' = called /\ written' = [written EXCEPT !.unfinished = TRUE]
    BY <1>2 DEF Call!PullCDROrder
  <2>2. cdr # Call!Idle /\ cdr \in [at : {"order", "write"}, stage : 1..2, row : CallRow]
    BY <2>1 DEF Call!Idle, RecordInv, CallShape
  <2>3. /\ cdr' \in [at : {"order", "write"}, stage : 1..2, row : CallRow]
        /\ cdr'.stage = cdr.stage /\ cdr'.row = cdr.row
    BY <2>1, <2>2
  <2>4. /\ written' \in [stages : SUBSET (1..2), own : SUBSET Users, unfinished : BOOLEAN]
        /\ written'.stages = written.stages /\ written'.own = written.own
        /\ called' = "finished" \/ written'.unfinished
        /\ called' \in {"processing", "finished"}
    BY <2>1 DEF RecordInv, CallShape
  <2>5. CallShape'
    BY <2>1, <2>3, <2>4 DEF RecordInv, CallShape
  <2>6. CDRCurrent'
    BY <2>1, <2>2, <2>3, <2>4 DEF RecordInv, CDRCurrent
  <2> QED BY <2>1, <2>4, <2>5, <2>6 DEF RecordInv, TimesReported, ColumnsKept, SharesAgree
<1>3. CASE Call!PullCDRAbort
  BY <1>3 DEF Call!PullCDRAbort, RecordInv, CallShape, CDRCurrent, TimesReported,
              ColumnsKept, SharesAgree
<1> QED BY <1>1, <1>2, <1>3

LEMMA WriteMoves ==
  ASSUME Call!RecordAssumption, RecordInv, Call!PullCDRWrite
  PROVE  RecordInv'
<1>1. cdr \in [at : {"order", "write"}, stage : 1..2, row : CallRow] /\ cdr # Call!Idle
      /\ cdr.at = "write"
  BY DEF Call!PullCDRWrite, Call!Idle, RecordInv, CallShape
<1>2. PICK s \in 1..2 : s = cdr.stage
  BY <1>1
<1>3. PICK r : r = Call!Reported(cdr.row, cdr.stage)
  OBVIOUS
<1>4. report \in Reports /\ row \in CallRow
  BY DEF RecordInv, CallShape
<1>5. cdr.row \in CallRow
  BY <1>1
<1>6. /\ r \in CallRow
      /\ r.leg = [row.leg EXCEPT ![s] = [created |-> report[s].created,
                                         answered |-> report[s].answered]]
      /\ r.hangup = report[s].hangup
  <2>1. PICK old \in CallRow : old = cdr.row
    BY <1>5
  <2>2. old.leg = row.leg
    BY <1>1, <2>1 DEF RecordInv, CDRCurrent
  <2>3. r = Call!Reported(old, s)
    BY <1>2, <1>3, <2>1
  <2>4. /\ Call!Reported(old, s) \in CallRow
        /\ Call!Reported(old, s).leg
             = [old.leg EXCEPT ![s] = [created |-> report[s].created,
                                       answered |-> report[s].answered]]
        /\ Call!Reported(old, s).hangup = report[s].hangup
    BY <1>4, ReportedRow
  <2> QED BY <2>2, <2>3, <2>4
<1>7. PICK secs : secs = Call!UpdateDuration(r)
  OBVIOUS
<1>8. secs \in [Call!Durations -> Int]
  BY <1>6, <1>7, DurationsOfRow
<1>9. row' = [row EXCEPT !.leg = r.leg, !.hangup = r.hangup, !.secs = secs]
  BY <1>3, <1>7 DEF Call!PullCDRWrite
<1>10. /\ row'.leg = r.leg /\ row'.hangup = r.hangup /\ row'.secs = secs
       /\ row'.own = row.own /\ row' \in CallRow
  BY <1>4, <1>6, <1>8, <1>9 DEF CallRow
<1>11. /\ cdr' = Call!Idle /\ UNCHANGED <<report, reported, called>>
       /\ written' = [written EXCEPT !.stages = @ \cup {s}]
  BY <1>2 DEF Call!PullCDRWrite
<1>12. /\ written' \in [stages : SUBSET (1..2), own : SUBSET Users, unfinished : BOOLEAN]
       /\ written'.stages = written.stages \cup {s} /\ written'.own = written.own
       /\ written'.unfinished = written.unfinished
  BY <1>11 DEF RecordInv, CallShape
<1>13. s \in reported /\ (s = 1 => called = "finished" \/ written.unfinished)
  BY <1>1, <1>2 DEF RecordInv, CDRCurrent
<1>14. r.hangup \in Nat /\ r.hangup # NoTime
  <2>1. report[s] \in [created : Nat, answered : Nat \cup {NoTime}, hangup : Nat]
    BY <1>4 DEF Call!RecordAssumption
  <2> QED BY <1>6, <2>1 DEF Call!RecordAssumption
<1>15. CallShape'
  BY <1>10, <1>11, <1>12, <1>13 DEF RecordInv, CallShape
<1>16. TimesReported'
  <2>1. \A t \in 1..2 : row'.leg[t] = IF t = s THEN [created |-> report[s].created,
                                                     answered |-> report[s].answered]
                                       ELSE row.leg[t]
    BY <1>4, <1>6, <1>10 DEF CallRow
  <2> QED BY <1>10, <1>11, <1>12, <1>13, <1>14, <2>1 DEF RecordInv, TimesReported
<1>17. SharesAgree'
  BY <1>6, <1>7, <1>10, <1>14, SharesOfRow DEF SharesAgree
<1> QED BY <1>10, <1>11, <1>12, <1>15, <1>16, <1>17 DEF RecordInv, CDRCurrent, ColumnsKept

LEMMA OthersWrite ==
  ASSUME Call!RecordAssumption, RecordInv,
         Call!SwitchSeat \/ Call!CleanOrders \/ \E u \in Users : Call!UpdateOwn(u)
  PROVE  RecordInv'
<1>r. row \in CallRow /\ written \in [stages : SUBSET (1..2), own : SUBSET Users,
                                       unfinished : BOOLEAN]
  BY DEF RecordInv, CallShape
<1>1. CASE Call!SwitchSeat
  <2>1. /\ row' \in CallRow /\ row'.leg = row.leg /\ row'.hangup = row.hangup
        /\ row'.secs = row.secs /\ row'.own = row.own
        /\ UNCHANGED <<report, reported, called, cdr, written>>
    BY <1>1, <1>r DEF Call!SwitchSeat, CallRow
  <2> QED BY <2>1 DEF RecordInv, CallShape, CDRCurrent, TimesReported, ColumnsKept, SharesAgree
<1>2. CASE Call!CleanOrders
  BY <1>2 DEF Call!CleanOrders, RecordInv, CallShape, CDRCurrent, TimesReported,
              ColumnsKept, SharesAgree
<1>3. ASSUME NEW u \in Users, Call!UpdateOwn(u)
      PROVE  RecordInv'
  <2>1. /\ row' = [row EXCEPT !.own[u] = TRUE]
        /\ written' = [written EXCEPT !.own = @ \cup {u}]
        /\ UNCHANGED <<report, reported, called, cdr>>
    BY <1>3 DEF Call!UpdateOwn
  <2>2. /\ row'.leg = row.leg /\ row'.hangup = row.hangup /\ row'.secs = row.secs
        /\ row'.own = [row.own EXCEPT ![u] = TRUE] /\ row'.switch = row.switch
        /\ row' \in CallRow
    BY <1>r, <2>1 DEF CallRow
  <2>3. /\ written' \in [stages : SUBSET (1..2), own : SUBSET Users, unfinished : BOOLEAN]
        /\ written'.stages = written.stages /\ written'.own = written.own \cup {u}
        /\ written'.unfinished = written.unfinished
    BY <1>r, <2>1
  <2>4. ColumnsKept'
    <3>1. row.own \in [Users -> BOOLEAN]
      BY <1>r DEF CallRow
    <3> QED BY <2>2, <2>3, <3>1 DEF RecordInv, ColumnsKept
  <2> QED BY <2>1, <2>2, <2>3, <2>4 DEF RecordInv, CallShape, CDRCurrent, TimesReported,
                                       SharesAgree
<1> QED BY <1>1, <1>2, <1>3

LEMMA RecordStep ==
  ASSUME Call!RecordAssumption, RecordInv, [Call!Next]_callVars
  PROVE  RecordInv'
<1>1. CASE UNCHANGED callVars
  BY <1>1 DEF callVars, RecordInv, CallShape, CDRCurrent, TimesReported, ColumnsKept,
              SharesAgree
<1> QED BY <1>1, PullMoves, WriteMoves, OthersWrite DEF Call!Next

\* A call's row keeps what each writer wrote, and its times are those of the
\* reports, in whatever order the reports are handled and whoever writes
\* meanwhile (PullCDR, cti.go:420; UpdateDuration, model/call.go:64).
THEOREM RowsAgreeWithReports ==
  ASSUME ServicesAssumption
  PROVE  ServicesSpec => []RecordAgrees
<1> DEFINE Inv == service = "call" => RecordInv
<1>1. ServicesInit => Inv
  BY RecordStart DEF ServicesInit, ServicesAssumption
<1>2. Inv /\ [ServicesNext]_allVars => Inv'
  <2> SUFFICES ASSUME Inv, [ServicesNext]_allVars, service' = "call"
               PROVE  RecordInv'
    OBVIOUS
  <2>1. service = "call" /\ [Call!Next]_callVars
    BY DEF ServicesNext, allVars, PushNext, ProjectNext, HubNext, CallNext, ExportNext, ScopeNext
  <2> QED BY <2>1, RecordStep DEF ServicesAssumption
<1>3. Inv => RecordAgrees
  BY RecordAgreesThen DEF RecordAgrees, ServicesAssumption
<1> QED BY <1>1, <1>2, <1>3, PTL DEF ServicesSpec
-----------------------------------------------------------------------------
(* Departments and the pages. *)

DeptRow == [row : {"none", "stored", "deleted"}, up : Depts \cup {NoDept},
            path : SUBSET (Depts \cup {NoDept})]
ItemRow == [kind : Scope!Kinds, row : {"none", "stored", "deleted"},
            dept : Depts \cup {NoDept}, called : BOOLEAN]

\* Departments are made below departments that are made.
DeptShape ==
  /\ dept \in [Depts -> DeptRow]
  /\ item \in ItemRow
  /\ behind \subseteq Scope!Made
  /\ \A d \in Scope!Made : dept[d].up \in Scope!Made \cup {NoDept}

PathsFollow == \A d \in Scope!Made \ behind : dept[d].path = Scope!Line(d)

\* Only orders are called.
OrdersCalled == item.called => item.kind = "order"

DeptInv == DeptShape /\ PathsFollow /\ OrdersCalled

\* A set that one does not leave upwards.
Upward(up) ==
  up \subseteq Depts \cup {NoDept} /\ \A x \in up \ {NoDept} : dept[x].up \in up

LEMMA LineIsLeast ==
  DeptShape =>
    \A d \in Depts \cup {NoDept} :
      /\ d \in Scope!Line(d) /\ Upward(Scope!Line(d))
      /\ \A up : Upward(up) /\ d \in up => Scope!Line(d) \subseteq up
<1> SUFFICES ASSUME DeptShape, NEW d \in Depts \cup {NoDept}
             PROVE  /\ d \in Scope!Line(d) /\ Upward(Scope!Line(d))
                    /\ \A up : Upward(up) /\ d \in up => Scope!Line(d) \subseteq up
  OBVIOUS
<1>1. Scope!Line(d) = {e \in Depts \cup {NoDept} :
                         \A up \in SUBSET (Depts \cup {NoDept}) :
                           Upward(up) /\ d \in up => e \in up}
  BY DEF Scope!Line, Upward
<1>2. \A x \in Scope!Line(d) \ {NoDept} : dept[x].up \in Scope!Line(d)
  <2> TAKE x \in Scope!Line(d) \ {NoDept}
  <2>1. x \in Depts /\ dept[x].up \in Depts \cup {NoDept}
    BY <1>1 DEF DeptShape, DeptRow
  <2>2. \A up \in SUBSET (Depts \cup {NoDept}) : Upward(up) /\ d \in up => dept[x].up \in up
    BY <1>1, <2>1 DEF Upward
  <2> QED BY <1>1, <2>1, <2>2
<1> QED BY <1>1, <1>2 DEF Upward

LEMMA LineIsLeastNext ==
  (DeptShape =>
    \A d \in Depts \cup {NoDept} :
      /\ d \in Scope!Line(d) /\ Upward(Scope!Line(d))
      /\ \A up : Upward(up) /\ d \in up => Scope!Line(d) \subseteq up)'
BY LineIsLeast, PTL

\* A line that a change of one department does not touch stays.
LEMMA LinesKept ==
  ASSUME DeptShape, DeptShape', NEW d \in Depts,
         \A x \in Depts : x # d => dept'[x].up = dept[x].up
  PROVE  \A e \in Depts \cup {NoDept} : d \notin Scope!Line(e) => Scope!Line(e)' = Scope!Line(e)
<1> SUFFICES ASSUME NEW e \in Depts \cup {NoDept}, d \notin Scope!Line(e)
             PROVE  Scope!Line(e)' = Scope!Line(e)
  OBVIOUS
<1>1. PICK old : old = Scope!Line(e)
  OBVIOUS
<1>2. PICK new : new = Scope!Line(e)'
  OBVIOUS
<1>3. e \in old /\ Upward(old) /\ \A up : Upward(up) /\ e \in up => old \subseteq up
  BY <1>1, LineIsLeast
<1>4. e \in new /\ Upward(new)' /\ \A up : Upward(up)' /\ e \in up => new \subseteq up
  BY <1>2, LineIsLeastNext
<1>5. Upward(old)'
  BY <1>1, <1>3 DEF Upward
<1>6. new \subseteq old
  BY <1>3, <1>4, <1>5
<1>7. Upward(new)
  BY <1>1, <1>4, <1>6 DEF Upward
<1>8. old \subseteq new
  BY <1>3, <1>4, <1>7
<1> QED BY <1>1, <1>2, <1>6, <1>8

\* A department stands above itself, and then whoever stands above its parent.
LEMMA LineOfParent ==
  Scope!DeptAssumption /\ DeptShape =>
    /\ \A d \in Depts : Scope!Line(d) = {d} \cup Scope!Line(dept[d].up)
    /\ Scope!Line(NoDept) = {NoDept}
<1> SUFFICES ASSUME Scope!DeptAssumption, DeptShape
             PROVE  /\ \A d \in Depts : Scope!Line(d) = {d} \cup Scope!Line(dept[d].up)
                    /\ Scope!Line(NoDept) = {NoDept}
  OBVIOUS
<1>1. ASSUME NEW d \in Depts
      PROVE  Scope!Line(d) = {d} \cup Scope!Line(dept[d].up)
  <2>1. dept[d].up \in Depts \cup {NoDept} /\ d # NoDept
    BY DEF DeptShape, DeptRow, Scope!DeptAssumption
  <2>2. PICK line : line = Scope!Line(d)
    OBVIOUS
  <2>3. PICK above : above = Scope!Line(dept[d].up)
    OBVIOUS
  <2>4. d \in line /\ Upward(line) /\ \A up : Upward(up) /\ d \in up => line \subseteq up
    BY <2>2, LineIsLeast
  <2>5. /\ dept[d].up \in above /\ Upward(above)
        /\ \A up : Upward(up) /\ dept[d].up \in up => above \subseteq up
    BY <2>1, <2>3, LineIsLeast
  <2>6. Upward({d} \cup above)
    BY <2>5 DEF Upward
  <2>7. line \subseteq {d} \cup above
    BY <2>4, <2>6
  <2>8. dept[d].up \in line
    BY <2>1, <2>4 DEF Upward
  <2>9. above \subseteq line
    BY <2>4, <2>5, <2>8
  <2> QED BY <2>2, <2>3, <2>4, <2>7, <2>9
<1>2. Scope!Line(NoDept) = {NoDept}
  <2>1. Upward({NoDept})
    BY DEF Upward
  <2> QED BY <2>1, LineIsLeast
<1> QED BY <1>1, <1>2

LEMMA LineOfParentNext ==
  (Scope!DeptAssumption /\ DeptShape =>
    /\ \A d \in Depts : Scope!Line(d) = {d} \cup Scope!Line(dept[d].up)
    /\ Scope!Line(NoDept) = {NoDept})'
BY LineOfParent, PTL

\* Whoever stands above a department that was made was made.
LEMMA LinesAreMade ==
  ASSUME DeptShape
  PROVE  \A d \in Scope!Made : Scope!Line(d) \subseteq Scope!Made \cup {NoDept}
<1>1. Upward(Scope!Made \cup {NoDept})
  BY DEF Upward, DeptShape, Scope!Made
<1> QED BY <1>1, LineIsLeast DEF Scope!Made

\* A department is saved: its own path is worked out, those that are not put
\* behind do not have it above them.
LEMMA SavedFollows ==
  ASSUME Scope!DeptAssumption, DeptInv,
         NEW d \in Depts, NEW up \in Scope!Made \cup {NoDept},
         dept' = [dept EXCEPT ![d] = [row |-> "stored", up |-> up, path |-> Scope!Path(d, up)]],
         behind' \subseteq Scope!Made \cup {d}, item' = item,
         d \notin behind' => Scope!Follows(d, up),
         \A x \in Scope!Made \ (behind' \cup {d}) : x \notin behind /\ d \notin Scope!Line(x)
  PROVE  DeptInv'
<1> DEFINE new == [row |-> "stored", up |-> up, path |-> Scope!Path(d, up)]
<1>t. dept \in [Depts -> DeptRow] /\ Scope!Made \subseteq Depts /\ up \in Depts \cup {NoDept}
  BY DEF DeptInv, DeptShape, Scope!Made
<1>1. /\ dept'[d] = new /\ \A x \in Depts : x # d => dept'[x] = dept[x]
  BY <1>t
<1>2. new \in DeptRow
  <2>1. Scope!Path(d, up) \in SUBSET (Depts \cup {NoDept})
    BY <1>t DEF Scope!Path, Scope!Stored, DeptRow
  <2> QED BY <1>t, <2>1 DEF DeptRow
<1>3. Scope!Made' = Scope!Made \cup {d}
  BY <1>1, <1>2 DEF Scope!Made
<1>4. DeptShape'
  <2>1. dept' \in [Depts -> DeptRow]
    BY <1>t, <1>2
  <2>2. \A x \in Scope!Made' : dept'[x].up \in Scope!Made' \cup {NoDept}
    BY <1>1, <1>3 DEF DeptInv, DeptShape, Scope!Made
  <2> QED BY <1>3, <2>1, <2>2 DEF DeptInv, DeptShape
<1>5. \A x \in Depts : x # d => dept'[x].up = dept[x].up
  BY <1>1
<1>6. \A e \in Depts \cup {NoDept} : d \notin Scope!Line(e) => Scope!Line(e)' = Scope!Line(e)
  BY <1>4, <1>5, LinesKept DEF DeptInv
<1>7. ASSUME NEW x \in Scope!Made', x \notin behind', x # d
      PROVE  dept'[x].path = Scope!Line(x)'
  BY <1>1, <1>3, <1>6, <1>7, <1>t DEF DeptInv, PathsFollow
<1>8. ASSUME d \notin behind'
      PROVE  dept'[d].path = Scope!Line(d)'
  <2>1. Scope!Line(d)' = {d} \cup Scope!Line(up)'
    <3>1. (\A e \in Depts : Scope!Line(e) = {e} \cup Scope!Line(dept[e].up))'
      BY <1>4, LineOfParentNext DEF Scope!DeptAssumption
    <3>2. dept'[d].up = up
      BY <1>1
    <3> QED BY <3>1, <3>2
  <2>2. CASE up = NoDept
    <3>1. Scope!Line(up)' = {NoDept}
      BY <1>4, <2>2, LineOfParentNext DEF Scope!DeptAssumption
    <3> QED BY <1>1, <2>1, <2>2, <3>1 DEF Scope!Path
  <2>3. CASE up # NoDept
    <3>1. up \in Scope!Stored \ behind /\ d \notin Scope!Line(up)
      BY <1>8, <2>3 DEF Scope!Follows
    <3>2. dept[up].path = Scope!Line(up) /\ Scope!Line(up)' = Scope!Line(up)
      BY <1>6, <1>t, <3>1 DEF DeptInv, PathsFollow, Scope!Stored, Scope!Made
    <3>3. new.path = dept[up].path \cup {d}
      BY <2>3, <3>1 DEF Scope!Path
    <3> QED BY <1>1, <2>1, <3>2, <3>3
  <2> QED BY <2>2, <2>3
<1> QED BY <1>4, <1>7, <1>8 DEF DeptInv, PathsFollow, OrdersCalled

LEMMA DeptsMove ==
  ASSUME Scope!DeptAssumption, DeptInv, NEW d \in Depts,
         \/ Scope!Remove(d)
         \/ \E up \in Depts \cup {NoDept} : Scope!Insert(d, up) \/ Scope!Update(d, up)
  PROVE  DeptInv'
<1>1. CASE Scope!Remove(d)
  <2>1. /\ d \in Scope!Stored /\ dept' = [dept EXCEPT ![d].row = "deleted"]
        /\ UNCHANGED <<item, behind>>
    BY <1>1 DEF Scope!Remove
  <2>2. /\ dept' \in [Depts -> DeptRow]
        /\ \A x \in Depts : /\ dept'[x].up = dept[x].up /\ dept'[x].path = dept[x].path
                            /\ dept'[x].row # "none" <=> dept[x].row # "none"
    BY <2>1 DEF DeptInv, DeptShape, DeptRow, Scope!Stored
  <2>3. Scope!Made' = Scope!Made
    BY <2>2 DEF Scope!Made
  <2>4. DeptShape'
    BY <2>1, <2>2, <2>3 DEF DeptInv, DeptShape, Scope!Made
  <2>5. \A e \in Scope!Made : Scope!Line(e)' = Scope!Line(e)
    BY <2>2 DEF Scope!Line
  <2> QED BY <2>1, <2>2, <2>3, <2>4, <2>5 DEF DeptInv, PathsFollow, OrdersCalled, Scope!Made
<1>2. ASSUME NEW up \in Depts \cup {NoDept}, Scope!Insert(d, up)
      PROVE  DeptInv'
  <2>1. d \notin Scope!Made /\ up \in Scope!Made \cup {NoDept} /\ item' = item
        /\ dept' = [dept EXCEPT ![d] =
                      [row |-> "stored", up |-> up, path |-> Scope!Path(d, up)]]
        /\ behind' = IF Scope!Follows(d, up) THEN behind ELSE behind \cup {d}
    BY <1>2 DEF Scope!Insert, Scope!Made
  <2>2. \A x \in Scope!Made : d \notin Scope!Line(x)
    BY <2>1, LinesAreMade DEF DeptInv, Scope!DeptAssumption
  <2>3. behind \subseteq Scope!Made
    BY DEF DeptInv, DeptShape
  <2> QED BY <2>1, <2>2, <2>3, SavedFollows
<1>3. ASSUME NEW up \in Depts \cup {NoDept}, Scope!Update(d, up)
      PROVE  DeptInv'
  <2>1. up \in Scope!Made \cup {NoDept} /\ item' = item
        /\ dept' = [dept EXCEPT ![d] =
                      [row |-> "stored", up |-> up, path |-> Scope!Path(d, up)]]
        /\ behind' = ((IF Scope!Follows(d, up) THEN behind \ {d} ELSE behind \cup {d})
                        \cup {x \in Scope!Made \ {d} : d \in Scope!Line(x)})
    BY <1>3 DEF Scope!Update
  <2>2. behind \subseteq Scope!Made
    BY DEF DeptInv, DeptShape
  <2> QED BY <2>1, <2>2, SavedFollows
<1> QED BY <1>1, <1>2, <1>3

LEMMA ItemsMove ==
  ASSUME DeptInv, UNCHANGED <<dept, behind>>, item' \in ItemRow, OrdersCalled'
  PROVE  DeptInv'
BY DEF DeptInv, DeptShape, PathsFollow, Scope!Made, Scope!Line

LEMMA ScopeStep ==
  ASSUME Scope!DeptAssumption, DeptInv, [Scope!Next]_scopeVars
  PROVE  DeptInv'
<1>t. item \in ItemRow /\ Scope!Made \subseteq Depts
  BY DEF DeptInv, DeptShape, Scope!Made
<1>1. CASE UNCHANGED scopeVars
  BY <1>1 DEF scopeVars, DeptInv, DeptShape, PathsFollow, OrdersCalled, Scope!Made, Scope!Line
<1>2. ASSUME NEW kind \in Scope!Kinds, NEW d, Scope!Create(kind, d)
      PROVE  DeptInv'
  <2>1. /\ d \in Depts \cup {NoDept} /\ UNCHANGED <<dept, behind>>
        /\ item' = [kind |-> kind, row |-> "stored", dept |-> d, called |-> FALSE]
    BY <1>2, <1>t DEF Scope!Create
  <2> QED BY <2>1, ItemsMove DEF ItemRow, OrdersCalled
<1>3. ASSUME NEW kind, NEW user, Scope!Delete(user, kind)
      PROVE  DeptInv'
  <2>1. item' = [item EXCEPT !.row = "deleted"] /\ UNCHANGED <<dept, behind>>
    BY <1>3 DEF Scope!Delete
  <2>2. item' \in ItemRow /\ item'.called = item.called /\ item'.kind = item.kind
    BY <1>t, <2>1 DEF ItemRow
  <2> QED BY <2>1, <2>2, ItemsMove DEF DeptInv, OrdersCalled
<1>4. CASE Scope!PushOrder
  <2>1. item.kind = "order" /\ item' = [item EXCEPT !.called = TRUE] /\ UNCHANGED <<dept, behind>>
    BY <1>4 DEF Scope!PushOrder, Scope!Is
  <2>2. item' \in ItemRow /\ item'.kind = item.kind
    BY <1>t, <2>1 DEF ItemRow
  <2> QED BY <2>1, <2>2, ItemsMove DEF OrdersCalled
<1>5. {"project", "order", "robot", "export", "user"} \subseteq Scope!Kinds
  BY DEF Scope!Kinds
<1>6. ASSUME NEW d \in Depts \cup {NoDept},
             \/ Scope!CreateProject(d) \/ Scope!UploadOrderGroupAndCreateOrders(d)
             \/ Scope!CreateRobot(d) \/ Scope!AsyncExportCallHistory(d) \/ Scope!CreateUser(d)
             \/ Scope!DeleteProject(d) \/ Scope!DeleteOrder(d) \/ Scope!DeleteRobot(d)
      PROVE  DeptInv'
  BY <1>2, <1>3, <1>5, <1>6
     DEF Scope!CreateProject, Scope!UploadOrderGroupAndCreateOrders, Scope!CreateRobot,
         Scope!AsyncExportCallHistory, Scope!CreateUser,
         Scope!DeleteProject, Scope!DeleteOrder, Scope!DeleteRobot
<1> QED BY <1>1, <1>4, <1>6, DeptsMove DEF Scope!Next

LEMMA ScopeStart ==
  ASSUME Scope!DeptAssumption, Scope!Init
  PROVE  DeptInv
<1>1. Scope!Made = {} /\ behind = {}
  BY DEF Scope!Init, Scope!Made
<1> QED BY <1>1 DEF Scope!Init, DeptInv, DeptShape, DeptRow, ItemRow, Scope!Kinds, PathsFollow,
               OrdersCalled

\* The tree of the pages is closed upwards.
LEMMA TreeIsUpward ==
  ASSUME DeptShape
  PROVE  \A d \in Scope!SetDeptTree : dept[d].up \in Scope!SetDeptTree \cup {NoDept}
<1> DEFINE Closed(down) == \A d \in Scope!Stored : dept[d].up \in down \cup {NoDept} => d \in down
<1>1. Scope!SetDeptTree = {d \in Scope!Stored :
                            \A down \in SUBSET Scope!Stored : Closed(down) => d \in down}
  BY DEF Scope!SetDeptTree
<1>2. PICK tree \in SUBSET Scope!Stored : tree = Scope!SetDeptTree
  BY <1>1
<1>3. Closed(tree)
  BY <1>1, <1>2
<1> DEFINE inner == {d \in tree : dept[d].up \in tree \cup {NoDept}}
<1>4. Closed(inner)
  BY <1>3
<1>5. tree \subseteq inner
  BY <1>1, <1>2, <1>4
<1> QED BY <1>2, <1>5

LEMMA ScopeFollowsThen ==
  ASSUME Scope!DeptAssumption, DeptInv
  PROVE  Scope!ScopeFollowsTree
<1>t. item \in ItemRow /\ dept \in [Depts -> DeptRow] /\ Scope!Made \subseteq Depts
      /\ NoDept \notin Depts
  BY DEF DeptInv, DeptShape, Scope!Made, Scope!DeptAssumption
<1>1. \A d \in Scope!Made \ behind : dept[d].path = Scope!Line(d)
  BY DEF DeptInv, PathsFollow
<1>2. \A d \in Scope!SetDeptTree \ behind :
        dept[d].path \subseteq Scope!SetDeptTree \cup {NoDept}
  <2> TAKE d \in Scope!SetDeptTree \ behind
  <2>1. Scope!SetDeptTree \subseteq Scope!Made
    BY DEF Scope!SetDeptTree, Scope!Stored, Scope!Made
  <2>2. Upward(Scope!SetDeptTree \cup {NoDept})
    BY <1>t, <2>1, TreeIsUpward DEF DeptInv, Upward
  <2>3. Scope!Line(d) \subseteq Scope!SetDeptTree \cup {NoDept}
    BY <1>t, <2>1, <2>2, LineIsLeast DEF DeptInv
  <2> QED BY <1>1, <2>1, <2>3
<1>3. item.row = "stored" /\ item.kind # "robot" /\ item.dept \in Scope!Made \ behind =>
        {user \in Depts : Scope!Listed(user)} = dept[item.dept].path \ {NoDept}
  <2> SUFFICES ASSUME item.row = "stored", item.kind # "robot", item.dept \in Scope!Made
               PROVE  {user \in Depts : Scope!Listed(user)} = dept[item.dept].path \ {NoDept}
    OBVIOUS
  <2>1. item.kind \in {"project", "order", "export", "user"} /\ item.dept \in Depts
        /\ dept[item.dept].path \subseteq Depts \cup {NoDept}
    BY <1>t DEF ItemRow, Scope!Kinds, DeptRow
  <2>2. \A user \in Depts : Scope!Listed(user) <=> user \in dept[item.dept].path
    BY <1>t, <2>1 DEF Scope!Listed, Scope!SearchProjects, Scope!GetOrderList,
                      Scope!SearchExportTask, Scope!GetSeatList, Scope!Scoped, Scope!Is,
                      Scope!DeptPermission
  <2>3. PICK path \in SUBSET (Depts \cup {NoDept}) : path = dept[item.dept].path
    BY <2>1
  <2>4. \A user \in Depts : Scope!Listed(user) <=> user \in path
    BY <2>2, <2>3
  <2>5. {user \in Depts : Scope!Listed(user)} = path \ {NoDept}
    BY <1>t, <2>4
  <2> QED BY <2>3, <2>5
<1>4. \A user \in Depts \cup {NoDept} :
        /\ Scope!SetProjectRobots(user) \/ Scope!SetProjectConcurrency(user)
              \/ Scope!SearchProjectsOfSeat(user) => Scope!SearchProjects(user)
        /\ Scope!GetOrderDetail(user) \/ Scope!ExportOrders(user) => Scope!GetOrderList(user)
        /\ Scope!GetOrderList(user) => Scope!SearchOrderGroup(user)
        /\ Scope!UpdateRobot(user) => Scope!SearchRobots(user)
        /\ Scope!ExportCallHistory(user) => Scope!SearchCallHistory(user)
        /\ Scope!GetCallDetail(user) /\ item.row = "stored" => Scope!SearchCallHistory(user)
  BY DEF DeptInv, OrdersCalled,
         Scope!SetProjectRobots, Scope!SetProjectConcurrency, Scope!SearchProjectsOfSeat,
         Scope!SearchProjects, Scope!GetOrderDetail, Scope!ExportOrders, Scope!GetOrderList,
         Scope!SearchOrderGroup, Scope!UpdateRobot, Scope!SearchRobots,
         Scope!ExportCallHistory, Scope!SearchCallHistory, Scope!GetCallDetail,
         Scope!Scoped, Scope!Is
<1> QED BY <1>1, <1>2, <1>3, <1>4 DEF Scope!ScopeFollowsTree

\* The pages of the departments on the line above a row, and no others, show
\* it, unless a department was moved and those below it were not saved since
\* (Update, sys_dept.go:95; Permission, common/actions/permission.go:97).
THEOREM PagesFollowTheTree ==
  ASSUME ServicesAssumption
  PROVE  ServicesSpec => []ScopeFollowsTree
<1> DEFINE Inv == service = "scope" => DeptInv
<1>1. ServicesInit => Inv
  BY ScopeStart DEF ServicesInit, ServicesAssumption
<1>2. Inv /\ [ServicesNext]_allVars => Inv'
  <2> SUFFICES ASSUME Inv, [ServicesNext]_allVars, service' = "scope"
               PROVE  DeptInv'
    OBVIOUS
  <2>1. service = "scope" /\ [Scope!Next]_scopeVars
    BY DEF ServicesNext, allVars, PushNext, ProjectNext, HubNext, CallNext, ExportNext, ScopeNext
  <2> QED BY <2>1, ScopeStep DEF ServicesAssumption
<1>3. Inv => ScopeFollowsTree
  BY ScopeFollowsThen DEF ScopeFollowsTree, ServicesAssumption
<1> QED BY <1>1, <1>2, <1>3, PTL DEF ServicesSpec
-----------------------------------------------------------------------------
(* Exports. *)

ExportShape ==
  /\ rows \subseteq Export!Rows /\ began \subseteq rows
  /\ file \in [Tasks -> Seq(Export!Rows)]
  /\ export \in {Export!Idle} \cup [at : {"read", "put", "done"}, task : Tasks,
                                    out : Seq(Export!Rows)]

Ascending(out) == \A i, j \in DOMAIN out : i < j => Export!Before(out[i], out[j])

\* What was there when the export began is in the file, or comes after all
\* that is.
ReadSoFar ==
  /\ export # Export!Idle => Ascending(export.out)
  /\ export.at = "read" =>
       \A r \in began : r \in Export!Range(export.out) \/ r \in Export!Remaining
  /\ export.at \in {"put", "done"} => began \subseteq Export!Range(export.out)
  /\ export.at = "done" => file[export.task] = export.out

ExportInv == ExportShape /\ ReadSoFar

\* The natural numbers are well-founded.
LEMMA LeastNumber ==
  ASSUME NEW T, T \subseteq Nat, T # {}
  PROVE  \E x \in T : \A y \in T : x <= y
<1> DEFINE R == {ss \in Nat \X Nat : ss[1] < ss[2]}
<1>1. IsWellFoundedOn(R, Nat)
  BY NatLessThanWellFounded DEF OpToRel
<1>2. \E x \in T : \A y \in T : ~ (<<y, x>> \in R)
  BY <1>1, WFMin
<1>3. PICK x \in T : \A y \in T : ~ (<<y, x>> \in R)
  BY <1>2
<1>4. \A y \in T : y \in Nat /\ x \in Nat /\ <<y, x>> \notin R
  BY <1>3
<1>5. ASSUME NEW y \in T PROVE x <= y
  <2>1. <<y, x>> \in Nat \X Nat /\ <<y, x>>[1] = y /\ <<y, x>>[2] = x
    BY <1>4
  <2>2. ~ y < x
    BY <1>4, <2>1
  <2> QED BY <1>4, <2>2
<1> QED BY <1>3, <1>5

LEMMA RowOrder ==
  ASSUME Export!ExportAssumption
  PROVE  \A r, s, t \in Export!Rows :
           /\ ~ Export!Before(r, r)
           /\ Export!Before(r, s) /\ Export!Before(s, t) => Export!Before(r, t)
<1>1. \A r \in Export!Rows : r[1] \in Nat /\ r[2] \in Nat
  BY DEF Export!ExportAssumption, Export!Rows
<1> QED BY <1>1 DEF Export!Before

\* A batch is a sequence with the first of what remains.
LEMMA BatchRows ==
  ASSUME Export!ExportAssumption, NEW remaining, NEW batch \in Export!FirstRows(remaining)
  PROVE  /\ batch \in Seq(remaining) /\ Len(batch) \in Nat \ {0}
         /\ Ascending(batch)
         /\ \A r \in remaining : \/ r \in Export!Range(batch)
                                 \/ \A i \in DOMAIN batch : Export!Before(batch[i], r)
<1>1. PICK n \in 1..BatchSize : batch \in [1..n -> remaining]
  BY DEF Export!FirstRows
<1>2. batch \in Seq(remaining) /\ Len(batch) = n
  BY <1>1 DEF Export!ExportAssumption
<1> QED BY <1>1, <1>2 DEF Export!FirstRows, Ascending, Export!ExportAssumption

\* A batch that comes after what was read goes behind it.
LEMMA BatchAppended ==
  ASSUME Export!ExportAssumption, ExportInv, export.at = "read", Export!Remaining # {},
         NEW batch \in Export!FirstRows(Export!Remaining)
  PROVE  LET out == export.out \o batch IN
         /\ out \in Seq(Export!Rows) /\ out # <<>> /\ Ascending(out)
         /\ \A r \in began : \/ r \in Export!Range(out)
                             \/ Export!Before(Export!Last(out), r)
<1> DEFINE old == export.out
           out == old \o batch
           m == Len(old)
           n == Len(batch)
<1>t. export \in [at : {"read", "put", "done"}, task : Tasks, out : Seq(Export!Rows)]
      /\ rows \subseteq Export!Rows /\ began \subseteq rows
  BY DEF Export!Idle, ExportInv, ExportShape
<1>1. old \in Seq(Export!Rows) /\ m \in Nat /\ DOMAIN old = 1..m /\ export # Export!Idle
      /\ \A i \in 1..m : old[i] \in Export!Rows
  BY <1>t DEF Export!Idle
<1>2. /\ Export!Remaining \subseteq Export!Rows
      /\ m # 0 => \A r \in Export!Remaining : Export!Before(old[m], r)
      /\ old = <<>> <=> m = 0
  BY <1>t, <1>1 DEF Export!Remaining, Export!Last
<1>3. /\ batch \in Seq(Export!Remaining) /\ n \in Nat \ {0} /\ Ascending(batch)
      /\ \A r \in Export!Remaining : \/ r \in Export!Range(batch)
                                     \/ \A i \in DOMAIN batch : Export!Before(batch[i], r)
  BY BatchRows
<1>4. batch \in Seq(Export!Rows) /\ DOMAIN batch = 1..n
      /\ \A i \in 1..n : batch[i] \in Export!Remaining
  BY <1>2, <1>3, SeqMonotonic
<1>5. /\ out \in Seq(Export!Rows) /\ Len(out) = m + n /\ DOMAIN out = 1..(m + n)
      /\ \A i \in 1..(m + n) : out[i] = IF i <= m THEN old[i] ELSE batch[i - m]
  BY <1>1, <1>4, ConcatProperties, LenProperties
<1>6. Ascending(old)
  BY <1>1 DEF ExportInv, ReadSoFar
<1>7. \A i \in 1..m, j \in 1..n : Export!Before(old[i], batch[j])
  <2> TAKE i \in 1..m, j \in 1..n
  <2>1. m # 0 /\ Export!Before(old[m], batch[j]) /\ m \in 1..m
    BY <1>1, <1>2, <1>4
  <2>2. CASE i = m
    BY <2>1, <2>2
  <2>3. CASE i # m
    <3>1. Export!Before(old[i], old[m])
      BY <1>1, <1>6, <2>1, <2>3 DEF Ascending
    <3>2. old[i] \in Export!Rows /\ old[m] \in Export!Rows /\ batch[j] \in Export!Rows
      BY <1>1, <1>2, <1>4, <2>1
    <3> QED BY <2>1, <3>1, <3>2, RowOrder
  <2> QED BY <2>2, <2>3
<1>8. Ascending(out)
  <2> SUFFICES ASSUME NEW i \in 1..(m + n), NEW j \in 1..(m + n), i < j
               PROVE  Export!Before(out[i], out[j])
    BY <1>5 DEF Ascending
  <2>1. CASE j <= m
    <3>1. i \in 1..m /\ j \in 1..m /\ i <= m
      BY <1>1, <1>3, <2>1
    <3>2. out[i] = old[i] /\ out[j] = old[j]
      BY <1>5, <2>1, <3>1
    <3>3. Export!Before(old[i], old[j])
      BY <1>1, <1>6, <3>1 DEF Ascending
    <3> QED BY <3>2, <3>3
  <2>2. CASE i <= m /\ j > m
    <3>1. i \in 1..m /\ j - m \in 1..n
      BY <1>1, <1>3, <2>2
    <3> QED BY <1>1, <1>5, <1>7, <2>2, <3>1
  <2>3. CASE i > m
    <3>1. i - m \in 1..n /\ j - m \in 1..n /\ i - m < j - m /\ ~ i <= m /\ ~ j <= m
      BY <1>1, <1>3, <2>3
    <3>2. Export!Before(batch[i - m], batch[j - m])
      BY <1>3, <1>4, <3>1 DEF Ascending
    <3> QED BY <1>5, <3>1, <3>2
  <2> QED BY <1>1, <1>3, <2>1, <2>2, <2>3
<1>9. Export!Last(out) = batch[n] /\ n \in DOMAIN batch
  <2>1. m + n \in 1..(m + n) /\ ~ m + n <= m /\ (m + n) - m = n
    BY <1>1, <1>3
  <2> QED BY <1>3, <1>4, <1>5, <2>1 DEF Export!Last
<1>10. /\ \A i \in 1..m : old[i] \in Export!Range(out)
       /\ \A i \in 1..n : batch[i] \in Export!Range(out)
  <2>1. \A i \in 1..m : i \in 1..(m + n) /\ out[i] = old[i]
    BY <1>1, <1>3, <1>5
  <2>2. \A i \in 1..n : i + m \in 1..(m + n) /\ out[i + m] = batch[i]
    <3> TAKE i \in 1..n
    <3>1. i + m \in 1..(m + n) /\ ~ i + m <= m /\ (i + m) - m = i
      BY <1>1, <1>3
    <3> QED BY <1>5, <3>1
  <2> QED BY <1>5, <2>1, <2>2 DEF Export!Range
<1>11. \A r \in began : r \in Export!Range(out) \/ Export!Before(Export!Last(out), r)
  <2> TAKE r \in began
  <2>1. CASE r \in Export!Range(old)
    BY <1>1, <1>10, <2>1 DEF Export!Range
  <2>2. CASE r \in Export!Range(batch)
    BY <1>4, <1>10, <2>2 DEF Export!Range
  <2>3. CASE r \notin Export!Range(old) /\ r \notin Export!Range(batch)
    <3>1. r \in Export!Remaining
      BY <2>3 DEF ExportInv, ReadSoFar
    <3> QED BY <1>3, <1>9, <2>3, <3>1
  <2> QED BY <2>1, <2>2, <2>3
<1>12. out # <<>>
  BY <1>1, <1>3, <1>5
<1> QED BY <1>5, <1>8, <1>11, <1>12

LEMMA RunMoves ==
  ASSUME Export!ExportAssumption, ExportInv, Export!Run
  PROVE  ExportInv'
<1>s. /\ rows \subseteq Export!Rows /\ began \subseteq rows /\ file \in [Tasks -> Seq(Export!Rows)]
      /\ export \in {Export!Idle} \cup [at : {"read", "put", "done"}, task : Tasks,
                                         out : Seq(Export!Rows)]
      /\ Export!Idle.at = "idle"
  BY DEF ExportInv, ExportShape, Export!Idle
<1>1. CASE Export!Take
  <2>1. PICK t : t = Export!Min(Export!Waiting)
    OBVIOUS
  <2>2. /\ export' = [at |-> "read", task |-> t, out |-> <<>>] /\ began' = rows
        /\ UNCHANGED <<rows, task, file>>
    BY <1>1, <2>1 DEF Export!Take
  <2>3. t \in Tasks
    <3>1. Export!Waiting \subseteq Nat /\ Export!Waiting \subseteq Tasks /\ Export!Waiting # {}
      BY <1>1 DEF Export!Take, Export!Waiting, Export!ExportAssumption
    <3>2. \E x \in Export!Waiting : \A y \in Export!Waiting : x <= y
      BY <3>1, LeastNumber
    <3>3. Export!Min(Export!Waiting) \in Export!Waiting
      BY <3>2 DEF Export!Min
    <3> QED BY <2>1, <3>1, <3>3
  <2>4. ExportShape'
    <3>1. <<>> \in Seq(Export!Rows)
      OBVIOUS
    <3> QED BY <1>s, <2>2, <2>3, <3>1 DEF ExportShape
  <2>5. Ascending(<<>>)
    BY DEF Ascending
  <2>6. Export!Remaining' = rows
    BY <2>2 DEF Export!Remaining
  <2> QED BY <2>2, <2>4, <2>5, <2>6 DEF ExportInv, ReadSoFar
<1>2. CASE Export!ReadBatch
  <2>1. export.at = "read" /\ UNCHANGED <<rows, task, file, began>>
    BY <1>2 DEF Export!ReadBatch
  <2>2. export \in [at : {"read", "put", "done"}, task : Tasks, out : Seq(Export!Rows)]
    BY <1>s, <2>1
  <2>3. CASE Export!Remaining = {} /\ export' = [export EXCEPT !.at = "put"]
    <3>1. /\ export' \in [at : {"read", "put", "done"}, task : Tasks, out : Seq(Export!Rows)]
          /\ export'.at = "put" /\ export'.out = export.out /\ export # Export!Idle
      BY <1>s, <2>1, <2>2, <2>3
    <3>2. began \subseteq Export!Range(export.out)
      BY <2>1, <2>3 DEF ExportInv, ReadSoFar
    <3> QED BY <1>s, <2>1, <3>1, <3>2 DEF ExportInv, ExportShape, ReadSoFar
  <2>4. ASSUME Export!Remaining # {}, NEW batch \in Export!FirstRows(Export!Remaining),
               export' = [export EXCEPT !.out = @ \o batch]
        PROVE  ExportInv'
    <3>1. PICK out : out = export.out \o batch
      OBVIOUS
    <3>2. /\ out \in Seq(Export!Rows) /\ out # <<>> /\ Ascending(out)
          /\ \A r \in began : \/ r \in Export!Range(out)
                              \/ Export!Before(Export!Last(out), r)
      BY <2>1, <2>4, <3>1, BatchAppended
    <3>3. /\ export' \in [at : {"read", "put", "done"}, task : Tasks, out : Seq(Export!Rows)]
          /\ export'.at = "read" /\ export'.out = out
      BY <2>1, <2>2, <2>4, <3>1, <3>2
    <3>4. \A r \in began : r \in Export!Range(out) \/ r \in Export!Remaining'
      BY <1>s, <2>1, <3>2, <3>3 DEF Export!Remaining
    <3> QED BY <1>s, <2>1, <3>2, <3>3, <3>4 DEF ExportInv, ExportShape, ReadSoFar
  <2> QED BY <1>2, <2>3, <2>4 DEF Export!ReadBatch
<1>3. CASE Export!PutObject
  <2>1. export.at = "put" /\ UNCHANGED <<rows, task, began>>
        /\ file' = [file EXCEPT ![export.task] = export.out]
        /\ export' = [export EXCEPT !.at = "done"]
    BY <1>3 DEF Export!PutObject
  <2>2. export \in [at : {"read", "put", "done"}, task : Tasks, out : Seq(Export!Rows)]
        /\ export # Export!Idle
    BY <1>s, <2>1
  <2>3. /\ export' \in [at : {"read", "put", "done"}, task : Tasks, out : Seq(Export!Rows)]
        /\ export'.at = "done" /\ export'.out = export.out /\ export'.task = export.task
    BY <2>1, <2>2
  <2>4. file' \in [Tasks -> Seq(Export!Rows)] /\ file'[export.task] = export.out
    BY <1>s, <2>1, <2>2
  <2> QED BY <1>s, <2>1, <2>2, <2>3, <2>4 DEF ExportInv, ExportShape, ReadSoFar
<1>4. CASE Export!MarkDone
  <2>1. export' = Export!Idle /\ UNCHANGED <<rows, file, began>>
    BY <1>4 DEF Export!MarkDone
  <2> QED BY <1>s, <2>1 DEF ExportInv, ExportShape, ReadSoFar
<1> QED BY <1>1, <1>2, <1>3, <1>4 DEF Export!Run

LEMMA ExportStep ==
  ASSUME Export!ExportAssumption, ExportInv, [Export!Next]_exportVars
  PROVE  ExportInv'
<1>i. Export!Idle.at = "idle"
  BY DEF Export!Idle
<1>1. CASE UNCHANGED exportVars
  BY <1>1 DEF exportVars, ExportInv, ExportShape, ReadSoFar, Export!Remaining
<1>2. ASSUME NEW r \in Export!Rows, Export!CreateCall(r)
      PROVE  ExportInv'
  <2>1. rows' = rows \cup {r} /\ UNCHANGED <<file, export, began>>
    BY <1>2 DEF Export!CreateCall
  <2>2. Export!Remaining \subseteq Export!Remaining'
    BY <2>1 DEF Export!Remaining
  <2> QED BY <2>1, <2>2 DEF ExportInv, ExportShape, ReadSoFar
<1>3. ASSUME NEW t \in Tasks, Export!AsyncExportCallHistory(t)
      PROVE  ExportInv'
  BY <1>3 DEF Export!AsyncExportCallHistory, ExportInv, ExportShape, ReadSoFar, Export!Remaining
<1>4. CASE Export!Fail
  <2>1. export' = Export!Idle /\ UNCHANGED <<rows, file, began>>
    BY <1>4 DEF Export!Fail
  <2> QED BY <1>i, <2>1 DEF ExportInv, ExportShape, ReadSoFar
<1> QED BY <1>1, <1>2, <1>3, <1>4, RunMoves DEF Export!Next

LEMMA ExportStart ==
  ASSUME Export!Init
  PROVE  ExportInv
<1>1. Export!Idle.at = "idle" /\ <<>> \in Seq(Export!Rows)
  BY DEF Export!Idle
<1> QED BY <1>1 DEF Export!Init, ExportInv, ExportShape, ReadSoFar

\* However calls are created between the batches, and wherever the exporter
\* fails and starts again, a file that is put in the store has every call of
\* its beginning once, in order (BatchQueryExcludeNull,
\* common/database/batch_query.go:35).
THEOREM FilesAreComplete ==
  ASSUME ServicesAssumption
  PROVE  ServicesSpec => []FileComplete
<1> DEFINE Inv == service = "export" => ExportInv
<1>1. ServicesInit => Inv
  BY ExportStart DEF ServicesInit
<1>2. Inv /\ [ServicesNext]_allVars => Inv'
  <2> SUFFICES ASSUME Inv, [ServicesNext]_allVars, service' = "export"
               PROVE  ExportInv'
    OBVIOUS
  <2>1. service = "export" /\ [Export!Next]_exportVars
    BY DEF ServicesNext, allVars, PushNext, ProjectNext, HubNext, CallNext, ExportNext, ScopeNext
  <2> QED BY <2>1, ExportStep DEF ServicesAssumption
<1>3. Inv => FileComplete
  <2> SUFFICES ASSUME ExportInv, export.at = "done"
               PROVE  LET out == file[export.task] IN
                      /\ Export!IsInjective(out) /\ began \subseteq Export!Range(out)
                      /\ \A i, j \in DOMAIN out : i < j => Export!Before(out[i], out[j])
    BY DEF FileComplete, Export!FileComplete
  <2>1. PICK out : out = file[export.task]
    OBVIOUS
  <2>2. /\ out = export.out /\ began \subseteq Export!Range(out) /\ Ascending(out)
        /\ out \in Seq(Export!Rows)
    BY <2>1 DEF ExportInv, ExportShape, ReadSoFar, Export!Idle
  <2>3. \A i, j \in DOMAIN out : out[i] = out[j] => i = j
    <3>1. \A i \in DOMAIN out : i \in Nat /\ ~ Export!Before(out[i], out[i])
      BY <2>2, RowOrder DEF ServicesAssumption
    <3>2. \A i, j \in DOMAIN out : i < j \/ j < i \/ i = j
      BY <3>1
    <3> QED BY <2>2, <3>1, <3>2 DEF Ascending
  <2> QED BY <2>1, <2>2, <2>3 DEF Ascending, Export!IsInjective
<1> QED BY <1>1, <1>2, <1>3, PTL DEF ServicesSpec
=============================================================================
