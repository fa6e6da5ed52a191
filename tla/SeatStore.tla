----------------------------- MODULE SeatStore -----------------------------
(***************************************************************************)
(* The state of the call-centre seats in Redis (service/seat_ws.go,        *)
(* service/seat.go): seat:<id> holds the state of a seat, call:<id>:seat   *)
(* names the seat a call asked for.                                        *)
(*                                                                         *)
(* Every read and write of a seat is one step under the lock of            *)
(* redisSeatStateStore.  LockSeat writes the key of the call before it     *)
(* takes that lock, and whether it then locks the seat or is refused.      *)
(* Agents report over websockets; the telephone system (CTI) locks and     *)
(* unlocks over HTTP and reports the end of a call with a CDR.             *)
(*                                                                         *)
(* The CTI is outside this repository.  An orderly call asks for one seat  *)
(* at a time, holds at most one, and its CDR follows the answers to its    *)
(* requests; other calls may overlap, repeat and outlive themselves.  The  *)
(* list of projects is a set, and keys do not expire (24 h in the code).   *)
(***************************************************************************)
EXTENDS Naturals

CONSTANTS
  Seats,     \* seat ids, which are user ids
  Calls,     \* call ids
  Orderly,   \* the calls with one request at a time
  Slots,     \* LockSeat requests that may overlap
  Projects,  \* project ids
  NoCall, NoSeat

ASSUME StoreAssumption ==
  /\ Orderly \subseteq Calls
  /\ NoCall \notin Calls
  /\ NoSeat \notin Seats

VARIABLES
  seat,    \* seat:<id>
  keyOf,   \* call:<id>:seat
  lock,    \* LockSeat requests between their two writes
  ended,   \* calls whose CDR was processed
  asked    \* history: whether an agent's last request was to be pre-ready

vars == <<seat, keyOf, lock, ended, asked>>

-----------------------------------------------------------------------------
SeatState == [checkIn : BOOLEAN, preReady : BOOLEAN, ready : BOOLEAN,
              locked : BOOLEAN, projects : SUBSET Projects,
              call : Calls \cup {NoCall}]

Idle == [at |-> "idle"]
LockRequest == [at : {"update"}, seat : Seats, call : Calls]

InFlight(c) == {r \in Slots : lock[r] # Idle /\ lock[r].call = c}
HeldBy(c) == {s \in Seats : seat[s].call = c}

Init ==
  /\ seat = [s \in Seats |->
       [checkIn |-> FALSE, preReady |-> FALSE, ready |-> FALSE,
        locked |-> FALSE, projects |-> {}, call |-> NoCall]]
  /\ keyOf = [c \in Calls |-> NoSeat]
  /\ lock = [r \in Slots |-> Idle]
  /\ ended = {}
  /\ asked = [s \in Seats |-> FALSE]

-----------------------------------------------------------------------------
(* The agent. *)

\* Slip: a check-out leaves the seat ready.
CheckInOnly(s, in) ==
  /\ seat' = IF seat[s].checkIn = in THEN seat
             ELSE [seat EXCEPT ![s].checkIn = in, ![s].preReady = FALSE]
  /\ asked' = [asked EXCEPT ![s] = FALSE]
  /\ UNCHANGED <<keyOf, lock, ended>>

\* checkinChanged.  An event that changes nothing writes nothing.
CheckInChanged(s, in) ==
  /\ seat' = IF seat[s].checkIn = in THEN seat
             ELSE [seat EXCEPT ![s].checkIn = in, ![s].preReady = FALSE,
                               ![s].ready = @ /\ in]
  /\ asked' = [asked EXCEPT ![s] = FALSE]
  /\ UNCHANGED <<keyOf, lock, ended>>

\* readinessChanged.  Ready takes a check-in and a project (请签入后选择项目示闲).
ReadinessChanged(s, ready, projects) ==
  /\ ready => seat[s].checkIn /\ projects # {}
  /\ seat' = IF seat[s].ready = ready /\ seat[s].projects = projects THEN seat
             ELSE [seat EXCEPT ![s].ready = ready, ![s].projects = projects,
                               ![s].preReady = FALSE]
  /\ asked' = [asked EXCEPT ![s] = FALSE]
  /\ UNCHANGED <<keyOf, lock, ended>>

SetSeatPreReady(s) ==
  /\ seat' = [seat EXCEPT ![s].preReady = TRUE]
  /\ asked' = [asked EXCEPT ![s] = TRUE]
  /\ UNCHANGED <<keyOf, lock, ended>>

\* CheckConnOfUser looks for connections without any lock, up to a minute
\* after one was closed; the seat may have done anything since.
CheckConnOfUser(s) ==
  /\ seat' = [seat EXCEPT ![s].checkIn = FALSE, ![s].ready = FALSE]
  /\ UNCHANGED <<keyOf, lock, ended, asked>>

-----------------------------------------------------------------------------
(* The calls. *)

\* What the CTI asks on behalf of a call.
MayAsk(c) == c \in Orderly => c \notin ended /\ InFlight(c) = {} /\ HeldBy(c) = {}
MayRelease(c, s) == c \in Orderly => InFlight(c) = {} /\ HeldBy(c) \subseteq {s}
MayEnd(c) == c \in Orderly => InFlight(c) = {}

\* Slip: the key of the call is not written.
LockSeatNoKey(r, s, c) ==
  /\ lock[r] = Idle
  /\ MayAsk(c)
  /\ lock' = [lock EXCEPT ![r] = [at |-> "update", seat |-> s, call |-> c]]
  /\ UNCHANGED <<seat, keyOf, ended, asked>>

LockSeat(r, s, c) ==
  /\ lock[r] = Idle
  /\ MayAsk(c)
  /\ keyOf' = [keyOf EXCEPT ![c] = s]
  /\ lock' = [lock EXCEPT ![r] = [at |-> "update", seat |-> s, call |-> c]]
  /\ UNCHANGED <<seat, ended, asked>>

Lockable(s) == seat[s].ready /\ seat[s].checkIn /\ ~seat[s].locked

LockSeatUpdate(r) ==
  LET req == lock[r] IN
  /\ req.at = "update"
  /\ seat' = IF Lockable(req.seat)
             THEN [seat EXCEPT ![req.seat].locked = TRUE,
                               ![req.seat].ready = FALSE,
                               ![req.seat].preReady = FALSE,
                               ![req.seat].call = req.call]
             ELSE seat
  /\ lock' = [lock EXCEPT ![r] = Idle]
  /\ UNCHANGED <<keyOf, ended, asked>>

\* A request that stops between its two writes.
LockSeatAbort(r) ==
  /\ lock[r] # Idle
  /\ lock' = [lock EXCEPT ![r] = Idle]
  /\ UNCHANGED <<seat, keyOf, ended, asked>>

\* Slip: whoever holds the seat loses it.
UnlockedOfAny(s, c) ==
  IF s # NoSeat /\ seat[s].locked
  THEN [seat EXCEPT ![s].locked = FALSE, ![s].call = NoCall]
  ELSE seat

\* The store after UnlockSeat of seat s for call c.
Unlocked(s, c) ==
  IF s # NoSeat /\ seat[s].locked /\ seat[s].call = c
  THEN [seat EXCEPT ![s].locked = FALSE, ![s].call = NoCall]
  ELSE seat

\* UnlockSeat over HTTP names the seat; the key of the call goes all the same.
UnlockSeat(s, c) ==
  /\ MayRelease(c, s)
  /\ seat' = Unlocked(s, c)
  /\ keyOf' = [keyOf EXCEPT ![c] = NoSeat]
  /\ UNCHANGED <<lock, ended, asked>>

\* PullCDR finds the seat by the key of the call.
PullCDR(c) ==
  /\ c \notin ended
  /\ MayEnd(c)
  /\ seat' = Unlocked(keyOf[c], c)
  /\ keyOf' = [keyOf EXCEPT ![c] = NoSeat]
  /\ ended' = ended \cup {c}
  /\ UNCHANGED <<lock, asked>>

\* A manager frees a seat by hand.
UnlockProjectSeat(s) ==
  /\ seat[s].locked
  /\ seat' = [seat EXCEPT ![s].locked = FALSE, ![s].call = NoCall]
  /\ UNCHANGED <<keyOf, lock, ended, asked>>

-----------------------------------------------------------------------------
Agent(s) ==
  \/ \E in \in BOOLEAN : CheckInChanged(s, in)
  \/ \E ready \in BOOLEAN, projects \in SUBSET Projects :
       ReadinessChanged(s, ready, projects)
  \/ SetSeatPreReady(s)
  \/ CheckConnOfUser(s)

Next ==
  \/ \E s \in Seats : Agent(s) \/ UnlockProjectSeat(s)
  \/ \E r \in Slots :
       \/ \E s \in Seats, c \in Calls : LockSeat(r, s, c)
       \/ LockSeatUpdate(r)
       \/ LockSeatAbort(r)
  \/ \E s \in Seats, c \in Calls : UnlockSeat(s, c)
  \/ \E c \in Calls : PullCDR(c)

Spec == Init /\ [][Next]_vars

-----------------------------------------------------------------------------
(* Properties. *)

\* Seats, keys and requests have the shape the code gives them.
TypeOK ==
  /\ seat \in [Seats -> SeatState]
  /\ keyOf \in [Calls -> Seats \cup {NoSeat}]
  /\ lock \in [Slots -> LockRequest \cup {Idle}]
  /\ ended \subseteq Calls
  /\ asked \in [Seats -> BOOLEAN]

\* PushOrder and LockSeat trust what a seat says of itself: a ready seat has
\* an agent checked in and a project, however check-outs, late connection
\* checks, readiness events and locks follow each other, and a seat is locked
\* exactly as long as it names a call.
SeatConsistent ==
  \A s \in Seats :
    /\ seat[s].ready => seat[s].checkIn /\ seat[s].projects # {}
    /\ seat[s].locked <=> seat[s].call # NoCall

\* The CDR of an orderly call frees its seat for good: no refused request, no
\* manual unlock and no other call makes the key of a call miss its seat.
EndedCallHoldsNoSeat == \A c \in ended \cap Orderly : HeldBy(c) = {}

\* A seat never passes from call to call directly, and one call's unlock or
\* CDR never frees the seat of another, even when the seat was freed by hand
\* and locked anew while the key of the first call still named it.
ReleasedByOwnCall ==
  [][\A s \in Seats : \A c \in Calls :
       seat[s].call = c /\ seat'[s].call # c
       => /\ seat'[s].call = NoCall
          /\ ended' \subseteq ended \cup {c}
          /\ \A e \in Calls \ {c} : keyOf'[e] = keyOf[e]]_vars

\* 坐席签入/迁出/示忙/示闲时把preready设置为false (CHANGLOG.md:36): after an
\* agent's check-in or readiness event the seat is not pre-ready.  PushOrder
\* counts a pre-ready seat that is checked in.
PreReadyCleared ==
  \A s \in Seats : seat[s].checkIn /\ seat[s].preReady => asked[s]

=============================================================================
