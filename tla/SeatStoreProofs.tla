-------------------------- MODULE SeatStoreProofs --------------------------
(***************************************************************************)
(* Theorems about SeatStore, for any seats, calls and requests.            *)
(*                                                                         *)
(* That an ended call holds no seat is not inductive: OrderlyInv adds that *)
(* the key of an orderly call names the seat it holds or is asking for,    *)
(* and that it never does both.  Calls that are not orderly need not be    *)
(* mentioned, for they write no key but their own.                         *)
(***************************************************************************)
EXTENDS SeatStore, TLAPS

OrderlyInv ==
  \A c \in Orderly :
    /\ \A s \in Seats : seat[s].call = c =>
         /\ keyOf[c] = s
         /\ c \notin ended
         /\ \A r \in Slots : ~ (lock[r] # Idle /\ lock[r].call = c)
    /\ \A r \in Slots : lock[r] # Idle /\ lock[r].call = c =>
         /\ keyOf[c] = lock[r].seat
         /\ c \notin ended
         /\ \A q \in Slots : lock[q] # Idle /\ lock[q].call = c => q = r

StoreInv == TypeOK /\ SeatConsistent /\ OrderlyInv

-----------------------------------------------------------------------------
(* Steps. *)

\* Every step is one of these (Next with its disjunctions flattened).
LEMMA NextIsOneOf ==
  ASSUME Next
  PROVE  \/ \E s \in Seats, in \in BOOLEAN : CheckInChanged(s, in)
         \/ \E s \in Seats, b \in BOOLEAN, ps \in SUBSET Projects :
              ReadinessChanged(s, b, ps)
         \/ \E s \in Seats : SetSeatPreReady(s)
         \/ \E s \in Seats : CheckConnOfUser(s)
         \/ \E s \in Seats : UnlockProjectSeat(s)
         \/ \E r \in Slots, s \in Seats, c \in Calls : LockSeat(r, s, c)
         \/ \E r \in Slots : LockSeatUpdate(r)
         \/ \E r \in Slots : LockSeatAbort(r)
         \/ \E s \in Seats, c \in Calls : UnlockSeat(s, c)
         \/ \E c \in Calls : PullCDR(c)
  BY DEF Next, Agent

\* A request that is not idle names a seat and a call.
LEMMA Requested ==
  ASSUME TypeOK, NEW r \in Slots, lock[r] # Idle
  PROVE  /\ lock[r].at = "update"
         /\ lock[r].seat \in Seats
         /\ lock[r].call \in Calls
  BY DEF TypeOK, LockRequest

\* And a request to be served is not idle.
LEMMA UpdateIsNotIdle ==
  ASSUME NEW r \in Slots, lock[r].at = "update"
  PROVE  lock[r] # Idle
  BY DEF Idle

\* What UnlockSeat leaves: the seats stay seats, and only the seat of the
\* call changes, to hold none.
LEMMA UnlockedSeats ==
  ASSUME TypeOK, NEW s, NEW c \in Calls
  PROVE  /\ Unlocked(s, c) \in [Seats -> SeatState]
         /\ \A t \in Seats : Unlocked(s, c)[t] # seat[t] =>
              /\ t = s
              /\ seat[t].call = c
              /\ Unlocked(s, c)[t].call = NoCall
              /\ ~ Unlocked(s, c)[t].locked
              /\ Unlocked(s, c)[t].ready = seat[t].ready
              /\ Unlocked(s, c)[t].checkIn = seat[t].checkIn
              /\ Unlocked(s, c)[t].projects = seat[t].projects
         /\ s \in Seats /\ seat[s].locked /\ seat[s].call = c
              => Unlocked(s, c)[s].call = NoCall
  <1>1. CASE s # NoSeat /\ seat[s].locked /\ seat[s].call = c
    <2>1. Unlocked(s, c) = [seat EXCEPT ![s].locked = FALSE, ![s].call = NoCall]
      BY <1>1 DEF Unlocked
    <2>2. s \in Seats => seat[s] \in SeatState
      BY DEF TypeOK
    <2>3. s \in Seats =>
            [seat[s] EXCEPT !.locked = FALSE, !.call = NoCall] \in SeatState
      BY <2>2 DEF SeatState
    <2>4. Unlocked(s, c) \in [Seats -> SeatState]
      BY <2>1, <2>3 DEF TypeOK
    <2>5. QED
      BY <2>1, <2>2, <2>4, <1>1 DEF TypeOK, SeatState
  <1>2. CASE ~ (s # NoSeat /\ seat[s].locked /\ seat[s].call = c)
    <2>1. Unlocked(s, c) = seat
      BY <1>2 DEF Unlocked
    <2>2. QED
      BY <2>1, <1>2, StoreAssumption DEF TypeOK
  <1>3. QED
    BY <1>1, <1>2

\* The shape of the store survives every step.
LEMMA TypeStep ==
  ASSUME TypeOK, [Next]_vars
  PROVE  TypeOK'
  <1>1. ASSUME NEW s \in Seats, NEW in \in BOOLEAN, CheckInChanged(s, in)
        PROVE  TypeOK'
    <2>1. [seat[s] EXCEPT !.checkIn = in, !.preReady = FALSE,
                          !.ready = @ /\ in] \in SeatState
      BY DEF TypeOK, SeatState
    <2>2. seat' \in [Seats -> SeatState]
      BY <1>1, <2>1 DEF TypeOK, CheckInChanged
    <2>3. QED
      BY <1>1, <2>2 DEF TypeOK, CheckInChanged
  <1>2. ASSUME NEW s \in Seats, NEW b \in BOOLEAN, NEW ps \in SUBSET Projects,
               ReadinessChanged(s, b, ps)
        PROVE  TypeOK'
    <2>1. [seat[s] EXCEPT !.ready = b, !.projects = ps,
                          !.preReady = FALSE] \in SeatState
      BY DEF TypeOK, SeatState
    <2>2. seat' \in [Seats -> SeatState]
      BY <1>2, <2>1 DEF TypeOK, ReadinessChanged
    <2>3. QED
      BY <1>2, <2>2 DEF TypeOK, ReadinessChanged
  <1>3. ASSUME NEW s \in Seats, SetSeatPreReady(s)
        PROVE  TypeOK'
    BY <1>3 DEF TypeOK, SeatState, SetSeatPreReady
  <1>4. ASSUME NEW s \in Seats, CheckConnOfUser(s)
        PROVE  TypeOK'
    BY <1>4 DEF TypeOK, SeatState, CheckConnOfUser
  <1>5. ASSUME NEW s \in Seats, UnlockProjectSeat(s)
        PROVE  TypeOK'
    BY <1>5 DEF TypeOK, SeatState, UnlockProjectSeat
  <1>6. ASSUME NEW r \in Slots, NEW s \in Seats, NEW c \in Calls, LockSeat(r, s, c)
        PROVE  TypeOK'
    BY <1>6 DEF TypeOK, LockRequest, LockSeat
  <1>7. ASSUME NEW r \in Slots, LockSeatUpdate(r)
        PROVE  TypeOK'
    <2>1. lock[r].seat \in Seats /\ lock[r].call \in Calls
      BY <1>7, Requested, UpdateIsNotIdle DEF LockSeatUpdate
    <2>2. [seat[lock[r].seat] EXCEPT !.locked = TRUE, !.ready = FALSE,
             !.preReady = FALSE, !.call = lock[r].call] \in SeatState
      <3>1. seat[lock[r].seat] \in SeatState
        BY <2>1 DEF TypeOK
      <3>2. QED
        BY <2>1, <3>1 DEF SeatState
    <2>3. seat' \in [Seats -> SeatState]
      BY <1>7, <2>1, <2>2 DEF TypeOK, LockSeatUpdate
    <2>4. lock' \in [Slots -> LockRequest \cup {Idle}]
      BY <1>7 DEF TypeOK, LockSeatUpdate
    <2>5. QED
      BY <1>7, <2>3, <2>4 DEF TypeOK, LockSeatUpdate
  <1>8. ASSUME NEW r \in Slots, LockSeatAbort(r)
        PROVE  TypeOK'
    BY <1>8 DEF TypeOK, LockSeatAbort
  <1>9. ASSUME NEW s \in Seats, NEW c \in Calls, UnlockSeat(s, c)
        PROVE  TypeOK'
    BY <1>9, UnlockedSeats DEF TypeOK, UnlockSeat
  <1>10. ASSUME NEW c \in Calls, PullCDR(c)
         PROVE  TypeOK'
    BY <1>10, UnlockedSeats DEF TypeOK, PullCDR
  <1>11. CASE UNCHANGED vars
    BY <1>11 DEF TypeOK, vars
  <1>12. QED
    BY NextIsOneOf, <1>1, <1>2, <1>3, <1>4, <1>5, <1>6, <1>7, <1>8, <1>9, <1>10, <1>11

\* So does the agreement between a seat's fields.
LEMMA ConsistentStep ==
  ASSUME TypeOK, SeatConsistent, [Next]_vars
  PROVE  SeatConsistent'
  <1>1. ASSUME NEW s \in Seats, NEW in \in BOOLEAN, CheckInChanged(s, in)
        PROVE  SeatConsistent'
    BY <1>1 DEF TypeOK, SeatState, SeatConsistent, CheckInChanged
  <1>2. ASSUME NEW s \in Seats, NEW b \in BOOLEAN, NEW ps \in SUBSET Projects,
               ReadinessChanged(s, b, ps)
        PROVE  SeatConsistent'
    BY <1>2 DEF TypeOK, SeatState, SeatConsistent, ReadinessChanged
  <1>3. ASSUME NEW s \in Seats, SetSeatPreReady(s)
        PROVE  SeatConsistent'
    BY <1>3 DEF TypeOK, SeatState, SeatConsistent, SetSeatPreReady
  <1>4. ASSUME NEW s \in Seats, CheckConnOfUser(s)
        PROVE  SeatConsistent'
    BY <1>4 DEF TypeOK, SeatState, SeatConsistent, CheckConnOfUser
  <1>5. ASSUME NEW s \in Seats, UnlockProjectSeat(s)
        PROVE  SeatConsistent'
    BY <1>5 DEF TypeOK, SeatState, SeatConsistent, UnlockProjectSeat
  <1>6. CASE UNCHANGED seat
    BY <1>6 DEF SeatConsistent
  <1>7. ASSUME NEW r \in Slots, LockSeatUpdate(r)
        PROVE  SeatConsistent'
    <2>1. lock[r].seat \in Seats /\ lock[r].call \in Calls
      BY <1>7, Requested, UpdateIsNotIdle DEF LockSeatUpdate
    <2>2. lock[r].call # NoCall
      BY <2>1, StoreAssumption
    <2>3. QED
      BY <1>7, <2>1, <2>2 DEF TypeOK, SeatState, SeatConsistent, LockSeatUpdate
  <1>8. ASSUME NEW s \in Seats, NEW c \in Calls, UnlockSeat(s, c)
        PROVE  SeatConsistent'
    BY <1>8, UnlockedSeats DEF SeatConsistent, UnlockSeat
  <1>9. ASSUME NEW c \in Calls, PullCDR(c)
        PROVE  SeatConsistent'
    BY <1>9, UnlockedSeats DEF SeatConsistent, PullCDR
  <1>10. ASSUME NEW r \in Slots, NEW s \in Seats, NEW c \in Calls, LockSeat(r, s, c)
         PROVE  SeatConsistent'
    BY <1>10, <1>6 DEF LockSeat
  <1>11. ASSUME NEW r \in Slots, LockSeatAbort(r)
         PROVE  SeatConsistent'
    BY <1>11, <1>6 DEF LockSeatAbort
  <1>12. CASE UNCHANGED vars
    BY <1>12, <1>6 DEF vars
  <1>13. QED
    BY NextIsOneOf, <1>1, <1>2, <1>3, <1>4, <1>5, <1>7, <1>8, <1>9, <1>10, <1>11, <1>12

\* So do the keys of the orderly calls.
LEMMA OrderlyStep ==
  ASSUME TypeOK, SeatConsistent, OrderlyInv, [Next]_vars
  PROVE  OrderlyInv'
  <1>1. CASE /\ UNCHANGED <<keyOf, lock, ended>>
             /\ \A s \in Seats : seat'[s].call \in {seat[s].call, NoCall}
    BY <1>1, StoreAssumption DEF OrderlyInv
  <1>2. ASSUME NEW s \in Seats, NEW in \in BOOLEAN, CheckInChanged(s, in)
        PROVE  OrderlyInv'
    BY <1>1, <1>2 DEF TypeOK, SeatState, CheckInChanged
  <1>3. ASSUME NEW s \in Seats, NEW b \in BOOLEAN, NEW ps \in SUBSET Projects,
               ReadinessChanged(s, b, ps)
        PROVE  OrderlyInv'
    BY <1>1, <1>3 DEF TypeOK, SeatState, ReadinessChanged
  <1>4. ASSUME NEW s \in Seats,
               SetSeatPreReady(s) \/ CheckConnOfUser(s) \/ UnlockProjectSeat(s)
        PROVE  OrderlyInv'
    BY <1>1, <1>4
    DEF TypeOK, SeatState, SetSeatPreReady, CheckConnOfUser, UnlockProjectSeat
  <1>5. ASSUME NEW r \in Slots, NEW s \in Seats, NEW c \in Calls, LockSeat(r, s, c)
        PROVE  OrderlyInv'
    <2>1. SUFFICES ASSUME NEW o \in Orderly
                   PROVE  /\ \A t \in Seats : seat[t].call = o =>
                               /\ keyOf'[o] = t
                               /\ o \notin ended
                               /\ \A q \in Slots : ~ (lock'[q] # Idle /\ lock'[q].call = o)
                          /\ \A q \in Slots : lock'[q] # Idle /\ lock'[q].call = o =>
                               /\ keyOf'[o] = lock'[q].seat
                               /\ o \notin ended
                               /\ \A p \in Slots :
                                    lock'[p] # Idle /\ lock'[p].call = o => p = q
      BY <1>5 DEF OrderlyInv, LockSeat
    <2>2. lock' = [lock EXCEPT ![r] = [at |-> "update", seat |-> s, call |-> c]]
      BY <1>5 DEF LockSeat
    <2>3. CASE o = c
      <3>1. o \notin ended /\ InFlight(o) = {} /\ HeldBy(o) = {}
        BY <1>5, <2>3 DEF LockSeat, MayAsk
      <3>2. \A q \in Slots : lock'[q] # Idle /\ lock'[q].call = o => q = r
        BY <2>2, <3>1 DEF TypeOK, InFlight
      <3>3. lock'[r].seat = s /\ keyOf'[o] = s
        BY <1>5, <2>2, <2>3 DEF TypeOK, LockSeat
      <3>4. QED
        BY <3>1, <3>2, <3>3 DEF HeldBy
    <2>4. CASE o # c
      <3>1. keyOf'[o] = keyOf[o]
        BY <1>5, <2>4, StoreAssumption DEF TypeOK, LockSeat
      <3>2. \A q \in Slots : lock'[q] # Idle /\ lock'[q].call = o =>
              q # r /\ lock'[q] = lock[q]
        BY <2>2, <2>4 DEF TypeOK
      <3>3. QED
        BY <3>1, <3>2 DEF OrderlyInv
    <2>5. QED
      BY <2>3, <2>4
  <1>6. ASSUME NEW r \in Slots, LockSeatUpdate(r)
        PROVE  OrderlyInv'
    <2>1. /\ lock[r] # Idle
          /\ lock[r].seat \in Seats
          /\ lock[r].call \in Calls
      BY <1>6, Requested, UpdateIsNotIdle DEF LockSeatUpdate
    <2>2. \A t \in Seats : seat'[t].call # seat[t].call =>
            t = lock[r].seat /\ seat'[t].call = lock[r].call
      BY <1>6, <2>1 DEF TypeOK, SeatState, LockSeatUpdate
    <2>3. \A q \in Slots : lock'[q] # Idle => q # r /\ lock'[q] = lock[q]
      BY <1>6 DEF TypeOK, LockSeatUpdate
    <2>4. UNCHANGED <<keyOf, ended>>
      BY <1>6 DEF LockSeatUpdate
    <2>5. QED
      BY <2>1, <2>2, <2>3, <2>4 DEF OrderlyInv
  <1>7. ASSUME NEW r \in Slots, LockSeatAbort(r)
        PROVE  OrderlyInv'
    <2>1. \A q \in Slots : lock'[q] # Idle => q # r /\ lock'[q] = lock[q]
      BY <1>7 DEF TypeOK, LockSeatAbort
    <2>2. QED
      BY <1>7, <2>1 DEF LockSeatAbort, OrderlyInv
  <1>8. ASSUME NEW c \in Calls, NEW s,
               c \in Orderly => \A t \in Seats : Unlocked(s, c)[t].call # c,
               c \in Orderly => InFlight(c) = {},
               seat' = Unlocked(s, c),
               keyOf' = [keyOf EXCEPT ![c] = NoSeat],
               lock' = lock,
               ended' \subseteq ended \cup {c}
        PROVE  OrderlyInv'
    <2>1. ASSUME NEW o \in Orderly, o # c
          PROVE  keyOf'[o] = keyOf[o] /\ (o \in ended' => o \in ended)
      BY <1>8, <2>1, StoreAssumption DEF TypeOK
    <2>2. ASSUME NEW o \in Orderly, NEW t \in Seats, seat'[t].call = o
          PROVE  o # c /\ seat[t].call = o
      BY <1>8, <2>2, UnlockedSeats, StoreAssumption
    <2>3. ASSUME NEW o \in Orderly, NEW q \in Slots, lock[q] # Idle, lock[q].call = o
          PROVE  o # c
      BY <1>8, <2>3 DEF InFlight
    <2>4. QED
      BY <1>8, <2>1, <2>2, <2>3 DEF OrderlyInv
  <1>9. ASSUME NEW s \in Seats, NEW c \in Calls, UnlockSeat(s, c)
        PROVE  OrderlyInv'
    <2>1. ASSUME c \in Orderly
          PROVE  InFlight(c) = {} /\ \A t \in Seats : Unlocked(s, c)[t].call # c
      <3>1. InFlight(c) = {} /\ HeldBy(c) \subseteq {s}
        BY <1>9, <2>1 DEF UnlockSeat, MayRelease
      <3>2. seat[s].call = c => seat[s].locked
        BY StoreAssumption DEF SeatConsistent
      <3>3. QED
        BY <3>1, <3>2, UnlockedSeats, StoreAssumption DEF HeldBy
    <2>2. QED
      BY <1>8, <1>9, <2>1 DEF UnlockSeat
  <1>10. ASSUME NEW c \in Calls, PullCDR(c)
         PROVE  OrderlyInv'
    <2>1. ASSUME c \in Orderly
          PROVE  InFlight(c) = {} /\ \A t \in Seats : Unlocked(keyOf[c], c)[t].call # c
      <3>1. InFlight(c) = {}
        BY <1>10, <2>1 DEF PullCDR, MayEnd
      <3>2. ASSUME NEW t \in Seats, seat[t].call = c
            PROVE  keyOf[c] = t /\ seat[t].locked
        BY <2>1, <3>2, StoreAssumption DEF OrderlyInv, SeatConsistent
      <3>3. QED
        BY <3>1, <3>2, UnlockedSeats, StoreAssumption
    <2>2. QED
      BY <1>8, <1>10, <2>1 DEF PullCDR
  <1>11. CASE UNCHANGED vars
    BY <1>1, <1>11 DEF vars
  <1>12. QED
    BY NextIsOneOf, <1>2, <1>3, <1>4, <1>5, <1>6, <1>7, <1>9, <1>10, <1>11

\* What releases the seat of call c touches no other call's key or end.
LEMMA ReleaseStep ==
  ASSUME TypeOK, SeatConsistent, [Next]_vars,
         NEW s \in Seats, NEW c \in Calls, seat[s].call = c, seat'[s].call # c
  PROVE  /\ seat'[s].call = NoCall
         /\ ended' \subseteq ended \cup {c}
         /\ \A e \in Calls \ {c} : keyOf'[e] = keyOf[e]
  <1>1. seat[s].locked /\ seat[s].call = c /\ c # NoCall
    BY StoreAssumption DEF SeatConsistent
  <1>2. ~ UNCHANGED seat
    OBVIOUS
  <1>3. ASSUME NEW t \in Seats,
               \/ \E in \in BOOLEAN : CheckInChanged(t, in)
               \/ \E b \in BOOLEAN, ps \in SUBSET Projects : ReadinessChanged(t, b, ps)
               \/ SetSeatPreReady(t) \/ CheckConnOfUser(t)
        PROVE  seat'[s].call = c
    <2>1. ASSUME NEW in \in BOOLEAN, CheckInChanged(t, in)
          PROVE  seat'[s].call = c
      BY <2>1 DEF TypeOK, SeatState, CheckInChanged
    <2>2. ASSUME NEW b \in BOOLEAN, NEW ps \in SUBSET Projects, ReadinessChanged(t, b, ps)
          PROVE  seat'[s].call = c
      BY <2>2 DEF TypeOK, SeatState, ReadinessChanged
    <2>3. CASE SetSeatPreReady(t) \/ CheckConnOfUser(t)
      BY <2>3 DEF TypeOK, SeatState, SetSeatPreReady, CheckConnOfUser
    <2>4. QED
      BY <1>3, <2>1, <2>2, <2>3
  <1>4. ASSUME NEW t \in Seats, UnlockProjectSeat(t)
        PROVE  seat'[s].call \in {c, NoCall} /\ UNCHANGED <<ended, keyOf>>
    BY <1>4 DEF TypeOK, SeatState, UnlockProjectSeat
  <1>5. ASSUME NEW r \in Slots, LockSeatUpdate(r)
        PROVE  seat'[s].call = c
    <2>1. lock[r].seat \in Seats
      BY <1>5, Requested, UpdateIsNotIdle DEF LockSeatUpdate
    <2>2. lock[r].seat = s => ~ Lockable(s)
      BY <1>1 DEF Lockable
    <2>3. QED
      BY <1>5, <2>1, <2>2 DEF TypeOK, LockSeatUpdate
  <1>6. ASSUME NEW t, NEW d \in Calls, seat' = Unlocked(t, d)
        PROVE  d = c /\ seat'[s].call = NoCall
    BY <1>6, UnlockedSeats
  <1>7. ASSUME NEW t \in Seats, NEW d \in Calls, UnlockSeat(t, d)
        PROVE  /\ seat'[s].call = NoCall
               /\ ended' = ended
               /\ \A e \in Calls \ {c} : keyOf'[e] = keyOf[e]
    BY <1>6, <1>7 DEF UnlockSeat, TypeOK
  <1>8. ASSUME NEW d \in Calls, PullCDR(d)
        PROVE  /\ seat'[s].call = NoCall
               /\ ended' = ended \cup {c}
               /\ \A e \in Calls \ {c} : keyOf'[e] = keyOf[e]
    BY <1>6, <1>8 DEF PullCDR, TypeOK
  <1>9. QED
    BY NextIsOneOf, <1>2, <1>3, <1>4, <1>5, <1>7, <1>8
    DEF vars, LockSeat, LockSeatAbort

\* An empty store is consistent.
LEMMA InvStart ==
  ASSUME Init
  PROVE  StoreInv
  <1>1. TypeOK
    BY DEF Init, TypeOK, SeatState
  <1>2. SeatConsistent /\ OrderlyInv
    BY StoreAssumption DEF Init, SeatConsistent, OrderlyInv
  <1>3. QED
    BY <1>1, <1>2 DEF StoreInv

-----------------------------------------------------------------------------
(* Theorems. *)

\* The inductive invariant.
THEOREM StoreInvariant == Spec => []StoreInv
  <1>1. StoreInv /\ [Next]_vars => StoreInv'
    BY TypeStep, ConsistentStep, OrderlyStep DEF StoreInv
  <1>2. QED
    BY InvStart, <1>1, PTL DEF Spec

\* Seats, keys and requests keep their shape (seat_ws.go:16).
THEOREM StoreTypes == Spec => []TypeOK
  <1>1. StoreInv => TypeOK
    BY DEF StoreInv
  <1>2. QED
    BY <1>1, StoreInvariant, PTL

\* A ready seat is staffed and a locked seat names its call, whatever agents,
\* late connection checks and calls do (LockSeat, PushOrder).
THEOREM SeatsAreConsistent == Spec => []SeatConsistent
  <1>1. StoreInv => SeatConsistent
    BY DEF StoreInv
  <1>2. QED
    BY <1>1, StoreInvariant, PTL

\* The CDR of an orderly call frees its seat for good (UnlockSeat by call id).
THEOREM EndedCallsAreReleased == Spec => []EndedCallHoldsNoSeat
  <1>1. StoreInv => EndedCallHoldsNoSeat
    BY DEF StoreInv, OrderlyInv, EndedCallHoldsNoSeat, HeldBy
  <1>2. QED
    BY <1>1, StoreInvariant, PTL

\* Only what names call c, or a manager, frees the seat of c (UnlockSeat
\* compares the call of the seat with its own).
THEOREM ReleasesAreOwn == Spec => ReleasedByOwnCall
  <1>1. StoreInv /\ [Next]_vars =>
          [\A s \in Seats : \A c \in Calls :
             seat[s].call = c /\ seat'[s].call # c
             => /\ seat'[s].call = NoCall
                /\ ended' \subseteq ended \cup {c}
                /\ \A e \in Calls \ {c} : keyOf'[e] = keyOf[e]]_vars
    BY ReleaseStep DEF StoreInv
  <1>2. QED
    BY <1>1, StoreInvariant, PTL DEF Spec, ReleasedByOwnCall

=============================================================================
