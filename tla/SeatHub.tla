------------------------------ MODULE SeatHub ------------------------------
(***************************************************************************)
(* The websocket hub of one agent (service/seat_ws.go).  Every connection  *)
(* has a buffered channel; its ReceiveLoop greets the client with the      *)
(* state of the seat and then handles one event after another, its         *)
(* SendLoop empties the channel.  A handler updates the store and then     *)
(* broadcasts what it wrote to all connections of the agent: two steps, so *)
(* broadcasts of two connections, of a connection check or of LockSeat may *)
(* overtake each other.  The hub's maps change under its lock, but a       *)
(* ReceiveLoop that ends and CheckConnOfUser look at them without it.      *)
(*                                                                         *)
(* Of the seat the hub's messages are compared by four fields; projects,   *)
(* call and time go with them.  Not every write is broadcast: unlocking a  *)
(* seat tells nobody, and an event that changes nothing tells everybody of *)
(* a preReady the store does not hold.  Connection ids are                 *)
(* Sec-WebSocket-Keys, unique by protocol; of the requests over HTTP one   *)
(* at a time is between its write and its broadcast.                       *)
(***************************************************************************)
EXTENDS Naturals

CONSTANTS
  Conns,   \* connections of the agent
  Cap,     \* length of a channel (128)
  Server   \* the requests over HTTP: LockSeat, SetSeatPreReady

HubAssumption == Cap \in Nat \ {0} /\ Server \notin Conns

VARIABLES
  seat,        \* the seat in the store
  registered,  \* userConnClients of the agent
  closed,      \* how often a connection's channel was closed
  buffer,      \* how many messages wait in a channel
  shown,       \* the last state put into the channel of a client in the hub
  proc,        \* ReceiveLoops, with the checks they leave behind, and Server
  overlap,     \* history: a state was read or written while another waited
               \* to be sent
  silent       \* history: fields whose last change or last broadcast was one
               \* without the other

hub == <<registered, closed, buffer, shown>>
past == <<overlap, silent>>
vars == <<seat, hub, proc, past>>

-----------------------------------------------------------------------------
Fields == {"checkIn", "ready", "preReady", "locked"}
Seat == {d \in [Fields -> BOOLEAN] : d.ready => d.checkIn}

Out == [f \in Fields |-> FALSE]
\* What an error message says of the seat, and a client that was told nothing.
NoState == [Out EXCEPT !.ready = TRUE]

At(p) == [at |-> p]
Sending(p, d, to) == [at |-> p, msg |-> d, to |-> to]
MustSend(w) == "msg" \in DOMAIN proc[w]
StateWaits == \E w \in DOMAIN proc : MustSend(w) /\ proc[w].msg # NoState

Init ==
  /\ seat = Out
  /\ registered = {}
  /\ closed = [c \in Conns |-> 0]
  /\ buffer = [c \in Conns |-> 0]
  /\ shown = [c \in Conns |-> NoState]
  /\ proc = [w \in Conns \cup {Server} |-> At(IF w = Server THEN "loop" ELSE "new")]
  /\ overlap = FALSE
  /\ silent = {}

\* w writes state d and is going to send it to all.
Writes(w, at, d) ==
  /\ seat' = d
  /\ proc' = [proc EXCEPT ![w] = Sending(at, d, Conns)]
  /\ overlap' = StateWaits
  /\ silent' = {}

-----------------------------------------------------------------------------
(* Connections. *)

\* MakeClient; the loops start after it.
MakeClient(c) ==
  /\ proc[c].at = "new"
  /\ registered' = registered \cup {c}
  /\ proc' = [proc EXCEPT ![c] = At("start")]
  /\ UNCHANGED <<seat, closed, buffer, shown, past>>

Greet(c) ==
  /\ proc[c].at = "start"
  /\ proc' = [proc EXCEPT ![c] = Sending("send", seat, {c})]
  /\ overlap' = (overlap \/ StateWaits)
  /\ UNCHANGED <<seat, hub, silent>>

\* An event that changes nothing: what it cleared is not stored but sent to all.
Echo(c) ==
  /\ proc' = [proc EXCEPT ![c] = Sending("send", [seat EXCEPT !.preReady = FALSE], Conns)]
  /\ overlap' = StateWaits
  /\ silent' = IF seat.preReady THEN {"preReady"} ELSE {}
  /\ UNCHANGED <<seat, hub>>

CheckInChanged(c, in) ==
  /\ proc[c].at = "loop"
  /\ IF in = seat.checkIn THEN Echo(c)
     ELSE /\ Writes(c, "send", [seat EXCEPT !.checkIn = in, !.ready = @ /\ in,
                                           !.preReady = FALSE])
          /\ UNCHANGED hub

\* other: the event names other projects than the store.
ReadinessChanged(c, ready, other) ==
  /\ proc[c].at = "loop"
  /\ IF ready = seat.ready /\ ~other THEN Echo(c)
     ELSE /\ ready => seat.checkIn
          /\ Writes(c, "send", [seat EXCEPT !.ready = ready, !.preReady = FALSE])
          /\ UNCHANGED hub

\* An event that is not understood, is refused (请签入后选择项目示闲) or cannot
\* be stored (then told twice): an error message to this connection alone.
Refuse(c) ==
  /\ proc[c].at = "loop"
  /\ proc' = [proc EXCEPT ![c] = Sending("send", NoState, {c})]
  /\ UNCHANGED <<seat, hub, past>>

\* Slip: a client is closed whether or not it is still registered.
DeletedAlways(cs) ==
  /\ registered' = registered \ cs
  /\ closed' = [c \in Conns |-> IF c \in cs THEN closed[c] + 1 ELSE closed[c]]

\* deleteClient for some clients, under the lock.
Deleted(cs) ==
  /\ registered' = registered \ cs
  /\ closed' = [c \in Conns |-> IF c \in cs \cap registered THEN closed[c] + 1
                                ELSE closed[c]]

\* Slip: a broadcast leaves the sender out.
SendMessageOthers(w) ==
  LET targets == registered \cap (proc[w].to \ {w})
      full == {c \in targets : buffer[c] = Cap} IN
  /\ MustSend(w)
  /\ Deleted(full)
  /\ buffer' = [c \in Conns |-> IF c \in targets \ full THEN buffer[c] + 1 ELSE buffer[c]]
  /\ shown' = [c \in Conns |-> CASE c \in full -> NoState
                                [] c \in targets \ full /\ proc[w].msg # NoState -> proc[w].msg
                                [] OTHER -> shown[c]]
  /\ proc' = [proc EXCEPT ![w] = At(IF @.at = "send" THEN "loop" ELSE "done")]
  /\ UNCHANGED <<seat, past>>

\* SendMessage puts a message into the channel of every client it is for and
\* drops a client whose channel is full.
SendMessage(w) ==
  LET targets == registered \cap proc[w].to
      full == {c \in targets : buffer[c] = Cap} IN
  /\ MustSend(w)
  /\ Deleted(full)
  /\ buffer' = [c \in Conns |-> IF c \in targets \ full THEN buffer[c] + 1 ELSE buffer[c]]
  /\ shown' = [c \in Conns |-> CASE c \in full -> NoState
                                [] c \in targets \ full /\ proc[w].msg # NoState -> proc[w].msg
                                [] OTHER -> shown[c]]
  /\ proc' = [proc EXCEPT ![w] = At(IF @.at = "send" THEN "loop" ELSE "done")]
  /\ UNCHANGED <<seat, past>>

\* A SendLoop that failed or found its channel closed takes nothing any more.
SendLoop(c) ==
  /\ buffer[c] > 0
  /\ buffer' = [buffer EXCEPT ![c] = @ - 1]
  /\ UNCHANGED <<seat, registered, closed, shown, proc, past>>

-----------------------------------------------------------------------------
(* The end of a connection. *)

\* The client has gone, SendLoop closed the connection, or the state of the
\* seat could not be read.
DeleteClient(c) ==
  /\ proc[c].at \in {"start", "loop"}
  /\ Deleted({c})
  /\ proc' = [proc EXCEPT ![c] = At("left")]
  /\ shown' = [shown EXCEPT ![c] = NoState]
  /\ UNCHANGED <<seat, buffer, past>>

\* The check is started only if there are other connections.
StartCheck(c) ==
  /\ proc[c].at = "left"
  /\ proc' = [proc EXCEPT ![c] = At(IF registered # {} THEN "sleep" ELSE "done")]
  /\ UNCHANGED <<seat, hub, past>>

\* After a minute CheckConnOfUser looks once.
CheckConn(c) ==
  /\ proc[c].at = "sleep"
  /\ proc' = [proc EXCEPT ![c] = At(IF registered = {} THEN "update" ELSE "done")]
  /\ UNCHANGED <<seat, hub, past>>

\* Slip: the agent is only made unready.
CheckOutUnready(c) ==
  /\ proc[c].at = "update"
  /\ Writes(c, "checked", [seat EXCEPT !.ready = FALSE])
  /\ UNCHANGED hub

CheckOut(c) ==
  /\ proc[c].at = "update"
  /\ Writes(c, "checked", [seat EXCEPT !.checkIn = FALSE, !.ready = FALSE])
  /\ UNCHANGED hub

-----------------------------------------------------------------------------
(* The telephone system and the managers. *)

LockSeat ==
  /\ proc[Server].at = "loop"
  /\ seat.ready /\ seat.checkIn /\ ~seat.locked
  /\ Writes(Server, "send", [seat EXCEPT !.locked = TRUE, !.ready = FALSE,
                                        !.preReady = FALSE])
  /\ UNCHANGED hub

SetSeatPreReady ==
  /\ proc[Server].at = "loop"
  /\ Writes(Server, "send", [seat EXCEPT !.preReady = TRUE])
  /\ UNCHANGED hub

\* UnlockSeat for the call that holds the seat, over HTTP or from PullCDR, and
\* UnlockProjectSeat: a write that is sent to nobody.
UnlockSeat ==
  /\ seat.locked
  /\ seat' = [seat EXCEPT !.locked = FALSE]
  /\ silent' = silent \cup {"locked"}
  /\ UNCHANGED <<hub, proc, overlap>>

-----------------------------------------------------------------------------
CheckConnOfUser(c) == CheckConn(c) \/ CheckOut(c)

Next ==
  \/ \E c \in Conns :
       \/ MakeClient(c) \/ Greet(c)
       \/ \E in \in BOOLEAN : CheckInChanged(c, in)
       \/ \E ready, other \in BOOLEAN : ReadinessChanged(c, ready, other)
       \/ Refuse(c)
       \/ SendLoop(c)
       \/ DeleteClient(c) \/ StartCheck(c) \/ CheckConnOfUser(c)
  \/ \E w \in Conns \cup {Server} : SendMessage(w)
  \/ LockSeat \/ SetSeatPreReady \/ UnlockSeat

\* A check wakes up, and what was started goes on.
Fairness == \A c \in Conns : WF_vars(CheckConnOfUser(c))

Spec == Init /\ [][Next]_vars /\ Fairness

-----------------------------------------------------------------------------
(* Properties. *)

TypeOK ==
  /\ seat \in Seat
  /\ registered \subseteq Conns
  /\ closed \in [Conns -> Nat]
  /\ buffer \in [Conns -> 0..Cap]
  /\ shown \in [Conns -> Seat \cup {NoState}]
  /\ DOMAIN proc = Conns \cup {Server}
  /\ overlap \in BOOLEAN /\ silent \subseteq Fields

\* A channel is closed once, exactly when its client leaves the hub, whether
\* the loop ends, a broadcast finds the channel full, or both: closing it
\* again and sending to a closed channel would both panic.
ClosedOnce ==
  \A c \in Conns :
    closed[c] = IF proc[c].at = "new" \/ c \in registered THEN 0 ELSE 1

\* Once nothing is left to send, every connection that was greeted and is still
\* in the hub has been sent the state of the store, unless updates overlapped at
\* the last write, or the field is one of two: locked after the seat was
\* unlocked, which is sent to nobody, and preReady after an event that cleared
\* it in the message and not in the store; both until the next write.
ShownCurrent ==
  ~overlap /\ ~StateWaits =>
    \A c \in registered, f \in Fields \ silent :
      shown[c] = NoState \/ shown[c][f] = seat[f]

\* When a check is due and no connection is left, the agent is checked out or
\* comes back: a seat nobody sits at does not go on counting for PushOrder.
\* (The last connection to close starts no check.)
LeftChecksOut ==
  ((\E c \in Conns : proc[c].at = "sleep") /\ registered = {})
    ~> (~seat.checkIn \/ registered # {})

=============================================================================
