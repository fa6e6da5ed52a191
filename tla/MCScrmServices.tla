--------------------------- MODULE MCScrmServices ---------------------------
(* Three orders of two projects and one seat; two connections with room for *)
(* one message; every order of events of a call; three exports;            *)
(* three departments, two once there is a row; of the hub at most two      *)
(* broadcasts under way, no seat that is locked and ready or preready, and *)
(* none preready while updates overlap.                                    *)
EXTENDS ScrmServices, TLC

CONSTANTS o1, o2, o3, p, q, d3

\* Where a row is, two departments show what three do; one deleted order,
\* one cleaned order and one deleted department are enough to meet every query
\* that still sees them.  A project is stopped by hand while it has no seats,
\* which decide nothing then, and a start that met no ready seat is not
\* followed.
\* The seat serves no project, the first or both.
Narrow ==
  /\ item.row = "none" \/ d3 \notin Scope!Made
  /\ \A d, e \in Scope!Made \ Scope!Stored : d = e
  /\ \A o, r \in Orders : order[o].deleted /\ order[r].deleted => o = r
  /\ Cardinality(cleaned) <= 1
  /\ Cardinality({w \in DOMAIN proc : Hub!MustSend(w)}) <= 2
  /\ ~(seat.locked /\ (seat.ready \/ seat.preReady))
  /\ overlap => ~seat.preReady
  /\ \A s \in Seats : agent[s].serves \in {{}, {p, q}} \/ (agent[s].checkIn /\ agent[s].serves = {p})
  /\ run # Project!Idle => IF run.on THEN run.left # {} \/ run.free ELSE run.left = {}

MCProjectOf == (o1 :> p) @@ (o2 :> p) @@ (o3 :> q)

MCSeatStates ==
  {[checkIn |-> FALSE, free |-> FALSE, locked |-> FALSE, projects |-> {p}],
   [checkIn |-> TRUE, free |-> TRUE, locked |-> FALSE, projects |-> {p}],
   [checkIn |-> TRUE, free |-> TRUE, locked |-> TRUE, projects |-> {p, q}]}

MCColumns == [running : BOOLEAN, spare : {1}, busy : {1}]

Legs(answers, hangups) ==
  [created : {0, 2}, answered : answers \cup {NoTime}, hangup : hangups]
MCReports ==
  {r \in [1..2 -> Legs({1, 2, 3}, {4, 5})] :
     /\ r[1].created = 0 /\ r[1].answered \in {1, 2, NoTime}
     /\ r[2].created = 2 /\ r[2].answered \in {3, NoTime}}
=============================================================================
