---------------------------- MODULE ScrmProject ----------------------------
(***************************************************************************)
(* Projects of the call centre (service/project.go) and the loop that      *)
(* closes them (CloseProject in service/cti.go).  RunProject looks at the  *)
(* project, at one of its seats after the other, and writes the column; CloseProject asks     *)
(* every seat which project it serves and then stops all others.  Neither  *)
(* locks anything, so agents leave, managers change the seats of a project *)
(* and both sides write on what they saw before.                           *)
(*                                                                         *)
(* A seat belongs to projects (scrm_project_seat) and, when ready, serves  *)
(* projects of its own choice; seats change as SeatStore lets them.        *)
(***************************************************************************)
EXTENDS FiniteSets

CONSTANTS
  Projects,  \* project ids
  Seats      \* seat ids

VARIABLES
  project,  \* scrm_project
  agent,    \* the seats in Redis
  run,      \* a RunProject request: the seats it has yet to look at, and
            \* whether it met one that is ready
  close     \* where CloseProject is, with the projects it found served

vars == <<project, agent, run, close>>

-----------------------------------------------------------------------------
Row == [row : {"none", "stored", "deleted"}, running : BOOLEAN,
        members : SUBSET Seats]
Agent == {a \in [checkIn : BOOLEAN, ready : BOOLEAN, serves : SUBSET Projects] :
            a.ready => a.checkIn /\ a.serves # {}}

Idle == [at |-> "idle"]
Stored == {p \in Projects : project[p].row = "stored"}
Served == UNION {agent[s].serves : s \in {s \in Seats : agent[s].checkIn}}

Init ==
  /\ project = [p \in Projects |-> [row |-> "none", running |-> FALSE, members |-> {}]]
  /\ agent = [s \in Seats |-> [checkIn |-> FALSE, ready |-> FALSE, serves |-> {}]]
  /\ run = Idle
  /\ close = Idle

-----------------------------------------------------------------------------
AgentChanges(s, a) ==
  /\ agent' = [agent EXCEPT ![s] = a]
  /\ UNCHANGED <<project, run, close>>

\* The name, which is looked up before the insert, is left out.
CreateProject(p, members) ==
  /\ project[p].row = "none"
  /\ project' = [project EXCEPT ![p] = [row |-> "stored", running |-> FALSE,
                                        members |-> members]]
  /\ UNCHANGED <<agent, run, close>>

\* A deleted project keeps its column running.
DeleteProject(p) ==
  /\ p \in Stored
  /\ project' = [project EXCEPT ![p].row = "deleted"]
  /\ UNCHANGED <<agent, run, close>>

SetProjectSeats(p, members) ==
  /\ p \in Stored
  /\ project' = [project EXCEPT ![p].members = members]
  /\ UNCHANGED <<agent, run, close>>

-----------------------------------------------------------------------------
\* A start takes a seat of the project that is ready, for whichever project.
RunProjectFind(p, on) ==
  /\ run = Idle
  /\ p \in Stored
  /\ project[p].running # on
  /\ run' = [at |-> "seats", project |-> p, on |-> on,
             left |-> project[p].members, free |-> FALSE]
  /\ UNCHANGED <<project, agent, close>>

RunProjectSeat(s) ==
  /\ run # Idle
  /\ s \in run.left
  /\ run' = [run EXCEPT !.left = @ \ {s}, !.free = @ \/ agent[s].ready]
  /\ UNCHANGED <<project, agent, close>>

RunProjectWrite ==
  /\ run # Idle
  /\ run.left = {}
  /\ run.on => run.free
  /\ project' = IF run.project \in Stored
                THEN [project EXCEPT ![run.project].running = run.on] ELSE project
  /\ run' = Idle
  /\ UNCHANGED <<agent, close>>

RunProjectAbort ==
  /\ run # Idle
  /\ run' = Idle
  /\ UNCHANGED <<project, agent, close>>

\* Slip: seats that are checked out keep their projects open.
CloseProjectReadAll ==
  /\ close = Idle
  /\ close' = [at |-> "write", served |-> UNION {agent[s].serves : s \in Seats}]
  /\ UNCHANGED <<project, agent, run>>

\* GetRedisSeats: a pipeline reads all seats at once.
CloseProjectRead ==
  /\ close = Idle
  /\ close' = [at |-> "write", served |-> Served]
  /\ UNCHANGED <<project, agent, run>>

CloseProjectWrite ==
  /\ close # Idle
  /\ project' = [p \in Projects |->
       IF p \in Stored \ close.served THEN [project[p] EXCEPT !.running = FALSE]
       ELSE project[p]]
  /\ close' = Idle
  /\ UNCHANGED <<agent, run>>

-----------------------------------------------------------------------------
CloseProject == CloseProjectRead \/ CloseProjectWrite

Next ==
  \/ \E s \in Seats : \E a \in Agent : AgentChanges(s, a)
  \/ \E p \in Projects :
       \/ DeleteProject(p)
       \/ \E members \in SUBSET Seats :
            CreateProject(p, members) \/ SetProjectSeats(p, members)
       \/ \E on \in BOOLEAN : RunProjectFind(p, on)
  \/ \E s \in Seats : RunProjectSeat(s)
  \/ RunProjectWrite \/ RunProjectAbort
  \/ CloseProject

\* The loop of CloseProject runs every minute.
Fairness == WF_vars(CloseProject)

Spec == Init /\ [][Next]_vars /\ Fairness

-----------------------------------------------------------------------------
TypeOK ==
  /\ project \in [Projects -> Row]
  /\ agent \in [Seats -> Agent]
  /\ run \in [at : {"seats"}, project : Projects, on : BOOLEAN,
              left : SUBSET Seats, free : BOOLEAN] \cup {Idle}
  /\ close \in [at : {"write"}, served : SUBSET Projects] \cup {Idle}

\* A running project none of whose seats is checked in is stopped, also when
\* RunProject was decided on seats that have left since, or overtakes the
\* loop: otherwise a project nobody serves stays open for good.
DesertedCloses ==
  \A p \in Projects :
    project[p].running ~> \/ ~project[p].running
                          \/ p \in Served
                          \/ project[p].row = "deleted"

=============================================================================
