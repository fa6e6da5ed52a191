--------------------------- MODULE Task6Document ---------------------------
(***************************************************************************)
(* One task of version 6 under its optimistic lock (service/task6.go).     *)
(*                                                                         *)
(* A page loads the task (GetTask6) and later sends the whole rpg back     *)
(* with the version it loaded plus one.  UpdateTask6 reads the task to     *)
(* check permissions and then replaces rpg where the version is the one    *)
(* before the request's.  A page may send a request again (a second click, *)
(* a proxy that retries), requests overtake each other, and an answer may  *)
(* be lost.  Allocation and reset change who may write, not the version.   *)
(***************************************************************************)
EXTENDS Integers

CONSTANTS
  Pages,       \* browser pages, each of one user
  Requests,    \* slots for UpdateTask6 requests on their way or being served
  Contents,    \* values of rpg
  Unallocated, \* no page's user is labeller or checker
  MaxVersion   \* bound: no page sends a version above

ASSUME DocumentAssumption ==
  /\ MaxVersion \in Nat
  /\ Unallocated \notin Pages

VARIABLES
  stored,   \* FALSE once the task is deleted
  version,  \* its version; Missing in a task stored before the field existed
  rpg,      \* its content
  holder,   \* the page whose user is labeller or checker
  view,     \* what each page shows, with the version it loaded
  request   \* the requests on their way or being served

vars == <<stored, version, rpg, holder, view, request>>

-----------------------------------------------------------------------------
Missing == -1

\* A missing field decodes to 0.
Decoded(v) == IF v = Missing THEN 0 ELSE v

View == [version : Nat, rpg : Contents]
NoView == [version |-> Missing]
Free == [at |-> "free"]
\* base is the content the page showed when the request was made.
Update == [at : {"sent", "checked"}, page : Pages, version : Nat,
           base : Contents, rpg : Contents]

Init ==
  /\ stored = TRUE
  /\ version \in {Missing, 0}
  /\ rpg \in Contents
  /\ holder \in Pages \cup {Unallocated}
  /\ view = [c \in Pages |-> NoView]
  /\ request = [r \in Requests |-> Free]

GetTask6(c) ==
  /\ stored
  /\ view' = [view EXCEPT ![c] = [version |-> Decoded(version), rpg |-> rpg]]
  /\ UNCHANGED <<stored, version, rpg, holder, request>>

\* The page of an edited task is saved.
Send(r, c, new) ==
  /\ request[r] = Free
  /\ view[c] # NoView
  /\ view[c].version < MaxVersion
  /\ request' = [request EXCEPT ![r] =
       [at |-> "sent", page |-> c, version |-> view[c].version + 1,
        base |-> view[c].rpg, rpg |-> new]]
  /\ UNCHANGED <<stored, version, rpg, holder, view>>

\* The same request reaches the server twice.
Duplicate(r, q) ==
  /\ request[r] # Free
  /\ request[q] = Free
  /\ request' = [request EXCEPT ![q] = [request[r] EXCEPT !.at = "sent"]]
  /\ UNCHANGED <<stored, version, rpg, holder, view>>

\* The permission check (任务不存在, 权限不足).  Administrators (data scope 1
\* and 2) write without being labeller or checker.
MayWrite(c, admin) == admin \/ holder = c

UpdateCheck(r) ==
  /\ request[r].at = "sent"
  /\ \E admin \in BOOLEAN :
       request' = [request EXCEPT ![r] =
         IF stored /\ MayWrite(request[r].page, admin)
         THEN [request[r] EXCEPT !.at = "checked"] ELSE Free]
  /\ UNCHANGED <<stored, version, rpg, holder, view>>

\* Slip: the version sent also matches a document that has it already.
VersionMatchesAgain(v) ==
  IF v = 1 THEN version \in {0, 1, Missing} ELSE version \in {v - 1, v}

\* The filter of the UpdateOne: a first version also matches a missing field.
VersionMatches(v) ==
  IF v = 1 THEN version \in {0, Missing} ELSE version # Missing /\ version = v - 1

\* Slip: the write leaves the version as it was.
UpdateWriteOnlyRpg(r) ==
  LET req == request[r] IN
  /\ req.at = "checked"
  /\ stored
  /\ VersionMatches(req.version)
  /\ rpg' = req.rpg
  /\ request' = [request EXCEPT ![r] = Free]
  /\ UNCHANGED <<stored, version, holder, view>>

\* The write.  A page that learns of its success may go on from there; the
\* others, and a page whose answer is lost, keep showing what they loaded.
UpdateWrite(r) ==
  LET req == request[r] IN
  /\ req.at = "checked"
  /\ stored
  /\ VersionMatches(req.version)
  /\ version' = req.version
  /\ rpg' = req.rpg
  /\ view' \in {view, [view EXCEPT ![req.page] =
                         [version |-> req.version, rpg |-> req.rpg]]}
  /\ request' = [request EXCEPT ![r] = Free]
  /\ UNCHANGED <<stored, holder>>

\* MatchedCount is 0 (文档不存在或版本过旧).
UpdateRefuse(r) ==
  /\ request[r].at = "checked"
  /\ ~ (stored /\ VersionMatches(request[r].version))
  /\ request' = [request EXCEPT ![r] = Free]
  /\ UNCHANGED <<stored, version, rpg, holder, view>>

\* A request is lost, or breaks off after the check.
Abort(r) ==
  /\ request[r] # Free
  /\ request' = [request EXCEPT ![r] = Free]
  /\ UNCHANGED <<stored, version, rpg, holder, view>>

\* Task6BatchAllocLabeler, ResetTasks6: the version stays.
Reallocate(c) ==
  /\ stored
  /\ holder' = c
  /\ UNCHANGED <<stored, version, rpg, view, request>>

DeleteTask6 ==
  /\ stored' = FALSE
  /\ UNCHANGED <<version, rpg, holder, view, request>>

Next ==
  \/ \E c \in Pages : GetTask6(c)
  \/ \E r \in Requests, c \in Pages, new \in Contents : Send(r, c, new)
  \/ \E r, q \in Requests : Duplicate(r, q)
  \/ \E r \in Requests :
       UpdateCheck(r) \/ UpdateWrite(r) \/ UpdateRefuse(r) \/ Abort(r)
  \/ \E c \in Pages \cup {Unallocated} : Reallocate(c)
  \/ DeleteTask6

Spec == Init /\ [][Next]_vars

-----------------------------------------------------------------------------
(* Properties. *)

\* The task, the pages and the requests have the shape the code gives them.
TypeOK ==
  /\ stored \in BOOLEAN
  /\ version \in Nat \cup {Missing}
  /\ rpg \in Contents
  /\ holder \in Pages \cup {Unallocated}
  /\ view \in [Pages -> View \cup {NoView}]
  /\ request \in [Requests -> Update \cup {Free}]

\* A version names one content: a page that shows the stored version shows the
\* stored content, and no page is ahead of the store.
VersionNamesContent ==
  \A c \in Pages : view[c] # NoView =>
    /\ view[c].version <= Decoded(version)
    /\ view[c].version = Decoded(version) => view[c].rpg = rpg

\* No update is lost: content is replaced only by a request whose author had
\* that very content before him, however requests are repeated or overtake.
NoLostUpdate ==
  [][\/ version' = version /\ rpg' = rpg
     \/ \E r \in Requests : /\ request[r].at = "checked"
                            /\ request[r].base = rpg
                            /\ rpg' = request[r].rpg]_<<version, rpg>>

\* What was saved once is not saved again: every save takes the version one
\* further, so a repeated request finds its own version stored and is refused.
OneSavePerVersion ==
  [][version' = Decoded(version) + 1]_<<version, rpg>>

=============================================================================
