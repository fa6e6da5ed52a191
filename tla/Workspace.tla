------------------------------ MODULE Workspace ------------------------------
(***************************************************************************)
(* Folders and a project of the labeler, for every version of it           *)
(* (service/folder*.go, service/project*.go).  A folder names the folder   *)
(* above it and a project its folder; deleting a folder or a project       *)
(* deletes one document, so that what a folder held stays behind.          *)
(*                                                                         *)
(* Folders are numbered in the order of their creation, by which GetFolders *)
(* sorts them, the newest first; the list it makes is the set of them.     *)
(* Names and schemas are left out, and with them UpdateFolder, which sets   *)
(* the name.                                                               *)
(***************************************************************************)
EXTENDS Integers, FiniteSets

CONSTANTS
  Editions,  \* versions of the program to look at, of 1..6
  Folders,   \* folder ids
  Top        \* the parent of a folder without one

WorkspaceAssumption ==
  /\ Editions \subseteq 1..6
  /\ Folders \subseteq Nat /\ IsFiniteSet(Folders)
  /\ Top \notin Folders

VARIABLES
  edition,
  folder,   \* CollectionFolder of that version
  project,  \* a document of CollectionProject
  form,     \* the project as a page loaded it, to edit
  cut       \* history: folders whose parent, or one above, was deleted

vars == <<edition, folder, project, form, cut>>

-----------------------------------------------------------------------------
Idle == [at |-> "idle"]
Row(row, in) == [row |-> row, in |-> in]
Made == {f \in Folders : folder[f].row # "none"}
Stored == {f \in Folders : folder[f].row = "stored"}

Init ==
  /\ edition \in Editions
  /\ folder = [f \in Folders |-> Row("none", Top)]
  /\ project = Row("none", Top)
  /\ form = Idle
  /\ cut = {}

-----------------------------------------------------------------------------
(* Folders. *)

\* A page may show a folder that has been deleted since.
CreateFolder(f, up) ==
  /\ f \notin Made
  /\ \A g \in Folders : g < f => g \in Made
  /\ up \in Made \cup {Top}
  /\ folder' = [folder EXCEPT ![f] = Row("stored", up)]
  /\ cut' = IF up \in cut \/ up \in Made \ Stored THEN cut \cup {f} ELSE cut
  /\ UNCHANGED <<edition, project, form>>

\* The folders below some: the least set that has all whose parent is one of
\* them or in it.
Closed(fs, below) == \A f \in Made : folder[f].in \in fs \cup below => f \in below
Below(fs) == {f \in Made : \A below \in SUBSET Made : Closed(fs, below) => f \in below}

DeleteFolder(f) ==
  /\ f \in Stored
  /\ folder' = [folder EXCEPT ![f].row = "deleted"]
  /\ cut' = cut \cup Below({f})
  /\ UNCHANGED <<edition, project, form>>

\* Slip: children are hung up while the map is filled, the newest folder first.
FolderTreeAtOnce(list) ==
  [roots |-> {f \in list : folder[f].in = Top},
   children |-> [f \in list |-> {g \in list : g <= f /\ folder[g].in = f}]]

\* One pass fills the map of folders, a second one hangs up the children.
FolderTree(list) ==
  [roots |-> {f \in list : folder[f].in = Top},
   children |-> [f \in list |-> {g \in list : folder[g].in = f}]]

GetFolders == FolderTree(Stored)

\* What a page can unfold of a tree: the roots and the children of what it can.
Opens(tree, shown) ==
  tree.roots \subseteq shown /\ \A f \in shown : tree.children[f] \subseteq shown
Unfolded(tree) ==
  LET listed == DOMAIN tree.children IN
  {f \in listed : \A shown \in SUBSET listed : Opens(tree, shown) => f \in shown}

-----------------------------------------------------------------------------
(* The project. *)

CreateProject(f) ==
  /\ project.row = "none"
  /\ project' = Row("stored", f)
  /\ UNCHANGED <<edition, folder, form, cut>>

SearchProject(f) == project.row = "stored" /\ project.in = f

LoadProject ==
  /\ form = Idle
  /\ project.row = "stored"
  /\ form' = [at |-> "shown", in |-> project.in]
  /\ UNCHANGED <<edition, folder, project, cut>>

\* The document is replaced by the form's, and not stored anew.
UpdateProject ==
  /\ form # Idle
  /\ project' = IF project.row = "stored" THEN Row("stored", form.in) ELSE project
  /\ form' = Idle
  /\ UNCHANGED <<edition, folder, cut>>

MoveProject(f) ==
  /\ form # Idle
  /\ form' = [form EXCEPT !.in = f]
  /\ UNCHANGED <<edition, folder, project, cut>>

DeleteProject ==
  /\ project.row = "stored"
  /\ project' = [project EXCEPT !.row = "deleted"]
  /\ UNCHANGED <<edition, folder, form, cut>>

-----------------------------------------------------------------------------
FolderPages ==
  \/ \E f \in Folders, up \in Folders \cup {Top} : CreateFolder(f, up)
  \/ \E f \in Folders : DeleteFolder(f)

ProjectPages ==
  \/ \E f \in Made : CreateProject(f) \/ MoveProject(f)
  \/ LoadProject \/ UpdateProject \/ DeleteProject

Folders1 == edition = 1 /\ FolderPages
Folders2 == edition = 2 /\ FolderPages
Folders3 == edition = 3 /\ FolderPages
Folders4 == edition = 4 /\ FolderPages
Folders5 == edition = 5 /\ FolderPages
Folders6 == edition = 6 /\ FolderPages

Projects1 == edition = 1 /\ ProjectPages
Projects2 == edition = 2 /\ ProjectPages
Projects3 == edition = 3 /\ ProjectPages
Projects4 == edition = 4 /\ ProjectPages
Projects5 == edition = 5 /\ ProjectPages
Projects6 == edition = 6 /\ ProjectPages

Next ==
  \/ Folders1 \/ Folders2 \/ Folders3 \/ Folders4 \/ Folders5 \/ Folders6
  \/ Projects1 \/ Projects2 \/ Projects3 \/ Projects4 \/ Projects5 \/ Projects6

Spec == Init /\ [][Next]_vars

-----------------------------------------------------------------------------
(* Properties. *)

\* In whatever order folders are created, read and deleted, also below a
\* folder a page still showed: the tree has every folder but those a deletion
\* above has cut off, and the stored project is listed in the tree unless its
\* folder, the one of the page that was saved last, is deleted or cut off.
TreeReachesAll ==
  LET shown == Unfolded(GetFolders) IN
  /\ shown = Stored \ cut
  /\ project.row = "stored" =>
       ((\E f \in shown : SearchProject(f)) <=> project.in \in Stored \ cut)

=============================================================================
