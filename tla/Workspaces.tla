----------------------------- MODULE Workspaces -----------------------------
(***************************************************************************)
(* Workspace directories as src/internal/workspace/store.go reads and      *)
(* changes them: a host directory, with a metadata file that names the     *)
(* workspace it holds.  Directories are not moved, so the path that a      *)
(* metadata file records is where it lies.                                 *)
(***************************************************************************)
EXTENDS Labels, Naturals

CONSTANTS
  DefaultPath,     \* root/<name>, for each workspace name
  MaxData          \* how often the content of a directory may change

VARIABLE
  dirs             \* what each path holds

ASSUME DefaultPathType == DefaultPath \in [WorkspaceNames -> Paths]
ASSUME MaxDataType     == MaxData \in Nat

\* A directory: whether it is there, the name in its metadata (None without a
\* readable metadata file), and which version of the user's files it holds.
Dir == [exists : BOOLEAN, meta : WorkspaceNames \cup {None}, data : 0..MaxData]

NoDir == [exists |-> FALSE, meta |-> None, data |-> 0]

DirsTypeOK == dirs \in [Paths -> Dir]
DirsInit   == dirs = [p \in Paths |-> NoDir]

\* The directory a request means: its custom path, or the default one.
PathOf(name, custom) == IF custom = None THEN DefaultPath[name] ELSE custom

\* inspectWorkspacePath succeeds: the metadata names this workspace, or there is
\* none and the directory is the default one of that name.
Inspects(name, path) ==
  /\ dirs[path].exists
  /\ \/ dirs[path].meta = name
     \/ dirs[path].meta = None /\ path = DefaultPath[name]

\* Create at a path.  The default path must be free; a custom one is taken as it
\* is and its metadata is overwritten.
CreateWorkspace(name, custom) ==
  LET path == PathOf(name, custom) IN
  /\ custom = None => ~dirs[path].exists
  /\ dirs' = [dirs EXCEPT ![path].exists = TRUE, ![path].meta = name]

\* What List returns: every directory of the root that inspects under its name.
Listed ==
  {[name |-> w, path |-> DefaultPath[w]] :
     w \in {v \in WorkspaceNames : Inspects(v, DefaultPath[v])}}

RemoveWorkspace(name, path) ==
  /\ Inspects(name, path)
  /\ dirs' = [dirs EXCEPT ![path] = NoDir]

\* A workbench, or the user, changes files of a workspace.
WriteFiles(path) ==
  /\ dirs[path].exists
  /\ dirs[path].data < MaxData
  /\ dirs' = [dirs EXCEPT ![path].data = @ + 1]

=============================================================================
