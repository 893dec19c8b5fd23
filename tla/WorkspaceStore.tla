--------------------------- MODULE WorkspaceStore ---------------------------
(***************************************************************************)
(* The workspace store (workspace/store.go) file by file: creating,        *)
(* backing up, restoring and removing take many system calls, during which *)
(* a workbench writes to the same directory and other commands run.        *)
(* Directories are not moved, and an output file is named once.            *)
(***************************************************************************)
EXTENDS Naturals, Sequences, FiniteSets, SequencesExt

CONSTANTS
  None, Torn,     \* no metadata file; one that was truncated and not written
  WorkspaceNames, Paths, DefaultPath,
  Order,          \* what a workspace may hold, in the order of a walk
  Parent,         \* the directory in which each of these lies; None for the root
  Contents, Size, \* what a file may hold, and its length
  First,          \* the workspace that there is
  Trees,          \* what it may hold
  Archives,       \* backup files
  Requests,       \* commands
  Procs,          \* terminals
  MaxEdits        \* how often a workbench changes a file

Files == ToSet(Order)

\* A directory whose mode does not let its owner write is locked.
Directories == {"dir", "locked"}
Entry       == Contents \cup Directories \cup {"link"}
Archive     == [items : Seq([name : Files, entry : Entry]), whole : BOOLEAN]

\* Nothing lies below what is not a directory.
Rooted(files) == \A f \in Files :
  files[f] # None /\ Parent[f] # None => files[Parent[f]] \in Directories

ASSUME StorePathType ==
  /\ DefaultPath \in [WorkspaceNames -> Paths] /\ First \in WorkspaceNames
  /\ None \notin Paths /\ None # Torn /\ {None, Torn} \cap WorkspaceNames = {}
ASSUME TreeType ==
  /\ Order \in Seq(Files) /\ None \notin Files
  /\ Parent \in [Files -> Files \cup {None}]
  /\ \A f \in Files : Parent[f] # None => Parent[Parent[f]] = None
  /\ None \notin Entry /\ Contents \cap (Directories \cup {"link"}) = {}
  /\ Size \in [Contents -> Nat]
  /\ \A tree \in Trees : tree \in [Files -> Entry \cup {None}] /\ Rooted(tree)
  /\ MaxEdits \in Nat
\* No two commands name the same output.
ASSUME CommandType ==
  /\ Requests \subseteq [op : {"create", "backup", "restore", "remove"}, name : WorkspaceNames,
                         custom : Paths \cup {None}, archive : Archives \cup {None}]
  /\ \A req \in Requests : req.op \in {"backup", "restore"} => req.archive \in Archives
  /\ \A req, other \in Requests :
       req.op = "backup" /\ other.op = "backup" /\ req.archive = other.archive => req = other
  /\ None \notin Requests /\ None \notin Procs /\ None \notin Archive

VARIABLES
  dirs,      \* what each path holds
  archives,  \* what each backup file holds
  procs,     \* the command of each terminal, and how far it is
  edits      \* how often a file was changed

vars == <<dirs, archives, procs, edits>>

-----------------------------------------------------------------------------

NoFiles == [f \in Files |-> None]
NoDir   == [exists |-> FALSE, meta |-> None, files |-> NoFiles]
Idle    == [at |-> "idle", req |-> None, path |-> None, todo |-> {}, open |-> None,
            next |-> 1, stable |-> {}, alone |-> FALSE]

PathOf(req) == IF req.custom = None THEN DefaultPath[req.name] ELSE req.custom

\* inspectWorkspacePath: metadata that cannot be read is no metadata.
Inspects(name, path) ==
  /\ dirs[path].exists
  /\ \/ dirs[path].meta = name
     \/ dirs[path].meta \in {None, Torn} /\ path = DefaultPath[name]

Empty(path) == dirs[path].meta = None /\ dirs[path].files = NoFiles

Held(path, in) == {f \in Files : Parent[f] = in /\ dirs[path].files[f] # None}

\* The command of p goes on.  stable and alone record what happened to its directory
\* meanwhile: the files that nobody changed, and whether only p changed any.
Becomes(p, new) ==
  procs' = [q \in Procs |->
    LET r == IF q = p THEN new ELSE procs[q]
    IN  IF r.path = None THEN r
        ELSE [r EXCEPT
                !.stable = {f \in @ : dirs'[r.path].files[f] = dirs[r.path].files[f]},
                !.alone  = @ /\ (q = p \/ dirs'[r.path] = dirs[r.path])]]

Goes(p, at) == Becomes(p, [procs[p] EXCEPT !.at = at])

Fails(p) == UNCHANGED <<dirs, archives, edits>> /\ Goes(p, "failed")

Here(p)  == dirs[procs[p].path]

-----------------------------------------------------------------------------
(* The first step of every command looks at the directory. *)

Begin(p, req, at) ==
  /\ procs[p].at = "idle"
  /\ Becomes(p, [Idle EXCEPT !.at = at, !.req = req, !.path = PathOf(req),
       !.stable = IF at = "open" THEN Files ELSE {},
       !.alone  = at = "mkdir" /\ req.op = "restore"])

\* Create checks a default path only.
StartCreate(p, req) ==
  /\ req.op = "create"
  /\ UNCHANGED <<dirs, archives, edits>>
  /\ Begin(p, req, IF req.custom = None /\ dirs[PathOf(req)].exists
                   THEN "failed" ELSE "mkdir")

StartBackup(p, req) ==
  /\ req.op = "backup"
  /\ UNCHANGED <<dirs, archives, edits>>
  /\ archives[req.archive] = None /\ \A q \in Procs : procs[q].req # req
  /\ Begin(p, req, IF Inspects(req.name, PathOf(req)) THEN "open" ELSE "failed")

\* ensureRestoreTarget.
StartRestore(p, req) ==
  /\ req.op = "restore"
  /\ UNCHANGED <<dirs, archives, edits>>
  /\ Begin(p, req, IF archives[req.archive] # None /\ Empty(PathOf(req))
                   THEN "mkdir" ELSE "failed")

StartRemove(p, req) ==
  /\ req.op = "remove"
  /\ UNCHANGED <<dirs, archives, edits>>
  /\ Begin(p, req, IF Inspects(req.name, PathOf(req)) THEN "remove" ELSE "failed")

-----------------------------------------------------------------------------
(* Create, and what Restore shares with it. *)

\* Fault: a restored workspace is named before it is filled.
MkdirNaming(p) ==
  /\ procs[p].at = "mkdir"
  /\ dirs' = [dirs EXCEPT ![procs[p].path].exists = TRUE,
                          ![procs[p].path].meta = procs[p].req.name]
  /\ Goes(p, IF procs[p].req.op = "restore" THEN "extract" ELSE "truncate")
  /\ UNCHANGED <<archives, edits>>

Mkdir(p) ==
  /\ procs[p].at = "mkdir"
  /\ dirs' = [dirs EXCEPT ![procs[p].path].exists = TRUE]
  /\ Goes(p, IF procs[p].req.op = "restore" THEN "extract" ELSE "truncate")
  /\ UNCHANGED <<archives, edits>>

\* os.WriteFile opens and truncates, then writes: into nothing if the file was removed
\* in between.
TruncateMetadata(p) ==
  /\ procs[p].at = "truncate"
  /\ dirs' = IF Here(p).exists THEN [dirs EXCEPT ![procs[p].path].meta = Torn] ELSE dirs
  /\ Goes(p, IF Here(p).exists THEN "write" ELSE "failed")
  /\ UNCHANGED <<archives, edits>>

\* Fault: the file is made again.
WriteMetadataAgain(p) ==
  /\ procs[p].at = "write"
  /\ dirs' = [dirs EXCEPT ![procs[p].path].meta = procs[p].req.name]
  /\ Goes(p, "done")
  /\ UNCHANGED <<archives, edits>>

WriteMetadata(p) ==
  /\ procs[p].at = "write"
  /\ dirs' = IF Here(p).meta = None THEN dirs
             ELSE [dirs EXCEPT ![procs[p].path].meta = procs[p].req.name]
  /\ Goes(p, "done")
  /\ UNCHANGED <<archives, edits>>

-----------------------------------------------------------------------------
(* Backup: writeTarGzip walks the directory. *)

\* The root's header and the metadata file go into the archive too; a restore
\* skips both, so they are left out of the order of the walk.
OpenArchive(p) ==
  /\ procs[p].at = "open"
  /\ UNCHANGED <<dirs, edits>>
  /\ archives' = [archives EXCEPT ![procs[p].req.archive] = [items |-> <<>>, whole |-> FALSE]]
  /\ IF Here(p).exists
     THEN Becomes(p, [procs[p] EXCEPT !.at = "walk", !.todo = Held(procs[p].path, None)])
     ELSE Goes(p, "failed")

Put(a, f, e) ==
  archives' = [archives EXCEPT ![a].items = Append(@, [name |-> f, entry |-> e])]

\* The first of what is still to be visited.
Earliest(todo) == Order[CHOOSE i \in DOMAIN Order :
                        Order[i] \in todo /\ \A j \in 1..(i - 1) : Order[j] \notin todo]

\* A directory is listed when it is visited; its header or that of a link is all there
\* is of it.
WalkOther(p, f, e) ==
  /\ e \in Directories \cup {"link"}
  /\ Put(procs[p].req.archive, f, e)
  /\ Becomes(p, [procs[p] EXCEPT !.todo = (@ \ {f}) \cup Held(procs[p].path, f)])

\* The header of a file holds its length.
WalkFile(p, f, e) ==
  /\ e \in Contents
  /\ Becomes(p, [procs[p] EXCEPT !.at = "copy", !.todo = @ \ {f},
                                 !.open = [name |-> f, size |-> Size[e]]])
  /\ UNCHANGED archives

\* Fault: the walk stops at what has gone since it was listed.
WalkGoneStops(p, f, e) ==
  /\ e = None
  /\ Becomes(p, [procs[p] EXCEPT !.todo = {}])
  /\ UNCHANGED archives

WalkGone(p, f, e) == e = None /\ Goes(p, "failed") /\ UNCHANGED archives

Walk(p) ==
  /\ procs[p].at = "walk" /\ procs[p].todo # {}
  /\ UNCHANGED <<dirs, edits>>
  /\ LET f == Earliest(procs[p].todo)
         e == Here(p).files[f]
     IN  WalkOther(p, f, e) \/ WalkFile(p, f, e) \/ WalkGone(p, f, e)

\* What is copied must have the length of the header.
Copy(p) ==
  /\ procs[p].at = "copy"
  /\ UNCHANGED <<dirs, edits>>
  /\ LET f == procs[p].open.name
         e == Here(p).files[f]
     IN  IF e \in Contents /\ Size[e] = procs[p].open.size
         THEN /\ Put(procs[p].req.archive, f, e)
              /\ Becomes(p, [procs[p] EXCEPT !.at = "walk", !.open = None])
         ELSE Goes(p, "failed") /\ UNCHANGED archives

BackupEnds(p) ==
  /\ procs[p].at = "walk" /\ procs[p].todo = {}
  /\ UNCHANGED <<dirs, edits>>
  /\ archives' = [archives EXCEPT ![procs[p].req.archive].whole = TRUE]
  /\ Goes(p, "done")

-----------------------------------------------------------------------------
(* Restore: extractTarGzip. *)

\* The directory above an item is made where it is missing; one that is there stays.
Makes(files, f, e) ==
  [g \in Files |-> IF g = f /\ files[g] \notin Directories THEN e
                   ELSE IF g = Parent[f] /\ files[g] = None THEN "dir"
                   ELSE files[g]]

Locked(p, f) == Parent[f] # None /\ Here(p).files[Parent[f]] = "locked"

\* Somebody else has put a file where a directory belongs, or a directory in the place
\* of a file.
InTheWay(files, f, e) ==
  \/ Parent[f] # None /\ files[Parent[f]] \notin Directories \cup {None}
  \/ files[f] # None /\ (e \in Directories) # (files[f] \in Directories)

Extract(p) ==
  /\ procs[p].at = "extract"
  /\ procs[p].next <= Len(archives[procs[p].req.archive].items)
  /\ UNCHANGED <<archives, edits>>
  /\ LET item == archives[procs[p].req.archive].items[procs[p].next]
     IN  IF item.entry = "link" \/ Locked(p, item.name)
         THEN UNCHANGED dirs /\ Goes(p, "refused")
         ELSE IF InTheWay(Here(p).files, item.name, item.entry)
         THEN UNCHANGED dirs /\ Goes(p, "failed")
         ELSE /\ dirs' = [dirs EXCEPT
                   ![procs[p].path].exists = TRUE,
                   ![procs[p].path].files  = Makes(@, item.name, item.entry)]
              /\ Becomes(p, [procs[p] EXCEPT !.next = @ + 1])

\* Fault: an archive that breaks off counts as read.
AcceptsAny(p) == "truncate"

\* A stream that breaks off before the end of the tar archive is an error.
AtTheEnd(p) ==
  IF archives[procs[p].req.archive].whole THEN "truncate" ELSE "refused"

ExtractEnds(p) ==
  /\ procs[p].at = "extract"
  /\ procs[p].next > Len(archives[procs[p].req.archive].items)
  /\ UNCHANGED <<dirs, archives, edits>>
  /\ Goes(p, AtTheEnd(p))

-----------------------------------------------------------------------------
(* Remove: os.RemoveAll, one unlink at a time. *)

Removing(p, files, meta) ==
  /\ dirs' = [dirs EXCEPT ![procs[p].path].files = files, ![procs[p].path].meta = meta]
  /\ Goes(p, "remove")
  /\ UNCHANGED <<archives, edits>>

RemoveFile(p) ==
  /\ procs[p].at = "remove"
  /\ \E f \in Files :
       /\ Here(p).files[f] # None
       /\ Held(procs[p].path, f) = {}
       /\ IF Locked(p, f) THEN Fails(p)
          ELSE Removing(p, [Here(p).files EXCEPT ![f] = None], Here(p).meta)

RemoveMetadata(p) ==
  /\ procs[p].at = "remove"
  /\ Here(p).meta # None
  /\ Removing(p, Here(p).files, None)

RemoveEnds(p) ==
  /\ procs[p].at = "remove"
  /\ Empty(procs[p].path)
  /\ dirs' = [dirs EXCEPT ![procs[p].path] = NoDir]
  /\ Goes(p, "done")
  /\ UNCHANGED <<archives, edits>>

-----------------------------------------------------------------------------
(* A command is interrupted, or a call fails; a workbench writes files.     *)

Busy(p) == procs[p].at \notin {"idle", "done", "failed", "refused"}

Interrupted(p) == Busy(p) /\ Fails(p)

NextCommand(p) ==
  /\ procs[p].at \in {"done", "failed", "refused"}
  /\ procs' = [procs EXCEPT ![p] = Idle]
  /\ UNCHANGED <<dirs, archives, edits>>

Workbench ==
  /\ edits < MaxEdits
  /\ edits' = edits + 1
  /\ \E path \in Paths, f \in Files, new \in Contents \cup {None} :
       /\ dirs[path].exists
       /\ dirs[path].files[f] \in Contents \cup {None} /\ f \notin {Parent[g] : g \in Files}
       /\ dirs[path].files[f] # new
       /\ Parent[f] # None => dirs[path].files[Parent[f]] = "dir"
       /\ dirs' = [dirs EXCEPT ![path].files[f] = new]
  /\ Becomes(None, Idle)
  /\ UNCHANGED archives

Start(p, req) ==
  StartCreate(p, req) \/ StartBackup(p, req) \/ StartRestore(p, req) \/ StartRemove(p, req)

Step(p) ==
  \/ Mkdir(p) \/ TruncateMetadata(p) \/ WriteMetadata(p)
  \/ OpenArchive(p) \/ Walk(p) \/ Copy(p) \/ BackupEnds(p)
  \/ Extract(p) \/ ExtractEnds(p)
  \/ RemoveFile(p) \/ RemoveMetadata(p) \/ RemoveEnds(p)

Init ==
  /\ \E tree \in Trees :
       dirs = [path \in Paths |->
                 IF path = DefaultPath[First]
                 THEN [exists |-> TRUE, meta |-> First, files |-> tree] ELSE NoDir]
  /\ archives = [a \in Archives |-> None]
  /\ procs = [p \in Procs |-> Idle]
  /\ edits = 0

Next ==
  \/ Workbench
  \/ \E p \in Procs :
       \/ \E req \in Requests : Start(p, req)
       \/ Step(p) \/ Interrupted(p) \/ NextCommand(p)

Spec == Init /\ [][Next]_vars

-----------------------------------------------------------------------------
(* What makes the store right. *)

Items(a) == ToSet(archives[a].items)

\* Every variable holds a value of its kind; nothing lies in a directory that is not
\* there, and nothing below what is not a directory.
TypeOK ==
  /\ dirs \in [Paths -> [exists : BOOLEAN, meta : WorkspaceNames \cup {None, Torn},
                         files : [Files -> Entry \cup {None}]]]
  /\ \A path \in Paths : ~dirs[path].exists => dirs[path] = NoDir
  /\ \A path \in Paths : Rooted(dirs[path].files)
  /\ edits \in 0..MaxEdits
  /\ archives \in [Archives -> Archive \cup {None}]

\* A backup that is reported holds everything that nobody touched while it ran.
BackupCovers ==
  \A p \in Procs :
    procs[p].at = "done" /\ procs[p].req.op = "backup" =>
      \A f \in procs[p].stable : Here(p).files[f] # None =>
        [name |-> f, entry |-> Here(p).files[f]] \in Items(procs[p].req.archive)

\* A directory gets the name of the workspace restored to it only when all of a whole
\* archive is there and nothing else is, so that a restore that was interrupted shows:
\* as long as nobody else changes that directory.
RestoreIsWhole ==
  \A p \in Procs :
    procs[p].at # "idle" /\ procs[p].req.op = "restore" /\ procs[p].alone
      /\ Here(p).meta = procs[p].req.name =>
      /\ archives[procs[p].req.archive].whole
      /\ Items(procs[p].req.archive) =
           {[name |-> f, entry |-> Here(p).files[f]] :
              f \in {g \in Files : Here(p).files[g] # None}}

\* "Restore a backup into a new workspace" (docs/usage.md:178): a restore is not refused
\* for what a reported backup holds.
BackupRestores ==
  \A p \in Procs :
    procs[p].at = "refused" => ~archives[procs[p].req.archive].whole

=============================================================================
