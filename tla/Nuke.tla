-------------------------------- MODULE Nuke --------------------------------
(***************************************************************************)
(* contaigen nuke: list everything that is managed, show it, ask, list it  *)
(* again, back up the workspaces, remove services, environments, gateways, *)
(* networks and workspaces, and report what failed.  One nuke runs beside  *)
(* the other commands, the workbenches and the user's own docker commands. *)
(*                                                                         *)
(* Each action is one call to Docker or to the workspace store.  An error  *)
(* while listing ends the command; an error afterwards is recorded and the *)
(* next call is made.                                                      *)
(***************************************************************************)
EXTENDS Commands

CONSTANTS
  Choices,         \* what is asked for about backups, of {"ask", "backup", "no"}
  Faults,          \* whether a call may fail that has no reason to
  MaxClock         \* how many seconds may pass

ASSUME ChoicesType  == Choices \subseteq {"ask", "backup", "no"}
ASSUME FaultsType   == Faults \in BOOLEAN
ASSUME MaxClockType == MaxClock \in Nat

VARIABLES
  nuke,            \* the nuke command: where it is and what it has learnt
  archives,        \* backup directory: what the file <name>-<second> holds
  clock            \* the time, in seconds

nukeVars == <<nuke, archives, clock>>
vars     == <<containers, networks, dirs, cmds, nuke, archives, clock>>

\* A container and a network as the lists return them.
Item    == [id : ContainerIds, ref : Refs, running : BOOLEAN,
            mount : Workspace \cup {None}]
NetItem == [id : NetworkIds, name : NetworkNames]

Plan == [containers : SUBSET Item, networks : SUBSET NetItem,
         workspaces : SUBSET Workspace]

NoPlan == [containers |-> {}, networks |-> {}, workspaces |-> {}]

\* What a backup file holds: the content of a directory, unless writing it failed.
Content == [path : Paths, data : 0..MaxData, whole : BOOLEAN]

\* What is listed, in this order; then what is asked or done.
Listings == <<"services", "environments", "gateways", "networks", "workspaces">>

NukeSteps == {"idle", "services", "environments", "gateways", "networks",
              "workspaces", "prompt", "backup", "next", "stopfind", "stop",
              "rmfind", "rm", "netfind", "netrm", "done"}

Nuking ==
  [pc     : NukeSteps,
   run    : BOOLEAN,                      \* confirmed: this is the second listing
   want   : Choices \cup {None},          \* the choice on the command line
   backup : BOOLEAN,                      \* backups are to be made
   plan   : Plan,
   todo   : Plan,                         \* of the plan, what is still to be removed
   unsaved : SUBSET Workspace,            \* and what is still to be backed up
   item   : Item \cup NetItem \cup {None},
   found  : ContainerIds \cup NetworkIds \cup {None},
   failed : SUBSET Workspace,             \* backupFailed
   saved  : SUBSET (Workspace \X Content),
   errors : SUBSET (Item \cup NetItem \cup Workspace),
   quiet  : BOOLEAN]                      \* nothing else happened since the second listing

NoNuke ==
  [pc |-> "idle", run |-> FALSE, want |-> None, backup |-> FALSE,
   plan |-> NoPlan, todo |-> NoPlan, unsaved |-> {}, item |-> None, found |-> None,
   failed |-> {}, saved |-> {}, errors |-> {}, quiet |-> FALSE]

NukeAt(s)   == nuke.pc = s
NukeGoto(s) == nuke' = [nuke EXCEPT !.pc = s]

\* Done with the item at hand, one way or the other.
NextItem == nuke' = [nuke EXCEPT !.pc = "next", !.item = None, !.found = None]
ErrorThenNext ==
  nuke' = [nuke EXCEPT !.pc = "next", !.item = None, !.found = None,
                       !.errors = @ \cup {nuke.item}]

\* A call that is made while nuke is at step s may fail if its answer is not the
\* one expected, or for a reason of its own.
MayFail(expected) == Faults \/ ~expected

world == <<containers, networks, dirs, cmds>>

-----------------------------------------------------------------------------
(* NukePlan: five lists, one after the other. *)

BeginNuke ==
  /\ NukeAt("idle")
  /\ \E want \in Choices :
       nuke' = [NoNuke EXCEPT !.pc = "services", !.want = want]
  /\ UNCHANGED <<world, archives, clock>>

Managed(kind) ==
  {c \in ContainerIds :
     Live(c) /\ containers[c].managed /\ containers[c].ref.kind = kind}

Items(kind) ==
  {[id |-> c, ref |-> containers[c].ref, running |-> Running(c),
    mount |-> containers[c].mount] : c \in Managed(kind)}

ListContainers(at, kind, next) ==
  /\ NukeAt(at)
  /\ nuke' = [nuke EXCEPT !.pc = next,
                          !.plan.containers = @ \cup Items(kind),
                          !.quiet = @ \/ (at = "services" /\ nuke.run)]
  /\ UNCHANGED <<world, archives, clock>>

ListServices     == ListContainers("services", "service", "environments")

\* Fault: docker ps without --all.
ListRunningEnvironments ==
  /\ NukeAt("environments")
  /\ nuke' = [nuke EXCEPT !.pc = "gateways",
                          !.plan.containers = @ \cup {i \in Items("workbench") : i.running}]
  /\ UNCHANGED <<world, archives, clock>>

ListEnvironments == ListContainers("environments", "workbench", "gateways")
ListVPNGateways  == ListContainers("gateways", "vpn", "networks")

ListNetworks ==
  /\ NukeAt("networks")
  /\ nuke' = [nuke EXCEPT
       !.pc = "workspaces",
       !.plan.networks = {[id |-> n, name |-> networks[n].name] :
                            n \in {m \in NetworkIds : LiveNet(m) /\ networks[m].managed}}]
  /\ UNCHANGED <<world, archives, clock>>

\* Fault: environments without a workspace are not left out.
WithAllRefs(listed) == listed \cup {i.mount : i \in nuke.plan.containers}

\* appendWorkspaceRefs: the workspaces that listed environments have mounted, which
\* may lie outside the root, join those of the root.
WithRefs(listed) ==
  listed \cup {i.mount : i \in {j \in nuke.plan.containers : j.mount # None}}

\* The plan is complete: it is shown, or carried out.
ListWorkspaces ==
  /\ NukeAt("workspaces")
  /\ LET plan == [nuke.plan EXCEPT !.workspaces = WithRefs(Listed)]
     IN  nuke' = [nuke EXCEPT
           !.pc = IF nuke.run THEN "backup" ELSE "prompt",
           !.plan = plan,
           !.todo = IF nuke.run THEN plan ELSE NoPlan,
           !.unsaved = IF nuke.run /\ nuke.backup THEN plan.workspaces ELSE {}]
  /\ UNCHANGED <<world, archives, clock>>

\* A list fails, or the user interrupts: the command ends having removed nothing.
ListFails ==
  /\ nuke.pc \in {"services", "environments", "gateways", "networks", "workspaces"}
  /\ Faults
  /\ nuke' = NoNuke
  /\ UNCHANGED <<world, archives, clock>>

-----------------------------------------------------------------------------
(* cli/nuke.go: what is shown, asked and confirmed between the two plans. *)

\* No workspace listed: no backups, whatever the command line asked for.
BackupChoice(answer) ==
  /\ nuke.plan.workspaces # {}
  /\ IF nuke.want = "ask" THEN answer ELSE nuke.want = "backup"

\* The plan is listed afresh after the confirmation.
Confirm ==
  /\ NukeAt("prompt")
  /\ nuke.plan # NoPlan
  /\ \E answer \in BOOLEAN :
       nuke' = [nuke EXCEPT !.pc = "services", !.run = TRUE, !.plan = NoPlan,
                            !.backup = BackupChoice(answer)]
  /\ UNCHANGED <<world, archives, clock>>

\* Dry run, nothing to remove, not confirmed.
Decline ==
  /\ NukeAt("prompt")
  /\ nuke' = NoNuke
  /\ UNCHANGED <<world, archives, clock>>

-----------------------------------------------------------------------------
(* Backups: every planned workspace, before anything is stopped. *)

Slot(ws) == <<ws.name, clock>>

ContentOf(path) == [path |-> path, data |-> dirs[path].data, whole |-> TRUE]

Backup ==
  /\ NukeAt("backup")
  /\ \E ws \in nuke.unsaved :
       /\ Inspects(ws.name, ws.path)
       /\ archives' = [archives EXCEPT ![Slot(ws)] = ContentOf(ws.path)]
       /\ nuke' = [nuke EXCEPT !.unsaved = @ \ {ws},
                               !.saved = @ \cup {<<ws, ContentOf(ws.path)>>}]
  /\ UNCHANGED <<world, clock>>

\* Fault: the failure is reported but not remembered.
BackupOnlyReported ==
  /\ NukeAt("backup")
  /\ \E ws \in nuke.unsaved :
       /\ MayFail(Inspects(ws.name, ws.path))
       /\ nuke' = [nuke EXCEPT !.unsaved = @ \ {ws}, !.errors = @ \cup {ws}]
  /\ UNCHANGED <<world, archives, clock>>

\* The workspace is not there, or writing fails: then the file that os.Create has
\* emptied is left as it is.
BackupFails ==
  /\ NukeAt("backup")
  /\ \E ws \in nuke.unsaved :
       /\ MayFail(Inspects(ws.name, ws.path))
       /\ archives' \in {archives} \cup
            (IF Inspects(ws.name, ws.path)
               THEN {[archives EXCEPT ![Slot(ws)] = [ContentOf(ws.path) EXCEPT !.whole = FALSE]]}
               ELSE {})
       /\ nuke' = [nuke EXCEPT !.unsaved = @ \ {ws},
                               !.failed = @ \cup {ws},
                               !.errors = @ \cup {ws}]
  /\ UNCHANGED <<world, clock>>

BackupsEnd ==
  /\ NukeAt("backup")
  /\ nuke.unsaved = {}
  /\ NukeGoto("next")
  /\ UNCHANGED <<world, archives, clock>>

-----------------------------------------------------------------------------
(* Containers: services, then environments, then gateways, each stopped if it *)
(* was listed as running, then removed by force.                              *)

\* Fault: environments before their services.
EnvironmentsFirst(i, j) ==
  \/ i.ref.kind = "workbench" /\ j.ref.kind # "workbench"
  \/ i.ref.kind = "service" /\ j.ref.kind = "vpn"

Earlier(i, j) ==
  \/ i.ref.kind = "service" /\ j.ref.kind # "service"
  \/ i.ref.kind = "workbench" /\ j.ref.kind = "vpn"

NextContainer ==
  /\ NukeAt("next")
  /\ \E i \in nuke.todo.containers :
       /\ \A j \in nuke.todo.containers : ~Earlier(j, i)
       /\ nuke' = [nuke EXCEPT !.pc = IF i.running THEN "stopfind" ELSE "rmfind",
                               !.item = i,
                               !.todo.containers = @ \ {i}]
  /\ UNCHANGED <<world, archives, clock>>

\* The container is looked up again by name: what is found may not be what was
\* listed.
NukeFindTo(from, to) ==
  /\ NukeAt(from)
  /\ \E c \in ContainerIds :
       Found(nuke.item.ref, c) /\ nuke' = [nuke EXCEPT !.pc = to, !.found = c]
  /\ UNCHANGED <<world, archives, clock>>

NukeFindToStop == NukeFindTo("stopfind", "stop")
NukeFindToRm   == NukeFindTo("rmfind", "rm")

\* A failed stop is recorded, and removal is tried all the same.
StopFails(at, expected) ==
  /\ NukeAt(at)
  /\ MayFail(expected)
  /\ nuke' = [nuke EXCEPT !.pc = "rmfind", !.found = None,
                          !.errors = @ \cup {nuke.item}]
  /\ UNCHANGED <<world, archives, clock>>

\* Fault: that something is gone already is no error.
ForgetfulRemoveFails(at, expected) ==
  /\ NukeAt(at)
  /\ MayFail(expected)
  /\ NextItem
  /\ UNCHANGED <<world, archives, clock>>

\* Fault: the first failed removal is the last.
GiveUp(at, expected) ==
  /\ NukeAt(at)
  /\ MayFail(expected)
  /\ nuke' = [nuke EXCEPT !.pc = "done", !.item = None, !.found = None,
                          !.errors = @ \cup {nuke.item}]
  /\ UNCHANGED <<world, archives, clock>>

\* Fault: a failed removal is tried again until it succeeds.
RetryRemove(at, expected) ==
  /\ NukeAt(at)
  /\ MayFail(expected)
  /\ nuke' = [nuke EXCEPT !.pc = IF nuke.item \in NetItem THEN "netfind" ELSE "rmfind",
                          !.errors = @ \cup {nuke.item}]
  /\ UNCHANGED <<world, archives, clock>>

\* A failed removal is recorded, and the next one is tried.
RemoveFails(at, expected) ==
  /\ NukeAt(at)
  /\ MayFail(expected)
  /\ ErrorThenNext
  /\ UNCHANGED <<world, archives, clock>>

IsFound(ref) == \E c \in ContainerIds : Found(ref, c)

NukeFindFails ==
  \/ StopFails("stopfind", IsFound(nuke.item.ref))
  \/ RemoveFails("rmfind", IsFound(nuke.item.ref))

NukeStop ==
  /\ NukeAt("stop")
  /\ ContainerStop(nuke.found)
  /\ nuke' = [nuke EXCEPT !.pc = "rmfind", !.found = None]
  /\ UNCHANGED <<dirs, cmds, archives, clock>>

NukeStopFails == StopFails("stop", Live(nuke.found))

NukeRemove ==
  /\ NukeAt("rm")
  /\ ContainerRemove(nuke.found, TRUE)
  /\ NextItem
  /\ UNCHANGED <<dirs, cmds, archives, clock>>

NukeRemoveFails == RemoveFails("rm", Live(nuke.found))

-----------------------------------------------------------------------------
(* Networks, then workspaces. *)

\* Fault: networks are removed first.
NetworkAtOnce ==
  /\ NukeAt("next")
  /\ \E i \in nuke.todo.networks :
       nuke' = [nuke EXCEPT !.pc = "netfind", !.item = i, !.todo.networks = @ \ {i}]
  /\ UNCHANGED <<world, archives, clock>>

NextNetwork ==
  /\ NukeAt("next")
  /\ nuke.todo.containers = {}
  /\ \E i \in nuke.todo.networks :
       nuke' = [nuke EXCEPT !.pc = "netfind", !.item = i, !.todo.networks = @ \ {i}]
  /\ UNCHANGED <<world, archives, clock>>

\* Fault: the labels of the network are not looked at again.
FindAnyNetwork ==
  /\ NukeAt("netfind")
  /\ \E n \in NetworksNamed(nuke.item.name) :
       nuke' = [nuke EXCEPT !.pc = "netrm", !.found = n]
  /\ UNCHANGED <<world, archives, clock>>

\* RemoveNetwork inspects by name and refuses a network without the labels.
NukeFindNetwork ==
  /\ NukeAt("netfind")
  /\ \E n \in NetworksNamed(nuke.item.name) :
       networks[n].managed /\ nuke' = [nuke EXCEPT !.pc = "netrm", !.found = n]
  /\ UNCHANGED <<world, archives, clock>>

NukeFindNetworkFails ==
  RemoveFails("netfind", \E n \in NetworksNamed(nuke.item.name) : networks[n].managed)

NukeRemoveNetwork ==
  /\ NukeAt("netrm")
  /\ NetworkRemove(nuke.found)
  /\ NextItem
  /\ UNCHANGED <<dirs, cmds, archives, clock>>

NukeRemoveNetworkFails == RemoveFails("netrm", CanRemoveNetwork(nuke.found))

\* A workspace whose backup failed is kept.
ContainersAndNetworksDone ==
  NukeAt("next") /\ nuke.todo.containers = {} /\ nuke.todo.networks = {}

SkipUnsaved ==
  /\ ContainersAndNetworksDone
  /\ \E ws \in nuke.todo.workspaces \cap nuke.failed :
       nuke' = [nuke EXCEPT !.todo.workspaces = @ \ {ws}]
  /\ UNCHANGED <<world, archives, clock>>

NukeRemoveWorkspace ==
  /\ ContainersAndNetworksDone
  /\ \E ws \in nuke.todo.workspaces \ nuke.failed :
       /\ RemoveWorkspace(ws.name, ws.path)
       /\ nuke' = [nuke EXCEPT !.todo.workspaces = @ \ {ws}]
  /\ UNCHANGED <<daemon, cmds, archives, clock>>

NukeRemoveWorkspaceFails ==
  /\ ContainersAndNetworksDone
  /\ \E ws \in nuke.todo.workspaces \ nuke.failed :
       /\ MayFail(Inspects(ws.name, ws.path))
       /\ nuke' = [nuke EXCEPT !.todo.workspaces = @ \ {ws},
                               !.errors = @ \cup {ws}]
  /\ UNCHANGED <<world, archives, clock>>

NukeEnds ==
  /\ ContainersAndNetworksDone
  /\ nuke.todo.workspaces = {}
  /\ NukeGoto("done")
  /\ UNCHANGED <<world, archives, clock>>

-----------------------------------------------------------------------------
(* The rest of the world, and the specification. *)

\* Only the seconds that pass while backups are made tell files apart.
Tick ==
  /\ NukeAt("backup")
  /\ clock < MaxClock
  /\ clock' = clock + 1
  /\ UNCHANGED <<world, nuke, archives>>

\* The user removes a network with docker, for which contaigen has no command.
DockerNetworkRemove(n) ==
  /\ networks[n].managed
  /\ NetworkRemove(n)
  /\ UNCHANGED <<dirs, cmds>>

\* Whatever else happens, nuke has company.
Others ==
  /\ Next \/ \E n \in NetworkIds : DockerNetworkRemove(n)
  /\ nuke' = [nuke EXCEPT !.quiet = FALSE]
  /\ UNCHANGED <<archives, clock>>

NukeInit ==
  /\ Init
  /\ nuke = NoNuke
  /\ archives = [slot \in WorkspaceNames \X (0..MaxClock) |-> None]
  /\ clock = 0

Listing == ListServices \/ ListEnvironments \/ ListVPNGateways \/ ListNetworks
             \/ ListWorkspaces \/ ListFails

Carrying ==
  \/ Backup \/ BackupFails \/ BackupsEnd
  \/ NextContainer \/ NukeFindToStop \/ NukeFindToRm \/ NukeFindFails
  \/ NukeStop \/ NukeStopFails \/ NukeRemove \/ NukeRemoveFails
  \/ NextNetwork \/ NukeFindNetwork \/ NukeFindNetworkFails
  \/ NukeRemoveNetwork \/ NukeRemoveNetworkFails
  \/ SkipUnsaved \/ NukeRemoveWorkspace \/ NukeRemoveWorkspaceFails
  \/ NukeEnds

NukeStep == BeginNuke \/ Listing \/ Confirm \/ Decline \/ Carrying

NukeNext == NukeStep \/ Others \/ Tick

NukeSpec == NukeInit /\ [][NukeNext]_vars

\* Every call to Docker and to the file system returns, with an answer or an
\* error, so nuke goes on once it is carried out.  Nothing makes a user answer.
FairNukeSpec == NukeSpec /\ WF_vars(Listing) /\ WF_vars(Carrying)

-----------------------------------------------------------------------------
(* What nuke promises. *)

\* Every variable holds a value of its kind.
NukeTypeOK ==
  /\ TypeOK
  /\ nuke \in Nuking
  /\ archives \in [WorkspaceNames \X (0..MaxClock) -> Content \cup {None}]
  /\ clock \in 0..MaxClock

\* "Contaigen only removes resources labeled and managed by Contaigen"
\* (README.md:184): what nuke stops or removes is managed, though it acts on what a
\* name meant at the time of a lookup and not on what was listed.
NukeTouchesManagedOnly ==
  [][nuke'.pc # nuke.pc =>
       /\ \A c \in ContainerIds :
            Live(c) /\ containers'[c] # containers[c] => containers[c].managed
       /\ \A n \in NetworkIds :
            LiveNet(n) /\ networks'[n] # networks[n] => networks[n].managed]_vars

\* "never delete a workspace whose backup failed" (engine.go:585): once backups were
\* chosen, a directory that nuke removes is that of a workspace it has backed up.
RemovedWasBackedUp ==
  [][nuke.backup /\ nuke'.todo # nuke.todo =>
       \A path \in Paths :
         dirs[path].exists /\ ~dirs'[path].exists =>
           \E copy \in nuke.saved : copy[1].path = path]_vars

\* What was planned is gone, or nuke has said that it could not stop or remove it.
ContainerSettled(i) == Live(i.id) => i \in nuke.errors
NetworkSettled(i)   == LiveNet(i.id) => i \in nuke.errors

\* When nuke ends, every container and network of its plan is gone or its failure is
\* reported (engine.go:528), whatever was started, removed or created again meanwhile:
\* no failure hides another, and none keeps the rest from being tried.
RemovedOrReported ==
  NukeAt("done") =>
    /\ \A i \in nuke.plan.containers : ContainerSettled(i)
    /\ \A i \in nuke.plan.networks : NetworkSettled(i)

\* A service runs beside its environment, and both may share the network of a gateway.
MayUse(i, j) ==
  <<i.ref.kind, j.ref.kind>> \in
    {<<"service", "workbench">>, <<"service", "vpn">>, <<"workbench", "vpn">>}

\* Nuke turns to a container when what may use it has been settled, to a network when
\* nothing is left that may run on it (engine.go:574), and to a workspace when nothing
\* is left that may have it mounted (engine.go:583), whoever interferes.
RemovedInOrder ==
  /\ nuke.pc \in {"stopfind", "stop", "rmfind", "rm"} =>
       \A i \in nuke.plan.containers : MayUse(i, nuke.item) => ContainerSettled(i)
  /\ nuke.pc \in {"netfind", "netrm"} =>
       \A i \in nuke.plan.containers : ContainerSettled(i)
  /\ nuke.pc \in {"next", "done"} /\ nuke.todo.workspaces # nuke.plan.workspaces =>
       /\ \A i \in nuke.plan.containers : ContainerSettled(i)
       /\ \A i \in nuke.plan.networks : NetworkSettled(i)

\* A nuke that ran alone leaves nothing managed, and no workspace in the root, but what
\* it has reported a failure of: its five lists cover everything.
OnlyReportedStays ==
  NukeAt("done") /\ nuke.quiet =>
    /\ \A c \in ContainerIds : Live(c) /\ containers[c].managed =>
         \E i \in nuke.plan.containers \cap nuke.errors : i.id = c
    /\ \A n \in NetworkIds : LiveNet(n) /\ networks[n].managed =>
         \E i \in nuke.plan.networks \cap nuke.errors : i.id = n
    /\ Listed \subseteq nuke.errors

\* Carrying out a plan comes to an end, though other commands may go on creating
\* and removing what it is about.
NukeTerminates == NukeAt("backup") ~> NukeAt("done")

\* "Back up workspaces before removing them" (cli/nuke.go:120): what a nuke reports
\* as backed up is in the backup directory when the command ends.
ArchivesKept ==
  NukeAt("done") =>
    \A copy \in nuke.saved : \E slot \in DOMAIN archives : archives[slot] = copy[2]

=============================================================================
