----------------------------- MODULE NukeProofs -----------------------------
(***************************************************************************)
(* Proofs about Nuke, for any number of terminals, containers, networks    *)
(* and workspaces, beside any commands, and whatever calls fail.           *)
(*                                                                         *)
(* Nuke acts on what it listed some calls ago, by what a name means now.   *)
(* The invariant says what its plan and its lookups are still worth then.  *)
(***************************************************************************)
EXTENDS Nuke, CommandsProofs

OnContainer == {"stopfind", "stop", "rmfind", "rm"}
OnNetwork   == {"netfind", "netrm"}
Carried     == {"backup", "next", "done"} \cup OnContainer \cup OnNetwork

-----------------------------------------------------------------------------
(* The invariant. *)

\* A managed container has a ref; live networks have names of their own.
ManagedHaveRefs ==
  \A c \in ContainerIds : Live(c) /\ containers[c].managed => containers[c].ref \in Refs

NetworksHaveNames ==
  /\ \A n \in NetworkIds : LiveNet(n) => networks[n].name \in NetworkNames
  /\ \A m, n \in NetworkIds :
       LiveNet(m) /\ LiveNet(n) /\ networks[m].name = networks[n].name => m = n

IWorld == IType /\ ManagedHaveRefs /\ NetworksHaveNames

\* Nuke has the item at hand that its step is about, one of the plan.
ItemAtHand ==
  /\ nuke.pc \in OnContainer => nuke.item \in nuke.plan.containers
  /\ nuke.pc \in OnNetwork => nuke.item \in nuke.plan.networks
  /\ nuke.pc \notin OnContainer \cup OnNetwork => nuke.item = None
  /\ nuke.pc \in {"stop", "rm"} => nuke.found \in ContainerIds
  /\ nuke.pc = "netrm" => nuke.found \in NetworkIds

\* What is to be done is of the plan; what has failed has been reported.
TodoOfPlan ==
  /\ nuke.todo.containers \subseteq nuke.plan.containers
  /\ nuke.todo.networks \subseteq nuke.plan.networks
  /\ nuke.failed \subseteq nuke.errors
  /\ nuke.pc \notin Carried \ {"done"} => nuke.todo = NoPlan

INuke ==
  /\ nuke \in Nuking
  /\ archives \in [WorkspaceNames \X (0..MaxClock) -> Content \cup {None}]
  /\ clock \in 0..MaxClock
  /\ ItemAtHand /\ TodoOfPlan

\* What was listed is still what it was, or is gone for good.
ListedContainer(i) ==
  /\ containers[i.id].state # "unused"
  /\ Live(i.id) => containers[i.id].managed /\ containers[i.id].ref = i.ref

ListedNetwork(i) ==
  /\ networks[i.id].state # "unused"
  /\ LiveNet(i.id) => networks[i.id].managed /\ networks[i.id].name = i.name

IPlan ==
  /\ \A i \in nuke.plan.containers : ListedContainer(i)
  /\ \A i \in nuke.plan.networks : ListedNetwork(i)

\* What was found under the name of the item is managed, and is the item unless that
\* is gone.
FoundContainer ==
  nuke.pc \in {"stop", "rm"} =>
    /\ containers[nuke.found].state # "unused"
    /\ Live(nuke.found) => containers[nuke.found].managed
    /\ nuke.found = nuke.item.id \/ ~Live(nuke.item.id)

FoundNetwork ==
  nuke.pc = "netrm" =>
    /\ networks[nuke.found].state # "unused"
    /\ LiveNet(nuke.found) => networks[nuke.found].managed
    /\ nuke.found = nuke.item.id \/ ~LiveNet(nuke.item.id)

IFinds == FoundContainer /\ FoundNetwork

\* What is neither to be removed nor at hand has gone, or its failure was reported.
IRemoved ==
  nuke.pc \in Carried =>
    /\ \A i \in nuke.plan.containers :
         \/ i \in nuke.todo.containers
         \/ nuke.pc \in OnContainer /\ i = nuke.item
         \/ ContainerSettled(i)
    /\ \A i \in nuke.plan.networks :
         \/ i \in nuke.todo.networks
         \/ nuke.pc \in OnNetwork /\ i = nuke.item
         \/ NetworkSettled(i)

\* What is at hand is taken after what may use it.
IOrder ==
  /\ nuke.pc \in OnContainer => \A i \in nuke.todo.containers : ~Earlier(i, nuke.item)
  /\ nuke.pc \in OnNetwork => nuke.todo.containers = {}
  /\ nuke.pc \in Carried /\ nuke.todo.workspaces # nuke.plan.workspaces =>
       /\ nuke.todo.containers = {} /\ nuke.todo.networks = {}
       /\ nuke.pc \in {"next", "done"}

\* Once backups were chosen, a workspace that may be removed has been backed up.
ISaved ==
  /\ nuke.pc \in Carried \ {"backup"} => nuke.unsaved = {}
  /\ nuke.pc \in Carried /\ nuke.backup =>
       \A ws \in nuke.todo.workspaces :
         ws \in nuke.unsaved \/ ws \in nuke.failed \/ \E copy \in nuke.saved : copy[1] = ws

\* While nobody else acts, what is managed is what has been listed.
Covered(kind) == \A c \in Managed(kind) : \E i \in nuke.plan.containers : i.id = c

IQuiet ==
  /\ nuke.pc = "prompt" => ~nuke.run
  /\ nuke.quiet =>
       /\ nuke.run
       /\ nuke.pc \notin {"idle", "services"}
       /\ Covered("service")
       /\ nuke.pc # "environments" => Covered("workbench")
       /\ nuke.pc \notin {"environments", "gateways"} => Covered("vpn")
       /\ nuke.pc \notin {"environments", "gateways", "networks"} =>
            \A n \in NetworkIds :
              LiveNet(n) /\ networks[n].managed => \E i \in nuke.plan.networks : i.id = n
       /\ nuke.pc \in Carried => Listed \subseteq nuke.todo.workspaces \cup nuke.errors

INukeKnown == IWorld /\ INuke /\ IPlan /\ IFinds /\ IRemoved /\ IOrder /\ ISaved /\ IQuiet

-----------------------------------------------------------------------------
(* What a step does to the world. *)

\* The steps of nuke that call Docker or the file system to change something.
Touching ==
  NukeStop \/ NukeRemove \/ NukeRemoveNetwork \/ NukeRemoveWorkspace

\* The other steps of nuke only look.
LEMMA OnlyLooking ==
  ASSUME NukeStep, ~Touching
  PROVE  UNCHANGED world
BY DEF Touching, NukeStep, BeginNuke, Listing, ListServices, ListEnvironments, ListVPNGateways,
       ListContainers, ListNetworks, ListWorkspaces, ListFails, Confirm, Decline, Carrying,
       Backup, BackupFails, BackupsEnd, NextContainer, NukeFindToStop, NukeFindToRm, NukeFindTo,
       NukeFindFails, NukeStopFails, StopFails, NukeRemoveFails, RemoveFails, NextNetwork,
       NukeFindNetwork, NukeFindNetworkFails, NukeRemoveNetworkFails, SkipUnsaved,
       NukeRemoveWorkspaceFails, NukeEnds

\* Each step makes at most one call that changes a container, and at most one that
\* changes a network.
LEMMA WorldSteps ==
  ASSUME IWorld, INuke, [NukeNext]_vars
  PROVE  /\ UNCHANGED containers \/ ContainerStep
         /\ UNCHANGED networks \/ NetworkChange
<1>1. CASE Next
  BY <1>1, NextContainers, NextNetworks DEF IWorld
<1>2. ASSUME NEW n \in NetworkIds, DockerNetworkRemove(n)
      PROVE  UNCHANGED containers /\ NetworkChange
  BY <1>2 DEF DockerNetworkRemove, NetworkRemove, NetworkChange
<1>3. CASE NukeStop \/ NukeRemove
  <2>1. nuke.found \in ContainerIds
    BY <1>3 DEF NukeStop, NukeRemove, NukeAt, INuke, ItemAtHand
  <2>. QED
    BY <1>3, <2>1 DEF NukeStop, NukeRemove, ContainerStop, ContainerRemove, ContainerStep
<1>4. CASE NukeRemoveNetwork
  <2>1. nuke.found \in NetworkIds
    BY <1>4 DEF NukeRemoveNetwork, NukeAt, INuke, ItemAtHand
  <2>. QED
    BY <1>4, <2>1 DEF NukeRemoveNetwork, NetworkRemove, NetworkChange
<1>5. CASE NukeRemoveWorkspace
  BY <1>5 DEF NukeRemoveWorkspace, daemon
<1>6. ASSUME UNCHANGED world
      PROVE  UNCHANGED <<containers, networks>>
  BY <1>6 DEF world
<1>. QED
  BY <1>1, <1>2, <1>3, <1>4, <1>5, <1>6, OnlyLooking
     DEF NukeNext, Others, Tick, Touching, vars, world

\* A network keeps its name and label for as long as it is there, and one that is
\* gone stays gone.
LEMMA NetworkLife ==
  ASSUME DaemonTypeOK, UNCHANGED networks \/ NetworkChange, NEW n \in NetworkIds,
         networks[n].state # "unused"
  PROVE  /\ networks'[n].state # "unused"
         /\ LiveNet(n)' => LiveNet(n) /\ networks'[n] = networks[n]
BY DEF DaemonTypeOK, NetworkChange, NetworkCreate, NetworkRemove, NoNetwork, LiveNet

\* A container that was not there before the step is a proper newcomer.
LEMMA Newcomers ==
  ASSUME DaemonTypeOK, UNCHANGED containers \/ ContainerStep, NEW c \in ContainerIds,
         containers[c].state = "unused", Live(c)'
  PROVE  NewcomerOK(containers'[c])
BY DEF DaemonTypeOK, ContainerStep, ContainerCreate, ContainerStart, ContainerStop,
       ContainerRemove, NoContainer, Live

\* Refs and network names stay those of containers and networks of Contaigen's.
LEMMA NamesAfter ==
  ASSUME IWorld, UNCHANGED containers \/ ContainerStep, UNCHANGED networks \/ NetworkChange
  PROVE  ManagedHaveRefs' /\ NetworksHaveNames'
<1>1. DaemonTypeOK
  BY DEF IWorld, IType, TypeOK
<1>2. ASSUME NEW c \in ContainerIds, Live(c)', containers'[c].managed
      PROVE  containers'[c].ref \in Refs
  BY <1>1, <1>2, ContainerLife, Newcomers DEF IWorld, ManagedHaveRefs, NewcomerOK
<1>3. NetworksHaveNames'
  <2>1. CASE UNCHANGED networks
    BY <2>1 DEF IWorld, NetworksHaveNames, LiveNet
  <2>2. ASSUME NEW n \in NetworkIds, NetworkRemove(n)
        PROVE  NetworksHaveNames'
    BY <1>1, <2>2 DEF IWorld, NetworksHaveNames, NetworkRemove, NoNetwork, LiveNet, DaemonTypeOK
  <2>3. ASSUME NEW n \in NetworkIds, NEW name \in NetworkNames, NEW managed \in BOOLEAN,
               NetworkCreate(n, name, managed)
        PROVE  NetworksHaveNames'
    <3>1. /\ networks'[n] = [state |-> "live", name |-> name, managed |-> managed]
          /\ \A m \in NetworkIds : m # n => networks'[m] = networks[m]
          /\ \A m \in NetworkIds : LiveNet(m) => networks[m].name # name
      BY <1>1, <2>3 DEF NetworkCreate, NetworksNamed, DaemonTypeOK
    <3>. QED
      BY <3>1 DEF IWorld, NetworksHaveNames, LiveNet
  <2>. QED
    BY <2>1, <2>2, <2>3 DEF NetworkChange
<1>. QED
  BY <1>2, <1>3 DEF ManagedHaveRefs, Live

\* Every step keeps what the commands know, and the world in order.
LEMMA WorldKept ==
  ASSUME IWorld, INuke, [NukeNext]_vars
  PROVE  IWorld'
<1>1. CASE Next
  <2>1. IType'
    BY <1>1, NextIType DEF IWorld
  <2>. QED
    BY <2>1, WorldSteps, NamesAfter DEF IWorld
<1>2. CASE ~Next
  <2>1. cmds' = cmds
    BY <1>2, OnlyLooking
       DEF NukeNext, Others, DockerNetworkRemove, Tick, Touching, vars, world, NukeStop,
           NukeRemove, NukeRemoveNetwork, NukeRemoveWorkspace
  <2>2. DirsTypeOK'
    <3>1. CASE NukeRemoveWorkspace
      <4>1. PICK ws : dirs' = [dirs EXCEPT ![ws.path] = NoDir]
        BY <3>1 DEF NukeRemoveWorkspace, RemoveWorkspace
      <4>2. NoDir \in Dir
        BY MaxDataType DEF NoDir, Dir
      <4>. QED
        BY <4>1, <4>2 DEF IWorld, IType, TypeOK, DirsTypeOK
    <3>2. CASE ~NukeRemoveWorkspace
      <4>1. dirs' = dirs
        BY <1>2, <3>2, OnlyLooking
           DEF NukeNext, Others, DockerNetworkRemove, Tick, Touching, vars, world,
               NukeStop, NukeRemove, NukeRemoveNetwork
      <4>. QED
        BY <4>1 DEF IWorld, IType, TypeOK, DirsTypeOK
    <3>. QED
      BY <3>1, <3>2
  <2>3. CommandsTypeOK' /\ CommandsProper'
    BY <2>1 DEF IWorld, IType, TypeOK, CommandsTypeOK, CommandsProper
  <2>4. DaemonTypeOK' /\ EnvironmentsLabelled'
    BY WorldSteps, ContainersTyped, NetworksTyped DEF IWorld, IType, TypeOK, DaemonTypeOK
  <2>. QED
    BY <2>2, <2>3, <2>4, WorldSteps, NamesAfter DEF IWorld, IType, TypeOK
<1>. QED
  BY <1>1, <1>2

-----------------------------------------------------------------------------
(* What nuke knows keeps to its type. *)

\* What is listed is a set of items, of those that are managed now.
LEMMA ItemsTyped ==
  ASSUME IWorld, NEW kind
  PROVE  Items(kind) \subseteq Item
<1>1. ASSUME NEW c \in Managed(kind)
      PROVE  /\ c \in ContainerIds /\ containers[c].ref \in Refs
             /\ Running(c) \in BOOLEAN
             /\ containers[c].mount \in Workspace \cup {None}
  BY DEF IWorld, IType, TypeOK, DaemonTypeOK, ManagedHaveRefs, Managed, Running, Container
<1>. HIDE DEF Running
<1>. QED
  BY <1>1 DEF Items, Item

\* The same of networks.
LEMMA NetItemsTyped ==
  ASSUME IWorld
  PROVE  {[id |-> n, name |-> networks[n].name] :
            n \in {m \in NetworkIds : LiveNet(m) /\ networks[m].managed}} \subseteq NetItem
BY DEF IWorld, NetworksHaveNames, NetItem

\* The workspaces of a plan: those of the root, and those that are mounted.
LEMMA WorkspacesTyped ==
  ASSUME INuke
  PROVE  WithRefs(Listed) \subseteq Workspace
<1>1. Listed \subseteq Workspace
  BY DefaultPathType DEF Listed, Workspace
<1>2. nuke.plan.containers \subseteq Item
  BY DEF INuke, Nuking, Plan
<1>3. \A i \in Item : i.mount \in Workspace \cup {None}
  BY DEF Item
<1>. QED
  BY <1>1, <1>2, <1>3 DEF WithRefs

\* The listing steps.
LEMMA ListingTyped ==
  ASSUME IWorld, INuke, BeginNuke \/ Listing \/ Confirm \/ Decline
  PROVE  nuke' \in Nuking
<1>1. NoNuke \in Nuking
  BY DEF NoNuke, Nuking, NoPlan, Plan, NukeSteps
<1>2. ASSUME NEW at \in NukeSteps, NEW kind, NEW next \in NukeSteps, ListContainers(at, kind, next)
      PROVE  nuke' \in Nuking
  <2> DEFINE plan == [nuke.plan EXCEPT !.containers = @ \cup Items(kind)]
             quiet == nuke.quiet \/ (at = "services" /\ nuke.run)
  <2>1. plan \in Plan
    BY ItemsTyped DEF INuke, Nuking, Plan
  <2>2. quiet \in BOOLEAN
    BY DEF INuke, Nuking
  <2>3. nuke' = [nuke EXCEPT !.pc = next, !.plan = plan, !.quiet = quiet]
    BY <1>2 DEF ListContainers
  <2>. HIDE DEF plan, quiet
  <2>. QED
    BY <2>1, <2>2, <2>3 DEF INuke, Nuking
<1>3. CASE ListNetworks
  <2> DEFINE found == {[id |-> n, name |-> networks[n].name] :
                         n \in {m \in NetworkIds : LiveNet(m) /\ networks[m].managed}}
             plan == [nuke.plan EXCEPT !.networks = found]
  <2>1. plan \in Plan
    BY NetItemsTyped DEF INuke, Nuking, Plan
  <2>2. nuke' = [nuke EXCEPT !.pc = "workspaces", !.plan = plan]
    BY <1>3 DEF ListNetworks
  <2>. HIDE DEF plan
  <2>. QED
    BY <2>1, <2>2 DEF INuke, Nuking, NukeSteps
<1>4. CASE ListWorkspaces
  <2> DEFINE plan == [nuke.plan EXCEPT !.workspaces = WithRefs(Listed)]
             pc == IF nuke.run THEN "backup" ELSE "prompt"
             todo == IF nuke.run THEN plan ELSE NoPlan
             unsaved == IF nuke.run /\ nuke.backup THEN plan.workspaces ELSE {}
  <2>1. plan \in Plan /\ NoPlan \in Plan
    BY WorkspacesTyped DEF INuke, Nuking, Plan, NoPlan
  <2>2. pc \in NukeSteps /\ todo \in Plan /\ unsaved \in SUBSET Workspace
    BY <2>1 DEF NukeSteps, Plan
  <2>3. nuke' = [nuke EXCEPT !.pc = pc, !.plan = plan, !.todo = todo, !.unsaved = unsaved]
    BY <1>4 DEF ListWorkspaces
  <2>. HIDE DEF plan, pc, todo, unsaved
  <2>. QED
    BY <2>1, <2>2, <2>3 DEF INuke, Nuking
<1>5. CASE BeginNuke
  <2>1. PICK want \in Choices : nuke' = [NoNuke EXCEPT !.pc = "services", !.want = want]
    BY <1>5 DEF BeginNuke
  <2>. QED
    BY <1>1, <2>1 DEF Nuking, NukeSteps
<1>6. CASE Confirm
  <2>1. PICK answer \in BOOLEAN :
          nuke' = [nuke EXCEPT !.pc = "services", !.run = TRUE, !.plan = NoPlan,
                               !.backup = BackupChoice(answer)]
    BY <1>6 DEF Confirm
  <2>2. BackupChoice(answer) \in BOOLEAN
    BY DEF BackupChoice
  <2>3. NoPlan \in Plan
    BY DEF NoPlan, Plan
  <2>. QED
    BY <2>1, <2>2, <2>3 DEF INuke, Nuking, NukeSteps
<1>. QED
  BY <1>1, <1>2, <1>3, <1>4, <1>5, <1>6
     DEF Listing, ListServices, ListEnvironments, ListVPNGateways, ListFails, Decline, NukeSteps

\* The steps that carry the plan out.
LEMMA CarryingTyped ==
  ASSUME IWorld, INuke, Carrying
  PROVE  nuke' \in Nuking
<1> USE DEF INuke
<1>0. nuke \in Nuking /\ nuke.todo \in Plan
  BY DEF Nuking
<1>1. CASE Backup
  <2>1. PICK ws \in nuke.unsaved :
          /\ Inspects(ws.name, ws.path)
          /\ nuke' = [nuke EXCEPT !.unsaved = @ \ {ws},
                                  !.saved = @ \cup {<<ws, ContentOf(ws.path)>>}]
    BY <1>1 DEF Backup
  <2>2. ws \in Workspace /\ ws.path \in Paths
    BY <2>1 DEF Nuking, Workspace
  <2>3. ContentOf(ws.path) \in Content
    BY <2>2 DEF ContentOf, Content, IWorld, IType, TypeOK, DirsTypeOK, Dir
  <2> DEFINE copy == <<ws, ContentOf(ws.path)>>
  <2>4. copy \in Workspace \X Content
    BY <2>2, <2>3
  <2> DEFINE saved == nuke.saved \cup {copy}
             unsaved == nuke.unsaved \ {ws}
  <2>5. saved \in SUBSET (Workspace \X Content) /\ unsaved \in SUBSET Workspace
    BY <2>4 DEF Nuking
  <2>6. nuke' = [nuke EXCEPT !.unsaved = unsaved, !.saved = saved]
    BY <2>1
  <2>. HIDE DEF saved, unsaved
  <2>. QED
    BY <2>5, <2>6 DEF Nuking
<1>2. CASE BackupFails
  <2>1. PICK ws \in nuke.unsaved :
          nuke' = [nuke EXCEPT !.unsaved = @ \ {ws}, !.failed = @ \cup {ws},
                               !.errors = @ \cup {ws}]
    BY <1>2 DEF BackupFails
  <2>. QED
    BY <2>1 DEF Nuking
<1>3. CASE BackupsEnd \/ NukeEnds
  BY <1>3 DEF BackupsEnd, NukeEnds, NukeGoto, Nuking, NukeSteps
<1>4. CASE NextContainer
  <2>1. PICK i \in nuke.todo.containers :
          nuke' = [nuke EXCEPT !.pc = IF i.running THEN "stopfind" ELSE "rmfind",
                               !.item = i, !.todo.containers = @ \ {i}]
    BY <1>4 DEF NextContainer
  <2> DEFINE todo == [nuke.todo EXCEPT !.containers = @ \ {i}]
             pc == IF i.running THEN "stopfind" ELSE "rmfind"
  <2>2. todo \in Plan /\ i \in Item
    BY <1>0 DEF Plan
  <2>3. nuke' = [nuke EXCEPT !.pc = pc, !.item = i, !.todo = todo]
    BY <2>1
  <2>4. pc \in NukeSteps
    BY DEF NukeSteps
  <2>. HIDE DEF todo, pc
  <2>. QED
    BY <2>2, <2>3, <2>4 DEF Nuking
<1>5. CASE NextNetwork
  <2>1. PICK i \in nuke.todo.networks :
          nuke' = [nuke EXCEPT !.pc = "netfind", !.item = i, !.todo.networks = @ \ {i}]
    BY <1>5 DEF NextNetwork
  <2> DEFINE todo == [nuke.todo EXCEPT !.networks = @ \ {i}]
  <2>2. todo \in Plan /\ i \in NetItem
    BY <1>0 DEF Plan
  <2>3. nuke' = [nuke EXCEPT !.pc = "netfind", !.item = i, !.todo = todo]
    BY <2>1
  <2>. HIDE DEF todo
  <2>. QED
    BY <2>2, <2>3 DEF Nuking, NukeSteps
<1>6. CASE NukeFindToStop \/ NukeFindToRm
  <2>1. PICK c \in ContainerIds, s \in {"stop", "rm"} : nuke' = [nuke EXCEPT !.pc = s, !.found = c]
    BY <1>6 DEF NukeFindToStop, NukeFindToRm, NukeFindTo
  <2>. QED
    BY <2>1 DEF Nuking, NukeSteps
<1>7. CASE NukeFindNetwork
  <2>1. PICK m \in NetworkIds : nuke' = [nuke EXCEPT !.pc = "netrm", !.found = m]
    BY <1>7 DEF NukeFindNetwork, NetworksNamed
  <2>. QED
    BY <2>1 DEF Nuking, NukeSteps
<1>8. ASSUME nuke.pc \in OnContainer \cup OnNetwork
      PROVE  nuke.item \in Item \cup NetItem
  BY <1>8 DEF ItemAtHand, Nuking, Plan
<1>9. CASE NukeFindFails \/ NukeStopFails \/ NukeRemoveFails \/ NukeFindNetworkFails
           \/ NukeRemoveNetworkFails
  <2>1. /\ nuke.pc \in OnContainer \cup OnNetwork
        /\ \/ nuke' = [nuke EXCEPT !.pc = "rmfind", !.found = None,
                                   !.errors = @ \cup {nuke.item}]
           \/ nuke' = [nuke EXCEPT !.pc = "next", !.item = None, !.found = None,
                                   !.errors = @ \cup {nuke.item}]
    BY <1>9 DEF NukeFindFails, NukeStopFails, NukeRemoveFails, NukeFindNetworkFails,
         NukeRemoveNetworkFails, StopFails, RemoveFails, ErrorThenNext, NukeAt,
         OnContainer, OnNetwork
  <2> DEFINE errors == nuke.errors \cup {nuke.item}
  <2>2. errors \in SUBSET (Item \cup NetItem \cup Workspace)
    BY <1>8, <2>1 DEF Nuking
  <2>. HIDE DEF errors
  <2>3. CASE nuke' = [nuke EXCEPT !.pc = "rmfind", !.found = None, !.errors = errors]
    BY <2>2, <2>3 DEF Nuking, NukeSteps
  <2>4. CASE nuke' = [nuke EXCEPT !.pc = "next", !.item = None, !.found = None,
                                  !.errors = errors]
    BY <2>2, <2>4 DEF Nuking, NukeSteps
  <2>. QED
    BY <2>1, <2>3, <2>4 DEF errors
<1>10. CASE NukeStop \/ NukeRemove \/ NukeRemoveNetwork
  <2>1. \/ nuke' = [nuke EXCEPT !.pc = "rmfind", !.found = None]
        \/ nuke' = [nuke EXCEPT !.pc = "next", !.item = None, !.found = None]
    BY <1>10 DEF NukeStop, NukeRemove, NukeRemoveNetwork, NextItem
  <2>2. CASE nuke' = [nuke EXCEPT !.pc = "rmfind", !.found = None]
    BY <2>2 DEF Nuking, NukeSteps
  <2>3. CASE nuke' = [nuke EXCEPT !.pc = "next", !.item = None, !.found = None]
    BY <2>3 DEF Nuking, NukeSteps
  <2>. QED
    BY <2>1, <2>2, <2>3
<1>11. ASSUME NEW ws \in nuke.todo.workspaces,
              \/ nuke' = [nuke EXCEPT !.todo.workspaces = @ \ {ws}]
              \/ nuke' = [nuke EXCEPT !.todo.workspaces = @ \ {ws}, !.errors = @ \cup {ws}]
       PROVE  nuke' \in Nuking
  <2> DEFINE todo == [nuke.todo EXCEPT !.workspaces = @ \ {ws}]
  <2>1. todo \in Plan /\ ws \in Workspace
    BY <1>0 DEF Plan
  <2> DEFINE errors == nuke.errors \cup {ws}
  <2>2. errors \in SUBSET (Item \cup NetItem \cup Workspace)
    BY <2>1 DEF Nuking
  <2>3. \/ nuke' = [nuke EXCEPT !.todo = todo]
        \/ nuke' = [nuke EXCEPT !.todo = todo, !.errors = errors]
    BY <1>11
  <2>. HIDE DEF todo, errors
  <2>4. CASE nuke' = [nuke EXCEPT !.todo = todo]
    BY <2>1, <2>4 DEF Nuking
  <2>5. CASE nuke' = [nuke EXCEPT !.todo = todo, !.errors = errors]
    BY <2>1, <2>2, <2>5 DEF Nuking
  <2>. QED
    BY <2>3, <2>4, <2>5
<1>12. CASE SkipUnsaved \/ NukeRemoveWorkspace \/ NukeRemoveWorkspaceFails
  BY <1>11, <1>12 DEF SkipUnsaved, NukeRemoveWorkspace, NukeRemoveWorkspaceFails
<1>. QED
  BY <1>1, <1>2, <1>3, <1>4, <1>5, <1>6, <1>7, <1>9, <1>10, <1>12 DEF Carrying

\* Every step keeps what nuke knows, the archives and the clock to their types.
LEMMA NukeTyped ==
  ASSUME IWorld, INuke, [NukeNext]_vars
  PROVE  /\ nuke' \in Nuking
         /\ archives' \in [WorkspaceNames \X (0..MaxClock) -> Content \cup {None}]
         /\ clock' \in 0..MaxClock
<1>1. nuke' \in Nuking
  <2>1. CASE Others
    BY <2>1 DEF Others, INuke, Nuking
  <2>2. CASE Tick \/ UNCHANGED vars
    BY <2>2 DEF Tick, vars, INuke
  <2>. QED
    BY <2>1, <2>2, ListingTyped, CarryingTyped DEF NukeNext, NukeStep
<1>2. archives' \in [WorkspaceNames \X (0..MaxClock) -> Content \cup {None}]
  <2>1. ASSUME NEW ws \in nuke.unsaved, NEW content,
               content \in {ContentOf(ws.path), [ContentOf(ws.path) EXCEPT !.whole = FALSE]},
               archives' = [archives EXCEPT ![Slot(ws)] = content]
        PROVE  archives' \in [WorkspaceNames \X (0..MaxClock) -> Content \cup {None}]
    <3>1. ws.path \in Paths
      BY DEF INuke, Nuking, Workspace
    <3>2. dirs[ws.path].data \in 0..MaxData
      BY <3>1 DEF IWorld, IType, TypeOK, DirsTypeOK, Dir
    <3>3. ContentOf(ws.path) \in Content
      BY <3>1, <3>2 DEF ContentOf, Content
    <3>4. [ContentOf(ws.path) EXCEPT !.whole = FALSE] \in Content
      BY <3>3 DEF Content
    <3>. QED
      BY <2>1, <3>3, <3>4 DEF INuke
  <2>2. CASE Backup
    BY <2>1, <2>2 DEF Backup
  <2>3. CASE BackupFails
    BY <2>1, <2>3 DEF BackupFails, INuke
  <2>4. CASE ~Backup /\ ~BackupFails
    <3>1. archives' = archives
      BY <2>4 DEF NukeNext, NukeStep, BeginNuke, Listing, ListServices, ListEnvironments,
        ListVPNGateways, ListContainers, ListNetworks, ListWorkspaces, ListFails, Confirm,
        Decline, Carrying, BackupsEnd, NextContainer, NukeFindToStop, NukeFindToRm, NukeFindTo,
        NukeFindFails, NukeStop, NukeStopFails, StopFails, NukeRemove, NukeRemoveFails,
        RemoveFails, NextNetwork, NukeFindNetwork, NukeFindNetworkFails, NukeRemoveNetwork,
        NukeRemoveNetworkFails, SkipUnsaved, NukeRemoveWorkspace, NukeRemoveWorkspaceFails,
        NukeEnds, Others, Tick, vars
    <3>. QED
      BY <3>1 DEF INuke
  <2>. QED
    BY <2>2, <2>3, <2>4
<1>3. clock' \in 0..MaxClock
  <2>1. CASE Tick
    BY <2>1, MaxClockType DEF Tick, INuke
  <2>2. CASE ~Tick
    <3>1. clock' = clock
      BY <2>2 DEF NukeNext, NukeStep, BeginNuke, Listing, ListServices, ListEnvironments,
        ListVPNGateways, ListContainers, ListNetworks, ListWorkspaces, ListFails, Confirm,
        Decline, Carrying, Backup, BackupFails, BackupsEnd, NextContainer, NukeFindToStop,
        NukeFindToRm, NukeFindTo, NukeFindFails, NukeStop, NukeStopFails, StopFails, NukeRemove,
        NukeRemoveFails, RemoveFails, NextNetwork, NukeFindNetwork, NukeFindNetworkFails,
        NukeRemoveNetwork, NukeRemoveNetworkFails, SkipUnsaved, NukeRemoveWorkspace,
        NukeRemoveWorkspaceFails, NukeEnds, Others, vars
    <3>. QED
      BY <3>1 DEF INuke
  <2>. QED
    BY <2>1, <2>2
<1>. QED
  BY <1>1, <1>2, <1>3

\* A nuke that begins, and one that has ended, know nothing.
LEMMA Restarts ==
  ASSUME BeginNuke \/ Decline \/ ListFails
  PROVE  /\ nuke'.pc \in {"idle", "services"}
         /\ nuke'.plan = NoPlan /\ nuke'.todo = NoPlan
         /\ nuke'.item = None /\ nuke'.failed = {}
         /\ ~nuke'.quiet
<1>1. PICK want : nuke' = NoNuke \/ nuke' = [NoNuke EXCEPT !.pc = "services", !.want = want]
  BY DEF BeginNuke, Decline, ListFails
<1>2. CASE nuke' = NoNuke
  BY <1>2 DEF NoNuke
<1>3. CASE nuke' = [NoNuke EXCEPT !.pc = "services", !.want = want]
  BY <1>3 DEF NoNuke
<1>. QED
  BY <1>1, <1>2, <1>3

\* The item at hand is of the plan, and so is what is left to do.
LEMMA HandKept ==
  ASSUME IWorld, INuke, [NukeNext]_vars
  PROVE  ItemAtHand' /\ TodoOfPlan'
<1> USE DEF INuke, ItemAtHand, TodoOfPlan, Carried, OnContainer, OnNetwork
<1>0. nuke \in Nuking /\ nuke.plan \in Plan /\ nuke.todo \in Plan
  BY DEF Nuking
<1>1. CASE BeginNuke \/ Decline \/ ListFails
  BY <1>1, Restarts DEF NoPlan
<1>2. CASE Confirm
  BY <1>0, <1>2 DEF Confirm, NukeAt, NoPlan, Nuking
<1>a. ASSUME NEW at \in {"services", "environments", "gateways"}, NEW kind,
             NEW next \in {"environments", "gateways", "networks"}, ListContainers(at, kind, next)
      PROVE  ItemAtHand' /\ TodoOfPlan'
  <2>1. /\ nuke.pc = at /\ nuke'.pc = next
        /\ UNCHANGED <<nuke.item, nuke.failed, nuke.errors, nuke.todo>>
    BY <1>0, <1>a DEF ListContainers, NukeAt, Nuking
  <2>. QED
    BY <2>1 DEF NoPlan
<1>3. CASE ListServices \/ ListEnvironments \/ ListVPNGateways
  BY <1>3, <1>a DEF ListServices, ListEnvironments, ListVPNGateways
<1>4. CASE ListNetworks
  BY <1>0, <1>4 DEF ListNetworks, NukeAt, NoPlan, Nuking, Plan
<1>5. CASE ListWorkspaces
  BY <1>0, <1>5 DEF ListWorkspaces, NukeAt, NoPlan, Nuking, Plan
<1>6. CASE Backup \/ BackupFails \/ BackupsEnd
  <2>1. CASE Backup
    BY <1>0, <2>1 DEF Backup, NukeAt, Nuking
  <2>2. CASE BackupFails
    <3>1. PICK ws \in nuke.unsaved :
            nuke' = [nuke EXCEPT !.unsaved = @ \ {ws}, !.failed = @ \cup {ws},
                                 !.errors = @ \cup {ws}]
      BY <2>2 DEF BackupFails
    <3>2. nuke'.failed = nuke.failed \cup {ws} /\ nuke'.errors = nuke.errors \cup {ws}
          /\ nuke'.pc = nuke.pc
          /\ UNCHANGED <<nuke.item, nuke.todo, nuke.plan>>
      BY <1>0, <3>1 DEF Nuking
    <3>. QED
      BY <2>2, <3>2 DEF BackupFails, NukeAt
  <2>3. CASE BackupsEnd
    BY <1>0, <2>3 DEF BackupsEnd, NukeAt, NukeGoto, Nuking
  <2>. QED
    BY <1>6, <2>1, <2>2, <2>3
<1>7. CASE NextContainer
  BY <1>0, <1>7 DEF NextContainer, NukeAt, Nuking, Plan
<1>8. CASE NextNetwork
  BY <1>0, <1>8 DEF NextNetwork, NukeAt, Nuking, Plan
<1>9. CASE NukeFindToStop \/ NukeFindToRm \/ NukeFindNetwork
  BY <1>0, <1>9 DEF NukeFindToStop, NukeFindToRm, NukeFindTo, NukeFindNetwork, NetworksNamed,
     NukeAt, Nuking
<1>10. CASE NukeFindFails \/ NukeStopFails \/ NukeRemoveFails \/ NukeFindNetworkFails
           \/ NukeRemoveNetworkFails
  <2>1. CASE StopFails("stopfind", IsFound(nuke.item.ref)) \/ NukeStopFails
    <3>1. nuke.pc \in {"stopfind", "stop"} /\ nuke.item \in nuke.plan.containers
      BY <2>1 DEF NukeStopFails, StopFails, NukeAt
    <3>2. nuke' = [nuke EXCEPT !.pc = "rmfind", !.found = None, !.errors = @ \cup {nuke.item}]
      BY <2>1 DEF NukeStopFails, StopFails
    <3>3. nuke'.pc = "rmfind" /\ nuke.errors \subseteq nuke'.errors
          /\ UNCHANGED <<nuke.item, nuke.failed, nuke.todo, nuke.plan>>
      BY <1>0, <3>2 DEF Nuking
    <3>. QED
      BY <3>1, <3>3
  <2>2. CASE ErrorThenNext /\ nuke.pc \in OnContainer \cup OnNetwork
    <3>1. nuke'.pc = "next" /\ nuke.errors \subseteq nuke'.errors /\ nuke'.item = None
          /\ UNCHANGED <<nuke.failed, nuke.todo, nuke.plan>>
      BY <1>0, <2>2 DEF ErrorThenNext, Nuking
    <3>. QED
      BY <2>2, <3>1
  <2>. QED
    BY <1>10, <2>1, <2>2 DEF NukeFindFails, NukeStopFails, NukeRemoveFails, NukeFindNetworkFails,
       NukeRemoveNetworkFails, RemoveFails, NukeAt
<1>11. CASE NukeStop \/ NukeRemove \/ NukeRemoveNetwork
  BY <1>0, <1>11 DEF NukeStop, NukeRemove, NukeRemoveNetwork, NextItem, NukeAt, Nuking
<1>12. CASE SkipUnsaved \/ NukeRemoveWorkspace \/ NukeRemoveWorkspaceFails
  <2>1. PICK ws : \/ nuke' = [nuke EXCEPT !.todo.workspaces = @ \ {ws}]
                  \/ nuke' = [nuke EXCEPT !.todo.workspaces = @ \ {ws},
                                          !.errors = @ \cup {ws}]
    BY <1>12 DEF SkipUnsaved, NukeRemoveWorkspace, NukeRemoveWorkspaceFails
  <2>2. nuke.pc = "next"
    BY <1>12 DEF SkipUnsaved, NukeRemoveWorkspace, NukeRemoveWorkspaceFails,
       ContainersAndNetworksDone, NukeAt
  <2>3. CASE nuke' = [nuke EXCEPT !.todo.workspaces = @ \ {ws}]
    BY <1>0, <2>2, <2>3 DEF Nuking, Plan
  <2>4. CASE nuke' = [nuke EXCEPT !.todo.workspaces = @ \ {ws}, !.errors = @ \cup {ws}]
    BY <1>0, <2>2, <2>4 DEF Nuking, Plan
  <2>. QED
    BY <2>1, <2>3, <2>4
<1>13. CASE NukeEnds
  BY <1>0, <1>13 DEF NukeEnds, ContainersAndNetworksDone, NukeAt, NukeGoto, Nuking, Plan, NoPlan
<1>14. CASE Others
  BY <1>0, <1>14 DEF Others, Nuking
<1>15. CASE Tick \/ UNCHANGED vars
  BY <1>15 DEF Tick, vars
<1>. QED
  BY <1>1, <1>2, <1>3, <1>4, <1>5, <1>6, <1>7, <1>8, <1>9, <1>10, <1>11, <1>12, <1>13, <1>14,
     <1>15 DEF NukeNext, NukeStep, Listing, Carrying

-----------------------------------------------------------------------------
(* What is listed stays what it was, or goes for good. *)

\* Carrying the plan out changes neither the plan nor what was chosen, and forgets
\* no error and no backup.
LEMMA CarryingKeeps ==
  ASSUME INuke, Carrying
  PROVE  /\ nuke.pc \in Carried \ {"done"} /\ nuke'.pc \in Carried
         /\ UNCHANGED <<nuke.plan, nuke.run, nuke.backup, nuke.quiet>>
         /\ nuke.errors \subseteq nuke'.errors
         /\ nuke.failed \subseteq nuke'.failed
         /\ nuke.saved \subseteq nuke'.saved
<1> USE DEF Carried, OnContainer, OnNetwork
<1>0. nuke \in Nuking
  BY DEF INuke
<1>1. CASE Backup
  BY <1>0, <1>1 DEF Backup, NukeAt, Nuking
<1>2. CASE BackupFails
  BY <1>0, <1>2 DEF BackupFails, NukeAt, Nuking
<1>3. CASE BackupsEnd \/ NukeEnds
  BY <1>0, <1>3 DEF BackupsEnd, NukeEnds, ContainersAndNetworksDone, NukeGoto, NukeAt, Nuking
<1>4. CASE NextContainer
  BY <1>0, <1>4 DEF NextContainer, NukeAt, Nuking
<1>5. CASE NextNetwork
  BY <1>0, <1>5 DEF NextNetwork, NukeAt, Nuking
<1>6. CASE NukeFindToStop \/ NukeFindToRm \/ NukeFindNetwork
  BY <1>0, <1>6 DEF NukeFindToStop, NukeFindToRm, NukeFindTo, NukeFindNetwork, NukeAt, Nuking
<1>7. ASSUME NEW at \in OnContainer, NEW expected, StopFails(at, expected)
      PROVE  /\ nuke.pc \in Carried \ {"done"} /\ nuke'.pc \in Carried
             /\ UNCHANGED <<nuke.plan, nuke.run, nuke.backup, nuke.quiet, nuke.failed, nuke.saved>>
             /\ nuke.errors \subseteq nuke'.errors
  BY <1>0, <1>7 DEF StopFails, NukeAt, Nuking
<1>8. ASSUME NEW at \in OnContainer \cup OnNetwork, NEW expected, RemoveFails(at, expected)
      PROVE  /\ nuke.pc \in Carried \ {"done"} /\ nuke'.pc \in Carried
             /\ UNCHANGED <<nuke.plan, nuke.run, nuke.backup, nuke.quiet, nuke.failed, nuke.saved>>
             /\ nuke.errors \subseteq nuke'.errors
  BY <1>0, <1>8 DEF RemoveFails, ErrorThenNext, NukeAt, Nuking
<1>9. CASE NukeFindFails \/ NukeStopFails \/ NukeRemoveFails \/ NukeFindNetworkFails
           \/ NukeRemoveNetworkFails
  BY <1>7, <1>8, <1>9 DEF NukeFindFails, NukeStopFails, NukeRemoveFails, NukeFindNetworkFails,
     NukeRemoveNetworkFails
<1>10. CASE NukeStop
  BY <1>0, <1>10 DEF NukeStop, NukeAt, Nuking
<1>11. CASE NukeRemove \/ NukeRemoveNetwork
  BY <1>0, <1>11 DEF NukeRemove, NukeRemoveNetwork, NextItem, NukeAt, Nuking
<1>12. CASE SkipUnsaved \/ NukeRemoveWorkspace
  BY <1>0, <1>12 DEF SkipUnsaved, NukeRemoveWorkspace, ContainersAndNetworksDone, NukeAt, Nuking
<1>13. CASE NukeRemoveWorkspaceFails
  BY <1>0, <1>13 DEF NukeRemoveWorkspaceFails, ContainersAndNetworksDone, NukeAt, Nuking
<1>. QED
  BY <1>1, <1>2, <1>3, <1>4, <1>5, <1>6, <1>9, <1>10, <1>11, <1>12, <1>13 DEF Carrying

\* What is not a step of nuke's own.
Aside == Others \/ Tick \/ UNCHANGED vars

\* Such a step changes nothing that nuke knows, but that it is not alone.
LEMMA AsideKeeps ==
  ASSUME INuke, Aside
  PROVE  /\ UNCHANGED <<nuke.pc, nuke.run, nuke.backup, nuke.plan, nuke.todo, nuke.unsaved,
                        nuke.item, nuke.found, nuke.failed, nuke.saved, nuke.errors>>
         /\ nuke'.quiet => nuke.quiet /\ ~Others
<1>1. CASE Others
  BY <1>1 DEF Others, INuke, Nuking
<1>2. CASE nuke' = nuke /\ ~Others
  BY <1>2
<1>. QED
  BY <1>1, <1>2 DEF Aside, Tick, vars

\* The plan grows by what is listed, in a step that changes nothing else.
LEMMA PlanGrows ==
  ASSUME INuke, [NukeNext]_vars
  PROVE  /\ \/ nuke'.plan.containers \subseteq nuke.plan.containers
            \/ /\ UNCHANGED containers
               /\ \E kind : nuke'.plan.containers = nuke.plan.containers \cup Items(kind)
         /\ \/ nuke'.plan.networks \subseteq nuke.plan.networks
            \/ /\ UNCHANGED networks
               /\ nuke'.plan.networks =
                    {[id |-> n, name |-> networks[n].name] :
                       n \in {m \in NetworkIds : LiveNet(m) /\ networks[m].managed}}
<1>0. nuke \in Nuking /\ nuke.plan \in Plan
  BY DEF INuke, Nuking
<1>1. CASE BeginNuke \/ Decline \/ ListFails
  BY <1>1, Restarts DEF NoPlan
<1>2. CASE Confirm
  BY <1>0, <1>2 DEF Confirm, NoPlan, Nuking
<1>3. ASSUME NEW at, NEW kind, NEW next, ListContainers(at, kind, next)
      PROVE  /\ UNCHANGED containers
             /\ nuke'.plan.containers = nuke.plan.containers \cup Items(kind)
             /\ nuke'.plan.networks = nuke.plan.networks
  BY <1>0, <1>3 DEF ListContainers, world, Nuking, Plan
<1>4. CASE ListServices \/ ListEnvironments \/ ListVPNGateways
  BY <1>3, <1>4 DEF ListServices, ListEnvironments, ListVPNGateways
<1>5. CASE ListNetworks
  BY <1>0, <1>5 DEF ListNetworks, world, Nuking, Plan
<1>6. CASE ListWorkspaces
  BY <1>0, <1>6 DEF ListWorkspaces, Nuking, Plan
<1>7. CASE Carrying \/ Aside
  BY <1>7, CarryingKeeps, AsideKeeps
<1>. QED
  BY <1>1, <1>2, <1>4, <1>5, <1>6, <1>7 DEF NukeNext, NukeStep, Listing, Aside

\* A listed container or network keeps its identity: labels do not change and an ID is
\* never given twice.
LEMMA PlanKept ==
  ASSUME IWorld, INuke, IPlan, [NukeNext]_vars
  PROVE  IPlan'
<1>0. DaemonTypeOK /\ nuke.plan \in Plan
  BY DEF IWorld, IType, TypeOK, INuke, Nuking
<1>1. ASSUME NEW i \in nuke'.plan.containers
      PROVE  ListedContainer(i)'
  <2>1. CASE i \in nuke.plan.containers
    <3>1. i.id \in ContainerIds /\ ListedContainer(i)
      BY <1>0, <2>1 DEF Plan, Item, IPlan
    <3>. QED
      BY <1>0, <3>1, WorldSteps, ContainerLife DEF ListedContainer, Live
  <2>2. CASE i \notin nuke.plan.containers
    <3>1. UNCHANGED containers /\ \E kind : i \in Items(kind)
      BY <1>1, <2>2, PlanGrows
    <3>2. ListedContainer(i)
      BY <3>1 DEF Items, Managed, ListedContainer, Live
    <3>. QED
      BY <3>1, <3>2 DEF ListedContainer, Live
  <2>. QED
    BY <2>1, <2>2
<1>2. ASSUME NEW i \in nuke'.plan.networks
      PROVE  ListedNetwork(i)'
  <2>1. CASE i \in nuke.plan.networks
    <3>1. i.id \in NetworkIds /\ ListedNetwork(i)
      BY <1>0, <2>1 DEF Plan, NetItem, IPlan
    <3>. QED
      BY <1>0, <3>1, WorldSteps, NetworkLife DEF ListedNetwork, LiveNet
  <2>2. CASE i \notin nuke.plan.networks
    <3>1. UNCHANGED networks /\ \E n \in NetworkIds :
            /\ LiveNet(n) /\ networks[n].managed
            /\ i = [id |-> n, name |-> networks[n].name]
      BY <1>2, <2>2, PlanGrows
    <3>. QED
      BY <3>1 DEF ListedNetwork, LiveNet
  <2>. QED
    BY <2>1, <2>2
<1>. QED
  BY <1>1, <1>2 DEF IPlan, ListedContainer, ListedNetwork, Live, LiveNet

-----------------------------------------------------------------------------
(* What is found under the name of an item is that item, or it has gone. *)

\* Nuke comes to act on a container or a network by a lookup only.
LEMMA ArrivesByLookup ==
  ASSUME INuke, NukeStep
  PROVE  /\ nuke'.pc \in {"stop", "rm"} =>
              /\ UNCHANGED <<containers, nuke.item>>
              /\ nuke.item \in nuke.plan.containers
              /\ Found(nuke.item.ref, nuke'.found)
         /\ nuke'.pc = "netrm" =>
              /\ UNCHANGED <<networks, nuke.item>>
              /\ nuke.item \in nuke.plan.networks
              /\ nuke'.found \in NetworksNamed(nuke.item.name)
              /\ networks[nuke'.found].managed
<1>0. nuke \in Nuking /\ ItemAtHand
  BY DEF INuke
<1>1. CASE BeginNuke \/ Decline \/ ListFails
  BY <1>1, Restarts
<1>2. CASE Confirm \/ ListNetworks \/ ListWorkspaces
  BY <1>0, <1>2 DEF Confirm, ListNetworks, ListWorkspaces, Nuking
<1>3. ASSUME NEW at, NEW kind, NEW next \in {"environments", "gateways", "networks"},
             ListContainers(at, kind, next)
      PROVE  nuke'.pc = next
  BY <1>0, <1>3 DEF ListContainers, Nuking
<1>4. CASE ListServices \/ ListEnvironments \/ ListVPNGateways
  BY <1>3, <1>4 DEF ListServices, ListEnvironments, ListVPNGateways
<1>5. ASSUME NEW from \in {"stopfind", "rmfind"}, NEW to \in {"stop", "rm"}, NukeFindTo(from, to)
      PROVE  /\ UNCHANGED <<containers, nuke.item>>
             /\ nuke.item \in nuke.plan.containers
             /\ Found(nuke.item.ref, nuke'.found)
             /\ nuke'.pc = to
  BY <1>0, <1>5 DEF NukeFindTo, NukeAt, ItemAtHand, OnContainer, world, Nuking
<1>6. CASE NukeFindToStop \/ NukeFindToRm
  BY <1>5, <1>6 DEF NukeFindToStop, NukeFindToRm
<1>7. CASE NukeFindNetwork
  BY <1>0, <1>7 DEF NukeFindNetwork, NukeAt, ItemAtHand, OnNetwork, world, Nuking
<1>8. CASE Backup \/ BackupFails
  BY <1>0, <1>8 DEF Backup, BackupFails, NukeAt, Nuking
<1>9. CASE BackupsEnd \/ NukeEnds \/ NextContainer \/ NextNetwork
  BY <1>0, <1>9 DEF BackupsEnd, NukeEnds, NukeGoto, NextContainer, NextNetwork, Nuking
<1>10. CASE NukeStop \/ NukeRemove \/ NukeRemoveNetwork
  BY <1>0, <1>10 DEF NukeStop, NukeRemove, NukeRemoveNetwork, NextItem, Nuking
<1>11. ASSUME NEW at, NEW expected, StopFails(at, expected) \/ RemoveFails(at, expected)
       PROVE  nuke'.pc \in {"rmfind", "next"}
  BY <1>0, <1>11 DEF StopFails, RemoveFails, ErrorThenNext, Nuking
<1>12. CASE NukeFindFails \/ NukeStopFails \/ NukeRemoveFails \/ NukeFindNetworkFails
            \/ NukeRemoveNetworkFails
  BY <1>11, <1>12 DEF NukeFindFails, NukeStopFails, NukeRemoveFails, NukeFindNetworkFails,
     NukeRemoveNetworkFails
<1>13. CASE SkipUnsaved \/ NukeRemoveWorkspace \/ NukeRemoveWorkspaceFails
  BY <1>0, <1>13 DEF SkipUnsaved, NukeRemoveWorkspace, NukeRemoveWorkspaceFails,
     ContainersAndNetworksDone, NukeAt, Nuking
<1>. QED
  BY <1>1, <1>2, <1>4, <1>6, <1>7, <1>8, <1>9, <1>10, <1>12, <1>13
     DEF NukeStep, Listing, Carrying

\* What was found stays managed, and stays the item or the item stays gone.
LEMMA FindsKept ==
  ASSUME IWorld, INuke, IPlan, IFinds, [NukeNext]_vars
  PROVE  IFinds'
<1>0. DaemonTypeOK /\ ItemAtHand /\ nuke.plan \in Plan
  BY DEF IWorld, IType, TypeOK, INuke, Nuking
<1>1. ASSUME nuke'.pc \in {"stop", "rm"}
      PROVE  FoundContainer'
  <2>1. CASE NukeStep
    <3>1. /\ UNCHANGED <<containers, nuke.item>>
          /\ nuke.item \in nuke.plan.containers
          /\ Labelled(nuke.item.ref) = {nuke'.found}
      BY <1>1, <2>1, ArrivesByLookup DEF Found
    <3>2. nuke.item.id \in ContainerIds /\ ListedContainer(nuke.item)
      BY <1>0, <3>1 DEF Plan, Item, IPlan
    <3>3. Live(nuke.item.id) => nuke.item.id \in Labelled(nuke.item.ref)
      BY <3>2 DEF ListedContainer, Labelled
    <3>4. nuke'.found \in ContainerIds /\ Live(nuke'.found) /\ containers[nuke'.found].managed
      BY <3>1 DEF Labelled
    <3>. QED
      BY <3>1, <3>3, <3>4 DEF FoundContainer, Live
  <2>2. CASE Aside
    <3>1. UNCHANGED <<nuke.pc, nuke.found, nuke.item>>
      BY <2>2, AsideKeeps
    <3>2. PICK c \in ContainerIds, d \in ContainerIds :
            c = nuke.found /\ d = nuke.item.id /\ ListedContainer(nuke.item)
      BY <1>0, <1>1, <3>1 DEF ItemAtHand, OnContainer, Plan, Item, IPlan
    <3>3. /\ containers[c].state # "unused" /\ (Live(c) => containers[c].managed)
          /\ c = d \/ ~Live(d)
      BY <1>1, <3>1, <3>2 DEF IFinds, FoundContainer
    <3>4. /\ containers'[c].state # "unused"
          /\ Live(c)' => containers'[c].managed
          /\ Live(d)' => Live(d)
      BY <1>0, <3>2, <3>3, WorldSteps, ContainerLife DEF ListedContainer
    <3>. QED
      BY <3>1, <3>2, <3>3, <3>4 DEF FoundContainer, Live
  <2>. QED
    BY <2>1, <2>2 DEF NukeNext, Aside
<1>2. ASSUME nuke'.pc = "netrm"
      PROVE  FoundNetwork'
  <2>1. CASE NukeStep
    <3>1. /\ UNCHANGED <<networks, nuke.item>>
          /\ nuke.item \in nuke.plan.networks
          /\ nuke'.found \in NetworksNamed(nuke.item.name)
          /\ networks[nuke'.found].managed
      BY <1>2, <2>1, ArrivesByLookup
    <3>2. nuke.item.id \in NetworkIds /\ ListedNetwork(nuke.item)
      BY <1>0, <3>1 DEF Plan, NetItem, IPlan
    <3>3. nuke'.found \in NetworkIds /\ LiveNet(nuke'.found)
          /\ networks[nuke'.found].name = nuke.item.name
      BY <3>1 DEF NetworksNamed
    <3>4. LiveNet(nuke.item.id) => nuke.item.id = nuke'.found
      BY <3>2, <3>3 DEF ListedNetwork, IWorld, NetworksHaveNames
    <3>. QED
      BY <3>1, <3>3, <3>4 DEF FoundNetwork, LiveNet
  <2>2. CASE Aside
    <3>1. UNCHANGED <<nuke.pc, nuke.found, nuke.item>>
      BY <2>2, AsideKeeps
    <3>2. PICK m \in NetworkIds, n \in NetworkIds :
            m = nuke.found /\ n = nuke.item.id /\ ListedNetwork(nuke.item)
      BY <1>0, <1>2, <3>1 DEF ItemAtHand, OnNetwork, Plan, NetItem, IPlan
    <3>3. /\ networks[m].state # "unused" /\ (LiveNet(m) => networks[m].managed)
          /\ m = n \/ ~LiveNet(n)
      BY <1>2, <3>1, <3>2 DEF IFinds, FoundNetwork
    <3>4. /\ networks'[m].state # "unused"
          /\ LiveNet(m)' => networks'[m].managed
          /\ LiveNet(n)' => LiveNet(n)
      BY <1>0, <3>2, <3>3, WorldSteps, NetworkLife DEF ListedNetwork
    <3>. QED
      BY <3>1, <3>2, <3>3, <3>4 DEF FoundNetwork, LiveNet
  <2>. QED
    BY <2>1, <2>2 DEF NukeNext, Aside
<1>. QED
  BY <1>1, <1>2 DEF IFinds, FoundContainer, FoundNetwork

-----------------------------------------------------------------------------
(* What is taken from the plan is removed, or its failure is reported. *)

\* What is to be removed is taken in hand, and what is in hand stays there until it is
\* removed or its failure is reported.
LEMMA NothingDropped ==
  ASSUME INuke, Carrying
  PROVE  /\ \A i \in nuke.todo.containers :
              i \in nuke'.todo.containers \/ (nuke'.pc \in OnContainer /\ i = nuke'.item)
         /\ \A i \in nuke.todo.networks :
              i \in nuke'.todo.networks \/ (nuke'.pc \in OnNetwork /\ i = nuke'.item)
         /\ nuke.pc \in OnContainer =>
              \/ NukeRemove \/ nuke.item \in nuke'.errors
              \/ nuke'.pc \in OnContainer /\ nuke'.item = nuke.item
         /\ nuke.pc \in OnNetwork =>
              \/ NukeRemoveNetwork \/ nuke.item \in nuke'.errors
              \/ nuke'.pc \in OnNetwork /\ nuke'.item = nuke.item
<1> USE DEF OnContainer, OnNetwork
<1>0. nuke \in Nuking /\ nuke.todo \in Plan
  BY DEF INuke, Nuking
<1>1. CASE Backup \/ BackupFails
  BY <1>0, <1>1 DEF Backup, BackupFails, NukeAt, Nuking
<1>2. CASE BackupsEnd \/ NukeEnds
  BY <1>0, <1>2 DEF BackupsEnd, NukeEnds, ContainersAndNetworksDone, NukeGoto, NukeAt, Nuking
<1>3. CASE NextContainer
  BY <1>0, <1>3 DEF NextContainer, NukeAt, Nuking, Plan
<1>4. CASE NextNetwork
  BY <1>0, <1>4 DEF NextNetwork, NukeAt, Nuking, Plan
<1>5. CASE NukeFindToStop \/ NukeFindToRm \/ NukeFindNetwork
  BY <1>0, <1>5 DEF NukeFindToStop, NukeFindToRm, NukeFindTo, NukeFindNetwork, NukeAt, Nuking
<1>6. ASSUME NEW at, NEW expected, StopFails(at, expected) \/ RemoveFails(at, expected)
      PROVE  nuke'.errors = nuke.errors \cup {nuke.item} /\ UNCHANGED nuke.todo
  BY <1>0, <1>6 DEF StopFails, RemoveFails, ErrorThenNext, Nuking
<1>7. CASE NukeFindFails \/ NukeStopFails \/ NukeRemoveFails \/ NukeFindNetworkFails
           \/ NukeRemoveNetworkFails
  <2>1. nuke'.errors = nuke.errors \cup {nuke.item} /\ UNCHANGED nuke.todo
    BY <1>6, <1>7 DEF NukeFindFails, NukeStopFails, NukeRemoveFails, NukeFindNetworkFails,
       NukeRemoveNetworkFails
  <2>. QED
    BY <2>1
<1>8. CASE NukeStop
  BY <1>0, <1>8 DEF NukeStop, NukeAt, Nuking
<1>9. CASE NukeRemove \/ NukeRemoveNetwork
  BY <1>0, <1>9 DEF NukeRemove, NukeRemoveNetwork, NextItem, NukeAt, Nuking
<1>10. ASSUME NEW ws, \/ nuke' = [nuke EXCEPT !.todo.workspaces = @ \ {ws}]
                      \/ nuke' = [nuke EXCEPT !.todo.workspaces = @ \ {ws},
                                              !.errors = @ \cup {ws}]
       PROVE  UNCHANGED <<nuke.todo.containers, nuke.todo.networks>>
  <2>1. CASE nuke' = [nuke EXCEPT !.todo.workspaces = @ \ {ws}]
    BY <1>0, <2>1 DEF Nuking, Plan
  <2>2. CASE nuke' = [nuke EXCEPT !.todo.workspaces = @ \ {ws}, !.errors = @ \cup {ws}]
    BY <1>0, <2>2 DEF Nuking, Plan
  <2>. QED
    BY <1>10, <2>1, <2>2
<1>11. CASE SkipUnsaved \/ NukeRemoveWorkspace \/ NukeRemoveWorkspaceFails
  <2>1. PICK ws : \/ nuke' = [nuke EXCEPT !.todo.workspaces = @ \ {ws}]
                  \/ nuke' = [nuke EXCEPT !.todo.workspaces = @ \ {ws},
                                          !.errors = @ \cup {ws}]
    BY <1>11 DEF SkipUnsaved, NukeRemoveWorkspace, NukeRemoveWorkspaceFails
  <2>2. nuke.pc = "next"
    BY <1>11 DEF SkipUnsaved, NukeRemoveWorkspace, NukeRemoveWorkspaceFails,
       ContainersAndNetworksDone, NukeAt
  <2>. QED
    BY <1>10, <2>1, <2>2
<1>. QED
  BY <1>1, <1>2, <1>3, <1>4, <1>5, <1>7, <1>8, <1>9, <1>11 DEF Carrying

\* Carrying out begins with the whole plan to do.
LEMMA CarryingBegins ==
  ASSUME INuke, BeginNuke \/ Listing \/ Confirm \/ Decline, nuke'.pc \in Carried
  PROVE  /\ ListWorkspaces /\ nuke.run
         /\ nuke'.pc = "backup" /\ nuke'.todo = nuke'.plan
<1> USE DEF Carried, OnContainer, OnNetwork
<1>0. nuke \in Nuking
  BY DEF INuke
<1>1. CASE BeginNuke \/ Decline \/ ListFails
  BY <1>1, Restarts
<1>2. CASE Confirm \/ ListNetworks
  BY <1>0, <1>2 DEF Confirm, ListNetworks, Nuking
<1>3. ASSUME NEW at, NEW kind, NEW next \in {"environments", "gateways", "networks"},
             ListContainers(at, kind, next)
      PROVE  nuke'.pc = next
  BY <1>0, <1>3 DEF ListContainers, Nuking
<1>4. CASE ListServices \/ ListEnvironments \/ ListVPNGateways
  BY <1>3, <1>4 DEF ListServices, ListEnvironments, ListVPNGateways
<1>5. CASE ListWorkspaces
  BY <1>0, <1>5 DEF ListWorkspaces, Nuking
<1>. QED
  BY <1>1, <1>2, <1>4, <1>5 DEF Listing

\* A container or network has gone, or its failure is reported, by the time it is no longer
\* in hand.
LEMMA RemovedKept ==
  ASSUME IWorld, INuke, IPlan, IFinds, IRemoved, [NukeNext]_vars
  PROVE  IRemoved'
<1>0. /\ DaemonTypeOK /\ nuke.plan \in Plan
      /\ UNCHANGED containers \/ ContainerStep
      /\ UNCHANGED networks \/ NetworkChange
  BY WorldSteps DEF IWorld, IType, TypeOK, INuke, Nuking
<1>1. ASSUME NEW i \in nuke.plan.containers, Live(i.id)'
      PROVE  Live(i.id)
  <2>1. i.id \in ContainerIds /\ containers[i.id].state # "unused"
    BY <1>0 DEF Plan, Item, IPlan, ListedContainer
  <2>. QED
    BY <1>0, <1>1, <2>1, ContainerLife
<1>2. ASSUME NEW i \in nuke.plan.networks, LiveNet(i.id)'
      PROVE  LiveNet(i.id)
  <2>1. i.id \in NetworkIds /\ networks[i.id].state # "unused"
    BY <1>0 DEF Plan, NetItem, IPlan, ListedNetwork
  <2>. QED
    BY <1>0, <1>2, <2>1, NetworkLife
<1>3. ASSUME nuke'.pc \in Carried, NEW i \in nuke'.plan.containers, Live(i.id)', i \notin nuke'.errors
      PROVE  i \in nuke'.todo.containers \/ (nuke'.pc \in OnContainer /\ i = nuke'.item)
  <2>1. CASE Carrying
    <3>1. i \in nuke.plan.containers /\ nuke.pc \in Carried /\ i \notin nuke.errors
      BY <1>3, <2>1, CarryingKeeps
    <3>2. i \in nuke.todo.containers \/ (nuke.pc \in OnContainer /\ i = nuke.item)
      BY <1>1, <1>3, <3>1 DEF IRemoved, ContainerSettled
    <3>3. ASSUME NukeRemove, i = nuke.item
          PROVE  FALSE
      <4>1. nuke.found = i.id \/ ~Live(i.id)
        BY <3>3 DEF NukeRemove, NukeAt, IFinds, FoundContainer
      <4>2. i.id \in ContainerIds
        BY <1>0, <3>1 DEF Plan, Item
      <4>. QED
        BY <1>0, <1>1, <1>3, <3>1, <3>3, <4>1, <4>2
           DEF NukeRemove, ContainerRemove, NoContainer, Live, DaemonTypeOK
    <3>. QED
      BY <1>3, <2>1, <3>2, <3>3, NothingDropped
  <2>2. CASE Aside
    BY <1>1, <1>3, <2>2, AsideKeeps DEF IRemoved, ContainerSettled, NetworkSettled
  <2>3. CASE BeginNuke \/ Listing \/ Confirm \/ Decline
    BY <1>3, <2>3, CarryingBegins
  <2>. QED
    BY <2>1, <2>2, <2>3 DEF NukeNext, NukeStep, Aside
<1>4. ASSUME nuke'.pc \in Carried, NEW i \in nuke'.plan.networks, LiveNet(i.id)', i \notin nuke'.errors
      PROVE  i \in nuke'.todo.networks \/ (nuke'.pc \in OnNetwork /\ i = nuke'.item)
  <2>1. CASE Carrying
    <3>1. i \in nuke.plan.networks /\ nuke.pc \in Carried /\ i \notin nuke.errors
      BY <1>4, <2>1, CarryingKeeps
    <3>2. i \in nuke.todo.networks \/ (nuke.pc \in OnNetwork /\ i = nuke.item)
      BY <1>2, <1>4, <3>1 DEF IRemoved, NetworkSettled
    <3>3. ASSUME NukeRemoveNetwork, i = nuke.item
          PROVE  FALSE
      <4>1. nuke.found = i.id \/ ~LiveNet(i.id)
        BY <3>3 DEF NukeRemoveNetwork, NukeAt, IFinds, FoundNetwork
      <4>2. i.id \in NetworkIds
        BY <1>0, <3>1 DEF Plan, NetItem
      <4>. QED
        BY <1>0, <1>2, <1>4, <3>1, <3>3, <4>1, <4>2
           DEF NukeRemoveNetwork, NetworkRemove, NoNetwork, LiveNet, DaemonTypeOK
    <3>. QED
      BY <1>4, <2>1, <3>2, <3>3, NothingDropped
  <2>2. CASE Aside
    BY <1>2, <1>4, <2>2, AsideKeeps DEF IRemoved, ContainerSettled, NetworkSettled
  <2>3. CASE BeginNuke \/ Listing \/ Confirm \/ Decline
    BY <1>4, <2>3, CarryingBegins
  <2>. QED
    BY <2>1, <2>2, <2>3 DEF NukeNext, NukeStep, Aside
<1>. QED
  BY <1>3, <1>4 DEF IRemoved, ContainerSettled, NetworkSettled, Live, LiveNet

-----------------------------------------------------------------------------
(* Nuke takes what is left to do in order. *)

\* A step of nuke's takes an item with nothing before it, or leaves what is left to do and
\* the item as they are, or strikes workspaces when nothing else is left.
LEMMA OrderKept ==
  ASSUME IWorld, INuke, IOrder, [NukeNext]_vars
  PROVE  IOrder'
<1> USE DEF Carried, OnContainer, OnNetwork
<1>0. nuke \in Nuking /\ nuke.todo \in Plan
  BY DEF INuke, Nuking
<1>1. CASE BeginNuke \/ Listing \/ Confirm \/ Decline
  <2>1. CASE nuke'.pc \in Carried
    BY <1>1, <2>1, CarryingBegins DEF IOrder
  <2>2. CASE nuke'.pc \notin Carried
    BY <2>2 DEF IOrder
  <2>. QED
    BY <2>1, <2>2
<1>2. CASE Aside
  <2>1. UNCHANGED <<nuke.pc, nuke.plan, nuke.todo, nuke.item>>
    BY <1>2, AsideKeeps
  <2>. QED
    BY <2>1 DEF IOrder, Earlier
<1>3. ASSUME Carrying
      PROVE  UNCHANGED nuke.plan /\ nuke.pc \in Carried
  BY <1>3, CarryingKeeps
<1>4. CASE NextContainer
  <2>1. PICK i \in nuke.todo.containers :
          /\ \A j \in nuke.todo.containers : ~Earlier(j, i)
          /\ nuke' = [nuke EXCEPT !.pc = IF i.running THEN "stopfind" ELSE "rmfind",
                                  !.item = i,
                                  !.todo.containers = @ \ {i}]
    BY <1>4 DEF NextContainer
  <2>2. /\ nuke'.item = i /\ nuke'.pc \in {"stopfind", "rmfind"}
        /\ nuke'.todo.containers = nuke.todo.containers \ {i}
        /\ nuke'.todo.workspaces = nuke.todo.workspaces
    BY <1>0, <2>1 DEF Nuking, Plan
  <2>. QED
    BY <1>3, <1>4, <2>1, <2>2 DEF Carrying, IOrder, Earlier
<1>5. CASE NextNetwork
  <2>1. PICK i \in nuke.todo.networks :
          nuke' = [nuke EXCEPT !.pc = "netfind", !.item = i, !.todo.networks = @ \ {i}]
    BY <1>5 DEF NextNetwork
  <2>2. /\ nuke'.pc = "netfind"
        /\ nuke'.todo.containers = nuke.todo.containers
        /\ nuke'.todo.workspaces = nuke.todo.workspaces
    BY <1>0, <2>1 DEF Nuking, Plan
  <2>. QED
    BY <1>3, <1>5, <2>2 DEF Carrying, IOrder, NextNetwork
<1>6. ASSUME UNCHANGED <<nuke.todo, nuke.plan>>, nuke.pc \in Carried,
             \/ nuke.pc = "backup" /\ nuke'.pc \in {"backup", "next"}
             \/ nuke.pc \in OnContainer /\ nuke'.pc \in OnContainer /\ nuke'.item = nuke.item
             \/ nuke.pc \in OnNetwork /\ nuke'.pc \in OnNetwork
             \/ nuke.pc \in OnContainer \cup OnNetwork /\ nuke'.pc = "next"
             \/ nuke.pc = "next" /\ nuke'.pc = "done"
      PROVE  IOrder'
  BY <1>6 DEF IOrder, Earlier
<1>7. CASE Backup \/ BackupFails \/ BackupsEnd
  <2>1. nuke.pc = "backup" /\ nuke'.pc \in {"backup", "next"} /\ UNCHANGED nuke.todo
    BY <1>0, <1>7 DEF Backup, BackupFails, BackupsEnd, NukeAt, NukeGoto, Nuking
  <2>. QED
    BY <1>3, <1>6, <1>7, <2>1 DEF Carrying
<1>8. CASE NukeFindToStop \/ NukeFindToRm \/ NukeStop
  <2>1. /\ nuke.pc \in OnContainer /\ nuke'.pc \in OnContainer
        /\ UNCHANGED <<nuke.todo, nuke.item>>
    BY <1>0, <1>8 DEF NukeFindToStop, NukeFindToRm, NukeFindTo, NukeStop, NukeAt, Nuking
  <2>. QED
    BY <1>3, <1>6, <1>8, <2>1 DEF Carrying
<1>9. CASE NukeFindNetwork
  <2>1. nuke.pc \in OnNetwork /\ nuke'.pc \in OnNetwork /\ UNCHANGED nuke.todo
    BY <1>0, <1>9 DEF NukeFindNetwork, NukeAt, Nuking
  <2>. QED
    BY <1>3, <1>6, <1>9, <2>1 DEF Carrying
<1>10. CASE NukeRemove \/ NukeRemoveNetwork
  <2>1. nuke.pc \in OnContainer \cup OnNetwork /\ nuke'.pc = "next" /\ UNCHANGED nuke.todo
    BY <1>0, <1>10 DEF NukeRemove, NukeRemoveNetwork, NextItem, NukeAt, Nuking
  <2>. QED
    BY <1>3, <1>6, <1>10, <2>1 DEF Carrying
<1>11. ASSUME NEW at \in {"stopfind", "stop"}, NEW expected, StopFails(at, expected)
       PROVE  /\ nuke.pc \in OnContainer /\ nuke'.pc \in OnContainer
              /\ UNCHANGED <<nuke.todo, nuke.item>>
  BY <1>0, <1>11 DEF StopFails, NukeAt, Nuking
<1>12. ASSUME NEW at \in OnContainer \cup OnNetwork, NEW expected, RemoveFails(at, expected)
       PROVE  /\ nuke.pc \in OnContainer \cup OnNetwork /\ nuke'.pc = "next"
              /\ UNCHANGED nuke.todo
  BY <1>0, <1>12 DEF RemoveFails, ErrorThenNext, NukeAt, Nuking
<1>13. CASE NukeFindFails \/ NukeStopFails \/ NukeRemoveFails \/ NukeFindNetworkFails
            \/ NukeRemoveNetworkFails
  <2>1. \/ /\ nuke.pc \in OnContainer /\ nuke'.pc \in OnContainer
           /\ UNCHANGED <<nuke.todo, nuke.item>>
        \/ /\ nuke.pc \in OnContainer \cup OnNetwork /\ nuke'.pc = "next"
           /\ UNCHANGED nuke.todo
    BY <1>11, <1>12, <1>13 DEF NukeFindFails, NukeStopFails, NukeRemoveFails,
       NukeFindNetworkFails, NukeRemoveNetworkFails
  <2>. QED
    BY <1>3, <1>6, <1>13, <2>1 DEF Carrying
<1>14. CASE SkipUnsaved \/ NukeRemoveWorkspace \/ NukeRemoveWorkspaceFails
  <2>1. /\ nuke.pc = "next" /\ nuke'.pc = nuke.pc
        /\ nuke.todo.containers = {} /\ nuke.todo.networks = {}
    BY <1>0, <1>14 DEF SkipUnsaved, NukeRemoveWorkspace, NukeRemoveWorkspaceFails,
       ContainersAndNetworksDone, NukeAt, Nuking
  <2>2. PICK ws : \/ nuke' = [nuke EXCEPT !.todo.workspaces = @ \ {ws}]
                  \/ nuke' = [nuke EXCEPT !.todo.workspaces = @ \ {ws},
                                          !.errors = @ \cup {ws}]
    BY <1>14 DEF SkipUnsaved, NukeRemoveWorkspace, NukeRemoveWorkspaceFails
  <2>3. UNCHANGED <<nuke.todo.containers, nuke.todo.networks>>
    <3>1. CASE nuke' = [nuke EXCEPT !.todo.workspaces = @ \ {ws}]
      BY <1>0, <3>1 DEF Nuking, Plan
    <3>2. CASE nuke' = [nuke EXCEPT !.todo.workspaces = @ \ {ws}, !.errors = @ \cup {ws}]
      BY <1>0, <3>2 DEF Nuking, Plan
    <3>. QED
      BY <2>2, <3>1, <3>2
  <2>. QED
    BY <2>1, <2>3 DEF IOrder
<1>15. CASE NukeEnds
  <2>1. nuke.pc = "next" /\ nuke'.pc = "done" /\ UNCHANGED nuke.todo
    BY <1>0, <1>15 DEF NukeEnds, ContainersAndNetworksDone, NukeAt, NukeGoto, Nuking
  <2>. QED
    BY <1>3, <1>6, <1>15, <2>1 DEF Carrying
<1>. QED
  BY <1>1, <1>2, <1>4, <1>5, <1>7, <1>8, <1>9, <1>10, <1>13, <1>14, <1>15
     DEF NukeNext, NukeStep, Carrying, Aside

-----------------------------------------------------------------------------
(* A workspace is removed only when it has been backed up. *)

\* A workspace is struck from those to be backed up when its backup is made or has
\* failed, and none is left when backups end.
LEMMA NoneUnsaved ==
  ASSUME INuke, Carrying
  PROVE  /\ nuke'.todo.workspaces \subseteq nuke.todo.workspaces
         /\ \A ws \in nuke.unsaved :
              ws \in nuke'.unsaved \/ ws \in nuke'.failed \/ \E copy \in nuke'.saved : copy[1] = ws
         /\ nuke'.pc # "backup" =>
              nuke'.unsaved = nuke.unsaved /\ (nuke.pc = "backup" => nuke.unsaved = {})
<1>0. nuke \in Nuking /\ nuke.todo \in Plan
  BY DEF INuke, Nuking
<1>1. CASE Backup
  <2>1. PICK ws \in nuke.unsaved :
          nuke' = [nuke EXCEPT !.unsaved = @ \ {ws},
                               !.saved = @ \cup {<<ws, ContentOf(ws.path)>>}]
    BY <1>1 DEF Backup
  <2> DEFINE copy == <<ws, ContentOf(ws.path)>>
  <2>2. copy \in nuke'.saved /\ copy[1] = ws
    BY <1>0, <2>1 DEF Nuking
  <2>3. /\ nuke'.pc = nuke.pc /\ nuke'.todo = nuke.todo
        /\ nuke'.unsaved = nuke.unsaved \ {ws}
    BY <1>0, <2>1 DEF Nuking
  <2>. HIDE DEF copy
  <2>. QED
    BY <1>1, <2>2, <2>3 DEF Backup, NukeAt
<1>2. CASE BackupFails
  BY <1>0, <1>2 DEF BackupFails, NukeAt, Nuking
<1>3. CASE BackupsEnd
  BY <1>0, <1>3 DEF BackupsEnd, NukeGoto, NukeAt, Nuking
<1>4. CASE NukeEnds
  BY <1>0, <1>4 DEF NukeEnds, ContainersAndNetworksDone, NukeGoto, NukeAt, Nuking
<1>5. CASE NextContainer
  BY <1>0, <1>5 DEF NextContainer, NukeAt, Nuking, Plan
<1>6. CASE NextNetwork
  BY <1>0, <1>6 DEF NextNetwork, NukeAt, Nuking, Plan
<1>7. CASE NukeFindToStop \/ NukeFindToRm \/ NukeFindNetwork
  BY <1>0, <1>7 DEF NukeFindToStop, NukeFindToRm, NukeFindTo, NukeFindNetwork, NukeAt, Nuking
<1>8. ASSUME NEW at, NEW expected, at # "backup",
             StopFails(at, expected) \/ RemoveFails(at, expected)
      PROVE  nuke.pc # "backup" /\ UNCHANGED <<nuke.todo, nuke.unsaved>>
  BY <1>0, <1>8 DEF StopFails, RemoveFails, ErrorThenNext, NukeAt, Nuking
<1>9. CASE NukeFindFails \/ NukeStopFails \/ NukeRemoveFails \/ NukeFindNetworkFails
           \/ NukeRemoveNetworkFails
  <2>1. nuke.pc # "backup" /\ UNCHANGED <<nuke.todo, nuke.unsaved>>
    BY <1>8, <1>9 DEF NukeFindFails, NukeStopFails, NukeRemoveFails, NukeFindNetworkFails,
       NukeRemoveNetworkFails
  <2>. QED
    BY <2>1
<1>10. CASE NukeStop \/ NukeRemove \/ NukeRemoveNetwork
  BY <1>0, <1>10 DEF NukeStop, NukeRemove, NukeRemoveNetwork, NextItem, NukeAt, Nuking
<1>11. CASE SkipUnsaved \/ NukeRemoveWorkspace \/ NukeRemoveWorkspaceFails
  <2>1. PICK ws : \/ nuke' = [nuke EXCEPT !.todo.workspaces = @ \ {ws}]
                  \/ nuke' = [nuke EXCEPT !.todo.workspaces = @ \ {ws},
                                          !.errors = @ \cup {ws}]
    BY <1>11 DEF SkipUnsaved, NukeRemoveWorkspace, NukeRemoveWorkspaceFails
  <2>2. nuke.pc = "next"
    BY <1>11 DEF SkipUnsaved, NukeRemoveWorkspace, NukeRemoveWorkspaceFails,
       ContainersAndNetworksDone, NukeAt
  <2>3. CASE nuke' = [nuke EXCEPT !.todo.workspaces = @ \ {ws}]
    BY <1>0, <2>2, <2>3 DEF Nuking, Plan
  <2>4. CASE nuke' = [nuke EXCEPT !.todo.workspaces = @ \ {ws}, !.errors = @ \cup {ws}]
    BY <1>0, <2>2, <2>4 DEF Nuking, Plan
  <2>. QED
    BY <2>1, <2>3, <2>4
<1>. QED
  BY <1>1, <1>2, <1>3, <1>4, <1>5, <1>6, <1>7, <1>9, <1>10, <1>11 DEF Carrying

\* Every step keeps what is still to be backed up, has been, or could not be.
LEMMA SavedKept ==
  ASSUME INuke, ISaved, [NukeNext]_vars
  PROVE  ISaved'
<1>1. CASE Carrying
  BY <1>1, NoneUnsaved, CarryingKeeps DEF ISaved
<1>2. CASE Aside
  BY <1>2, AsideKeeps DEF ISaved
<1>3. CASE BeginNuke \/ Listing \/ Confirm \/ Decline
  <2>1. ASSUME nuke'.pc \in Carried
        PROVE  /\ nuke'.pc = "backup"
               /\ nuke'.backup => nuke'.todo.workspaces = nuke'.unsaved
    <3>1. ListWorkspaces /\ nuke.run /\ nuke'.pc = "backup" /\ nuke'.todo = nuke'.plan
      BY <1>3, <2>1, CarryingBegins
    <3> DEFINE plan == [nuke.plan EXCEPT !.workspaces = WithRefs(Listed)]
               unsaved == IF nuke.run /\ nuke.backup THEN plan.workspaces ELSE {}
    <3>2. PICK pc, todo :
            nuke' = [nuke EXCEPT !.pc = pc, !.plan = plan, !.todo = todo, !.unsaved = unsaved]
      BY <3>1 DEF ListWorkspaces
    <3>. HIDE DEF plan, unsaved
    <3>3. nuke'.plan = plan /\ nuke'.unsaved = unsaved /\ nuke'.backup = nuke.backup
      BY <3>2 DEF INuke, Nuking
    <3>. QED
      BY <3>1, <3>3 DEF unsaved
  <2>. QED
    BY <2>1 DEF ISaved
<1>. QED
  BY <1>1, <1>2, <1>3 DEF NukeNext, NukeStep, Aside

-----------------------------------------------------------------------------
(* A nuke that is alone has listed all that is managed. *)

\* Nuke's own steps make nothing managed, and no workspace.
LEMMA OnlyLess ==
  ASSUME IWorld, INuke, NukeStep
  PROVE  /\ \A kind : Managed(kind)' \subseteq Managed(kind)
         /\ \A n \in NetworkIds :
              LiveNet(n)' /\ networks'[n].managed => LiveNet(n) /\ networks[n].managed
         /\ Listed' \subseteq Listed
<1>0. containers \in [ContainerIds -> Container] /\ networks \in [NetworkIds -> Network]
      /\ dirs \in [Paths -> Dir]
  BY DEF IWorld, IType, TypeOK, DaemonTypeOK, DirsTypeOK
<1>1. CASE UNCHANGED world
  BY <1>1 DEF world, Managed, Live, LiveNet, Listed, Inspects
<1>2. CASE NukeStop \/ NukeRemove
  <2>1. \A c \in ContainerIds : Live(c)' => /\ Live(c)
                                            /\ containers'[c].managed = containers[c].managed
                                            /\ containers'[c].ref = containers[c].ref
    BY <1>0, <1>2 DEF NukeStop, NukeRemove, ContainerStop, ContainerRemove, NoContainer, Live,
       Container
  <2>2. UNCHANGED <<networks, dirs>>
    BY <1>2 DEF NukeStop, NukeRemove, ContainerStop, ContainerRemove
  <2>3. \A kind : Managed(kind)' \subseteq Managed(kind)
    BY <2>1 DEF Managed
  <2>4. Listed' = Listed
    BY <2>2 DEF Listed, Inspects
  <2>. QED
    BY <2>2, <2>3, <2>4 DEF LiveNet
<1>3. CASE NukeRemoveNetwork
  <2>1. \A n \in NetworkIds : LiveNet(n)' => networks'[n] = networks[n]
    BY <1>0, <1>3 DEF NukeRemoveNetwork, NetworkRemove, NoNetwork, LiveNet
  <2>2. UNCHANGED <<containers, dirs>>
    BY <1>3 DEF NukeRemoveNetwork, NetworkRemove
  <2>. QED
    BY <2>1, <2>2 DEF LiveNet, Managed, Live, Listed, Inspects
<1>4. CASE NukeRemoveWorkspace
  <2>1. PICK path : dirs' = [dirs EXCEPT ![path] = NoDir]
    BY <1>4 DEF NukeRemoveWorkspace, RemoveWorkspace
  <2>2. UNCHANGED <<containers, networks>>
    BY <1>4 DEF NukeRemoveWorkspace, daemon
  <2>3. \A p \in Paths : dirs'[p].exists => dirs'[p] = dirs[p]
    BY <1>0, <2>1 DEF NoDir
  <2>4. Listed' \subseteq Listed
    BY <2>3, DefaultPathType DEF Listed, Inspects
  <2>. QED
    BY <2>2, <2>4 DEF LiveNet, Managed, Live
<1>. QED
  BY <1>1, <1>2, <1>3, <1>4, OnlyLooking DEF Touching

\* A workspace is struck from those to be removed when it is removed or its failure is
\* reported.
LEMMA ListedRemoved ==
  ASSUME IWorld, INuke, Carrying, Listed \subseteq nuke.todo.workspaces \cup nuke.errors
  PROVE  Listed' \subseteq nuke'.todo.workspaces \cup nuke'.errors
<1>0. nuke \in Nuking /\ nuke.todo \in Plan
  BY DEF INuke, Nuking
<1>1. Listed' \subseteq Listed /\ nuke.errors \subseteq nuke'.errors
  BY OnlyLess, CarryingKeeps DEF NukeStep
<1>2. CASE NukeRemoveWorkspace
  <2>1. PICK ws : /\ dirs' = [dirs EXCEPT ![ws.path] = NoDir]
                  /\ nuke' = [nuke EXCEPT !.todo.workspaces = @ \ {ws}]
    BY <1>2 DEF NukeRemoveWorkspace, RemoveWorkspace
  <2>2. nuke'.todo.workspaces = nuke.todo.workspaces \ {ws}
    BY <1>0, <2>1 DEF Nuking, Plan
  <2>3. ASSUME NEW w \in Listed'
        PROVE  w.path # ws.path
    <3>1. w.path \in Paths /\ dirs'[w.path].exists
      BY DefaultPathType DEF Listed, Inspects
    <3>2. dirs'[ws.path] = NoDir \/ ws.path \notin Paths
      BY <2>1 DEF IWorld, IType, TypeOK, DirsTypeOK
    <3>. QED
      BY <3>1, <3>2 DEF NoDir
  <2>. QED
    BY <1>1, <2>2, <2>3
<1>3. CASE SkipUnsaved
  <2>1. PICK ws \in nuke.failed : nuke' = [nuke EXCEPT !.todo.workspaces = @ \ {ws}]
    BY <1>3 DEF SkipUnsaved
  <2>2. nuke'.todo.workspaces = nuke.todo.workspaces \ {ws}
    BY <1>0, <2>1 DEF Nuking, Plan
  <2>3. ws \in nuke.errors
    BY DEF INuke, TodoOfPlan
  <2>. QED
    BY <1>1, <2>2, <2>3
<1>4. CASE NukeRemoveWorkspaceFails
  <2>1. PICK ws : nuke' = [nuke EXCEPT !.todo.workspaces = @ \ {ws}, !.errors = @ \cup {ws}]
    BY <1>4 DEF NukeRemoveWorkspaceFails
  <2>2. /\ nuke'.todo.workspaces = nuke.todo.workspaces \ {ws}
        /\ ws \in nuke'.errors
    BY <1>0, <2>1 DEF Nuking, Plan
  <2>. QED
    BY <1>1, <2>2
<1>5. CASE Backup \/ BackupFails
  BY <1>0, <1>1, <1>5 DEF Backup, BackupFails, Nuking
<1>6. CASE BackupsEnd \/ NukeEnds
  BY <1>0, <1>1, <1>6 DEF BackupsEnd, NukeEnds, NukeGoto, Nuking
<1>7. CASE NextContainer \/ NextNetwork
  <2>1. nuke'.todo.workspaces = nuke.todo.workspaces
    <3>1. CASE NextContainer
      BY <1>0, <3>1 DEF NextContainer, Nuking, Plan
    <3>2. CASE NextNetwork
      BY <1>0, <3>2 DEF NextNetwork, Nuking, Plan
    <3>. QED
      BY <1>7, <3>1, <3>2
  <2>. QED
    BY <1>1, <2>1
<1>8. CASE NukeFindToStop \/ NukeFindToRm \/ NukeFindNetwork
  BY <1>0, <1>1, <1>8 DEF NukeFindToStop, NukeFindToRm, NukeFindTo, NukeFindNetwork, Nuking
<1>9. ASSUME NEW at, NEW expected, StopFails(at, expected) \/ RemoveFails(at, expected)
      PROVE  nuke'.todo = nuke.todo
  BY <1>0, <1>9 DEF StopFails, RemoveFails, ErrorThenNext, Nuking
<1>10. CASE NukeFindFails \/ NukeStopFails \/ NukeRemoveFails \/ NukeFindNetworkFails
            \/ NukeRemoveNetworkFails
  <2>1. nuke'.todo = nuke.todo
    BY <1>9, <1>10 DEF NukeFindFails, NukeStopFails, NukeRemoveFails, NukeFindNetworkFails,
       NukeRemoveNetworkFails
  <2>. QED
    BY <1>1, <2>1
<1>11. CASE NukeStop \/ NukeRemove \/ NukeRemoveNetwork
  BY <1>0, <1>1, <1>11 DEF NukeStop, NukeRemove, NukeRemoveNetwork, NextItem, Nuking
<1>. QED
  BY <1>2, <1>3, <1>4, <1>5, <1>6, <1>7, <1>8, <1>10, <1>11 DEF Carrying

\* Every step keeps what a nuke that is alone has listed.
LEMMA QuietKept ==
  ASSUME IWorld, INuke, IQuiet, [NukeNext]_vars
  PROVE  IQuiet'
<1> USE DEF Carried, OnContainer, OnNetwork
<1>0. nuke \in Nuking /\ nuke.plan \in Plan
  BY DEF INuke, Nuking
<1>1. CASE BeginNuke \/ Decline \/ ListFails
  BY <1>1, Restarts DEF IQuiet
<1>2. CASE Confirm
  <2>1. ~nuke.quiet /\ nuke'.pc = "services" /\ nuke'.quiet = nuke.quiet
    BY <1>0, <1>2 DEF Confirm, NukeAt, IQuiet, Nuking
  <2>. QED
    BY <2>1 DEF IQuiet
<1>3. ASSUME BeginNuke \/ Listing \/ Confirm \/ Decline
      PROVE  /\ \A kind : Managed(kind)' = Managed(kind)
             /\ \A n \in NetworkIds : LiveNet(n)' = LiveNet(n) /\ networks'[n] = networks[n]
             /\ Listed' = Listed
  <2>1. UNCHANGED world
    BY <1>3 DEF BeginNuke, Listing, ListServices, ListEnvironments, ListVPNGateways,
       ListContainers, ListNetworks, ListWorkspaces, ListFails, Confirm, Decline
  <2>. QED
    BY <2>1 DEF world, Managed, Live, LiveNet, Listed, Inspects
<1>4. ASSUME NEW at, NEW kind, NEW next, ListContainers(at, kind, next)
      PROVE  /\ nuke.pc = at /\ nuke'.pc = next
             /\ UNCHANGED <<nuke.run, nuke.errors, nuke.plan.networks>>
             /\ nuke'.quiet => nuke.quiet \/ (at = "services" /\ nuke.run)
             /\ nuke'.plan.containers = nuke.plan.containers \cup Items(kind)
  BY <1>0, <1>4 DEF ListContainers, NukeAt, Nuking, Plan
<1>5. ASSUME NEW kind, NEW c \in Managed(kind)
      PROVE  \E i \in Items(kind) : i.id = c
  <2> DEFINE i == [id |-> c, ref |-> containers[c].ref, running |-> Running(c),
                   mount |-> containers[c].mount]
  <2>1. i \in Items(kind)
    BY DEF Items
  <2>2. i.id = c
    OBVIOUS
  <2>. QED
    BY <2>1, <2>2
<1>6. CASE ListServices
  <2>1. /\ nuke.pc = "services" /\ nuke'.pc = "environments"
        /\ UNCHANGED <<nuke.run, nuke.errors, nuke.plan.networks>>
        /\ nuke'.quiet => nuke.quiet \/ nuke.run
        /\ nuke'.plan.containers = nuke.plan.containers \cup Items("service")
    BY <1>4, <1>6 DEF ListServices
  <2>2. Covered("service")'
    BY <1>3, <1>5, <1>6, <2>1 DEF Listing, Covered
  <2>. QED
    BY <1>3, <1>6, <2>1, <2>2 DEF Listing, IQuiet, Covered
<1>7. CASE ListEnvironments
  <2>1. /\ nuke.pc = "environments" /\ nuke'.pc = "gateways"
        /\ UNCHANGED <<nuke.run, nuke.errors, nuke.plan.networks>>
        /\ nuke'.quiet => nuke.quiet
        /\ nuke'.plan.containers = nuke.plan.containers \cup Items("workbench")
    BY <1>4, <1>7 DEF ListEnvironments
  <2>2. Covered("workbench")'
    BY <1>3, <1>5, <1>7, <2>1 DEF Listing, Covered
  <2>. QED
    BY <1>3, <1>7, <2>1, <2>2 DEF Listing, IQuiet, Covered
<1>8. CASE ListVPNGateways
  <2>1. /\ nuke.pc = "gateways" /\ nuke'.pc = "networks"
        /\ UNCHANGED <<nuke.run, nuke.errors, nuke.plan.networks>>
        /\ nuke'.quiet => nuke.quiet
        /\ nuke'.plan.containers = nuke.plan.containers \cup Items("vpn")
    BY <1>4, <1>8 DEF ListVPNGateways
  <2>2. Covered("vpn")'
    BY <1>3, <1>5, <1>8, <2>1 DEF Listing, Covered
  <2>. QED
    BY <1>3, <1>8, <2>1, <2>2 DEF Listing, IQuiet, Covered
<1>9. CASE ListNetworks
  <2>1. /\ nuke.pc = "networks" /\ nuke'.pc = "workspaces"
        /\ UNCHANGED <<nuke.run, nuke.quiet, nuke.plan.containers>>
        /\ nuke'.plan.networks =
             {[id |-> n, name |-> networks[n].name] :
                n \in {m \in NetworkIds : LiveNet(m) /\ networks[m].managed}}
    BY <1>0, <1>9 DEF ListNetworks, NukeAt, Nuking, Plan
  <2>2. ASSUME NEW n \in NetworkIds, LiveNet(n), networks[n].managed
        PROVE  \E i \in nuke'.plan.networks : i.id = n
    <3> DEFINE i == [id |-> n, name |-> networks[n].name]
    <3>1. i \in nuke'.plan.networks
      BY <2>1, <2>2
    <3>2. i.id = n
      OBVIOUS
    <3>. QED
      BY <3>1, <3>2
  <2>. QED
    BY <1>3, <1>9, <2>1, <2>2 DEF Listing, IQuiet, Covered
<1>10. CASE ListWorkspaces
  <2> DEFINE plan == [nuke.plan EXCEPT !.workspaces = WithRefs(Listed)]
  <2>1. PICK unsaved, todo :
          /\ nuke' = [nuke EXCEPT !.pc = IF nuke.run THEN "backup" ELSE "prompt",
                                  !.plan = plan, !.todo = todo, !.unsaved = unsaved]
          /\ todo = IF nuke.run THEN plan ELSE NoPlan
    BY <1>10 DEF ListWorkspaces
  <2>2. /\ plan.containers = nuke.plan.containers /\ plan.networks = nuke.plan.networks
        /\ Listed \subseteq plan.workspaces
    BY <1>0 DEF Plan, WithRefs
  <2>. HIDE DEF plan
  <2>3. /\ nuke'.pc = IF nuke.run THEN "backup" ELSE "prompt"
        /\ nuke'.plan = plan /\ (nuke.run => nuke'.todo = plan)
        /\ UNCHANGED <<nuke.run, nuke.quiet>>
    BY <1>0, <2>1 DEF Nuking
  <2>4. nuke.pc = "workspaces"
    BY <1>10 DEF ListWorkspaces, NukeAt
  <2>. QED
    BY <1>3, <1>10, <2>2, <2>3, <2>4 DEF Listing, IQuiet, Covered
<1>11. CASE Carrying
  <2>1. /\ nuke.pc \in Carried /\ nuke'.pc \in Carried
        /\ UNCHANGED <<nuke.plan, nuke.run, nuke.quiet>>
    BY <1>11, CarryingKeeps
  <2>2. /\ \A kind : Managed(kind)' \subseteq Managed(kind)
        /\ \A n \in NetworkIds :
             LiveNet(n)' /\ networks'[n].managed => LiveNet(n) /\ networks[n].managed
    BY <1>11, OnlyLess DEF NukeStep
  <2>3. Listed \subseteq nuke.todo.workspaces \cup nuke.errors =>
          Listed' \subseteq nuke'.todo.workspaces \cup nuke'.errors
    BY <1>11, ListedRemoved
  <2>. QED
    BY <2>1, <2>2, <2>3 DEF IQuiet, Covered
<1>12. CASE Aside
  <2>1. UNCHANGED <<nuke.pc, nuke.run, nuke.plan, nuke.todo, nuke.errors>>
        /\ (nuke'.quiet => nuke.quiet /\ ~Others)
    BY <1>12, AsideKeeps
  <2>2. CASE ~Others
    <3>1. UNCHANGED world
      BY <1>12, <2>2 DEF Aside, Tick, vars, world
    <3>2. /\ \A kind : Managed(kind)' = Managed(kind)
          /\ \A n \in NetworkIds : LiveNet(n)' = LiveNet(n) /\ networks'[n] = networks[n]
          /\ Listed' = Listed
      BY <3>1 DEF world, Managed, Live, LiveNet, Listed, Inspects
    <3>. QED
      BY <2>1, <3>2 DEF IQuiet, Covered
  <2>3. CASE Others
    BY <2>1, <2>3 DEF IQuiet
  <2>. QED
    BY <2>2, <2>3
<1>. QED
  BY <1>1, <1>2, <1>6, <1>7, <1>8, <1>9, <1>10, <1>11, <1>12
     DEF NukeNext, NukeStep, Listing, Aside

-----------------------------------------------------------------------------
(* The theorems. *)

\* Initially nothing is there, and no nuke has begun.
LEMMA InitNukeKnown == NukeInit => INukeKnown
<1> SUFFICES ASSUME NukeInit
             PROVE  INukeKnown
  OBVIOUS
<1>1. IWorld
  BY InitIType DEF NukeInit, Init, DaemonInit, IWorld, ManagedHaveRefs, NetworksHaveNames,
     NoContainer, NoNetwork, Live, LiveNet
<1>2. nuke = NoNuke
  BY DEF NukeInit
<1>3. /\ nuke.pc = "idle" /\ ~nuke.run /\ ~nuke.quiet
      /\ nuke.plan = NoPlan /\ nuke.todo = NoPlan
      /\ nuke.item = None /\ nuke.failed = {}
  BY <1>2 DEF NoNuke
<1>4. nuke \in Nuking
  BY <1>2 DEF NoNuke, Nuking, NoPlan, Plan, NukeSteps
<1>5. INuke
  BY <1>3, <1>4, MaxClockType
     DEF NukeInit, INuke, ItemAtHand, TodoOfPlan, OnContainer, OnNetwork, NoPlan
<1>6. IPlan /\ IFinds /\ IRemoved /\ IOrder /\ ISaved /\ IQuiet
  BY <1>3 DEF IPlan, IFinds, FoundContainer, FoundNetwork, IRemoved, IOrder, ISaved, IQuiet, Carried,
     OnContainer, OnNetwork, NoPlan
<1>. QED
  BY <1>1, <1>5, <1>6 DEF INukeKnown

\* What nuke knows at each step is so at all times: whatever other commands, other
\* tools and failures come between its steps.
THEOREM NukeKnowledgeCorrect == NukeSpec => []INukeKnown
<1>1. INukeKnown /\ [NukeNext]_vars => INukeKnown'
  BY WorldKept, NukeTyped, HandKept, PlanKept, FindsKept, RemovedKept, OrderKept, SavedKept,
     QuietKept DEF INukeKnown, INuke
<1>. QED
  BY <1>1, InitNukeKnown, PTL DEF NukeSpec

\* Nuke, its archives and all that it acts on keep to their types, for any number of
\* terminals, containers, networks, workspaces and seconds.
THEOREM NukeTypeCorrect == NukeSpec => []NukeTypeOK
<1>1. INukeKnown => NukeTypeOK
  BY DEF INukeKnown, IWorld, IType, INuke, NukeTypeOK
<1>. QED
  BY <1>1, NukeKnowledgeCorrect, PTL

\* When nuke ends, every container and network of its plan is gone or its failure is
\* reported, though nuke looks each up again by a name that others may have given to
\* another.
THEOREM ReportsCorrect == NukeSpec => []RemovedOrReported
<1>1. INukeKnown => RemovedOrReported
  <2> SUFFICES ASSUME INukeKnown, nuke.pc = "done"
               PROVE  /\ \A i \in nuke.plan.containers : ContainerSettled(i)
                      /\ \A i \in nuke.plan.networks : NetworkSettled(i)
    BY DEF RemovedOrReported, NukeAt
  <2>1. nuke.todo = NoPlan
    BY DEF INukeKnown, INuke, TodoOfPlan, Carried, OnContainer, OnNetwork
  <2>. QED
    BY <2>1 DEF INukeKnown, IRemoved, Carried, OnContainer, OnNetwork, NoPlan
<1>. QED
  BY <1>1, NukeKnowledgeCorrect, PTL

\* Nuke turns to a container, a network or a workspace when all that may use it is gone or
\* its failure is reported, whoever interferes.
THEOREM OrderCorrect == NukeSpec => []RemovedInOrder
<1>1. INukeKnown => RemovedInOrder
  <2> SUFFICES ASSUME INukeKnown
               PROVE  RemovedInOrder
    OBVIOUS
  <2> USE DEF Carried, OnContainer, OnNetwork
  <2>1. IRemoved /\ IOrder
    BY DEF INukeKnown
  <2>2. \A i, j : MayUse(i, j) => Earlier(i, j) /\ i # j
    BY DEF MayUse, Earlier
  <2>3. ASSUME nuke.pc \in OnContainer, NEW i \in nuke.plan.containers, MayUse(i, nuke.item)
        PROVE  ContainerSettled(i)
    BY <2>1, <2>2, <2>3 DEF IRemoved, IOrder
  <2>4. ASSUME nuke.pc \in OnNetwork, NEW i \in nuke.plan.containers
        PROVE  ContainerSettled(i)
    BY <2>1, <2>4 DEF IRemoved, IOrder
  <2>5. ASSUME nuke.pc \in {"next", "done"}, nuke.todo.workspaces # nuke.plan.workspaces
        PROVE  /\ \A i \in nuke.plan.containers : ContainerSettled(i)
               /\ \A i \in nuke.plan.networks : NetworkSettled(i)
    BY <2>1, <2>5 DEF IRemoved, IOrder
  <2>. QED
    BY <2>3, <2>4, <2>5 DEF RemovedInOrder
<1>. QED
  BY <1>1, NukeKnowledgeCorrect, PTL

\* A nuke that ran alone leaves nothing managed, and no workspace in the root, but what it
\* has reported a failure of.
THEOREM LeftoversCorrect == NukeSpec => []OnlyReportedStays
<1>1. INukeKnown => OnlyReportedStays
  <2> SUFFICES ASSUME INukeKnown, nuke.pc = "done", nuke.quiet
               PROVE  /\ \A c \in ContainerIds : Live(c) /\ containers[c].managed =>
                           \E i \in nuke.plan.containers \cap nuke.errors : i.id = c
                      /\ \A n \in NetworkIds : LiveNet(n) /\ networks[n].managed =>
                           \E i \in nuke.plan.networks \cap nuke.errors : i.id = n
                      /\ Listed \subseteq nuke.errors
    BY DEF OnlyReportedStays, NukeAt
  <2>1. nuke.todo = NoPlan
    BY DEF INukeKnown, INuke, TodoOfPlan, Carried, OnContainer, OnNetwork
  <2>2. /\ \A i \in nuke.plan.containers : ContainerSettled(i)
        /\ \A i \in nuke.plan.networks : NetworkSettled(i)
    BY <2>1 DEF INukeKnown, IRemoved, Carried, OnContainer, OnNetwork, NoPlan
  <2>3. /\ Covered("service") /\ Covered("workbench") /\ Covered("vpn")
        /\ \A n \in NetworkIds :
             LiveNet(n) /\ networks[n].managed => \E i \in nuke.plan.networks : i.id = n
        /\ Listed \subseteq nuke.todo.workspaces \cup nuke.errors
    BY DEF INukeKnown, IQuiet, Carried, OnContainer, OnNetwork
  <2>4. ASSUME NEW c \in ContainerIds, Live(c), containers[c].managed
        PROVE  \E i \in nuke.plan.containers \cap nuke.errors : i.id = c
    <3>1. containers[c].ref.kind \in {"service", "workbench", "vpn"}
      BY <2>4, RefKinds DEF INukeKnown, IWorld, ManagedHaveRefs
    <3>2. PICK i \in nuke.plan.containers : i.id = c
      BY <2>3, <2>4, <3>1 DEF Covered, Managed
    <3>. QED
      BY <2>2, <2>4, <3>2 DEF ContainerSettled
  <2>5. ASSUME NEW n \in NetworkIds, LiveNet(n), networks[n].managed
        PROVE  \E i \in nuke.plan.networks \cap nuke.errors : i.id = n
    BY <2>2, <2>3, <2>5 DEF NetworkSettled
  <2>. QED
    BY <2>1, <2>3, <2>4, <2>5 DEF NoPlan
<1>. QED
  BY <1>1, NukeKnowledgeCorrect, PTL

\* Nuke stops and removes managed containers and networks only, though it acts on what
\* a name meant when it last looked.
THEOREM ManagedOnly == NukeSpec => NukeTouchesManagedOnly
<1>1. INukeKnown /\ [NukeNext]_vars =>
        [nuke'.pc # nuke.pc =>
           /\ \A c \in ContainerIds :
                Live(c) /\ containers'[c] # containers[c] => containers[c].managed
           /\ \A n \in NetworkIds :
                LiveNet(n) /\ networks'[n] # networks[n] => networks[n].managed]_vars
  <2> SUFFICES ASSUME INukeKnown, [NukeNext]_vars, nuke'.pc # nuke.pc
               PROVE  /\ \A c \in ContainerIds :
                           Live(c) /\ containers'[c] # containers[c] => containers[c].managed
                      /\ \A n \in NetworkIds :
                           LiveNet(n) /\ networks'[n] # networks[n] => networks[n].managed
    OBVIOUS
  <2>0. DaemonTypeOK /\ INuke /\ IFinds
    BY DEF INukeKnown, IWorld, IType, TypeOK
  <2>1. NukeStep
    BY <2>0, AsideKeeps DEF NukeNext, Aside
  <2>2. CASE NukeStop \/ NukeRemove
    <3>1. /\ UNCHANGED networks
          /\ Live(nuke.found) => containers[nuke.found].managed
          /\ \A c \in ContainerIds : c # nuke.found => containers'[c] = containers[c]
      BY <2>0, <2>2 DEF NukeStop, NukeRemove, ContainerStop, ContainerRemove, NukeAt, IFinds,
         FoundContainer, DaemonTypeOK
    <3>. QED
      BY <3>1
  <2>3. CASE NukeRemoveNetwork
    <3>1. /\ UNCHANGED containers
          /\ LiveNet(nuke.found) => networks[nuke.found].managed
          /\ \A n \in NetworkIds : n # nuke.found => networks'[n] = networks[n]
      BY <2>0, <2>3 DEF NukeRemoveNetwork, NetworkRemove, NukeAt, IFinds, FoundNetwork,
         DaemonTypeOK
    <3>. QED
      BY <3>1
  <2>4. CASE NukeRemoveWorkspace
    BY <2>4 DEF NukeRemoveWorkspace, daemon
  <2>. QED
    BY <2>1, <2>2, <2>3, <2>4, OnlyLooking DEF Touching, world
<1>. QED
  BY <1>1, NukeKnowledgeCorrect, PTL DEF NukeSpec, NukeTouchesManagedOnly

\* Once backups were chosen, nuke removes no directory but that of a workspace it has
\* backed up.
THEOREM BackedUp == NukeSpec => RemovedWasBackedUp
<1>1. INukeKnown /\ [NukeNext]_vars =>
        [nuke.backup /\ nuke'.todo # nuke.todo =>
           \A path \in Paths :
             dirs[path].exists /\ ~dirs'[path].exists =>
               \E copy \in nuke.saved : copy[1].path = path]_vars
  <2> SUFFICES ASSUME INukeKnown, [NukeNext]_vars, nuke.backup, nuke'.todo # nuke.todo,
                      NEW path \in Paths, dirs[path].exists, ~dirs'[path].exists
               PROVE  \E copy \in nuke.saved : copy[1].path = path
    OBVIOUS
  <2>0. INuke /\ ISaved /\ dirs \in [Paths -> Dir]
    BY DEF INukeKnown, IWorld, IType, TypeOK, DirsTypeOK
  <2>1. NukeStep
    BY <2>0, AsideKeeps DEF NukeNext, Aside
  <2>2. NukeRemoveWorkspace
    BY <2>1, OnlyLooking DEF Touching, world, NukeStop, NukeRemove, NukeRemoveNetwork
  <2>3. PICK ws \in nuke.todo.workspaces \ nuke.failed : dirs' = [dirs EXCEPT ![ws.path] = NoDir]
    BY <2>2 DEF NukeRemoveWorkspace, RemoveWorkspace
  <2>4. path = ws.path
    BY <2>0, <2>3
  <2>5. nuke.pc = "next"
    BY <2>2 DEF NukeRemoveWorkspace, ContainersAndNetworksDone, NukeAt
  <2>6. nuke.unsaved = {} /\ (ws \in nuke.unsaved \/ \E copy \in nuke.saved : copy[1] = ws)
    BY <2>0, <2>3, <2>5 DEF ISaved, Carried
  <2>. QED
    BY <2>4, <2>6
<1>. QED
  BY <1>1, NukeKnowledgeCorrect, PTL DEF NukeSpec, RemovedWasBackedUp

=============================================================================
