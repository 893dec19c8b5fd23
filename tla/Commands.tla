------------------------------ MODULE Commands ------------------------------
(***************************************************************************)
(* The contaigen commands that create, start, stop and remove              *)
(* environments, services, VPN gateways and networks, run by any number of *)
(* terminals at once.  Every command is a process of its own and there is  *)
(* no lock: what a command does is a sequence of Docker calls (and of      *)
(* workspace calls), and the calls of other commands, of docker compose,   *)
(* and of the user's own docker commands come between them.                *)
(*                                                                         *)
(* Each action below is one such call, with what the code computes from    *)
(* its answer.  The guard of an action is the answer on which the code     *)
(* goes on.  On any other answer (not found, already there, refused by the *)
(* daemon, interrupted) the code returns the error at once and undoes      *)
(* nothing: that is the action Return.                                     *)
(***************************************************************************)
EXTENDS Docker, Workspaces

CONSTANTS
  Procs,           \* terminals that run commands
  Requests,        \* the commands that are asked for: a subset of Request
  DefaultNet,      \* contaigen-<env>, for each environment
  NameOf,          \* the container name the code gives to each ref
  ComposeNames,    \* container names docker compose gives; {} = compose unused
  ForeignNames     \* names of containers and networks of other tools

VARIABLE cmds      \* the command each terminal runs, and what it has learnt

engineVars == <<containers, networks, dirs, cmds>>

Profiles == {"bridge", "isolated", "host", "segment", "vpn"}

\* A validated request.  Fields that an operation does not use are None.  "name"
\* and "path" are the workspace's (name None: --no-workspace).
Request ==
  [op      : {"create", "start", "stop", "rm", "network", "up", "down"},
   ref     : Refs \cup {None},
   profile : Profiles \cup {None},
   net     : NetworkNames \cup {None},
   vpn     : Gateways \cup {None},
   name    : WorkspaceNames \cup {None},
   path    : Paths \cup {None},
   start   : BOOLEAN,
   force   : BOOLEAN]

\* What the validation of a request, and the command line, leave through.
Validated(req) ==
  /\ req \in Request
  /\ req.op = "network" <=> req.ref = None
  /\ req.op = "network" => req.net # None
  /\ req.op \in {"up", "down"} => req.ref \in ServiceRefs
  /\ req.op = "create" /\ req.ref \in EnvRefs => req.profile # None
  /\ req.profile = "vpn" <=> req.vpn # None

ASSUME RequestsType  == \A req \in Requests : Validated(req)
ASSUME NameOfType    == NameOf \in [Refs -> ContainerNames]
ASSUME ComposeType   == ComposeNames \subseteq ContainerNames
ASSUME ForeignType   == ForeignNames \subseteq ContainerNames \cup NetworkNames
ASSUME DefaultNetType == DefaultNet \in [Environments -> NetworkNames]
ASSUME IdsAreApart   == None \notin ContainerIds \cup NetworkIds \cup Requests

Steps == {"idle", "profile", "netinspect", "netcreate", "netread", "wsinspect",
          "wscreate", "envinspect", "find", "create", "inspect", "startfind",
          "start", "reinspect", "stopfind", "stop", "rmfind", "rm", "compose"}

\* Where a command is, its request, the object it found by name or was given an
\* ID for, and the network mode, network label and mount it has decided on.
Command ==
  [pc    : Steps,
   req   : Requests \cup {None},
   found : ContainerIds \cup NetworkIds \cup {None},
   mode  : Modes \cup {None},
   label : NamedModes \cup {None},
   mount : Workspace \cup {None}]

NoCommand == [pc |-> "idle", req |-> None, found |-> None,
              mode |-> None, label |-> None, mount |-> None]

CommandsTypeOK == cmds \in [Procs -> Command]

Req(p)   == cmds[p].req
At(p, s) == cmds[p].pc = s

\* The command goes on at step s, or has returned and the terminal is free.
Goto(p, s)          == cmds' = [cmds EXCEPT ![p].pc = s]
GotoWith(p, s, obj) == cmds' = [cmds EXCEPT ![p].pc = s, ![p].found = obj]
Finish(p)           == cmds' = [cmds EXCEPT ![p] = NoCommand]

-----------------------------------------------------------------------------
(* Starting and returning. *)

FirstStep(req) ==
  CASE req.op = "network" -> "netinspect"
    [] req.op = "start"   -> "startfind"
    [] req.op = "stop"    -> "stopfind"
    [] req.op = "rm"      -> "rmfind"
    [] req.op \in {"up", "down"} -> "envinspect"
    [] req.op = "create" /\ req.ref.kind = "workbench" -> "profile"
    [] req.op = "create" /\ req.ref.kind = "service"   -> "envinspect"
    [] req.op = "create" /\ req.ref.kind = "vpn"       -> "find"

\* The network mode a command has before it asks Docker anything: a gateway goes
\* on the default bridge, "net create" carries the name it was given.
FirstMode(req) ==
  CASE req.op = "network" -> req.net
    [] req.op = "create" /\ req.ref.kind = "vpn" -> "bridge"
    [] OTHER -> None

Begin(p) ==
  /\ At(p, "idle")
  /\ \E req \in Requests :
       cmds' = [cmds EXCEPT ![p] = [NoCommand EXCEPT !.pc = FirstStep(req),
                                                     !.req = req,
                                                     !.mode = FirstMode(req)]]
  /\ UNCHANGED <<daemon, dirs>>

\* Any error, refusal or interrupt: the command ends where it is.
Return(p) ==
  /\ ~At(p, "idle")
  /\ Finish(p)
  /\ UNCHANGED <<daemon, dirs>>

-----------------------------------------------------------------------------
(* EnsureNetwork: reuse the managed network of that name or create it. *)

\* Where the caller of EnsureNetwork goes on: "net create" returns, "env create"
\* attaches the workspace.
AfterNetwork(p) ==
  IF Req(p).op = "network" THEN Finish(p) ELSE Goto(p, "wsinspect")

\* Fault: the managed label is not looked at.
ReuseAnyNetwork(p) ==
  /\ At(p, "netinspect")
  /\ NetworksNamed(cmds[p].mode) # {}
  /\ AfterNetwork(p)
  /\ UNCHANGED <<daemon, dirs>>

ReuseNetwork(p) ==
  /\ At(p, "netinspect")
  /\ \E n \in NetworksNamed(cmds[p].mode) : networks[n].managed
  /\ AfterNetwork(p)
  /\ UNCHANGED <<daemon, dirs>>

MissNetwork(p) ==
  /\ At(p, "netinspect")
  /\ NetworksNamed(cmds[p].mode) = {}
  /\ Goto(p, "netcreate")
  /\ UNCHANGED <<daemon, dirs>>

CreateNetwork(p) ==
  /\ At(p, "netcreate")
  /\ \E n \in NetworkIds :
       /\ NetworkCreate(n, cmds[p].mode, TRUE)
       /\ GotoWith(p, "netread", n)
  /\ UNCHANGED dirs

\* The new network is read back by its ID.
ReadNetwork(p) ==
  /\ At(p, "netread")
  /\ LiveNet(cmds[p].found)
  /\ AfterNetwork(p)
  /\ UNCHANGED <<daemon, dirs>>

-----------------------------------------------------------------------------
(* env create: the network profile, then the workspace. *)

\* Profiles that need nothing from Docker.  The network name a profile file or
\* --network-name left in the request stays in it and becomes a label.
BuiltinProfile(p) ==
  /\ At(p, "profile")
  /\ Req(p).profile \in {"bridge", "isolated", "host"}
  /\ LET mode == IF Req(p).profile = "isolated" THEN "none" ELSE Req(p).profile
     IN  cmds' = [cmds EXCEPT ![p].pc = "wsinspect",
                              ![p].mode = mode,
                              ![p].label = Req(p).net]
  /\ UNCHANGED <<daemon, dirs>>

\* Fault: the profile stands in for a missing network name.
SegmentNameFromProfile(req) == IF req.net = None THEN req.profile ELSE req.net

SegmentName(req) == IF req.net = None THEN DefaultNet[req.ref.env] ELSE req.net

SegmentProfile(p) ==
  /\ At(p, "profile")
  /\ Req(p).profile = "segment"
  /\ cmds' = [cmds EXCEPT ![p].pc = "netinspect",
                          ![p].mode = SegmentName(Req(p)),
                          ![p].label = SegmentName(Req(p))]
  /\ UNCHANGED <<daemon, dirs>>

\* The gateway must be there, running or not.  Its network namespace is shared by
\* container name; its own name becomes the environment's network label.
VPNProfile(p) ==
  /\ At(p, "profile")
  /\ Req(p).profile = "vpn"
  /\ \E c \in ContainerIds : Labelled(VPNRef(Req(p).vpn)) = {c}
  /\ cmds' = [cmds EXCEPT ![p].pc = "wsinspect",
                          ![p].mode = NameOf[VPNRef(Req(p).vpn)],
                          ![p].label = Req(p).vpn]
  /\ UNCHANGED <<daemon, dirs>>

\* attachWorkspace and Ensure: no workspace, an existing one found at its default
\* path, or one to be created.  A custom path is never inspected first.
SkipWorkspace(p) ==
  /\ At(p, "wsinspect")
  /\ Req(p).name = None
  /\ Goto(p, "find")
  /\ UNCHANGED <<daemon, dirs>>

Attached(p, path) ==
  cmds' = [cmds EXCEPT ![p].pc = "find",
                       ![p].mount = [name |-> Req(p).name, path |-> path]]

ReuseWorkspace(p) ==
  /\ At(p, "wsinspect")
  /\ Req(p).name # None
  /\ Req(p).path = None
  /\ Inspects(Req(p).name, DefaultPath[Req(p).name])
  /\ Attached(p, DefaultPath[Req(p).name])
  /\ UNCHANGED <<daemon, dirs>>

MissWorkspace(p) ==
  /\ At(p, "wsinspect")
  /\ Req(p).name # None
  /\ \/ Req(p).path # None
     \/ ~dirs[DefaultPath[Req(p).name]].exists
  /\ Goto(p, "wscreate")
  /\ UNCHANGED <<daemon, dirs>>

MakeWorkspace(p) ==
  /\ At(p, "wscreate")
  /\ CreateWorkspace(Req(p).name, Req(p).path)
  /\ Attached(p, PathOf(Req(p).name, Req(p).path))
  /\ UNCHANGED daemon

-----------------------------------------------------------------------------
(* service add and compose up/down: the network comes from the environment. *)

\* serviceNetworkForEnvironment and composeNetworkForEnvironment: the network
\* label if there is one, else the network mode, unless it is a built-in one.
EnvironmentNetwork(c) ==
  IF containers[c].label # None THEN containers[c].label ELSE containers[c].mode

InspectEnvironment(p) ==
  /\ At(p, "envinspect")
  /\ \E c \in ContainerIds :
       /\ Labelled(EnvRef(Req(p).ref.env)) = {c}
       /\ EnvironmentNetwork(c) \notin {"bridge", "host", "none"}
       /\ cmds' = [cmds EXCEPT
            ![p].pc = IF Req(p).op = "create" THEN "find" ELSE "compose",
            ![p].mode = EnvironmentNetwork(c),
            ![p].label = EnvironmentNetwork(c)]
  /\ UNCHANGED <<daemon, dirs>>

\* docker compose up: a service container of some project, labelled as a
\* Contaigen service by the override file.  Compose itself names it, finds it
\* again under that name, and looks at no Contaigen label.
ComposeUp(p) ==
  /\ At(p, "compose") /\ Req(p).op = "up"
  /\ NetworksNamed(cmds[p].mode) # {}
  /\ \E c \in ContainerIds, name \in ComposeNames :
       \/ ContainerCreate(c,
            [state |-> "running", name |-> name, managed |-> TRUE, ref |-> Req(p).ref,
             label |-> cmds[p].label, mode |-> cmds[p].mode, mount |-> None])
       \/ /\ containers[c].name = name
          /\ containers[c].managed
          /\ containers[c].ref = Req(p).ref
          /\ ContainerStart(c)
  /\ Finish(p)
  /\ UNCHANGED dirs

ComposeDown(p) ==
  /\ At(p, "compose") /\ Req(p).op = "down"
  /\ \E c \in ContainerIds :
       /\ containers[c].name \in ComposeNames
       /\ containers[c].managed
       /\ containers[c].ref = Req(p).ref
       /\ ContainerRemove(c, TRUE)
  /\ Finish(p)
  /\ UNCHANGED dirs

-----------------------------------------------------------------------------
(* env create, service add, vpn create: the container. *)

\* Fault: the list is not filtered by the managed label.
FoundUnmanaged(r, c) == {d \in ContainerIds : Live(d) /\ containers[d].ref = r} = {c}

\* findEnvironment, findService, findVPNGateway: exactly one container with the
\* labels; more than one is an error.
Found(r, c) == Labelled(r) = {c}

FindNone(p) ==
  /\ At(p, "find")
  /\ Labelled(Req(p).ref) = {}
  /\ Goto(p, "create")
  /\ UNCHANGED <<daemon, dirs>>

\* Fault: the daemon is left to name the container.
NewUnnamedContainer(p) ==
  [state |-> "stopped", name |-> None, managed |-> TRUE,
   ref |-> Req(p).ref, label |-> cmds[p].label, mode |-> cmds[p].mode,
   mount |-> cmds[p].mount]

NewContainer(p) ==
  [state |-> "stopped", name |-> NameOf[Req(p).ref], managed |-> TRUE,
   ref |-> Req(p).ref, label |-> cmds[p].label, mode |-> cmds[p].mode,
   mount |-> cmds[p].mount]

\* Docker refuses a bind mount whose host directory is not there.
MountThere(mount) == mount # None => dirs[mount.path].exists

\* Fault: a container that has the name already is replaced.
ReplaceContainer(p) ==
  /\ At(p, "create")
  /\ MountThere(cmds[p].mount)
  /\ \E c \in ContainerIds :
       /\ containers[c].state = "unused"
       /\ containers' = [d \in ContainerIds |->
            IF d = c THEN NewContainer(p)
            ELSE IF Live(d) /\ containers[d].name = NameOf[Req(p).ref] THEN NoContainer("gone")
            ELSE containers[d]]
  /\ UNCHANGED networks
  /\ Goto(p, "inspect")
  /\ UNCHANGED dirs

CreateContainer(p) ==
  /\ At(p, "create")
  /\ MountThere(cmds[p].mount)
  /\ \E c \in ContainerIds : ContainerCreate(c, NewContainer(p))
  /\ Goto(p, "inspect")
  /\ UNCHANGED dirs

\* The container is found again by name, not by the ID it was created with.
InspectCreated(p) ==
  /\ At(p, "inspect")
  /\ \E c \in ContainerIds : Found(Req(p).ref, c)
  /\ IF Req(p).start THEN Goto(p, "startfind") ELSE Finish(p)
  /\ UNCHANGED <<daemon, dirs>>

-----------------------------------------------------------------------------
(* start, stop, rm: find by name, then act on the ID that was found. *)

FindTo(p, from, to) ==
  /\ At(p, from)
  /\ \E c \in ContainerIds : Found(Req(p).ref, c) /\ GotoWith(p, to, c)
  /\ UNCHANGED <<daemon, dirs>>

FindToStart(p) == FindTo(p, "startfind", "start")
FindToStop(p)  == FindTo(p, "stopfind", "stop")
FindToRm(p)    == FindTo(p, "rmfind", "rm")

Start(p) ==
  /\ At(p, "start")
  /\ MountThere(containers[cmds[p].found].mount)
  /\ ContainerStart(cmds[p].found)
  /\ IF Req(p).op = "create" THEN Goto(p, "reinspect") ELSE Finish(p)
  /\ UNCHANGED dirs

InspectStarted(p) ==
  /\ At(p, "reinspect")
  /\ \E c \in ContainerIds : Found(Req(p).ref, c)
  /\ Finish(p)
  /\ UNCHANGED <<daemon, dirs>>

Stop(p) ==
  /\ At(p, "stop")
  /\ ContainerStop(cmds[p].found)
  /\ Finish(p)
  /\ UNCHANGED dirs

Remove(p) ==
  /\ At(p, "rm")
  /\ ContainerRemove(cmds[p].found, Req(p).force)
  /\ Finish(p)
  /\ UNCHANGED dirs

-----------------------------------------------------------------------------
(* The rest of the world. *)

\* The main process of a container ends by itself.  That of a gateway is started
\* again by the daemon, by its restart policy.
Exit(c) ==
  /\ Running(c)
  /\ containers[c].managed => containers[c].ref \notin VPNRefs
  /\ ContainerStop(c)
  /\ UNCHANGED <<dirs, cmds>>

\* Another tool's container.  It may carry Contaigen's other labels, never the
\* managed one.
ForeignContainer(c) ==
  /\ \E name \in ForeignNames \cap ContainerNames, r \in Refs \cup {None} :
       ContainerCreate(c, [NoContainer("running") EXCEPT !.name = name, !.ref = r])
  /\ UNCHANGED <<dirs, cmds>>

\* docker rm, of any container.
ForeignRemoval(c) ==
  /\ ContainerRemove(c, TRUE)
  /\ UNCHANGED <<dirs, cmds>>

ForeignNetwork(n) ==
  /\ \/ \E name \in ForeignNames \cap NetworkNames : NetworkCreate(n, name, FALSE)
     \/ ~networks[n].managed /\ NetworkRemove(n)
  /\ UNCHANGED <<dirs, cmds>>

\* Workbenches write to the workspace they have mounted while they run.
Workbench(c) ==
  /\ Running(c)
  /\ containers[c].mount # None
  /\ WriteFiles(containers[c].mount.path)
  /\ UNCHANGED <<daemon, cmds>>

-----------------------------------------------------------------------------

Init ==
  /\ DaemonInit
  /\ DirsInit
  /\ cmds = [p \in Procs |-> NoCommand]

CommandStep(p) ==
  \/ Begin(p)          \/ Return(p)
  \/ ReuseNetwork(p)   \/ MissNetwork(p)  \/ CreateNetwork(p)  \/ ReadNetwork(p)
  \/ BuiltinProfile(p) \/ SegmentProfile(p) \/ VPNProfile(p)
  \/ SkipWorkspace(p)  \/ ReuseWorkspace(p) \/ MissWorkspace(p) \/ MakeWorkspace(p)
  \/ InspectEnvironment(p) \/ ComposeUp(p) \/ ComposeDown(p)
  \/ FindNone(p)       \/ CreateContainer(p) \/ InspectCreated(p)
  \/ FindToStart(p)    \/ Start(p)        \/ InspectStarted(p)
  \/ FindToStop(p)     \/ Stop(p)
  \/ FindToRm(p)       \/ Remove(p)

WorldStep ==
  \/ \E c \in ContainerIds :
       Exit(c) \/ ForeignContainer(c) \/ ForeignRemoval(c) \/ Workbench(c)
  \/ \E n \in NetworkIds : ForeignNetwork(n)

Next == (\E p \in Procs : CommandStep(p)) \/ WorldStep

Spec == Init /\ [][Next]_engineVars

-----------------------------------------------------------------------------
(* What the commands promise. *)

\* Every variable holds a value of its kind.
TypeOK == DaemonTypeOK /\ DirsTypeOK /\ CommandsTypeOK

\* Refs of which there can be only one container.  docker compose makes service
\* containers under names of its own, which collide with nothing.
UniqueRefs == {r \in Refs : r.kind # "service" \/ ComposeNames = {}}

\* The lookups by label find at most one container, or the command that created a
\* second one has made the first unreachable: find (client.go:513) refuses to
\* choose, and stop, rm and nuke all go through it.  Two create commands that have
\* both found nothing must not both create.
OneContainerPerRef ==
  \A r \in UniqueRefs : \A c, d \in Labelled(r) : c = d

\* What a step of a command does to a container was asked for by that command: the
\* container is managed, has the ref of the request, and is removed by rm or
\* compose down only, and while it runs only if the command may use force.  A
\* container found by name may have been replaced, by its owner or by another
\* tool, before it is acted on.
OnlyRequestedChanges ==
  [][\A c \in ContainerIds :
       \/ ~Live(c) \/ containers'[c] = containers[c] \/ cmds' = cmds
       \/ \E p \in Procs :
            /\ cmds'[p] # cmds[p]
            /\ containers[c].managed
            /\ containers[c].ref = Req(p).ref
            /\ containers'[c].state = "gone" =>
                 /\ Req(p).op \in {"rm", "down"}
                 /\ Running(c) /\ Req(p).op = "rm" => Req(p).force
    ]_engineVars

\* A workbench whose own network is a user-defined one is on a network that
\* Contaigen created: EnsureNetwork (network.go:20) takes no network of another
\* tool for its own, whoever creates one while it is looking.
SegmentsAreManaged ==
  \A c \in ContainerIds :
    /\ Live(c)
    /\ containers[c].managed
    /\ containers[c].ref \in EnvRefs
    /\ containers[c].mode \in NetworkNames
    => \E n \in NetworksNamed(containers[c].mode) : networks[n].managed

\* The commands implement Inventory for the refs of which there is one container:
\* whatever other commands do between a lookup and the call that acts on what it
\* found, a ref gets a container only when it has none, and loses it for good.
OneOf(ids) == IF ids = {} THEN None ELSE CHOOSE c \in ids : TRUE
Holder     == [r \in UniqueRefs |-> OneOf(Labelled(r))]

Abstract == INSTANCE Inventory WITH
  Refs   <- UniqueRefs,
  Ids    <- ContainerIds,
  holder <- Holder,
  up     <- {r \in UniqueRefs : \E c \in Labelled(r) : Running(c)},
  used   <- {c \in ContainerIds : containers[c].state # "unused"}

ImplementsInventory == Abstract!Spec

=============================================================================
