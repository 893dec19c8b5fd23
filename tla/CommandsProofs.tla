--------------------------- MODULE CommandsProofs ---------------------------
(***************************************************************************)
(* Proofs about Commands, for any number of terminals, requests, names and *)
(* IDs.  The inductive invariant says what each step of a command knows:   *)
(* which request it carries out, what it has decided on, and, of a         *)
(* container that it found by name, that it was a managed one of its ref.  *)
(***************************************************************************)
EXTENDS Commands, TLAPS

OfWorkbench(req) == req.op = "create" /\ req.ref \in EnvRefs

\* What holds of a command by the step it has reached.
Proper(cmd) ==
  /\ cmd.pc # "idle" => cmd.req \in Requests
  /\ cmd.pc \in {"profile", "wsinspect", "wscreate"} => OfWorkbench(cmd.req)
  /\ cmd.pc \in {"netinspect", "netcreate", "netread"} =>
       /\ cmd.mode \in NetworkNames
       /\ cmd.req.op = "network" \/ (OfWorkbench(cmd.req) /\ cmd.label # None)
  /\ cmd.pc = "wscreate" => cmd.req.name # None
  /\ cmd.pc \in {"envinspect", "compose"} => cmd.req.ref \in ServiceRefs
  /\ cmd.pc \in {"find", "create", "inspect"} => cmd.req.op = "create"
  /\ cmd.pc \in {"rmfind", "rm"} => cmd.req.op = "rm"
  /\ cmd.pc \in {"start", "stop", "rm"} => cmd.found \in ContainerIds
  /\ cmd.pc \in {"startfind", "start", "reinspect", "stopfind", "stop"} =>
       cmd.req.op # "network"
  /\ cmd.pc \in {"wsinspect", "wscreate", "find", "create"} /\ cmd.req.ref \in EnvRefs =>
       cmd.label # None \/ cmd.mode \in BuiltinModes

CommandsProper == \A p \in Procs : Proper(cmds[p])

\* An environment without a network label is on one of Docker's own networks.
EnvironmentsLabelled ==
  \A c \in ContainerIds :
    /\ Live(c) /\ containers[c].managed /\ containers[c].ref \in EnvRefs
    /\ containers[c].label = None
    => containers[c].mode \in BuiltinModes

IType == TypeOK /\ CommandsProper /\ EnvironmentsLabelled

-----------------------------------------------------------------------------
(* Facts about refs and requests. *)

\* The kinds of refs are apart, and each names an environment as it should.
LEMMA RefKinds ==
  /\ \A r \in EnvRefs : r.kind = "workbench" /\ r.env \in Environments /\ r \in Refs
  /\ \A r \in ServiceRefs : r.kind = "service" /\ r.env \in Environments /\ r \in Refs
  /\ \A r \in VPNRefs : r.kind = "vpn" /\ r \in Refs
  /\ \A r \in Refs : r \in EnvRefs \/ r \in ServiceRefs \/ r \in VPNRefs
  /\ EnvRefs \cap ServiceRefs = {}
  /\ EnvRefs \cap VPNRefs = {}
BY DEF EnvRefs, ServiceRefs, VPNRefs, Refs, EnvRef, ServiceRef, VPNRef

\* What a command of each kind may assume of its request.
LEMMA Requested ==
  ASSUME NEW req \in Requests
  PROVE  /\ req \in Request
         /\ req.op = "network" <=> req.ref = None
         /\ req.op = "network" => req.net \in NetworkNames
         /\ req.op # "network" => req.ref \in Refs
         /\ req.op \in {"up", "down"} => req.ref \in ServiceRefs
         /\ OfWorkbench(req) => req.profile \in Profiles
         /\ OfWorkbench(req) => req.ref.env \in Environments
         /\ req.profile = "vpn" => req.vpn \in Gateways
<1>1. Validated(req)
  BY RequestsType
<1>2. /\ req.ref \in Refs \cup {None} /\ req.net \in NetworkNames \cup {None}
      /\ req.profile \in Profiles \cup {None} /\ req.vpn \in Gateways \cup {None}
  BY <1>1 DEF Validated, Request
<1>. QED
  BY <1>1, <1>2, RefKinds DEF Validated, OfWorkbench

-----------------------------------------------------------------------------
(* The steps of commands, and what they know. *)

\* A step that changes what one terminal does, to a proper command, keeps the rest.
LEMMA CommandChange ==
  ASSUME CommandsTypeOK, CommandsProper, NEW p \in Procs, NEW cmd \in Command,
         Proper(cmd), cmds' = [cmds EXCEPT ![p] = cmd]
  PROVE  CommandsTypeOK' /\ CommandsProper'
BY DEF CommandsTypeOK, CommandsProper

\* An idle command is proper, whatever it has been.
LEMMA NoCommandProper == NoCommand \in Command /\ Proper(NoCommand)
BY DEF NoCommand, Command, Proper, Steps

\* A command that goes on at another step, with what it has decided.
LEMMA GotoType ==
  ASSUME CommandsTypeOK, NEW p \in Procs, NEW s \in Steps
  PROVE  [cmds[p] EXCEPT !.pc = s] \in Command
BY DEF CommandsTypeOK, Command

\* The network profile of env create leaves the command with a mode and a label of
\* the right form.
LEMMA ProfileSteps ==
  ASSUME IType, NEW p \in Procs,
         BuiltinProfile(p) \/ SegmentProfile(p) \/ VPNProfile(p)
  PROVE  CommandsTypeOK' /\ CommandsProper'
<1> USE DEF IType, TypeOK
<1>. cmds[p] \in Command /\ Proper(cmds[p]) /\ At(p, "profile")
  BY DEF CommandsTypeOK, CommandsProper, BuiltinProfile, SegmentProfile, VPNProfile
<1>. Req(p) \in Requests /\ OfWorkbench(Req(p))
  BY DEF Proper, At, Req
<1>1. CASE BuiltinProfile(p)
  <2> DEFINE mode == IF Req(p).profile = "isolated" THEN "none" ELSE Req(p).profile
             cmd  == [cmds[p] EXCEPT !.pc = "wsinspect", !.mode = mode, !.label = Req(p).net]
  <2>1. mode \in BuiltinModes /\ mode \in Modes
    BY <1>1 DEF BuiltinProfile, BuiltinModes, Modes
  <2>2. Req(p).net \in NamedModes \cup {None}
    BY Requested DEF Request, NamedModes
  <2>3. cmd \in Command
    BY <2>1, <2>2 DEF Command, Steps
  <2>4. Proper(cmd)
    BY <2>1 DEF Proper, Req, Command
  <2>. QED
    BY <1>1, <2>3, <2>4, CommandChange DEF BuiltinProfile
<1>2. CASE SegmentProfile(p)
  <2> DEFINE name == SegmentName(Req(p))
             cmd  == [cmds[p] EXCEPT !.pc = "netinspect", !.mode = name, !.label = name]
  <2>1. name \in NetworkNames
    BY Requested, DefaultNetType DEF SegmentName, Request
  <2>2. name \in Modes /\ name \in NamedModes /\ name # None
    BY <2>1, NamesAreApart DEF Modes, NamedModes
  <2>3. cmd \in Command
    BY <2>2 DEF Command, Steps
  <2>4. Proper(cmd)
    BY <2>1, <2>2 DEF Proper, Req, Command
  <2>. QED
    BY <1>2, <2>3, <2>4, CommandChange DEF SegmentProfile
<1>3. CASE VPNProfile(p)
  <2> DEFINE mode == NameOf[VPNRef(Req(p).vpn)]
             cmd  == [cmds[p] EXCEPT !.pc = "wsinspect", !.mode = mode, !.label = Req(p).vpn]
  <2>1. Req(p).vpn \in Gateways
    BY <1>3, Requested DEF VPNProfile
  <2>2. mode \in Modes
    BY <2>1, NameOfType DEF Modes, VPNRefs, Refs
  <2>3. Req(p).vpn \in NamedModes /\ Req(p).vpn # None
    BY <2>1, NamesAreApart DEF NamedModes
  <2>4. cmd \in Command
    BY <2>2, <2>3 DEF Command, Steps
  <2>5. Proper(cmd)
    BY <2>3 DEF Proper, Req, Command
  <2>6. cmds' = [cmds EXCEPT ![p] = cmd]
    BY <1>3 DEF VPNProfile
  <2>. QED
    BY <2>4, <2>5, <2>6, CommandChange
<1>. QED
  BY <1>1, <1>2, <1>3

\* A command that returns leaves an idle terminal.
LEMMA FinishProper ==
  ASSUME IType, NEW p \in Procs, Finish(p)
  PROVE  CommandsTypeOK' /\ CommandsProper'
BY NoCommandProper, CommandChange DEF IType, TypeOK, Finish

\* A command that goes on at a step for which its request is right.
LEMMA GotoProper ==
  ASSUME IType, NEW p \in Procs, NEW s \in Steps, Goto(p, s),
         Proper([cmds[p] EXCEPT !.pc = s])
  PROVE  CommandsTypeOK' /\ CommandsProper'
BY GotoType, CommandChange DEF IType, TypeOK, Goto

\* A command begins at the first step of a valid request.
LEMMA BeginProper ==
  ASSUME IType, NEW p \in Procs, Begin(p)
  PROVE  CommandsTypeOK' /\ CommandsProper'
<1>1. PICK req \in Requests :
        cmds' = [cmds EXCEPT ![p] = [NoCommand EXCEPT !.pc = FirstStep(req), !.req = req,
                                                      !.mode = FirstMode(req)]]
  BY DEF Begin
<1> DEFINE cmd == [NoCommand EXCEPT !.pc = FirstStep(req), !.req = req,
                                    !.mode = FirstMode(req)]
<1>2. req.op \in {"create", "start", "stop", "rm", "network", "up", "down"}
  BY Requested DEF Request
<1>3. CASE req.op = "network"
  <2>1. FirstStep(req) = "netinspect" /\ FirstMode(req) = req.net
    BY <1>3 DEF FirstStep, FirstMode
  <2>2. req.net \in NetworkNames /\ req.net \in Modes
    BY <1>3, Requested DEF Modes, NamedModes
  <2>3. cmd \in Command /\ Proper(cmd)
    BY <1>3, <2>1, <2>2 DEF Command, NoCommand, Steps, Proper
  <2>. QED
    BY <1>1, <2>3, CommandChange DEF IType, TypeOK
<1>4. CASE req.op \in {"up", "down"}
  <2>1. FirstStep(req) = "envinspect" /\ FirstMode(req) = None
    BY <1>4 DEF FirstStep, FirstMode
  <2>2. cmd \in Command /\ Proper(cmd)
    BY <1>4, <2>1, Requested DEF Command, NoCommand, Steps, Proper
  <2>. QED
    BY <1>1, <2>2, CommandChange DEF IType, TypeOK
<1>5. CASE req.op = "create"
  <2>0. req.ref \in Refs
    BY <1>5, Requested
  <2>1. CASE req.ref \in EnvRefs
    <3>1. FirstStep(req) = "profile" /\ FirstMode(req) = None
      BY <1>5, <2>1, RefKinds DEF FirstStep, FirstMode
    <3>2. cmd \in Command /\ Proper(cmd)
      BY <1>5, <2>1, <3>1 DEF Command, NoCommand, Steps, Proper, OfWorkbench
    <3>. QED
      BY <1>1, <3>2, CommandChange DEF IType, TypeOK
  <2>2. CASE req.ref \in ServiceRefs
    <3>1. FirstStep(req) = "envinspect" /\ FirstMode(req) = None
      BY <1>5, <2>2, RefKinds DEF FirstStep, FirstMode
    <3>2. cmd \in Command /\ Proper(cmd)
      BY <1>5, <2>2, <3>1 DEF Command, NoCommand, Steps, Proper
    <3>. QED
      BY <1>1, <3>2, CommandChange DEF IType, TypeOK
  <2>3. CASE req.ref \in VPNRefs
    <3>1. FirstStep(req) = "find" /\ FirstMode(req) = "bridge"
      BY <1>5, <2>3, RefKinds DEF FirstStep, FirstMode
    <3>2. cmd \in Command /\ Proper(cmd)
      BY <1>5, <2>3, <3>1
         DEF Command, NoCommand, Steps, Proper, Modes, BuiltinModes
    <3>. QED
      BY <1>1, <3>2, CommandChange DEF IType, TypeOK
  <2>. QED
    BY <2>0, <2>1, <2>2, <2>3, RefKinds
<1>6. CASE req.op \in {"start", "stop", "rm"}
  <2>1. FirstStep(req) \in {"startfind", "stopfind", "rmfind"} /\ FirstMode(req) = None
        /\ (req.op = "rm" <=> FirstStep(req) = "rmfind")
    BY <1>6 DEF FirstStep, FirstMode
  <2>2. cmd \in Command /\ Proper(cmd)
    BY <1>6, <2>1 DEF Command, NoCommand, Steps, Proper
  <2>. QED
    BY <1>1, <2>2, CommandChange DEF IType, TypeOK
<1>. QED
  BY <1>2, <1>3, <1>4, <1>5, <1>6

\* EnsureNetwork returns to a caller whose request is right for what follows.
LEMMA NetworkSteps ==
  ASSUME IType, NEW p \in Procs,
         ReuseNetwork(p) \/ MissNetwork(p) \/ CreateNetwork(p) \/ ReadNetwork(p)
  PROVE  CommandsTypeOK' /\ CommandsProper'
<1>. cmds[p] \in Command /\ Proper(cmds[p])
  BY DEF IType, TypeOK, CommandsTypeOK, CommandsProper
<1>1. ASSUME cmds[p].pc \in {"netinspect", "netread"}, AfterNetwork(p)
      PROVE  CommandsTypeOK' /\ CommandsProper'
  <2>1. CASE Req(p).op = "network"
    BY <1>1, <2>1, FinishProper DEF AfterNetwork
  <2>2. CASE Req(p).op # "network"
    <3>1. Proper([cmds[p] EXCEPT !.pc = "wsinspect"])
      BY <1>1, <2>2 DEF Proper, Command, Req
    <3>. QED
      BY <1>1, <2>2, <3>1, GotoProper DEF AfterNetwork, Steps
  <2>. QED
    BY <2>1, <2>2
<1>2. CASE ReuseNetwork(p)
  BY <1>1, <1>2 DEF ReuseNetwork, At
<1>3. CASE MissNetwork(p)
  <2>1. Proper([cmds[p] EXCEPT !.pc = "netcreate"])
    BY <1>3 DEF MissNetwork, At, Proper, Command
  <2>. QED
    BY <1>3, <2>1, GotoProper DEF MissNetwork, Steps
<1>4. CASE CreateNetwork(p)
  <2>1. PICK n \in NetworkIds : GotoWith(p, "netread", n)
    BY <1>4 DEF CreateNetwork
  <2> DEFINE cmd == [cmds[p] EXCEPT !.pc = "netread", !.found = n]
  <2>2. cmd \in Command /\ Proper(cmd)
    BY <1>4 DEF CreateNetwork, At, Proper, Command, Steps
  <2>. QED
    BY <2>1, <2>2, CommandChange DEF GotoWith, IType, TypeOK
<1>5. CASE ReadNetwork(p)
  BY <1>1, <1>5 DEF ReadNetwork, At
<1>. QED
  BY <1>2, <1>3, <1>4, <1>5

\* Attaching a workspace leaves the command with a mount, or with none.
LEMMA WorkspaceSteps ==
  ASSUME IType, NEW p \in Procs,
         SkipWorkspace(p) \/ ReuseWorkspace(p) \/ MissWorkspace(p) \/ MakeWorkspace(p)
  PROVE  CommandsTypeOK' /\ CommandsProper'
<1>. cmds[p] \in Command /\ Proper(cmds[p]) /\ cmds[p].pc \in {"wsinspect", "wscreate"}
  BY DEF IType, TypeOK, CommandsTypeOK, CommandsProper, At,
         SkipWorkspace, ReuseWorkspace, MissWorkspace, MakeWorkspace
<1>. Req(p) \in Requests /\ OfWorkbench(Req(p)) /\ Req(p) \in Request
  BY Requested DEF Proper, Req
<1>1. ASSUME NEW path \in Paths, Req(p).name # None, Attached(p, path)
      PROVE  CommandsTypeOK' /\ CommandsProper'
  <2> DEFINE mount == [name |-> Req(p).name, path |-> path]
             cmd   == [cmds[p] EXCEPT !.pc = "find", !.mount = mount]
  <2>1. mount \in Workspace
    BY <1>1 DEF Workspace, Request
  <2>2. cmd \in Command
    BY <2>1 DEF Command, Steps
  <2>3. Proper(cmd)
    BY DEF Proper, Command, Req, OfWorkbench
  <2>. QED
    BY <1>1, <2>2, <2>3, CommandChange DEF Attached, IType, TypeOK
<1>2. CASE SkipWorkspace(p)
  <2>1. Proper([cmds[p] EXCEPT !.pc = "find"])
    BY DEF Proper, Command, Req, OfWorkbench
  <2>. QED
    BY <1>2, <2>1, GotoProper DEF SkipWorkspace, Steps
<1>3. CASE ReuseWorkspace(p)
  <2>1. DefaultPath[Req(p).name] \in Paths
    BY <1>3, DefaultPathType DEF ReuseWorkspace, Request
  <2>. QED
    BY <1>1, <1>3, <2>1 DEF ReuseWorkspace
<1>4. CASE MissWorkspace(p)
  <2>1. Proper([cmds[p] EXCEPT !.pc = "wscreate"])
    BY <1>4 DEF MissWorkspace, At, Proper, Command, Req
  <2>. QED
    BY <1>4, <2>1, GotoProper DEF MissWorkspace, Steps
<1>5. CASE MakeWorkspace(p)
  <2>1. Req(p).name # None /\ Req(p).name \in WorkspaceNames
    BY <1>5 DEF MakeWorkspace, At, Proper, Req, Request
  <2>2. PathOf(Req(p).name, Req(p).path) \in Paths
    BY <2>1, DefaultPathType DEF PathOf, Request
  <2>. QED
    BY <1>1, <1>5, <2>1, <2>2 DEF MakeWorkspace
<1>. QED
  BY <1>2, <1>3, <1>4, <1>5

\* What a service is put on has the form of a network's or a gateway's name.
LEMMA InspectEnvironmentStep ==
  ASSUME IType, NEW p \in Procs, InspectEnvironment(p)
  PROVE  CommandsTypeOK' /\ CommandsProper'
<1>1. PICK c \in ContainerIds :
        /\ Labelled(EnvRef(Req(p).ref.env)) = {c}
        /\ EnvironmentNetwork(c) \notin {"bridge", "host", "none"}
        /\ cmds' = [cmds EXCEPT
             ![p].pc = IF Req(p).op = "create" THEN "find" ELSE "compose",
             ![p].mode = EnvironmentNetwork(c),
             ![p].label = EnvironmentNetwork(c)]
  BY DEF InspectEnvironment
<1>2. cmds[p] \in Command /\ Proper(cmds[p]) /\ cmds[p].pc = "envinspect"
  BY DEF IType, TypeOK, CommandsTypeOK, CommandsProper, InspectEnvironment, At
<1>3. Req(p) \in Requests /\ Req(p).ref \in ServiceRefs
  BY <1>2 DEF Proper, Req
<1>4. EnvRef(Req(p).ref.env) \in EnvRefs
  BY <1>3, RefKinds DEF EnvRefs
<1>5. Live(c) /\ containers[c].managed /\ containers[c].ref \in EnvRefs
  BY <1>1, <1>4 DEF Labelled
<1>6. containers[c] \in Container
  BY DEF IType, TypeOK, DaemonTypeOK
<1>7. EnvironmentNetwork(c) \in NamedModes
  BY <1>1, <1>5, <1>6
     DEF IType, EnvironmentsLabelled, EnvironmentNetwork, Container, BuiltinModes
<1>8. EnvironmentNetwork(c) \in Modes
  BY <1>7 DEF Modes
<1>9. Req(p).ref \notin EnvRefs
  BY <1>3, RefKinds
<1> DEFINE s   == IF Req(p).op = "create" THEN "find" ELSE "compose"
           cmd == [cmds[p] EXCEPT !.pc = s, !.mode = EnvironmentNetwork(c),
                                  !.label = EnvironmentNetwork(c)]
<1>10. cmd \in Command
  BY <1>2, <1>7, <1>8 DEF Command, Steps
<1>11. Proper(cmd)
  BY <1>2, <1>3, <1>9 DEF Proper, Command, Req
<1>12. cmds' = [cmds EXCEPT ![p] = cmd]
  BY <1>1
<1>. QED
  BY <1>10, <1>11, <1>12, CommandChange DEF IType, TypeOK

\* The steps that find or create a container, and go on with it.
LEMMA ContainerSteps ==
  ASSUME IType, NEW p \in Procs,
         \/ FindNone(p) \/ CreateContainer(p) \/ InspectCreated(p)
         \/ FindToStart(p) \/ FindToStop(p) \/ FindToRm(p) \/ Start(p)
  PROVE  CommandsTypeOK' /\ CommandsProper'
<1>. cmds[p] \in Command /\ Proper(cmds[p])
  BY DEF IType, TypeOK, CommandsTypeOK, CommandsProper
<1>1. CASE FindNone(p)
  <2>1. Proper([cmds[p] EXCEPT !.pc = "create"])
    BY <1>1 DEF FindNone, At, Proper, Command
  <2>. QED
    BY <1>1, <2>1, GotoProper DEF FindNone, Steps
<1>2. CASE CreateContainer(p)
  <2>1. Proper([cmds[p] EXCEPT !.pc = "inspect"])
    BY <1>2 DEF CreateContainer, At, Proper, Command
  <2>. QED
    BY <1>2, <2>1, GotoProper DEF CreateContainer, Steps
<1>3. CASE InspectCreated(p)
  <2>1. Proper([cmds[p] EXCEPT !.pc = "startfind"])
    BY <1>3 DEF InspectCreated, At, Proper, Command
  <2>2. CASE Req(p).start
    BY <1>3, <2>1, <2>2, GotoProper DEF InspectCreated, Steps
  <2>3. CASE ~Req(p).start
    BY <1>3, <2>3, FinishProper DEF InspectCreated
  <2>. QED
    BY <2>2, <2>3
<1>4. ASSUME NEW from \in {"startfind", "stopfind", "rmfind"}, NEW to \in {"start", "stop", "rm"},
             from = "rmfind" <=> to = "rm", FindTo(p, from, to)
      PROVE  CommandsTypeOK' /\ CommandsProper'
  <2>1. PICK c \in ContainerIds : GotoWith(p, to, c)
    BY <1>4 DEF FindTo
  <2> DEFINE cmd == [cmds[p] EXCEPT !.pc = to, !.found = c]
  <2>2. cmd \in Command
    BY <1>4 DEF Command, Steps
  <2>3. Proper(cmd)
    BY <1>4 DEF FindTo, At, Proper, Command
  <2>. QED
    BY <2>1, <2>2, <2>3, CommandChange DEF GotoWith, IType, TypeOK
<1>5. CASE FindToStart(p)
  BY <1>4, <1>5 DEF FindToStart
<1>6. CASE FindToStop(p)
  BY <1>4, <1>6 DEF FindToStop
<1>7. CASE FindToRm(p)
  BY <1>4, <1>7 DEF FindToRm
<1>8. CASE Start(p)
  <2>1. Proper([cmds[p] EXCEPT !.pc = "reinspect"])
    BY <1>8 DEF Start, At, Proper, Command
  <2>2. CASE Req(p).op = "create"
    BY <1>8, <2>1, <2>2, GotoProper DEF Start, Steps
  <2>3. CASE Req(p).op # "create"
    BY <1>8, <2>3, FinishProper DEF Start
  <2>. QED
    BY <2>2, <2>3
<1>. QED
  BY <1>1, <1>2, <1>3, <1>5, <1>6, <1>7, <1>8

\* Every step of a command keeps what the commands know.
LEMMA CommandStepProper ==
  ASSUME IType, NEW p \in Procs, CommandStep(p)
  PROVE  CommandsTypeOK' /\ CommandsProper'
<1>1. CASE Return(p) \/ ComposeUp(p) \/ ComposeDown(p) \/ InspectStarted(p)
             \/ Stop(p) \/ Remove(p)
  BY <1>1, FinishProper DEF Return, ComposeUp, ComposeDown, InspectStarted, Stop, Remove
<1>. QED
  BY <1>1, BeginProper, NetworkSteps, ProfileSteps, WorkspaceSteps,
     InspectEnvironmentStep, ContainerSteps DEF CommandStep

-----------------------------------------------------------------------------
(* What a step does to the containers, the networks and the directories. *)

\* What a container may be when it comes into being.
NewcomerOK(spec) ==
  /\ spec \in Container
  /\ spec.state \in {"stopped", "running"}
  /\ spec.managed => spec.ref \in Refs
  /\ spec.managed /\ spec.ref \in EnvRefs /\ spec.label = None => spec.mode \in BuiltinModes
  /\ spec.managed /\ spec.ref \in UniqueRefs =>
       spec.name = NameOf[spec.ref] /\ spec.state = "stopped"

ContainerStep ==
  \E c \in ContainerIds :
    \/ \E spec \in Container : NewcomerOK(spec) /\ ContainerCreate(c, spec)
    \/ ContainerStart(c)
    \/ ContainerStop(c)
    \/ ContainerRemove(c, TRUE)

\* A step of a command makes at most one Docker call that changes a container, and a
\* container it makes is labelled as one of Contaigen's is.
LEMMA CommandContainers ==
  ASSUME IType, NEW p \in Procs, CommandStep(p)
  PROVE  UNCHANGED containers \/ ContainerStep
<1>. cmds[p] \in Command /\ Proper(cmds[p])
  BY DEF IType, TypeOK, CommandsTypeOK, CommandsProper
<1>1. CASE CreateContainer(p)
  <2> DEFINE spec == NewContainer(p)
  <2>1. PICK c \in ContainerIds : ContainerCreate(c, spec)
    BY <1>1 DEF CreateContainer
  <2>2. Req(p) \in Requests /\ Req(p).op = "create"
    BY <1>1 DEF CreateContainer, At, Proper, Req
  <2>3. Req(p).ref \in Refs
    BY <2>2, Requested
  <2>4. NameOf[Req(p).ref] \in ContainerNames
    BY <2>3, NameOfType
  <2>5. spec \in Container
    BY <2>3, <2>4 DEF NewContainer, Container, Command
  <2>6. Req(p).ref \in EnvRefs /\ cmds[p].label = None => cmds[p].mode \in BuiltinModes
    BY <1>1 DEF CreateContainer, At, Proper, Req
  <2>7. NewcomerOK(spec)
    BY <2>3, <2>5, <2>6 DEF NewContainer, NewcomerOK
  <2>. QED
    BY <2>1, <2>5, <2>7 DEF ContainerStep
<1>2. CASE ComposeUp(p)
  <2>1. PICK c \in ContainerIds, name \in ComposeNames :
          \/ ContainerCreate(c,
               [state |-> "running", name |-> name, managed |-> TRUE, ref |-> Req(p).ref,
                label |-> cmds[p].label, mode |-> cmds[p].mode, mount |-> None])
          \/ ContainerStart(c)
    BY <1>2 DEF ComposeUp
  <2> DEFINE spec == [state |-> "running", name |-> name, managed |-> TRUE, ref |-> Req(p).ref,
                      label |-> cmds[p].label, mode |-> cmds[p].mode, mount |-> None]
  <2>2. Req(p).ref \in ServiceRefs
    BY <1>2 DEF ComposeUp, At, Proper, Req
  <2>3. Req(p).ref \in Refs /\ Req(p).ref \notin EnvRefs /\ Req(p).ref.kind = "service"
    BY <2>2, RefKinds
  <2>4. Req(p).ref \notin UniqueRefs
    BY <2>3 DEF UniqueRefs
  <2>5. name \in ContainerNames
    BY ComposeType
  <2>6. spec \in Container
    BY <2>3, <2>5 DEF Container, Command
  <2>7. NewcomerOK(spec)
    BY <2>3, <2>4, <2>6 DEF NewcomerOK
  <2>. QED
    BY <2>1, <2>6, <2>7 DEF ContainerStep
<1>3. CASE ComposeDown(p)
  BY <1>3 DEF ComposeDown, ContainerStep
<1>4. CASE Start(p)
  BY <1>4 DEF Start, At, Proper, ContainerStep
<1>5. CASE Stop(p)
  BY <1>5 DEF Stop, At, Proper, ContainerStep
<1>6. CASE Remove(p)
  <2>1. cmds[p].found \in ContainerIds
    BY <1>6 DEF Remove, At, Proper
  <2>2. ContainerRemove(cmds[p].found, TRUE)
    BY <1>6 DEF Remove, ContainerRemove
  <2>. QED
    BY <2>1, <2>2 DEF ContainerStep
<1>7. CASE CreateNetwork(p)
  BY <1>7 DEF CreateNetwork, NetworkCreate
<1>8. CASE \/ Begin(p) \/ Return(p) \/ ReuseNetwork(p) \/ MissNetwork(p) \/ ReadNetwork(p)
           \/ BuiltinProfile(p) \/ SegmentProfile(p) \/ VPNProfile(p)
           \/ SkipWorkspace(p) \/ ReuseWorkspace(p) \/ MissWorkspace(p) \/ MakeWorkspace(p)
           \/ InspectEnvironment(p) \/ FindNone(p) \/ InspectCreated(p)
           \/ FindToStart(p) \/ InspectStarted(p) \/ FindToStop(p) \/ FindToRm(p)
  BY <1>8 DEF daemon, Begin, Return, ReuseNetwork, MissNetwork, ReadNetwork, BuiltinProfile,
              SegmentProfile, VPNProfile, SkipWorkspace, ReuseWorkspace, MissWorkspace,
              MakeWorkspace, InspectEnvironment, FindNone, InspectCreated, FindToStart,
              InspectStarted, FindToStop, FindToRm, FindTo
<1>. QED
  BY <1>1, <1>2, <1>3, <1>4, <1>5, <1>6, <1>7, <1>8 DEF CommandStep

\* So does a step of the rest of the world.
LEMMA WorldContainers ==
  ASSUME WorldStep
  PROVE  UNCHANGED containers \/ ContainerStep
<1>1. ASSUME NEW c \in ContainerIds, ForeignContainer(c)
      PROVE  ContainerStep
  <2>1. PICK name \in ForeignNames \cap ContainerNames, r \in Refs \cup {None} :
          ContainerCreate(c, [NoContainer("running") EXCEPT !.name = name, !.ref = r])
    BY <1>1 DEF ForeignContainer
  <2> DEFINE spec == [NoContainer("running") EXCEPT !.name = name, !.ref = r]
  <2>2. spec \in Container /\ ~spec.managed /\ spec.state = "running"
    BY DEF NoContainer, Container
  <2>. QED
    BY <2>1, <2>2 DEF ContainerStep, NewcomerOK
<1>2. ASSUME NEW c \in ContainerIds, Exit(c) \/ ForeignRemoval(c) \/ Workbench(c)
      PROVE  UNCHANGED containers \/ ContainerStep
  BY <1>2 DEF Exit, ForeignRemoval, Workbench, ContainerStep, daemon
<1>3. ASSUME NEW n \in NetworkIds, ForeignNetwork(n)
      PROVE  UNCHANGED containers
  BY <1>3 DEF ForeignNetwork, NetworkCreate, NetworkRemove
<1>. QED
  BY <1>1, <1>2, <1>3 DEF WorldStep

\* So does every step.
LEMMA NextContainers ==
  ASSUME IType, [Next]_engineVars
  PROVE  UNCHANGED containers \/ ContainerStep
BY CommandContainers, WorldContainers DEF Next, engineVars

\* A container keeps what it was created with for as long as it is there, and one
\* that is gone stays gone.
LEMMA ContainerLife ==
  ASSUME DaemonTypeOK, UNCHANGED containers \/ ContainerStep, NEW c \in ContainerIds,
         containers[c].state # "unused"
  PROVE  /\ containers'[c].state # "unused"
         /\ Live(c)' => /\ Live(c)
                        /\ containers'[c].name = containers[c].name
                        /\ containers'[c].managed = containers[c].managed
                        /\ containers'[c].ref = containers[c].ref
                        /\ containers'[c].label = containers[c].label
                        /\ containers'[c].mode = containers[c].mode
BY DEF DaemonTypeOK, ContainerStep, ContainerCreate, ContainerStart, ContainerStop,
       ContainerRemove, NoContainer, Container, Live

\* Containers keep to their type, and workbenches to a mode and label of the right
\* form.
LEMMA ContainersTyped ==
  ASSUME IType, UNCHANGED containers \/ ContainerStep
  PROVE  containers' \in [ContainerIds -> Container] /\ EnvironmentsLabelled'
<1>1. containers' \in [ContainerIds -> Container]
  <2>1. \A c \in ContainerIds, s \in {"stopped", "running"} :
          [containers[c] EXCEPT !.state = s] \in Container
    BY DEF IType, TypeOK, DaemonTypeOK, Container
  <2>2. NoContainer("gone") \in Container
    BY DEF NoContainer, Container
  <2>. QED
    BY <2>1, <2>2 DEF IType, TypeOK, DaemonTypeOK, ContainerStep, ContainerCreate,
                      ContainerStart, ContainerStop, ContainerRemove
<1>2. ASSUME NEW c \in ContainerIds, Live(c)', containers'[c].managed,
             containers'[c].ref \in EnvRefs, containers'[c].label = None
      PROVE  containers'[c].mode \in BuiltinModes
  <2>1. CASE containers[c].state # "unused"
    BY <1>2, <2>1, ContainerLife DEF IType, TypeOK, EnvironmentsLabelled
  <2>2. CASE containers[c].state = "unused"
    BY <1>2, <2>2
       DEF IType, TypeOK, DaemonTypeOK, ContainerStep, ContainerCreate, ContainerStart,
           ContainerStop, ContainerRemove, NoContainer, Live, NewcomerOK
  <2>. QED
    BY <2>1, <2>2
<1>. QED
  BY <1>1, <1>2 DEF EnvironmentsLabelled, Live

NetworkChange ==
  \E n \in NetworkIds :
    \/ \E name \in NetworkNames, managed \in BOOLEAN : NetworkCreate(n, name, managed)
    \/ NetworkRemove(n)

\* Only net create, env create and others make or remove networks.
LEMMA NetworkCalls ==
  ASSUME [Next]_engineVars
  PROVE  \/ networks' = networks
         \/ \E p \in Procs : CreateNetwork(p)
         \/ \E n \in NetworkIds : ForeignNetwork(n)
<1>1. ASSUME NEW p \in Procs, CommandStep(p), ~CreateNetwork(p)
      PROVE  networks' = networks
  BY <1>1 DEF CommandStep, daemon, Begin, Return, ReuseNetwork, MissNetwork, ReadNetwork,
              BuiltinProfile, SegmentProfile, VPNProfile, SkipWorkspace, ReuseWorkspace,
              MissWorkspace, MakeWorkspace, InspectEnvironment, ComposeUp, ComposeDown,
              FindNone, CreateContainer, InspectCreated, FindToStart, FindToStop, FindToRm,
              FindTo, Start, InspectStarted, Stop, Remove, ContainerCreate, ContainerStart,
              ContainerStop, ContainerRemove
<1>2. ASSUME NEW c \in ContainerIds,
             Exit(c) \/ ForeignContainer(c) \/ ForeignRemoval(c) \/ Workbench(c)
      PROVE  networks' = networks
  BY <1>2 DEF Exit, ForeignContainer, ForeignRemoval, Workbench, daemon,
              ContainerCreate, ContainerStop, ContainerRemove
<1>. QED
  BY <1>1, <1>2 DEF Next, WorldStep, engineVars

\* What they make is named as it should.
LEMMA NextNetworks ==
  ASSUME IType, [Next]_engineVars
  PROVE  UNCHANGED networks \/ NetworkChange
<1>. TRUE \in BOOLEAN /\ FALSE \in BOOLEAN
  OBVIOUS
<1>1. ASSUME NEW p \in Procs, CreateNetwork(p)
      PROVE  NetworkChange
  <2>1. cmds[p].mode \in NetworkNames
    BY <1>1 DEF CreateNetwork, At, IType, CommandsProper, Proper
  <2>. QED
    BY <1>1, <2>1 DEF CreateNetwork, NetworkChange
<1>2. ASSUME NEW n \in NetworkIds, ForeignNetwork(n)
      PROVE  NetworkChange
  BY <1>2 DEF ForeignNetwork, NetworkChange
<1>. QED
  BY <1>1, <1>2, NetworkCalls

\* Networks keep to their type.
LEMMA NetworksTyped ==
  ASSUME DaemonTypeOK, UNCHANGED networks \/ NetworkChange
  PROVE  networks' \in [NetworkIds -> Network]
<1>1. ASSUME NEW n \in NetworkIds, NEW name \in NetworkNames, NEW managed \in BOOLEAN,
             NetworkCreate(n, name, managed)
      PROVE  networks' \in [NetworkIds -> Network]
  <2>1. [state |-> "live", name |-> name, managed |-> managed] \in Network
    BY DEF Network
  <2>. QED
    BY <1>1, <2>1 DEF DaemonTypeOK, NetworkCreate
<1>2. ASSUME NEW n \in NetworkIds, NetworkRemove(n)
      PROVE  networks' \in [NetworkIds -> Network]
  <2>1. NoNetwork("gone") \in Network
    BY DEF Network, NoNetwork
  <2>. QED
    BY <1>2, <2>1 DEF DaemonTypeOK, NetworkRemove
<1>. QED
  BY <1>1, <1>2 DEF DaemonTypeOK, NetworkChange

\* Workspace directories keep to their type.
LEMMA DirsTyped ==
  ASSUME IType, [Next]_engineVars
  PROVE  DirsTypeOK'
<1> USE DEF IType, TypeOK, DirsTypeOK
<1>1. ASSUME NEW p \in Procs, MakeWorkspace(p)
      PROVE  DirsTypeOK'
  <2>1. Req(p).name \in WorkspaceNames
    <3>1. cmds[p].req \in Requests /\ cmds[p].req.name # None
      BY <1>1 DEF MakeWorkspace, At, CommandsProper, Proper
    <3>. QED
      BY <3>1, Requested DEF Req, Request
  <2>. QED
    BY <1>1, <2>1 DEF MakeWorkspace, CreateWorkspace, Dir
<1>2. ASSUME NEW p \in Procs, CommandStep(p), ~MakeWorkspace(p)
      PROVE  dirs' = dirs
  BY <1>2 DEF CommandStep, Begin, Return, ReuseNetwork, MissNetwork, CreateNetwork,
              ReadNetwork, BuiltinProfile, SegmentProfile, VPNProfile, SkipWorkspace,
              ReuseWorkspace, MissWorkspace, InspectEnvironment, ComposeUp, ComposeDown,
              FindNone, CreateContainer, InspectCreated, FindToStart, FindToStop, FindToRm,
              FindTo, Start, InspectStarted, Stop, Remove
<1>3. ASSUME NEW c \in ContainerIds, Workbench(c)
      PROVE  DirsTypeOK'
  <2>1. PICK path \in {containers[c].mount.path} : WriteFiles(path)
    BY <1>3 DEF Workbench
  <2>2. containers[c].mount \in Workspace
    BY <1>3 DEF Workbench, DaemonTypeOK, Container
  <2>3. path \in Paths
    BY <2>2 DEF Workspace
  <2>4. dirs[path].data + 1 \in 0..MaxData
    BY <2>1, <2>3, MaxDataType DEF WriteFiles, Dir
  <2>. QED
    BY <2>1, <2>3, <2>4 DEF WriteFiles, Dir
<1>4. ASSUME NEW c \in ContainerIds, Exit(c) \/ ForeignContainer(c) \/ ForeignRemoval(c)
      PROVE  dirs' = dirs
  BY <1>4 DEF Exit, ForeignContainer, ForeignRemoval
<1>5. ASSUME NEW n \in NetworkIds, ForeignNetwork(n)
      PROVE  dirs' = dirs
  BY <1>5 DEF ForeignNetwork
<1>. QED
  BY <1>1, <1>2, <1>3, <1>4, <1>5 DEF Next, WorldStep, engineVars

\* Nothing else changes what the commands know.
LEMMA CommandsKept ==
  ASSUME IType, [Next]_engineVars
  PROVE  CommandsTypeOK' /\ CommandsProper'
<1>1. ASSUME WorldStep \/ UNCHANGED engineVars
      PROVE  cmds' = cmds
  BY <1>1 DEF WorldStep, engineVars, Exit, ForeignContainer, ForeignRemoval, Workbench,
              ForeignNetwork
<1>. QED
  BY <1>1, CommandStepProper DEF Next, IType, TypeOK, CommandsTypeOK, CommandsProper

-----------------------------------------------------------------------------

\* Initially nothing is there and nobody does anything.
LEMMA InitIType == Init => IType
BY NoCommandProper, MaxDataType
   DEF Init, DaemonInit, DirsInit, IType, TypeOK, DaemonTypeOK, DirsTypeOK, CommandsTypeOK,
       CommandsProper, EnvironmentsLabelled, NoContainer, NoNetwork, NoDir, Container,
       Network, Dir, Live

\* The inductive step: every step keeps what the commands know.
LEMMA NextIType == IType /\ [Next]_engineVars => IType'
BY NextContainers, ContainersTyped, NextNetworks, NetworksTyped, DirsTyped, CommandsKept
   DEF IType, TypeOK, DaemonTypeOK

\* What the commands know at each step is so at all times.
THEOREM KnowledgeCorrect == Spec => []IType
BY InitIType, NextIType, PTL DEF Spec

\* The commands, the daemon and the directories keep to their types, for any number
\* of terminals, requests, names and IDs.
THEOREM TypeCorrect == Spec => []TypeOK
<1>1. IType => TypeOK
  BY DEF IType
<1>. QED
  BY <1>1, KnowledgeCorrect, PTL

-----------------------------------------------------------------------------
(* One container for each ref.  It is the daemon's refusal to give a name    *)
(* twice that keeps two create commands, which have both found nothing, from *)
(* both creating: so a container of a ref must have the name of that ref.    *)

NamesKept ==
  /\ \A c \in ContainerIds :
       Live(c) /\ containers[c].managed /\ containers[c].ref \in UniqueRefs
       => containers[c].name = NameOf[containers[c].ref]
  /\ \A c, d \in ContainerIds :
       /\ Live(c) /\ Live(d)
       /\ containers[c].name # None
       /\ containers[c].name = containers[d].name
       => c = d

IUnique == IType /\ NamesKept

\* Every step keeps names unique, and gives a container of a ref its one name.
LEMMA NamesAreKept ==
  ASSUME IUnique, UNCHANGED containers \/ ContainerStep
  PROVE  NamesKept'
<1> USE DEF IUnique, IType, TypeOK
<1>1. CASE UNCHANGED containers
  BY <1>1 DEF NamesKept, Live
<1>2. ASSUME NEW d \in ContainerIds, NEW spec \in Container, NewcomerOK(spec),
             ContainerCreate(d, spec)
      PROVE  NamesKept'
  <2>1. /\ containers' = [containers EXCEPT ![d] = spec]
        /\ containers[d].state = "unused"
        /\ ~NameTaken(spec.name)
    BY <1>2 DEF ContainerCreate
  <2>2. \A c \in ContainerIds : c # d => containers'[c] = containers[c]
    BY <2>1 DEF DaemonTypeOK
  <2>3. containers'[d] = spec
    BY <2>1 DEF DaemonTypeOK
  <2>4. \A c \in ContainerIds : Live(c) => containers[c].name = None \/ containers[c].name # spec.name
    BY <2>1 DEF NameTaken
  <2>. QED
    BY <1>2, <2>2, <2>3, <2>4 DEF NamesKept, Live, NewcomerOK
<1>3. ASSUME NEW d \in ContainerIds,
             ContainerStart(d) \/ ContainerStop(d) \/ ContainerRemove(d, TRUE)
      PROVE  NamesKept'
  <2>1. \A c \in ContainerIds : Live(c)' =>
          /\ Live(c)
          /\ containers'[c].name = containers[c].name
          /\ containers'[c].managed = containers[c].managed
          /\ containers'[c].ref = containers[c].ref
    BY <1>3 DEF DaemonTypeOK, ContainerStart, ContainerStop, ContainerRemove, NoContainer,
                Live, Container
  <2>. QED
    BY <2>1 DEF NamesKept, Live
<1>. QED
  BY <1>1, <1>2, <1>3 DEF ContainerStep

\* Initially no container has a name.
LEMMA InitNames == Init => NamesKept
BY DEF Init, DaemonInit, NamesKept, NoContainer, Live

\* A managed container of a ref that is made under one name only has that name, and
\* no two live containers have the same name.
THEOREM NamesCorrect == Spec => []IUnique
<1>1. Init => IUnique
  BY InitIType, InitNames DEF IUnique
<1>2. IUnique /\ [Next]_engineVars => IUnique'
  BY NextIType, NextContainers, NamesAreKept DEF IUnique
<1>. QED
  BY <1>1, <1>2, PTL DEF Spec

\* Two containers of one ref would have the same name.
LEMMA OnlyOne ==
  ASSUME IUnique, NEW r \in UniqueRefs, NEW c \in Labelled(r), NEW d \in Labelled(r)
  PROVE  c = d
<1>1. r \in Refs
  BY DEF UniqueRefs
<1>2. NameOf[r] # None
  BY <1>1, NameOfType, NamesAreApart
<1>. QED
  BY <1>2 DEF IUnique, NamesKept, Labelled

\* However the creates, removals and lookups of any number of terminals interleave,
\* a ref of which there is to be one container never has two.
THEOREM OneContainer == Spec => []OneContainerPerRef
<1>1. IUnique => OneContainerPerRef
  BY OnlyOne DEF OneContainerPerRef
<1>. QED
  BY <1>1, NamesCorrect, PTL

-----------------------------------------------------------------------------
(* Commands act on what was asked for.  The ID that a lookup by name found   *)
(* stays that of a managed container of the ref, or of none: an ID is never  *)
(* given twice and labels do not change.                                     *)

FoundAsAsked ==
  \A p \in Procs :
    cmds[p].pc \in {"start", "stop", "rm"} =>
      /\ containers[cmds[p].found].state # "unused"
      /\ Live(cmds[p].found) =>
           /\ containers[cmds[p].found].managed
           /\ containers[cmds[p].found].ref = Req(p).ref

IFound == IType /\ FoundAsAsked

\* A step takes a command to the point of acting only by a lookup.
LEMMA ArrivesByFinding ==
  ASSUME IType, [Next]_engineVars, NEW q \in Procs,
         cmds'[q].pc \in {"start", "stop", "rm"}, cmds'[q] # cmds[q]
  PROVE  /\ cmds'[q].req = cmds[q].req
         /\ cmds'[q].found \in Labelled(Req(q).ref)
         /\ containers' = containers
<1> USE DEF IType, TypeOK, CommandsTypeOK
<1>1. ASSUME NEW p \in Procs, NEW from \in {"startfind", "stopfind", "rmfind"},
             NEW to \in {"start", "stop", "rm"}, FindTo(p, from, to)
      PROVE  /\ cmds'[q].req = cmds[q].req
             /\ cmds'[q].found \in Labelled(Req(q).ref)
             /\ containers' = containers
  <2>1. PICK c \in ContainerIds : Labelled(Req(p).ref) = {c} /\ GotoWith(p, to, c)
    BY <1>1 DEF FindTo, Found
  <2>2. q = p
    BY <2>1 DEF GotoWith
  <2>3. cmds'[q] = [cmds[q] EXCEPT !.pc = to, !.found = c]
    BY <2>1, <2>2 DEF GotoWith
  <2>. QED
    BY <1>1, <2>1, <2>2, <2>3 DEF FindTo, daemon, Command
<1>2. ASSUME WorldStep \/ UNCHANGED engineVars
      PROVE  FALSE
  BY <1>2 DEF WorldStep, engineVars, Exit, ForeignContainer, ForeignRemoval, Workbench,
              ForeignNetwork
<1>3. ASSUME NEW p \in Procs, FindToStart(p) \/ FindToStop(p) \/ FindToRm(p)
      PROVE  /\ cmds'[q].req = cmds[q].req
             /\ cmds'[q].found \in Labelled(Req(q).ref)
             /\ containers' = containers
  <2>1. CASE FindToStart(p)
    BY <1>1, <2>1 DEF FindToStart
  <2>2. CASE FindToStop(p)
    BY <1>1, <2>2 DEF FindToStop
  <2>3. CASE FindToRm(p)
    BY <1>1, <2>3 DEF FindToRm
  <2>. QED
    BY <1>3, <2>1, <2>2, <2>3
<1>4. ASSUME NEW p \in Procs, CommandStep(p), ~FindToStart(p), ~FindToStop(p), ~FindToRm(p)
      PROVE  FALSE
  <2>1. ASSUME NEW s \in {"netcreate", "wsinspect", "wscreate", "find", "create", "inspect",
                          "startfind", "reinspect"}, Goto(p, s)
        PROVE  FALSE
    BY <2>1 DEF Goto, Command
  <2>2. ASSUME Finish(p)
        PROVE  FALSE
    BY <2>2 DEF Finish, NoCommand
  <2>3. ASSUME Begin(p)
        PROVE  FALSE
    <3>1. PICK req \in Requests : cmds' = [cmds EXCEPT ![p] =
            [NoCommand EXCEPT !.pc = FirstStep(req), !.req = req, !.mode = FirstMode(req)]]
      BY <2>3 DEF Begin
    <3>2. req.op \in {"create", "start", "stop", "rm", "network", "up", "down"}
      BY Requested DEF Request
    <3>3. req.op = "create" => req.ref.kind \in {"workbench", "service", "vpn"}
      BY Requested, RefKinds
    <3>4. FirstStep(req) \in {"netinspect", "startfind", "stopfind", "rmfind", "envinspect",
                              "profile", "find"}
      BY <3>2, <3>3 DEF FirstStep
    <3>. QED
      BY <3>1, <3>4 DEF NoCommand
  <2>4. ASSUME ReuseNetwork(p) \/ MissNetwork(p) \/ CreateNetwork(p) \/ ReadNetwork(p)
        PROVE  FALSE
    <3>1. CASE CreateNetwork(p)
      <4>1. PICK n \in NetworkIds : cmds' = [cmds EXCEPT ![p].pc = "netread", ![p].found = n]
        BY <3>1 DEF CreateNetwork, GotoWith
      <4>. QED
        BY <4>1 DEF Command
    <3>2. CASE MissNetwork(p)
      BY <2>1, <3>2 DEF MissNetwork
    <3>3. CASE AfterNetwork(p)
      BY <2>1, <2>2, <3>3 DEF AfterNetwork
    <3>. QED
      BY <2>4, <3>1, <3>2, <3>3 DEF ReuseNetwork, ReadNetwork
  <2>5. ASSUME BuiltinProfile(p) \/ SegmentProfile(p) \/ VPNProfile(p) \/ InspectEnvironment(p)
        PROVE  FALSE
    <3>1. ASSUME NEW s \in {"wsinspect", "netinspect", "find", "compose"}, NEW mode, NEW label,
                 cmds' = [cmds EXCEPT ![p].pc = s, ![p].mode = mode, ![p].label = label]
          PROVE  FALSE
      BY <3>1 DEF Command
    <3>2. CASE BuiltinProfile(p)
      BY <3>1, <3>2 DEF BuiltinProfile
    <3>3. CASE SegmentProfile(p)
      BY <3>1, <3>3 DEF SegmentProfile
    <3>4. CASE VPNProfile(p)
      BY <3>1, <3>4 DEF VPNProfile
    <3>5. CASE InspectEnvironment(p)
      <4>1. PICK c \in ContainerIds : cmds' = [cmds EXCEPT
              ![p].pc = IF Req(p).op = "create" THEN "find" ELSE "compose",
              ![p].mode = EnvironmentNetwork(c), ![p].label = EnvironmentNetwork(c)]
        BY <3>5 DEF InspectEnvironment
      <4>. QED
        BY <3>1, <4>1
    <3>. QED
      BY <2>5, <3>2, <3>3, <3>4, <3>5
  <2>6. ASSUME SkipWorkspace(p) \/ ReuseWorkspace(p) \/ MissWorkspace(p) \/ MakeWorkspace(p)
        PROVE  FALSE
    BY <2>1, <2>6
       DEF SkipWorkspace, ReuseWorkspace, MissWorkspace, MakeWorkspace, Attached, Command
  <2>7. ASSUME \/ FindNone(p) \/ CreateContainer(p) \/ InspectCreated(p) \/ Start(p)
               \/ Return(p) \/ ComposeUp(p) \/ ComposeDown(p) \/ InspectStarted(p)
               \/ Stop(p) \/ Remove(p)
        PROVE  FALSE
    BY <2>1, <2>2, <2>7
       DEF FindNone, CreateContainer, InspectCreated, Start, Return, ComposeUp, ComposeDown,
           InspectStarted, Stop, Remove
  <2>. QED
    BY <1>4, <2>3, <2>4, <2>5, <2>6, <2>7 DEF CommandStep
<1>. QED
  BY <1>2, <1>3, <1>4 DEF Next

\* What a command has found stays what its request names, or is gone.
LEMMA FoundKept == IFound /\ [Next]_engineVars => FoundAsAsked'
<1> SUFFICES ASSUME IFound, [Next]_engineVars, NEW q \in Procs,
                    cmds'[q].pc \in {"start", "stop", "rm"}
             PROVE  /\ containers'[cmds'[q].found].state # "unused"
                    /\ containers'[cmds'[q].found].state \in {"stopped", "running"} =>
                         /\ containers'[cmds'[q].found].managed
                         /\ containers'[cmds'[q].found].ref = cmds'[q].req.ref
  BY DEF FoundAsAsked, Live, Req
<1>1. CASE cmds'[q] = cmds[q]
  <2>1. cmds[q].found \in ContainerIds
    BY <1>1 DEF IFound, IType, CommandsProper, Proper
  <2>2. UNCHANGED containers \/ ContainerStep
    BY NextContainers DEF IFound
  <2>3. /\ containers[cmds[q].found].state # "unused"
        /\ Live(cmds[q].found) =>
             /\ containers[cmds[q].found].managed
             /\ containers[cmds[q].found].ref = cmds[q].req.ref
    BY <1>1 DEF IFound, FoundAsAsked, Req
  <2>4. PICK c \in ContainerIds : c = cmds[q].found
    BY <2>1
  <2>5. /\ containers'[c].state # "unused"
        /\ Live(c)' => /\ Live(c)
                       /\ containers'[c].managed = containers[c].managed
                       /\ containers'[c].ref = containers[c].ref
    BY <2>2, <2>3, <2>4, ContainerLife DEF IFound, IType, TypeOK
  <2>. QED
    BY <1>1, <2>3, <2>4, <2>5 DEF Live
<1>2. CASE cmds'[q] # cmds[q]
  BY <1>2, ArrivesByFinding DEF IFound, Labelled, Live, Req
<1>. QED
  BY <1>1, <1>2

\* The body of OnlyRequestedChanges.
AsRequested(c) ==
  \/ ~Live(c) \/ containers'[c] = containers[c] \/ cmds' = cmds
  \/ \E p \in Procs :
       /\ cmds'[p] # cmds[p]
       /\ containers[c].managed
       /\ containers[c].ref = Req(p).ref
       /\ containers'[c].state = "gone" =>
            /\ Req(p).op \in {"rm", "down"}
            /\ Running(c) /\ Req(p).op = "rm" => Req(p).force

\* A single step changes only containers that a request names.
LEMMA StepAsRequested ==
  ASSUME IFound, [Next]_engineVars, NEW c \in ContainerIds
  PROVE  AsRequested(c)
<1> USE DEF IFound, IType, TypeOK, DaemonTypeOK, CommandsTypeOK
<1>1. SUFFICES ASSUME Live(c), containers'[c] # containers[c], NEW p \in Procs, CommandStep(p)
               PROVE  AsRequested(c)
  BY DEF AsRequested, Next, WorldStep, engineVars, Exit, ForeignContainer, ForeignRemoval,
         Workbench, ForeignNetwork
<1>. cmds[p] \in Command /\ Proper(cmds[p])
  BY DEF CommandsProper
<1>2. CASE CreateContainer(p)
  BY <1>1, <1>2 DEF CreateContainer, ContainerCreate, Live
<1>3. CASE ComposeUp(p)
  <2>1. cmds'[p] # cmds[p]
    BY <1>3 DEF ComposeUp, Finish, At, NoCommand
  <2>2. containers'[c].state # "gone" /\ containers[c].managed /\ containers[c].ref = Req(p).ref
    <3>1. PICK d \in ContainerIds, name \in ComposeNames :
            \/ /\ containers[d].state = "unused"
               /\ \E spec : containers' = [containers EXCEPT ![d] = spec]
            \/ containers[d].managed /\ containers[d].ref = Req(p).ref /\ ContainerStart(d)
      BY <1>3 DEF ComposeUp, ContainerCreate
    <3>2. d = c
      BY <1>1, <3>1 DEF ContainerStart
    <3>. QED
      BY <1>1, <3>1, <3>2 DEF ContainerStart, Live, Container
  <2>. QED
    BY <2>1, <2>2 DEF AsRequested
<1>4. CASE ComposeDown(p)
  <2>1. cmds'[p] # cmds[p]
    BY <1>4 DEF ComposeDown, Finish, At, NoCommand
  <2>2. PICK d \in ContainerIds :
          containers[d].managed /\ containers[d].ref = Req(p).ref /\ ContainerRemove(d, TRUE)
    BY <1>4 DEF ComposeDown
  <2>3. d = c
    BY <1>1, <2>2 DEF ContainerRemove
  <2>. QED
    BY <1>4, <2>1, <2>2, <2>3 DEF AsRequested, ComposeDown
<1>5. ASSUME At(p, "start") \/ At(p, "stop") \/ At(p, "rm"), cmds[p].found = c
      PROVE  containers[c].managed /\ containers[c].ref = Req(p).ref
  BY <1>1, <1>5 DEF FoundAsAsked, At
<1>6. CASE Start(p)
  <2>1. cmds'[p] # cmds[p]
    BY <1>6 DEF Start, Finish, Goto, At, NoCommand, Command
  <2>2. cmds[p].found = c /\ containers'[c].state # "gone"
    BY <1>1, <1>6 DEF Start, ContainerStart, Container
  <2>. QED
    BY <1>5, <1>6, <2>1, <2>2 DEF AsRequested, Start
<1>7. CASE Stop(p)
  <2>1. cmds'[p] # cmds[p]
    BY <1>7 DEF Stop, Finish, At, NoCommand
  <2>2. cmds[p].found = c /\ containers'[c].state # "gone"
    BY <1>1, <1>7 DEF Stop, ContainerStop, Container
  <2>. QED
    BY <1>5, <1>7, <2>1, <2>2 DEF AsRequested, Stop
<1>8. CASE Remove(p)
  <2>1. cmds'[p] # cmds[p]
    BY <1>8 DEF Remove, Finish, At, NoCommand
  <2>2. cmds[p].found = c /\ (Running(c) => Req(p).force)
    BY <1>1, <1>8 DEF Remove, ContainerRemove
  <2>3. Req(p).op = "rm"
    BY <1>8 DEF Remove, At, Proper, Req
  <2>. QED
    BY <1>5, <1>8, <2>1, <2>2, <2>3 DEF AsRequested, Remove
<1>9. CASE CreateNetwork(p)
  BY <1>1, <1>9 DEF CreateNetwork, NetworkCreate
<1>10. CASE \/ Begin(p) \/ Return(p) \/ ReuseNetwork(p) \/ MissNetwork(p) \/ ReadNetwork(p)
            \/ BuiltinProfile(p) \/ SegmentProfile(p) \/ VPNProfile(p)
            \/ SkipWorkspace(p) \/ ReuseWorkspace(p) \/ MissWorkspace(p) \/ MakeWorkspace(p)
            \/ InspectEnvironment(p) \/ FindNone(p) \/ InspectCreated(p)
            \/ FindToStart(p) \/ InspectStarted(p) \/ FindToStop(p) \/ FindToRm(p)
  BY <1>1, <1>10
     DEF daemon, Begin, Return, ReuseNetwork, MissNetwork, ReadNetwork, BuiltinProfile,
         SegmentProfile, VPNProfile, SkipWorkspace, ReuseWorkspace, MissWorkspace,
         MakeWorkspace, InspectEnvironment, FindNone, InspectCreated, FindToStart,
         InspectStarted, FindToStop, FindToRm, FindTo
<1>. QED
  BY <1>1, <1>2, <1>3, <1>4, <1>6, <1>7, <1>8, <1>9, <1>10 DEF CommandStep

\* No command stops, starts or removes a container that its request did not name,
\* whatever becomes of names and containers between its lookup and its call.
THEOREM RequestedOnly == Spec => OnlyRequestedChanges
<1>1. Init => FoundAsAsked
  BY DEF Init, FoundAsAsked, NoCommand
<1>2. IFound /\ [Next]_engineVars => IFound'
  BY NextIType, FoundKept DEF IFound
<1>3. IFound /\ [Next]_engineVars =>
        [\A c \in ContainerIds :
           \/ ~Live(c) \/ containers'[c] = containers[c] \/ cmds' = cmds
           \/ \E p \in Procs :
                /\ cmds'[p] # cmds[p]
                /\ containers[c].managed
                /\ containers[c].ref = Req(p).ref
                /\ containers'[c].state = "gone" =>
                     /\ Req(p).op \in {"rm", "down"}
                     /\ Running(c) /\ Req(p).op = "rm" => Req(p).force
        ]_engineVars
  BY StepAsRequested DEF AsRequested
<1>. QED
  BY <1>1, <1>2, <1>3, InitIType, PTL DEF Spec, OnlyRequestedChanges, IFound

-----------------------------------------------------------------------------
(* The commands implement Inventory: each call of Docker is one of its steps *)
(* or none, and every other step is none.                                    *)

Up   == {r \in UniqueRefs : \E c \in Labelled(r) : Running(c)}
Used == {c \in ContainerIds : containers[c].state # "unused"}

\* What a ref holds is what is labelled with it.
LEMMA Holds ==
  ASSUME IUnique, NEW r \in UniqueRefs, NEW c \in ContainerIds
  PROVE  Holder[r] = c <=> c \in Labelled(r)
<1>1. CASE Labelled(r) = {}
  BY <1>1, IdsAreApart DEF Holder, OneOf
<1>2. CASE Labelled(r) # {}
  <2>1. Holder[r] \in Labelled(r)
    BY <1>2 DEF Holder, OneOf
  <2>. QED
    BY <2>1, OnlyOne
<1>. QED
  BY <1>1, <1>2

\* A ref without a labelled container holds nothing.
LEMMA HoldsNothing ==
  ASSUME IUnique, NEW r \in UniqueRefs
  PROVE  Holder[r] = None <=> Labelled(r) = {}
BY IdsAreApart DEF Holder, OneOf, Labelled

\* The labels after a step, from those before it.
LEMMA LabelsAfter ==
  ASSUME IUnique, NEW d \in ContainerIds, NEW r \in UniqueRefs,
         ContainerStart(d) \/ ContainerStop(d)
  PROVE  Labelled(r)' = Labelled(r)
BY DEF IUnique, IType, TypeOK, DaemonTypeOK, ContainerStart, ContainerStop, Labelled, Live,
       Container

\* Removing a container takes it from those labelled, and no other.
LEMMA LabelsAfterRemove ==
  ASSUME IUnique, NEW d \in ContainerIds, NEW r \in UniqueRefs, ContainerRemove(d, TRUE)
  PROVE  Labelled(r)' = Labelled(r) \ {d}
BY DEF IUnique, IType, TypeOK, DaemonTypeOK, ContainerRemove, Labelled, Live, NoContainer

\* Creating a container adds it to those labelled with its ref, and no other.
LEMMA LabelsAfterCreate ==
  ASSUME IUnique, NEW d \in ContainerIds, NEW r \in UniqueRefs, NEW spec \in Container,
         NewcomerOK(spec), ContainerCreate(d, spec)
  PROVE  Labelled(r)' = IF spec.managed /\ spec.ref = r THEN Labelled(r) \cup {d} ELSE Labelled(r)
<1>1. /\ containers[d].state = "unused"
      /\ containers'[d] = spec
      /\ \A c \in ContainerIds : c # d => containers'[c] = containers[c]
  BY DEF IUnique, IType, TypeOK, DaemonTypeOK, ContainerCreate
<1>. QED
  BY <1>1 DEF Labelled, Live, NewcomerOK

\* The choice of a holder is no choice.
LEMMA OneOfFew == OneOf({}) = None /\ \A d : OneOf({d}) = d
BY DEF OneOf

\* Who runs, when one container changes between stopped and running.
LEMMA StartMaps ==
  ASSUME IUnique, NEW d \in ContainerIds, ContainerStart(d) \/ ContainerStop(d)
  PROVE  Abstract!Next \/ UNCHANGED Abstract!vars
<1>1. /\ Live(d) /\ Live(d)'
      /\ \A c \in ContainerIds : c # d => containers'[c] = containers[c]
      /\ ContainerStart(d) => Running(d)'
      /\ ContainerStop(d) => ~Running(d)'
      /\ containers'[d].managed = containers[d].managed /\ containers'[d].ref = containers[d].ref
  BY DEF IUnique, IType, TypeOK, DaemonTypeOK, ContainerStart, ContainerStop, Container, Live,
         Running
<1>2. \A r \in UniqueRefs : Labelled(r)' = Labelled(r)
  BY LabelsAfter
<1>3. Holder' = Holder
  BY <1>2 DEF Holder
<1>4. Used' = Used
  BY <1>1 DEF Used, Live
<1>5. CASE containers[d].managed /\ containers[d].ref \in UniqueRefs
  <2>1. PICK r \in UniqueRefs : r = containers[d].ref
    BY <1>5
  <2>2. d \in Labelled(r) /\ \A c \in Labelled(r) : c = d
    BY <1>1, <1>5, <2>1, OnlyOne DEF Labelled
  <2>3. \A q \in UniqueRefs : q # r => d \notin Labelled(q)
    BY <2>1 DEF Labelled
  <2>4. Holder[r] # None
    BY <2>2, HoldsNothing
  <2>5. ContainerStart(d) => Up' = Up \cup {r}
    BY <1>1, <1>2, <2>2, <2>3 DEF Up, Running, Labelled
  <2>6. ContainerStop(d) => Up' = Up \ {r}
    BY <1>1, <1>2, <2>2, <2>3 DEF Up, Running, Labelled
  <2>7. Abstract!Start(r) \/ Abstract!Stop(r)
    BY <1>3, <1>4, <2>4, <2>5, <2>6 DEF Abstract!Start, Abstract!Stop, Up, Used
  <2>. QED
    BY <2>7 DEF Abstract!Next
<1>6. CASE ~(containers[d].managed /\ containers[d].ref \in UniqueRefs)
  <2>1. \A r \in UniqueRefs : d \notin Labelled(r)
    BY <1>6 DEF Labelled
  <2>2. Up' = Up
    BY <1>1, <1>2, <2>1 DEF Up, Running, Labelled
  <2>. QED
    BY <1>3, <1>4, <2>2 DEF Abstract!vars, Up, Used
<1>. QED
  BY <1>5, <1>6

\* Removing a container is a removal, or a stutter, of the inventory.
LEMMA RemoveMaps ==
  ASSUME IUnique, NEW d \in ContainerIds, ContainerRemove(d, TRUE)
  PROVE  Abstract!Next \/ UNCHANGED Abstract!vars
<1>1. /\ Live(d)
      /\ containers'[d].state = "gone"
      /\ \A c \in ContainerIds : c # d => containers'[c] = containers[c]
  BY DEF IUnique, IType, TypeOK, DaemonTypeOK, ContainerRemove, NoContainer
<1>2. \A r \in UniqueRefs : Labelled(r)' = Labelled(r) \ {d}
  BY LabelsAfterRemove
<1>3. Used' = Used
  BY <1>1 DEF Used, Live
<1>4. CASE containers[d].managed /\ containers[d].ref \in UniqueRefs
  <2>1. PICK r \in UniqueRefs : r = containers[d].ref
    BY <1>4
  <2>2. Labelled(r) = {d}
    BY <1>1, <1>4, <2>1, OnlyOne DEF Labelled
  <2>3. \A q \in UniqueRefs : q # r => Labelled(q)' = Labelled(q)
    BY <1>2, <2>1 DEF Labelled
  <2>4. Labelled(r)' = {}
    BY <1>2, <2>2
  <2>5. Holder[r] # None
    BY <2>2, HoldsNothing
  <2>6. Holder' = [Holder EXCEPT ![r] = None]
    BY <2>3, <2>4, OneOfFew DEF Holder
  <2>7. Up' = Up \ {r}
    <3>1. \A q \in UniqueRefs : q # r => d \notin Labelled(q)
      BY <2>1 DEF Labelled
    <3>. QED
      BY <1>1, <2>3, <2>4, <3>1 DEF Up, Running, Labelled
  <2>8. Abstract!Remove(r)
    BY <1>3, <2>5, <2>6, <2>7 DEF Abstract!Remove, Up, Used
  <2>. QED
    BY <2>8 DEF Abstract!Next
<1>5. CASE ~(containers[d].managed /\ containers[d].ref \in UniqueRefs)
  <2>1. \A r \in UniqueRefs : d \notin Labelled(r) /\ Labelled(r)' = Labelled(r)
    BY <1>2, <1>5 DEF Labelled
  <2>2. Holder' = Holder
    BY <2>1 DEF Holder
  <2>3. Up' = Up
    BY <1>1, <2>1 DEF Up, Running, Labelled
  <2>. QED
    BY <1>3, <2>2, <2>3 DEF Abstract!vars, Up, Used
<1>. QED
  BY <1>4, <1>5

\* Creating a container is a creation in the inventory, or one elsewhere.
LEMMA CreateMaps ==
  ASSUME IUnique, NEW d \in ContainerIds, NEW spec \in Container, NewcomerOK(spec),
         ContainerCreate(d, spec)
  PROVE  Abstract!Next
<1>1. /\ containers[d].state = "unused"
      /\ containers'[d] = spec
      /\ ~NameTaken(spec.name)
      /\ \A c \in ContainerIds : c # d => containers'[c] = containers[c]
  BY DEF IUnique, IType, TypeOK, DaemonTypeOK, ContainerCreate
<1>2. \A r \in UniqueRefs :
        Labelled(r)' = IF spec.managed /\ spec.ref = r THEN Labelled(r) \cup {d} ELSE Labelled(r)
  BY LabelsAfterCreate
<1>3. d \notin Used /\ Used' = Used \cup {d}
  BY <1>1 DEF Used, NewcomerOK
<1>4. \A r \in UniqueRefs : d \notin Labelled(r)
  BY <1>1 DEF Labelled, Live
<1>5. CASE spec.managed /\ spec.ref \in UniqueRefs
  <2>1. PICK r \in UniqueRefs : r = spec.ref
    BY <1>5
  <2>2. spec.name = NameOf[r] /\ spec.state = "stopped"
    BY <1>5, <2>1 DEF NewcomerOK
  <2>3. NameOf[r] # None
    BY NameOfType, NamesAreApart DEF UniqueRefs
  <2>4. Labelled(r) = {}
    BY <1>1, <2>2, <2>3 DEF IUnique, NamesKept, Labelled, NameTaken
  <2>5. Labelled(r)' = {d}
    BY <1>2, <1>5, <2>1, <2>4
  <2>6. \A q \in UniqueRefs : q # r => Labelled(q)' = Labelled(q)
    BY <1>2, <2>1
  <2>7. Holder[r] = None
    BY <2>4, HoldsNothing
  <2>8. Holder' = [Holder EXCEPT ![r] = d]
    BY <2>5, <2>6, OneOfFew DEF Holder
  <2>9. Up' = Up
    BY <1>1, <1>4, <2>2, <2>4, <2>5, <2>6 DEF Up, Running, Labelled
  <2>10. Abstract!Create(r, d)
    BY <1>3, <2>7, <2>8, <2>9 DEF Abstract!Create, Up, Used
  <2>. QED
    BY <2>10 DEF Abstract!Next
<1>6. CASE ~(spec.managed /\ spec.ref \in UniqueRefs)
  <2>1. \A r \in UniqueRefs : Labelled(r)' = Labelled(r)
    BY <1>2, <1>6
  <2>2. Holder' = Holder
    BY <2>1 DEF Holder
  <2>3. Up' = Up
    BY <1>1, <1>4, <2>1 DEF Up, Running, Labelled
  <2>4. Abstract!Elsewhere(d)
    BY <1>3, <2>2, <2>3 DEF Abstract!Elsewhere, Up, Used
  <2>. QED
    BY <2>4 DEF Abstract!Next
<1>. QED
  BY <1>5, <1>6

\* A ref gets a container only when it holds none, gets it stopped, and never gets
\* back one that was removed: for any number of terminals and any interleaving.
THEOREM Implementation == Spec => ImplementsInventory
<1>1. Init => Abstract!Init
  BY DEF Init, DaemonInit, NoContainer, Abstract!Init, Holder, OneOf, Labelled, Live
<1>2. IUnique /\ [Next]_engineVars => [Abstract!Next]_(Abstract!vars)
  <2> SUFFICES ASSUME IUnique, [Next]_engineVars
               PROVE  Abstract!Next \/ UNCHANGED Abstract!vars
    OBVIOUS
  <2>1. CASE UNCHANGED containers
    BY <2>1 DEF Abstract!vars, Holder, Labelled, Live, Running
  <2>2. CASE ContainerStep
    BY <2>2, CreateMaps, StartMaps, RemoveMaps DEF ContainerStep
  <2>. QED
    BY <2>1, <2>2, NextContainers DEF IUnique
<1>. QED
  BY <1>1, <1>2, NamesCorrect, PTL DEF Spec, Abstract!Spec, ImplementsInventory

-----------------------------------------------------------------------------
(* Segments.  No command removes a network, and others remove only their     *)
(* own: a managed network that EnsureNetwork has returned is still there     *)
(* when the workbench is created, however much later.                        *)

\* There is a network of that name that Contaigen created.
OwnNetwork(name) == \E n \in NetworksNamed(name) : networks[n].managed

\* What a command has learnt of the network it is going to use.
OnSegment(cmd) ==
  /\ cmd.pc = "netread" =>
       /\ cmd.found \in NetworkIds
       /\ LiveNet(cmd.found)
       /\ networks[cmd.found].managed
       /\ networks[cmd.found].name = cmd.mode
  /\ /\ cmd.pc \in {"wsinspect", "wscreate", "find", "create"}
     /\ cmd.req.ref \in EnvRefs /\ cmd.mode \in NetworkNames
     => OwnNetwork(cmd.mode)

ISegments == IType /\ (\A p \in Procs : OnSegment(cmds[p])) /\ SegmentsAreManaged

\* A managed network stays as it is.
LEMMA ManagedStays ==
  ASSUME [Next]_engineVars, NEW n \in NetworkIds, LiveNet(n), networks[n].managed
  PROVE  networks'[n] = networks[n]
<1>1. ASSUME NEW p \in Procs, CreateNetwork(p)
      PROVE  networks'[n] = networks[n]
  BY <1>1 DEF CreateNetwork, NetworkCreate, LiveNet
<1>2. ASSUME NEW m \in NetworkIds, ForeignNetwork(m)
      PROVE  networks'[n] = networks[n]
  <2>1. CASE \E name \in ForeignNames \cap NetworkNames : NetworkCreate(m, name, FALSE)
    BY <2>1 DEF NetworkCreate, LiveNet
  <2>2. CASE ~networks[m].managed /\ NetworkRemove(m)
    <3>1. m # n
      BY <2>2
    <3>. QED
      BY <2>2, <3>1 DEF NetworkRemove
  <2>. QED
    BY <1>2, <2>1, <2>2 DEF ForeignNetwork
<1>. QED
  BY <1>1, <1>2, NetworkCalls

\* So a name that stands for a managed network goes on doing so.
LEMMA ManagedKept ==
  ASSUME [Next]_engineVars, NEW name, OwnNetwork(name)
  PROVE  OwnNetwork(name)'
<1>1. PICK n \in NetworksNamed(name) : networks[n].managed
  BY DEF OwnNetwork
<1>2. n \in NetworkIds /\ LiveNet(n) /\ networks[n].name = name
  BY <1>1 DEF NetworksNamed
<1>3. networks'[n] = networks[n]
  BY <1>1, <1>2, ManagedStays
<1>. QED
  BY <1>1, <1>2, <1>3 DEF OwnNetwork, NetworksNamed, LiveNet

\* A command that comes to the point of using a network has had it from
\* EnsureNetwork, or goes on with what it had.
LEMMA ArrivesOnSegment ==
  ASSUME IType, \A q \in Procs : OnSegment(cmds[q]), [Next]_engineVars,
         NEW p \in Procs, CommandStep(p)
  PROVE  OnSegment(cmds[p])'
<1> USE DEF IType, TypeOK, CommandsTypeOK
<1> DEFINE new == cmds'[p]
           there == {"wsinspect", "wscreate", "find", "create"}
<1>. cmds[p] \in Command /\ Proper(cmds[p]) /\ OnSegment(cmds[p])
  BY DEF CommandsProper
<1>0. \A name : OwnNetwork(name) => OwnNetwork(name)'
  BY ManagedKept
<1>1. ASSUME new.pc \notin there \cup {"netread"}
      PROVE  OnSegment(cmds[p])'
  BY <1>1 DEF OnSegment
<1>2. ASSUME new.pc \in there,
             new.req.ref \in EnvRefs /\ new.mode \in NetworkNames => OwnNetwork(cmds[p].mode)'
      PROVE  OnSegment(cmds[p])'
  BY <1>2 DEF OnSegment
\* A step within what follows the network changes neither request nor mode.
<1>3. ASSUME cmds[p].pc \in there, new.pc \in there,
             new.req = cmds[p].req, new.mode = cmds[p].mode
      PROVE  OnSegment(cmds[p])'
  BY <1>0, <1>2, <1>3 DEF OnSegment
<1>4. ASSUME NEW s \in Steps, Goto(p, s)
      PROVE  new.pc = s /\ new.req = cmds[p].req /\ new.mode = cmds[p].mode
             /\ new.found = cmds[p].found
  BY <1>4 DEF Goto, Command
<1>5. ASSUME Finish(p)
      PROVE  OnSegment(cmds[p])'
  BY <1>1, <1>5 DEF Finish, NoCommand
<1>6. ASSUME Begin(p)
      PROVE  OnSegment(cmds[p])'
  <2>1. PICK req \in Requests : cmds' = [cmds EXCEPT ![p] =
          [NoCommand EXCEPT !.pc = FirstStep(req), !.req = req, !.mode = FirstMode(req)]]
    BY <1>6 DEF Begin
  <2>2. new.pc = FirstStep(req) /\ new.req = req
    BY <2>1 DEF NoCommand
  <2>3. req.op \in {"create", "start", "stop", "rm", "network", "up", "down"}
    BY Requested DEF Request
  <2>4. CASE req.op = "create" /\ req.ref \in VPNRefs
    <3>1. FirstStep(req) = "find" /\ req.ref \notin EnvRefs
      BY <2>4, RefKinds DEF FirstStep
    <3>. QED
      BY <1>2, <2>2, <3>1
  <2>5. CASE ~(req.op = "create" /\ req.ref \in VPNRefs)
    <3>1. req.op = "create" => req.ref.kind \in {"workbench", "service"}
      BY <2>5, Requested, RefKinds
    <3>2. FirstStep(req) \in {"netinspect", "startfind", "stopfind", "rmfind", "envinspect",
                              "profile"}
      BY <2>3, <3>1 DEF FirstStep
    <3>. QED
      BY <1>1, <2>2, <3>2
  <2>. QED
    BY <2>4, <2>5
\* EnsureNetwork returns a managed network of that name.
<1>7. ASSUME AfterNetwork(p), OwnNetwork(cmds[p].mode)
      PROVE  OnSegment(cmds[p])'
  <2>1. CASE Finish(p)
    BY <1>5, <2>1
  <2>2. CASE Goto(p, "wsinspect")
    <3>1. new.pc = "wsinspect" /\ new.mode = cmds[p].mode
      BY <1>4, <2>2 DEF Steps
    <3>. QED
      BY <1>0, <1>2, <1>7, <3>1
  <2>. QED
    BY <1>7, <2>1, <2>2 DEF AfterNetwork
<1>8. CASE ReuseNetwork(p)
  BY <1>7, <1>8 DEF ReuseNetwork, OwnNetwork
<1>9. CASE MissNetwork(p)
  BY <1>1, <1>4, <1>9 DEF MissNetwork, Steps
<1>10. CASE CreateNetwork(p)
  <2>1. PICK n \in NetworkIds :
          NetworkCreate(n, cmds[p].mode, TRUE) /\ GotoWith(p, "netread", n)
    BY <1>10 DEF CreateNetwork
  <2>2. new = [cmds[p] EXCEPT !.pc = "netread", !.found = n]
    BY <2>1 DEF GotoWith
  <2>3. new.pc = "netread" /\ new.found = n /\ new.mode = cmds[p].mode
    BY <2>2 DEF Command
  <2>4. networks'[n] = [state |-> "live", name |-> cmds[p].mode, managed |-> TRUE]
    BY <2>1 DEF NetworkCreate, DaemonTypeOK
  <2>. QED
    BY <2>3, <2>4 DEF OnSegment, LiveNet
<1>11. CASE ReadNetwork(p)
  <2>1. OwnNetwork(cmds[p].mode)
    BY <1>11 DEF ReadNetwork, At, OnSegment, OwnNetwork, NetworksNamed
  <2>. QED
    BY <1>7, <1>11, <2>1 DEF ReadNetwork
\* The other profiles put the environment on none of these networks.
<1>12. CASE BuiltinProfile(p) \/ SegmentProfile(p) \/ VPNProfile(p)
  <2>1. CASE BuiltinProfile(p)
    <3>1. new.pc = "wsinspect" /\ new.mode \in BuiltinModes
      BY <2>1 DEF BuiltinProfile, Command, BuiltinModes
    <3>. QED
      BY <1>2, <3>1, NamesAreApart DEF NamedModes
  <2>2. CASE SegmentProfile(p)
    BY <1>1, <2>2 DEF SegmentProfile, Command
  <2>3. CASE VPNProfile(p)
    <3>1. Req(p) \in Requests /\ Req(p).vpn \in Gateways
      BY <2>3, Requested DEF VPNProfile, At, Proper, Req
    <3>2. new.pc = "wsinspect" /\ new.mode = NameOf[VPNRef(Req(p).vpn)]
      BY <2>3 DEF VPNProfile, Command
    <3>3. new.mode \in ContainerNames
      BY <3>1, <3>2, NameOfType DEF VPNRefs, Refs
    <3>. QED
      BY <1>2, <3>2, <3>3, NamesAreApart DEF NamedModes
  <2>. QED
    BY <1>12, <2>1, <2>2, <2>3
<1>13. CASE SkipWorkspace(p) \/ ReuseWorkspace(p) \/ MissWorkspace(p) \/ MakeWorkspace(p)
            \/ FindNone(p)
  <2>1. ASSUME NEW path \in Paths, Attached(p, path)
        PROVE  new.pc = "find" /\ new.req = cmds[p].req /\ new.mode = cmds[p].mode
    BY <2>1 DEF Attached, Command
  <2>2. CASE SkipWorkspace(p)
    BY <1>3, <1>4, <2>2 DEF SkipWorkspace, At, Steps
  <2>3. CASE MissWorkspace(p)
    BY <1>3, <1>4, <2>3 DEF MissWorkspace, At, Steps
  <2>4. CASE FindNone(p)
    BY <1>3, <1>4, <2>4 DEF FindNone, At, Steps
  <2>5. CASE ReuseWorkspace(p)
    BY <1>3, <2>5 DEF ReuseWorkspace, Attached, At, Command
  <2>6. CASE MakeWorkspace(p)
    BY <1>3, <2>6 DEF MakeWorkspace, Attached, At, Command
  <2>. QED
    BY <1>13, <2>2, <2>3, <2>4, <2>5, <2>6
\* A service goes on the network of its environment, whatever that is.
<1>14. CASE InspectEnvironment(p)
  <2>1. Req(p).ref \notin EnvRefs
    BY <1>14, RefKinds DEF InspectEnvironment, At, Proper, Req
  <2>2. new.pc \in {"find", "compose"} /\ new.req = cmds[p].req
    BY <1>14 DEF InspectEnvironment, Command
  <2>. QED
    BY <1>1, <1>2, <2>1, <2>2 DEF Req
<1>15. CASE FindToStart(p) \/ FindToStop(p) \/ FindToRm(p)
  <2>1. ASSUME NEW from, NEW to \in {"start", "stop", "rm"}, FindTo(p, from, to)
        PROVE  new.pc = to
    BY <2>1 DEF FindTo, GotoWith, Command
  <2>. QED
    BY <1>1, <1>15, <2>1 DEF FindToStart, FindToStop, FindToRm
<1>16. CASE CreateContainer(p) \/ InspectCreated(p) \/ Start(p)
  BY <1>1, <1>4, <1>5, <1>16 DEF CreateContainer, InspectCreated, Start, Steps
<1>17. CASE \/ Return(p) \/ ComposeUp(p) \/ ComposeDown(p) \/ InspectStarted(p)
            \/ Stop(p) \/ Remove(p)
  BY <1>5, <1>17 DEF Return, ComposeUp, ComposeDown, InspectStarted, Stop, Remove
<1>. QED
  BY <1>6, <1>8, <1>9, <1>10, <1>11, <1>12, <1>13, <1>14, <1>15, <1>16, <1>17
     DEF CommandStep

\* A step of a command is a step of that terminal only.
LEMMA OneTerminal ==
  ASSUME NEW p \in Procs, CommandStep(p), NEW q \in Procs, cmds'[q] # cmds[q],
         CommandsTypeOK
  PROVE  q = p
BY DEF CommandsTypeOK, CommandStep, Begin, Return, ReuseNetwork, MissNetwork, CreateNetwork,
       ReadNetwork, AfterNetwork, BuiltinProfile, SegmentProfile, VPNProfile, SkipWorkspace,
       ReuseWorkspace, MissWorkspace, MakeWorkspace, Attached, InspectEnvironment, ComposeUp,
       ComposeDown, FindNone, CreateContainer, InspectCreated, FindToStart, FindToStop,
       FindToRm, FindTo, Start, InspectStarted, Stop, Remove, Goto, GotoWith, Finish

\* A workbench comes into being in one way only.
LEMMA NewWorkbench ==
  ASSUME IType, [Next]_engineVars, NEW c \in ContainerIds, containers[c].state = "unused",
         Live(c)', containers'[c].managed, containers'[c].ref \in EnvRefs
  PROVE  \E p \in Procs : CreateContainer(p)
<1> USE DEF IType, TypeOK, DaemonTypeOK
<1>1. containers'[c] # containers[c]
  BY DEF Live
<1>2. ASSUME NEW d \in ContainerIds,
             ContainerStart(d) \/ ContainerStop(d) \/ ContainerRemove(d, TRUE)
      PROVE  FALSE
  BY <1>2 DEF ContainerStart, ContainerStop, ContainerRemove, NoContainer, Live
<1>3. ASSUME NEW d \in ContainerIds, ForeignContainer(d)
      PROVE  FALSE
  <2>1. PICK name \in ForeignNames \cap ContainerNames, r \in Refs \cup {None} :
          ContainerCreate(d, [NoContainer("running") EXCEPT !.name = name, !.ref = r])
    BY <1>3 DEF ForeignContainer
  <2>2. containers' = [containers EXCEPT ![d] =
                         [NoContainer("running") EXCEPT !.name = name, !.ref = r]]
    BY <2>1 DEF ContainerCreate
  <2>3. c = d
    BY <1>1, <2>2
  <2>. QED
    BY <2>2, <2>3 DEF NoContainer
<1>4. ASSUME WorldStep
      PROVE  FALSE
  <2>1. ASSUME NEW d \in ContainerIds, Exit(d) \/ ForeignRemoval(d) \/ Workbench(d)
        PROVE  FALSE
    BY <1>1, <1>2, <2>1 DEF Exit, ForeignRemoval, Workbench, daemon
  <2>2. ASSUME NEW n \in NetworkIds, ForeignNetwork(n)
        PROVE  FALSE
    BY <1>1, <2>2 DEF ForeignNetwork, NetworkCreate, NetworkRemove
  <2>. QED
    BY <1>3, <1>4, <2>1, <2>2 DEF WorldStep
<1>5. ASSUME NEW p \in Procs, CommandStep(p), ~CreateContainer(p)
      PROVE  FALSE
  <2>. Proper(cmds[p])
    BY DEF CommandsProper
  <2>1. CASE ComposeUp(p)
    <3>1. PICK d \in ContainerIds, name \in ComposeNames :
            \/ ContainerCreate(d,
                 [state |-> "running", name |-> name, managed |-> TRUE, ref |-> Req(p).ref,
                  label |-> cmds[p].label, mode |-> cmds[p].mode, mount |-> None])
            \/ ContainerStart(d)
      BY <2>1 DEF ComposeUp
    <3>2. Req(p).ref \notin EnvRefs
      BY <2>1, RefKinds DEF ComposeUp, At, Proper, Req
    <3> DEFINE spec == [state |-> "running", name |-> name, managed |-> TRUE,
                        ref |-> Req(p).ref, label |-> cmds[p].label,
                        mode |-> cmds[p].mode, mount |-> None]
    <3>3. ~ContainerStart(d)
      BY <1>2
    <3>4. containers' = [containers EXCEPT ![d] = spec]
      BY <3>1, <3>3 DEF ContainerCreate
    <3>5. c = d
      BY <1>1, <3>4
    <3>. QED
      BY <3>2, <3>4, <3>5
  <2>2. CASE ComposeDown(p) \/ Remove(p)
    BY <1>2, <2>2 DEF ComposeDown, Remove, ContainerRemove, At, Proper
  <2>3. CASE Start(p) \/ Stop(p)
    BY <1>2, <2>3 DEF Start, Stop, At, Proper
  <2>4. CASE containers' = containers
    BY <1>1, <2>4
  <2>5. CASE \/ Begin(p) \/ Return(p) \/ ReuseNetwork(p) \/ MissNetwork(p) \/ ReadNetwork(p)
             \/ CreateNetwork(p) \/ BuiltinProfile(p) \/ SegmentProfile(p) \/ VPNProfile(p)
             \/ SkipWorkspace(p) \/ ReuseWorkspace(p) \/ MissWorkspace(p) \/ MakeWorkspace(p)
             \/ InspectEnvironment(p) \/ FindNone(p) \/ InspectCreated(p)
             \/ FindToStart(p) \/ InspectStarted(p) \/ FindToStop(p) \/ FindToRm(p)
    BY <2>4, <2>5
       DEF daemon, Begin, Return, ReuseNetwork, MissNetwork, ReadNetwork, CreateNetwork,
           NetworkCreate, BuiltinProfile, SegmentProfile, VPNProfile, SkipWorkspace,
           ReuseWorkspace, MissWorkspace, MakeWorkspace, InspectEnvironment, FindNone,
           InspectCreated, FindToStart, InspectStarted, FindToStop, FindToRm, FindTo
  <2>. QED
    BY <1>5, <2>1, <2>2, <2>3, <2>5 DEF CommandStep
<1>. QED
  BY <1>1, <1>4, <1>5 DEF Next, engineVars

\* The other commands and the rest of the world take no managed network away.
LEMMA OnSegmentKept ==
  ASSUME IType, \A p \in Procs : OnSegment(cmds[p]), [Next]_engineVars
  PROVE  \A p \in Procs : OnSegment(cmds[p])'
<1> SUFFICES ASSUME NEW p \in Procs
             PROVE  OnSegment(cmds[p])'
  OBVIOUS
<1>1. CASE cmds'[p] = cmds[p]
  <2>1. \A name : OwnNetwork(name) => OwnNetwork(name)'
    BY ManagedKept
  <2>2. \A n \in NetworkIds : LiveNet(n) /\ networks[n].managed => networks'[n] = networks[n]
    BY ManagedStays
  <2>3. OnSegment(cmds[p])
    OBVIOUS
  <2>. QED
    BY <1>1, <2>1, <2>2, <2>3 DEF OnSegment, LiveNet
<1>2. CASE cmds'[p] # cmds[p]
  <2>1. PICK q \in Procs : CommandStep(q)
    BY <1>2 DEF Next, WorldStep, engineVars, Exit, ForeignContainer, ForeignRemoval,
                Workbench, ForeignNetwork
  <2>2. q = p
    BY <1>2, <2>1, OneTerminal DEF IType, TypeOK
  <2>. QED
    BY <2>1, <2>2, ArrivesOnSegment
<1>. QED
  BY <1>1, <1>2

\* A workbench is created on what its command has found, and stays on it.
LEMMA SegmentsKept == ISegments /\ [Next]_engineVars => SegmentsAreManaged'
<1> SUFFICES ASSUME ISegments, [Next]_engineVars, NEW c \in ContainerIds, Live(c)',
                    containers'[c].managed, containers'[c].ref \in EnvRefs,
                    containers'[c].mode \in NetworkNames
             PROVE  OwnNetwork(containers[c].mode)'
  BY DEF SegmentsAreManaged, OwnNetwork, Live
<1> USE DEF ISegments, IType, TypeOK
<1>1. \A name : OwnNetwork(name) => OwnNetwork(name)'
  BY ManagedKept
<1>2. UNCHANGED containers \/ ContainerStep
  BY NextContainers
<1>3. CASE containers[c].state # "unused"
  <2>1. Live(c) /\ containers[c].managed /\ containers[c].ref \in EnvRefs
        /\ containers'[c].mode = containers[c].mode
    BY <1>2, <1>3, ContainerLife
  <2>2. OwnNetwork(containers[c].mode)
    BY <2>1 DEF SegmentsAreManaged, OwnNetwork
  <2>. QED
    BY <1>1, <2>1, <2>2
<1>4. CASE containers[c].state = "unused"
  <2>1. PICK p \in Procs : CreateContainer(p)
    BY <1>4, NewWorkbench
  <2>2. containers'[c].mode = cmds[p].mode /\ containers'[c].ref = Req(p).ref
    BY <1>4, <2>1 DEF CreateContainer, ContainerCreate, NewContainer, DaemonTypeOK, Live
  <2>3. OwnNetwork(cmds[p].mode)
    BY <2>1, <2>2 DEF CreateContainer, At, OnSegment, Req
  <2>. QED
    BY <1>1, <2>2, <2>3
<1>. QED
  BY <1>3, <1>4

\* A workbench whose own network is a user-defined one is on a network that Contaigen
\* created: EnsureNetwork takes no network of another tool for its own, whoever
\* creates one while it is looking.
THEOREM ManagedSegments == Spec => []SegmentsAreManaged
<1>1. Init => ISegments
  <2>1. Init => SegmentsAreManaged /\ \A p \in Procs : OnSegment(cmds[p])
    BY DEF Init, DaemonInit, SegmentsAreManaged, OnSegment, NoContainer, Live, NoCommand
  <2>. QED
    BY <2>1, InitIType DEF ISegments
<1>2. ISegments /\ [Next]_engineVars => ISegments'
  <2>1. ISegments /\ [Next]_engineVars => \A p \in Procs : OnSegment(cmds[p])'
    BY OnSegmentKept DEF ISegments
  <2>. QED
    BY <2>1, SegmentsKept, NextIType DEF ISegments
<1>3. ISegments => SegmentsAreManaged
  BY DEF ISegments
<1>. QED
  BY <1>1, <1>2, <1>3, PTL DEF Spec

=============================================================================
