------------------------------ MODULE Requests ------------------------------
(***************************************************************************)
(* From what a user asks of env create to a container and to what env info *)
(* says of it.  A profile file is found, its fields are laid over the      *)
(* defaults and the flags over both; the engine fills in the rest, refuses *)
(* what does not fit, and decides the desktop's endpoint and password, the *)
(* network and the workspace mount; Docker is asked; env info reads it all *)
(* back from labels, ports and variables.  Beside it, another terminal may *)
(* replace the VPN gateway.  service add goes the same way from an image   *)
(* or a service template, with less to decide.                             *)
(*                                                                         *)
(* A request is a record; None stands for the empty string.                *)
(***************************************************************************)
EXTENDS Naturals, Sequences, SequencesExt

CONSTANTS
  None,            \* not given
  Text,            \* what may be given as a name, an address, a port, a value
  Generated,       \* generateDesktopPassword: nobody has given it
  Flags,           \* command lines of env create and service add
  PathLike,        \* names that look like a path, of either kind of template
  Libraries,       \* what template files there may be
  DerivedName,     \* the service name that an image leads to
  BadNames,        \* what may be given as a service name and is none
  GatewayRequests, \* ports that vpn create is asked to publish
  Addresses,       \* host addresses that parse
  MaxReplaced      \* how often the gateway is replaced

AnyAddress == "0.0.0.0"                     \* every address of the host

\* Defaults of model/environment.go; the others do not decide anything here.
DefaultImage == "parrot"
DesktopImage == "kasm"
DefaultMount == "/workspace"
DefaultKey   == "VNC_PW"
DefaultPort  == "6901"
Local        == "127.0.0.1"

Networks == {"bridge", "isolated", "host", "segment", "vpn"}

\* Fields by how a profile and a flag change them.
Straight == {"image", "hostname", "network", "wsName", "wsMount", "start"}
Desktop  == {"deskOn", "deskIP", "deskPort", "deskCPort", "password", "passwordEnv"}
Lists    == {"env", "ports", "volumes"}
Fields   == Straight \cup Desktop \cup Lists \cup {"networkName", "vpn", "noWs"}

ServiceFields == {"name", "alias", "image", "start", "command"} \cup Lists

Or(a, b) == IF a # None THEN a ELSE b

\* defaultCreateEnvironmentRequest.
DefaultRequest ==
  [image |-> DefaultImage, hostname |-> None, network |-> "bridge", networkName |-> None,
   vpn |-> None, wsName |-> None, wsMount |-> None, noWs |-> FALSE, start |-> TRUE,
   deskOn |-> FALSE, deskIP |-> None, deskPort |-> None, deskCPort |-> None,
   password |-> None, passwordEnv |-> None,
   env |-> <<>>, ports |-> <<>>, volumes |-> <<>>]

\* defaultCreateServiceRequest.
DefaultService ==
  [name |-> None, alias |-> None, image |-> None, start |-> TRUE, command |-> <<>>,
   env |-> <<>>, ports |-> <<>>, volumes |-> <<>>]

Given   == Text \cup {None}
Ports   == [ip : Given, host : Given, cont : Given, proto : {None, "tcp", "udp"}]
Volumes == [source : Given, target : Given]
Variables(made) == [key : Given, value : Given \cup made]

\* What a request says, a profile and a service template too: starts is what may be said
\* of starting, made is what nobody has given.
EnvSpec(starts, made) ==
  [image : Given, hostname : Given, network : Given, networkName : Given, vpn : Given,
   wsName : Given, wsMount : Given, noWs : BOOLEAN, start : starts, deskOn : BOOLEAN,
   deskIP : Given, deskPort : Given, deskCPort : Given, password : Given \cup made,
   passwordEnv : Given, env : Seq(Variables(made)), ports : Seq(Ports),
   volumes : Seq(Volumes)]
ServiceSpec(starts) ==
  [name : Given, alias : Given, image : Given, start : starts, command : Seq(Text),
   env : Seq(Variables({})), ports : Seq(Ports), volumes : Seq(Volumes)]

VARIABLES
  stage,           \* where the command is
  flags,           \* the command line: template, env files, given flags, their values
  library,         \* template files
  profile,         \* the profile or service template that was loaded
  req,             \* the request as it is so far
  gateway,         \* the ports that the gateway corp publishes, or None
  checked,         \* history: the gateway that env create has seen
  replaced,        \* how often the gateway was replaced
  container,       \* the workbench, once created
  shown            \* what env info says of it

vars == <<stage, flags, library, profile, req, gateway, checked, replaced, container, shown>>
outside == <<flags, library, gateway, checked, replaced, container, shown>>

At(s) == stage = s
Refuse ==
  /\ stage' = "refused"
  /\ UNCHANGED <<profile, req, outside>>

Port(ip, host, cont, proto) == [ip |-> ip, host |-> host, cont |-> cont, proto |-> proto]

IsTCP(p) == p.proto \in {None, "tcp"}

FirstOf(is) == CHOOSE i \in is : \A j \in is : i <= j

-----------------------------------------------------------------------------
(* templates: the profile or the service template. *)

Kind == IF flags.command = "env" THEN "profile" ELSE "service"

\* The name or path of the command line, as a file; one that is no template counts
\* only if the name looks like a path.
FileAt(ref) ==
  LET d == library.files[ref]
  IN IF d = None \/ ~d.ok \/ d.kind # Kind THEN None ELSE d

\* Of the user's files, those of the other kind are passed over; one whose kind cannot be
\* read is not.
Templates      == library.user[Kind]
UserFiles      == {i \in DOMAIN Templates : Templates[i].kind \in {Kind, None}}
OfUser(ref)    == {i \in UserFiles : Templates[i].name = ref}
OfBuiltin(ref) == {d \in library.builtin : d.kind = Kind /\ d.name = ref}

\* Fault: what is built in comes first.
BuiltinFirst(ref) ==
  IF OfBuiltin(ref) # {} \/ OfUser(ref) = {} THEN OfBuiltin(ref)
  ELSE {Templates[FirstOf(OfUser(ref))]}

\* The first template of that name among the user's files, then the built-in one.
Named(ref) ==
  IF OfUser(ref) # {} THEN {Templates[FirstOf(OfUser(ref))]} ELSE OfBuiltin(ref)

\* One that does not parse fails every lookup among the user's templates.
UserFilesParse == \A i \in UserFiles : Templates[i].ok

\* Fault: broken files are passed over.
LooksUpAnyway(ref) == FileAt(ref) = None /\ ref \notin PathLike[Kind]

\* A name is looked up unless it is a file, or should have been one.
LooksUp(ref) == FileAt(ref) = None /\ ref \notin PathLike[Kind] /\ UserFilesParse

Found(ref) == IF FileAt(ref) # None THEN {FileAt(ref)}
              ELSE IF LooksUp(ref) THEN Named(ref) ELSE {}

\* parseEnvFiles, before anything else: one that cannot be read or has a line that is
\* no KEY=VALUE refuses the command.  What --env gives comes after what files give.
EnvFilesParse == \A i \in DOMAIN flags.envFiles : flags.envFiles[i].ok
EnvOf(files) == FlattenSeq([i \in DOMAIN files |-> files[i].env])
FilesEnv     == EnvOf(flags.envFiles)

\* Fault: files are read last.
GivenFilesLast == flags.values.env \o FilesEnv

GivenEnv == FilesEnv \o flags.values.env

\* parseProfile: what a profile leaves open.
Parsed(spec) ==
  [spec EXCEPT
    !.network = Or(@, "bridge"),
    !.wsMount = Or(@, DefaultMount),
    !.deskIP    = IF spec.deskOn THEN Or(@, Local) ELSE @,
    !.deskPort  = IF spec.deskOn THEN Or(@, DefaultPort) ELSE @,
    !.deskCPort = IF spec.deskOn THEN Or(@, DefaultPort) ELSE @,
    !.passwordEnv = IF spec.deskOn THEN Or(@, DefaultKey) ELSE @]

\* ApplyProfile: what is set in the profile; the desktop as a whole if it is enabled.
Applied(p, r) ==
  [x \in Fields |->
     CASE x \in Straight -> Or(p[x], r[x])
       [] x \in Desktop  -> IF p.deskOn THEN p[x] ELSE r[x]
       [] x \in Lists    -> r[x] \o p[x]
       [] x = "vpn"      -> IF p.network = "vpn" THEN Or(p.networkName, r.vpn) ELSE r.vpn
       [] x = "networkName" -> IF p.network = "vpn" THEN r[x] ELSE Or(p[x], r[x])
       [] x = "noWs"     -> p.noWs \/ r.noWs]

SkipProfile ==
  /\ At("profile")
  /\ EnvFilesParse
  /\ flags.profile = None
  /\ stage' = "override"
  /\ UNCHANGED <<profile, req, outside>>

LoadProfile ==
  /\ At("profile")
  /\ EnvFilesParse
  /\ flags.profile # None
  /\ \E d \in Found(flags.profile) :
       /\ profile' = d
       /\ req' = Applied(Parsed(d.spec), req)
  /\ stage' = "override"
  /\ UNCHANGED outside

ProfileRefused ==
  /\ At("profile")
  /\ ~EnvFilesParse \/ (flags.profile # None /\ Found(flags.profile) = {})
  /\ Refuse

\* parseServiceTemplate: its own name where it says nothing else.
ParsedService(d) == [d.spec EXCEPT !.name = Or(@, d.name), !.alias = Or(@, d.name)]

\* ApplyServiceTemplate.
AppliedService(p, r) ==
  [x \in ServiceFields |->
     IF x \in Lists \cup {"command"} THEN r[x] \o p[x] ELSE Or(p[x], r[x])]

LoadService ==
  /\ At("template")
  /\ EnvFilesParse
  /\ flags.profile # None
  /\ \E d \in Found(flags.profile) :
       /\ profile' = d
       /\ req' = AppliedService(ParsedService(d), req)
  /\ stage' = "serviceoverride"
  /\ UNCHANGED outside

\* ErrServiceTemplateNotFound, and no other error, makes the name an image.
ServiceFromImage ==
  /\ At("template")
  /\ EnvFilesParse
  /\ flags.profile # None
  /\ LooksUp(flags.profile) /\ Named(flags.profile) = {}
  /\ req' = [req EXCEPT !.image = flags.profile]
  /\ stage' = "serviceoverride"
  /\ UNCHANGED <<profile, outside>>

TemplateRefused ==
  /\ At("template")
  /\ \/ ~EnvFilesParse \/ flags.profile = None
     \/ flags.profile # None /\ FileAt(flags.profile) = None /\ ~LooksUp(flags.profile)
  /\ Refuse

-----------------------------------------------------------------------------
(* cli: the flags. *)

\* Fault: lists of the profile come after those of the flags.
OverriddenBefore(r) ==
  [x \in Fields |->
     IF x = "env" THEN GivenEnv \o r.env
     ELSE IF x \in Lists THEN flags.values[x] \o r[x]
     ELSE IF x \in flags.given THEN flags.values[x] ELSE r[x]]

\* applyEnvCreateFlagOverrides: given flags replace, lists are appended.  --vpn alone
\* chooses the network, whatever name it had; any desktop flag enables the desktop.
Overridden(r) ==
  LET vpnAlone == "vpn" \in flags.given /\ "network" \notin flags.given
  IN [x \in Fields |->
        CASE x = "env"   -> r.env \o GivenEnv
          [] x \in Lists \ {"env"} -> r[x] \o flags.values[x]
          [] x = "network" /\ vpnAlone -> "vpn"
          [] x = "networkName" /\ vpnAlone -> None
          [] x = "deskOn" /\ x \notin flags.given ->
               r.deskOn \/ flags.given \cap {"deskIP", "deskPort", "password"} # {}
          [] OTHER -> IF x \in flags.given THEN flags.values[x] ELSE r[x]]

Override ==
  /\ At("override")
  /\ req' = Overridden(req)
  /\ stage' = "engine"
  /\ UNCHANGED <<profile, outside>>

\* Fault: arguments after -- are added to the template's command.
ServiceCommandAdded(r) == [r EXCEPT !.command = @ \o flags.values.command]

ServiceCommand(r) ==
  [r EXCEPT !.command = IF flags.values.command # <<>> THEN flags.values.command ELSE @]

\* applyServiceAddFlagOverrides: the name of the template, of the flag or of the image,
\* and the alias if there is none.
OverriddenService(r) ==
  LET v == [x \in ServiceFields |->
              CASE x = "env"   -> r.env \o GivenEnv
                [] x \in Lists \ {"env"} -> r[x] \o flags.values[x]
                [] OTHER -> IF x \in flags.given THEN flags.values[x] ELSE r[x]]
      name == IF v.name # None THEN v.name ELSE DerivedName[v.image]
  IN [ServiceCommand(v) EXCEPT !.name = name, !.alias = Or(@, name)]

OverrideService ==
  /\ At("serviceoverride")
  /\ req' = OverriddenService(req)
  /\ stage' = "serviceengine"
  /\ UNCHANGED <<profile, outside>>

-----------------------------------------------------------------------------
(* engine: the request for the container. *)

Normalized(r) ==
  [r EXCEPT !.image = Or(@, DefaultImage), !.hostname = Or(@, "lab"),
            !.network = Or(@, "bridge"), !.wsMount = Or(@, DefaultMount)]

ListsValid(r) ==
  /\ \A i \in DOMAIN r.ports : r.ports[i].host # None /\ r.ports[i].cont # None
  /\ \A i \in DOMAIN r.volumes : r.volumes[i].source # None /\ r.volumes[i].target # None

\* Fault: the network is taken as it is.
ValidOnAnyNetwork(r) ==
  /\ (r.network = "vpn") <=> (r.vpn # None)
  /\ ListsValid(r)

\* validateCreateRequest: a gateway with the vpn network and with no other.
Valid(r) ==
  /\ r.network \in Networks
  /\ (r.network = "vpn") <=> (r.vpn # None)
  /\ ListsValid(r)

Validate ==
  /\ At("engine")
  /\ IF Valid(Normalized(req))
     THEN /\ req' = Normalized(req)
          /\ stage' = "desktop"
          /\ UNCHANGED <<profile, outside>>
     ELSE Refuse

\* validateCreateServiceRequest.
ValidateService ==
  /\ At("serviceengine")
  /\ IF req.name \notin BadNames /\ req.image # None /\ ListsValid(req)
     THEN stage' = "servicedocker" /\ UNCHANGED <<profile, req, outside>>
     ELSE Refuse

\* envValue and upsertEnv: the first entry of a key.
Entries(env, key) == {i \in DOMAIN env : env[i].key = key}
EnvValue(env, key) == IF Entries(env, key) = {} THEN None
                      ELSE env[FirstOf(Entries(env, key))].value
UpsertEnv(env, key, value) ==
  IF Entries(env, key) = {} THEN Append(env, [key |-> key, value |-> value])
  ELSE [env EXCEPT ![FirstOf(Entries(env, key))].value = value]

\* Fault: a udp port counts as well.
WithAnyPort(r) ==
  LET is == {i \in DOMAIN r.ports : r.ports[i].cont = r.deskCPort}
      p  == r.ports[FirstOf(is)]
  IN IF is = {}
     THEN [r EXCEPT !.ports = Append(@, Port(r.deskIP, r.deskPort, r.deskCPort, "tcp"))]
     ELSE [r EXCEPT !.deskIP = Or(p.ip, @), !.deskPort = Or(p.host, @)]

\* applyDesktopPort: the first port that reaches the desktop is its endpoint; if
\* there is none it is published.
WithDesktopPort(r) ==
  LET is == {i \in DOMAIN r.ports : r.ports[i].cont = r.deskCPort /\ IsTCP(r.ports[i])}
      p  == r.ports[FirstOf(is)]
  IN IF is = {}
     THEN [r EXCEPT !.ports = Append(@, Port(r.deskIP, r.deskPort, r.deskCPort, "tcp"))]
     ELSE [r EXCEPT !.deskIP = Or(p.ip, @), !.deskPort = Or(p.host, @)]

\* Fault: --desktop-password is for the command's output only.
WithEnvPassword(r) ==
  LET key == Or(r.passwordEnv, DefaultKey)
      password == Or(EnvValue(r.env, key), Or(r.password, Generated))
  IN [r EXCEPT !.passwordEnv = key, !.password = password,
               !.env = UpsertEnv(@, key, password)]

\* The password that was asked for, or the one in the environment, or a new one.
WithPassword(r) ==
  LET key == Or(r.passwordEnv, DefaultKey)
      password == Or(r.password, Or(EnvValue(r.env, key), Generated))
  IN [r EXCEPT !.passwordEnv = key, !.password = password,
               !.env = UpsertEnv(@, key, password)]

\* applyDesktop: endpoint, image and password; in a gateway's network the gateway has
\* the ports.
DesktopOf(r) ==
  LET d == WithPassword(
             [r EXCEPT !.deskIP = Or(@, Local), !.deskPort = Or(@, DefaultPort),
                       !.deskCPort = Or(@, DefaultPort),
                       !.image = IF @ = DefaultImage THEN DesktopImage ELSE @])
  IN IF r.network = "vpn" THEN d ELSE WithDesktopPort(d)

ApplyDesktop ==
  /\ At("desktop")
  /\ req' = IF req.deskOn THEN DesktopOf(req) ELSE req
  /\ stage' = "network"
  /\ UNCHANGED <<profile, outside>>

\* Fault: the gateway's port is found whatever address it is bound to.
HasPortAnywhere(ports, ip, host, cont) ==
  \E i \in DOMAIN ports : IsTCP(ports[i]) /\ ports[i].host = host /\ ports[i].cont = cont

\* model.HasPublishedPort.
HasPublishedPort(ports, ip, host, cont) ==
  \E i \in DOMAIN ports :
    /\ IsTCP(ports[i])
    /\ ports[i].host = host /\ ports[i].cont = cont
    /\ ip = None \/ ports[i].ip \in {None, AnyAddress, ip}

\* applyNetworkProfile, without a gateway: what Docker is told; a segment has a name.
PlainNetwork ==
  /\ At("network")
  /\ req.network # "vpn"
  /\ req' = [req EXCEPT !.networkName =
               IF req.network = "segment" THEN Or(@, "contaigen-lab") ELSE @]
  /\ stage' = "workspace"
  /\ UNCHANGED <<profile, outside>>

\* Fault: the hostname is kept.
GatewayNetworkOf(r) == [r EXCEPT !.networkName = r.vpn]

\* Ports, hostname and network belong to the gateway.
VPNNetworkOf(r) == [r EXCEPT !.networkName = r.vpn, !.hostname = None]

VPNNetwork ==
  /\ At("network")
  /\ req.network = "vpn"
  /\ IF /\ req.vpn = "corp" /\ gateway # None
        /\ req.deskOn => HasPublishedPort(gateway, req.deskIP, req.deskPort, req.deskCPort)
        /\ req.ports = <<>>
     THEN /\ req' = VPNNetworkOf(req)
          /\ checked' = gateway
          /\ stage' = "workspace"
          /\ UNCHANGED <<profile, flags, library, gateway, replaced, container, shown>>
     ELSE Refuse

\* Fault: an explicit volume may take the place of the workspace.
FreeTargets == TRUE

\* Nothing else is mounted where the workspace goes.
FreeTarget == \A i \in DOMAIN req.volumes : req.volumes[i].target # req.wsMount

\* attachWorkspace: the workspace is mounted first.
AttachWorkspace ==
  /\ At("workspace")
  /\ IF req.noWs THEN req' = req /\ stage' = "docker" /\ UNCHANGED <<profile, outside>>
     ELSE IF FreeTarget
     THEN /\ req' = [req EXCEPT
               !.wsName  = Or(@, "lab"),
               !.volumes = <<[source |-> "workspace", target |-> req.wsMount]>> \o @]
          /\ stage' = "docker"
          /\ UNCHANGED <<profile, outside>>
     ELSE Refuse

-----------------------------------------------------------------------------
(* dockerx: the container, and what is read back from it. *)

\* A request that Docker itself takes: mount targets differ, and who shares a
\* network namespace has neither ports nor a hostname.
MountsApart(r) ==
  \A i, j \in DOMAIN r.volumes : r.volumes[i].target = r.volumes[j].target => i = j
DockerTakes(r) ==
  /\ MountsApart(r)
  /\ r.network = "vpn" => r.ports = <<>> /\ r.hostname = None /\ gateway # None

\* dockerPorts: tcp where nothing is said; a host address has to be one.
DockerPorts(ports) == [i \in DOMAIN ports |-> [ports[i] EXCEPT !.proto = Or(@, "tcp")]]
PortsParse(ports)  == \A i \in DOMAIN ports : ports[i].ip \in Addresses \cup {None}

CreateContainer ==
  /\ At("docker")
  /\ IF PortsParse(req.ports) /\ DockerTakes(req)
     THEN /\ container' = [req EXCEPT !.ports = DockerPorts(@)]
          /\ stage' = "created"
          /\ UNCHANGED <<flags, library, profile, req, gateway, checked, replaced, shown>>
     ELSE Refuse

\* The container of a service; which network it goes to is a matter of Commands.
CreateService ==
  /\ At("servicedocker")
  /\ IF PortsParse(req.ports) /\ MountsApart(req)
     THEN /\ container' = [req EXCEPT !.ports = DockerPorts(@)]
          /\ stage' = "served"
          /\ UNCHANGED <<flags, library, profile, req, gateway, checked, replaced, shown>>
     ELSE Refuse

\* desktopFromLabels: the labels, then the first binding of the desktop's container
\* port in the order in which Go visits a map of ports, whatever the protocol.
EndpointsRead ==
  LET of(proto) == {i \in DOMAIN container.ports :
                      /\ container.ports[i].cont = container.deskCPort
                      /\ container.ports[i].proto = proto}
      firsts == {container.ports[FirstOf(of(proto))] :
                   proto \in {q \in {"tcp", "udp"} : of(q) # {}}}
  IN IF firsts = {} THEN {<<container.deskIP, container.deskPort>>}
     ELSE {<<Or(p.ip, container.deskIP), Or(p.host, container.deskPort)>> : p \in firsts}

InspectEnvironment ==
  /\ At("created")
  /\ \E e \in IF container.deskOn THEN EndpointsRead ELSE {<<None, None>>} :
       shown' = [deskOn |-> container.deskOn, ip |-> e[1], port |-> e[2],
                 password |-> IF container.deskOn
                              THEN EnvValue(container.env, container.passwordEnv) ELSE None]
  /\ UNCHANGED <<stage, flags, library, profile, req, gateway, checked, replaced, container>>

-----------------------------------------------------------------------------
(* cli: vpn create, for its ports. *)

\* parseNoVNCPort: a port alone stands for itself on the loopback address.
NoVNCPort(v) == IF v.host = None THEN Port(Local, v.cont, v.cont, "tcp")
                ELSE Port(Or(v.ip, Local), v.host, v.cont, "tcp")

\* appendNoVNCPorts: those of --vnc that no port before them stands for.
GatewayPorts(r) ==
  LET ports[i \in 0..Len(r.vnc)] ==
        IF i = 0 THEN r.ports
        ELSE LET p == NoVNCPort(r.vnc[i])
             IN IF HasPublishedPort(ports[i - 1], p.ip, p.host, p.cont) THEN ports[i - 1]
                ELSE Append(ports[i - 1], p)
  IN ports[Len(r.vnc)]

\* vpn rm, vpn create.
ReplaceGateway ==
  /\ replaced < MaxReplaced
  /\ replaced' = replaced + 1
  /\ gateway' \in {DockerPorts(GatewayPorts(r)) : r \in GatewayRequests} \cup {None}
  /\ UNCHANGED <<stage, flags, library, profile, req, checked, container, shown>>

-----------------------------------------------------------------------------
(* What the command line, the files and the ports may be. *)

ASSUME TextType ==
  /\ {AnyAddress, DefaultImage, DesktopImage, DefaultMount, DefaultKey, DefaultPort, Local,
      "lab", "contaigen-lab", "workspace"} \cup Networks \subseteq Text
  /\ None \notin Text \cup {"tcp", "udp", "profile", "service"} /\ Generated \notin Given

ASSUME FlagsType ==
  \A f \in Flags :
    /\ f.command \in {"env", "service"}
    /\ f.profile \in Given
    /\ f.envFiles \in Seq([ok : BOOLEAN, env : Seq(Variables({}))])
    /\ f.command = "env" =>
         f.given \subseteq Fields /\ f.values \in EnvSpec(BOOLEAN, {})
    /\ f.command = "service" =>
         f.given \subseteq ServiceFields /\ f.values \in ServiceSpec(BOOLEAN)

\* A template that parses says what its kind can say, and names an image.
IsTemplate(d) ==
  /\ d # None
  /\ d.ok \in BOOLEAN
  /\ d.ok => /\ d.name \in Text
             /\ d.spec.image # None
             /\ \/ d.kind = "profile" /\ d.spec \in EnvSpec(BOOLEAN \cup {None}, {})
                \/ d.kind = "service" /\ d.spec \in ServiceSpec(BOOLEAN \cup {None})

\* What is built in parses, and is told from a file (Source).
ASSUME LibrariesType ==
  \A l \in Libraries :
    /\ DOMAIN l.files = Text /\ \A ref \in Text : l.files[ref] = None \/ IsTemplate(l.files[ref])
    /\ \A kind \in {"profile", "service"} :
         /\ DOMAIN l.user[kind] \subseteq Nat
         /\ \A i \in DOMAIN l.user[kind] :
              IsTemplate(l.user[kind][i]) /\ l.user[kind][i] \notin l.builtin
    /\ \A ref \in Text : l.files[ref] \notin l.builtin
    /\ \A d \in l.builtin : IsTemplate(d) /\ d.ok

\* deriveServiceName always finds a name, if perhaps one that is too long.
ASSUME DerivedType == DerivedName \in [Given -> Text]

ASSUME GatewayType ==
  \A r \in GatewayRequests :
    r.ports \in Seq(Ports) /\ r.vnc \in Seq([ip : Given, host : Given, cont : Given])

ASSUME MaxReplacedType == MaxReplaced \in Nat

-----------------------------------------------------------------------------

Init ==
  /\ flags \in Flags
  /\ stage = IF flags.command = "env" THEN "profile" ELSE "template"
  /\ library \in Libraries
  /\ profile = None
  /\ req = IF flags.command = "env" THEN DefaultRequest ELSE DefaultService
  /\ gateway \in {DockerPorts(GatewayPorts(r)) : r \in GatewayRequests} \cup {None}
  /\ checked = None
  /\ replaced = 0
  /\ container = None
  /\ shown = None

Next ==
  \/ SkipProfile \/ LoadProfile \/ ProfileRefused \/ Override \/ Validate
  \/ ApplyDesktop \/ PlainNetwork \/ VPNNetwork \/ AttachWorkspace
  \/ CreateContainer \/ InspectEnvironment \/ ReplaceGateway
  \/ LoadService \/ ServiceFromImage \/ TemplateRefused \/ OverrideService
  \/ ValidateService \/ CreateService

Spec == Init /\ [][Next]_vars

-----------------------------------------------------------------------------
(* What env create promises. *)

\* The request holds values of their kinds at every stage.
TypeOK ==
  /\ stage \in {"profile", "override", "engine", "desktop", "network", "workspace",
                "docker", "created", "refused", "template", "serviceoverride",
                "serviceengine", "servicedocker", "served"}
  /\ flags.command = "env" =>
       /\ req \in EnvSpec(BOOLEAN, {Generated})
       /\ req.network \in Networks \/ stage \in {"override", "engine", "refused"}
  /\ flags.command = "service" => req \in ServiceSpec(BOOLEAN)
  /\ gateway # None => gateway \in Seq(Ports)
  /\ replaced \in 0..MaxReplaced

\* What a process finds in its environment: the last entry of a key.
InEffect(env, key) ==
  LET is == Entries(env, key) IN env[CHOOSE i \in is : \A j \in is : j <= i].value

\* A port of ports that lets the endpoint on the screen through to the desktop.
LetsThrough(ports) ==
  \E i \in DOMAIN ports :
    /\ ports[i].proto = "tcp"
    /\ ports[i].host = shown.port /\ ports[i].cont = container.deskCPort
    /\ ports[i].ip \in {None, AnyAddress, shown.ip}

\* The endpoint that env create and env info print is published, by the workbench or
\* by the gateway whose network it shares, wherever a profile, a flag, an explicit
\* port or a default may have moved it: as long as the gateway is the one that was
\* looked at, and no udp port of the same number is published (those may be read
\* back first, dockerx/client.go:746).
EndpointIsPublished ==
  /\ shown # None
  /\ shown.deskOn
  /\ \A i \in DOMAIN container.ports :
       container.ports[i].cont = container.deskCPort => container.ports[i].proto = "tcp"
  => /\ container.network \in {"bridge", "segment"} => LetsThrough(container.ports)
     /\ container.network = "vpn" /\ gateway = checked => LetsThrough(gateway)

\* "passwordEnv controls the noVNC login password" (docs/templates.md:146): the
\* password on the screen is the one the desktop has, one given by
\* --desktop-password wins, and a new one is made only if --env gave none: unless the
\* variable is given twice, when the first entry is shown and the last counts.
PasswordWorks ==
  /\ shown # None
  /\ shown.deskOn
  /\ \E i \in DOMAIN container.env : Entries(container.env, container.passwordEnv) = {i}
  => /\ shown.password = InEffect(container.env, container.passwordEnv)
     /\ "password" \in flags.given /\ flags.values.password # None
          => shown.password = flags.values.password
     /\ shown.password = Generated =>
          \A i \in Entries(GivenEnv, container.passwordEnv) : GivenEnv[i].value = None

\* What passes validation is what Docker takes, but for two explicit volumes on one
\* target and a gateway that is replaced meanwhile: by then the network and the
\* workspace have been made, and a refusal leaves them behind (engine.go:97).  Nothing
\* is said here of a host address that is none: it passes validation, too, and only
\* dockerPorts refuses it (client.go:556, PortsParse).
AskedAsDockerTakes ==
  /\ At("docker")
  /\ req.network = "vpn" => gateway = checked
  /\ \A i, j \in DOMAIN req.volumes :
       (~req.noWs /\ 1 \in {i, j}) \/ (req.volumes[i].target = req.volumes[j].target => i = j)
  => DockerTakes(req)

\* --env counts before --env-file, and both before a template, but for one key.
VariablesWin(but) ==
  \A given \in {GivenEnv, flags.values.env} : \A i \in DOMAIN given :
    \/ given[i].key = but
    \/ InEffect(container.env, given[i].key) = InEffect(given, given[i].key)

\* The ports that a template p and the command line f ask for, in the order in which they
\* are looked through.
PortsAsked(f, p) == (IF p = None THEN <<>> ELSE p.spec.ports) \o f.values.ports

\* Those that let a desktop through.
ReachingPorts(ports, cont) ==
  {ports[i] : i \in {j \in DOMAIN ports : ports[j].cont = cont /\ IsTCP(ports[j])}}

EnvFlagsWin ==
  LET Set(x) == x \in flags.given /\ flags.values[x] # None
      v      == flags.values
      moving == ReachingPorts(PortsAsked(flags, profile), container.deskCPort)
  IN /\ Set("network") => container.network = v.network
     /\ Set("vpn") => container.network = "vpn" /\ container.vpn = v.vpn
     /\ Set("networkName") /\ container.network # "vpn"
          => container.networkName = v.networkName
     /\ Set("hostname")
          => container.hostname = IF container.network = "vpn" THEN None ELSE v.hostname
     /\ Set("image") => \/ container.image = v.image
                        \/ container.deskOn /\ v.image = DefaultImage
     /\ \A x \in {"deskOn", "noWs", "start"} : Set(x) => container[x] = v[x]
     /\ Set("wsName") /\ ~container.noWs => container.wsName = v.wsName
     /\ Set("wsMount") /\ ~container.noWs
          => container.volumes[1] = [source |-> "workspace", target |-> v.wsMount]
     /\ Set("deskIP") /\ container.deskOn
          => container.deskIP \in {v.deskIP} \cup {p.ip : p \in moving}
     /\ Set("deskPort") /\ container.deskOn
          => container.deskPort \in {v.deskPort} \cup {p.host : p \in moving}
     /\ VariablesWin(IF container.deskOn THEN container.passwordEnv ELSE None)

ServiceFlagsWin ==
  LET v == flags.values
  IN /\ \A x \in {"name", "alias"} :
          x \in flags.given /\ v[x] # None => container[x] = v[x]
     /\ "start" \in flags.given => container.start = v.start
     /\ v.command # <<>> => container.command = v.command
     /\ VariablesWin(None)

\* "explicitly supplied flags win" (cli/env.go:189, docs/templates.md:88), in the
\* container and not only in the request, where they do: network and gateway, the name
\* of the network, hostname, image, workspace, start, desktop, and each variable, --env
\* before --env-file; of a service name, alias, start, command and variables.  They do
\* not win everywhere, and the exceptions are part of the property.  --desktop-host and
\* --desktop-port lose to a tcp port of the template or of --port that reaches the
\* desktop, which becomes its endpoint (engine.go:810): only such a port moves it, and
\* only to where it is.  On the vpn network hostname and network name are the gateway's.
\* A default image is exchanged for a desktop's; the password is PasswordWorks' matter.
FlagsWin ==
  /\ At("created") => EnvFlagsWin
  /\ At("served")  => ServiceFlagsWin

\* "User templates shadow built-ins with the same metadata.name"
\* (docs/templates.md:41): a built-in template is used only where the user has none
\* of that name, and no broken file that may have been meant to be one.  And service
\* add pulls an image only of a name that is no template's, be it a broken one.
UserTemplatesShadow ==
  LET Mine == {i \in UserFiles : Templates[i].name = flags.profile \/ ~Templates[i].ok}
  IN /\ profile # None /\ profile \in library.builtin => Mine = {}
     /\ /\ profile = None
        /\ stage \in {"serviceoverride", "serviceengine", "servicedocker", "served"}
        => Mine = {} /\ OfBuiltin(flags.profile) = {}

=============================================================================
