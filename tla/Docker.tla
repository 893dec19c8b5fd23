------------------------------- MODULE Docker -------------------------------
(***************************************************************************)
(* The Docker daemon as the code in src/internal/dockerx uses it: the only *)
(* database Contaigen has.  Every operator below is one API call, which    *)
(* the daemon performs atomically.  A call that the daemon refuses is a    *)
(* guard that does not hold; the caller then takes its error path.         *)
(*                                                                         *)
(* A container or a network has an ID that is never given twice, and a     *)
(* name that no other live object of its kind has.  Labels are kept to     *)
(* those the code looks a container up by (managed and ref) or decides     *)
(* from (the network-name label, the workspace and its mount).             *)
(***************************************************************************)
EXTENDS Labels

CONSTANTS
  ContainerIds,    \* IDs the daemon may hand out: a bound on creations
  NetworkIds       \* IDs of user-defined networks: a bound on creations

VARIABLES
  containers,      \* what the daemon holds under each container ID
  networks         \* what it holds under each network ID

daemon == <<containers, networks>>

Container ==
  [state   : {"unused", "stopped", "running", "gone"},
   name    : ContainerNames \cup {None},
   managed : BOOLEAN,
   ref     : Refs \cup {None},
   label   : NamedModes \cup {None},
   mode    : Modes \cup {None},
   mount   : Workspace \cup {None}]

Network ==
  [state   : {"unused", "live", "gone"},
   name    : NetworkNames \cup {None},
   managed : BOOLEAN]

NoContainer(s) ==
  [state |-> s, name |-> None, managed |-> FALSE, ref |-> None,
   label |-> None, mode |-> None, mount |-> None]

NoNetwork(s) == [state |-> s, name |-> None, managed |-> FALSE]

DaemonTypeOK ==
  /\ containers \in [ContainerIds -> Container]
  /\ networks \in [NetworkIds -> Network]

DaemonInit ==
  /\ containers = [c \in ContainerIds |-> NoContainer("unused")]
  /\ networks = [n \in NetworkIds |-> NoNetwork("unused")]

-----------------------------------------------------------------------------
(* Reads. *)

Live(c)    == containers[c].state \in {"stopped", "running"}
Running(c) == containers[c].state = "running"
LiveNet(n) == networks[n].state = "live"

\* A container created without a name gets one the daemon generates, so only a
\* given name can be taken.
NameTaken(name) ==
  name # None /\ \E c \in ContainerIds : Live(c) /\ containers[c].name = name

\* ContainerList filtered by the managed label and the labels of a ref.
Labelled(r) ==
  {c \in ContainerIds : Live(c) /\ containers[c].managed /\ containers[c].ref = r}

\* NetworkInspect by name.
NetworksNamed(name) ==
  {n \in NetworkIds : LiveNet(n) /\ networks[n].name = name}

\* A container can start when the user-defined network it names exists, or the
\* container whose namespace it shares is running.
CanJoin(mode) ==
  /\ mode \in NamedModes => NetworksNamed(mode) # {}
  /\ mode \in ContainerNames =>
       \E c \in ContainerIds : Running(c) /\ containers[c].name = mode

-----------------------------------------------------------------------------
(* Calls that change the daemon's state. *)

ContainerCreate(c, spec) ==
  /\ containers[c].state = "unused"
  /\ ~NameTaken(spec.name)
  /\ containers' = [containers EXCEPT ![c] = spec]
  /\ UNCHANGED networks

\* Starting a running container and stopping a stopped one succeed and change
\* nothing.
ContainerStart(c) ==
  /\ Live(c)
  /\ CanJoin(containers[c].mode)
  /\ containers' = [containers EXCEPT ![c].state = "running"]
  /\ UNCHANGED networks

ContainerStop(c) ==
  /\ Live(c)
  /\ containers' = [containers EXCEPT ![c].state = "stopped"]
  /\ UNCHANGED networks

\* A running container is removed only by force.
ContainerRemove(c, force) ==
  /\ Live(c)
  /\ Running(c) => force
  /\ containers' = [containers EXCEPT ![c] = NoContainer("gone")]
  /\ UNCHANGED networks

NetworkCreate(n, name, managed) ==
  /\ networks[n].state = "unused"
  /\ NetworksNamed(name) = {}
  /\ networks' = [networks EXCEPT
                    ![n] = [state |-> "live", name |-> name, managed |-> managed]]
  /\ UNCHANGED containers

\* A network with a running container on it is not removed.
CanRemoveNetwork(n) ==
  /\ LiveNet(n)
  /\ \A c \in ContainerIds : Running(c) => containers[c].mode # networks[n].name

NetworkRemove(n) ==
  /\ CanRemoveNetwork(n)
  /\ networks' = [networks EXCEPT ![n] = NoNetwork("gone")]
  /\ UNCHANGED containers

=============================================================================
