------------------------------- MODULE Labels -------------------------------
(***************************************************************************)
(* The names Contaigen works with and the labels it writes on what it      *)
(* creates.  A ref is the part of a container's labels by which it is      *)
(* looked up: kind, environment, and service or gateway name.              *)
(***************************************************************************)
CONSTANTS
  Environments,    \* names of environments (workbenches)
  Services,        \* names of services
  Gateways,        \* names of VPN gateways
  ContainerNames,  \* names of Docker containers
  NetworkNames,    \* names of user-defined Docker networks
  WorkspaceNames,  \* names of workspaces
  Paths,           \* host directories that can hold a workspace
  None             \* "no value"

EnvRef(e)        == [kind |-> "workbench", env |-> e, name |-> None]
ServiceRef(e, s) == [kind |-> "service", env |-> e, name |-> s]
VPNRef(v)        == [kind |-> "vpn", env |-> None, name |-> v]

EnvRefs     == {EnvRef(e) : e \in Environments}
ServiceRefs == {ServiceRef(e, s) : e \in Environments, s \in Services}
VPNRefs     == {VPNRef(v) : v \in Gateways}
Refs        == EnvRefs \cup ServiceRefs \cup VPNRefs

\* A workspace as a plan or a container label names it.
Workspace == [name : WorkspaceNames, path : Paths]

\* What HostConfig.NetworkMode can say.  The name of a container stands for
\* "container:<name>", the network namespace of that container; any other name is
\* that of a user-defined network, which need not exist: the code may even put a
\* gateway's name there.
BuiltinModes == {"bridge", "host", "none"}
NamedModes   == NetworkNames \cup Gateways
Modes        == BuiltinModes \cup NamedModes \cup ContainerNames

\* Constants are given as sets of distinct kinds of values.
ASSUME NamesAreApart ==
  /\ None \notin Environments \cup Services \cup Gateways \cup ContainerNames
  /\ None \notin NetworkNames \cup WorkspaceNames \cup Paths
  /\ BuiltinModes \cap NamedModes = {}
  /\ ContainerNames \cap (BuiltinModes \cup NamedModes) = {}
  /\ None \notin BuiltinModes
  /\ None \notin Refs

=============================================================================
