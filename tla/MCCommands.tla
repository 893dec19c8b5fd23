----------------------------- MODULE MCCommands -----------------------------
(***************************************************************************)
(* Instances of Commands for TLC: one environment with one service and one *)
(* gateway, two terminals, and the requests that make them meet.           *)
(***************************************************************************)
EXTENDS Commands, TLC

MCDefaultNet  == "lab" :> "net-lab"
MCDefaultPath == "work" :> "root/work"
MCNameOf ==
  (EnvRef("lab") :> "lab") @@ (ServiceRef("lab", "web") :> "lab-web")
    @@ (VPNRef("corp") :> "vpn-corp")

\* A request that uses none of the optional fields.
Ask(op, ref) ==
  [op |-> op, ref |-> ref, profile |-> None, net |-> None, vpn |-> None,
   name |-> None, path |-> None, start |-> FALSE, force |-> FALSE]

EnvCreate(profile) == [Ask("create", EnvRef("lab")) EXCEPT !.profile = profile]

\* Every command of the life of an environment and its service, with and without
\* --force and --start.
LifecycleRequests ==
  {[EnvCreate("segment") EXCEPT !.start = TRUE],
   [Ask("rm", EnvRef("lab")) EXCEPT !.force = TRUE],
   Ask("start", EnvRef("lab")),
   Ask("create", ServiceRef("lab", "web")),
   Ask("stop", ServiceRef("lab", "web")),
   Ask("rm", ServiceRef("lab", "web")),
   [Ask("network", None) EXCEPT !.net = "net-lab"]}

\* Every network profile, the workspace, and docker compose beside service add.
NetworkRequests ==
  {[EnvCreate("segment") EXCEPT !.net = "net-app", !.name = "work"],
   [EnvCreate("vpn") EXCEPT !.vpn = "corp", !.name = "work", !.path = "root/work"],
   EnvCreate("isolated"),
   [Ask("rm", EnvRef("lab")) EXCEPT !.force = TRUE],
   Ask("start", EnvRef("lab")),
   [Ask("create", VPNRef("corp")) EXCEPT !.start = TRUE],
   Ask("create", ServiceRef("lab", "web")),
   Ask("up", ServiceRef("lab", "web")),
   Ask("down", ServiceRef("lab", "web"))}

Symmetry == Permutations(ContainerIds) \cup Permutations(NetworkIds) \cup Permutations(Procs)

=============================================================================
