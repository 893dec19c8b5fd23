------------------------------- MODULE MCNuke -------------------------------
(***************************************************************************)
(* Instances of Nuke for TLC: one terminal whose commands come before,     *)
(* between and after the steps of one nuke.                                *)
(***************************************************************************)
EXTENDS Nuke, MCCommands

\* An environment with a workspace on a network of its own, its service, and what
\* removes and makes them again.
NukeRequests ==
  {[EnvCreate("segment") EXCEPT !.name = "work", !.start = TRUE],
   [Ask("rm", EnvRef("lab")) EXCEPT !.force = TRUE],
   Ask("create", ServiceRef("lab", "web"))}

\* An environment and a gateway, without a workspace.
GatewayRequests ==
  {[EnvCreate("segment") EXCEPT !.start = TRUE],
   Ask("create", VPNRef("corp")),
   Ask("rm", VPNRef("corp"))}

\* One workspace name, once at its default path and once at a custom one.
TwoPathRequests ==
  {[EnvCreate("isolated") EXCEPT !.name = "work"],
   [EnvCreate("isolated") EXCEPT !.ref = EnvRef("tmp"), !.name = "work", !.path = "data"]}

MCTwoDefaultNet == "lab" :> "net-lab" @@ "tmp" :> "net-tmp"
MCTwoNameOf     == EnvRef("lab") :> "lab" @@ EnvRef("tmp") :> "tmp"

NukeSymmetry == Permutations(ContainerIds) \cup Permutations(NetworkIds)

=============================================================================
