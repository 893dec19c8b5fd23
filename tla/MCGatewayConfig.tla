-------------------------- MODULE MCGatewayConfig --------------------------
(***************************************************************************)
(* Instance of GatewayConfig for TLC: one gateway, one source directory    *)
(* with two configs, and the requests that meet in the managed directory.  *)
(***************************************************************************)
EXTENDS GatewayConfig

MCListing == <<"client", "other">>

Plain == [redirect |-> FALSE, hook |-> FALSE, routes |-> {}, nopull |-> FALSE,
          filter |-> FALSE, bad |-> FALSE]

\* A full tunnel with DNS hooks, static routes beside a redirect, a broken route.
MCTexts ==
  {[Plain EXCEPT !.redirect = TRUE, !.hook = TRUE],
   [Plain EXCEPT !.redirect = TRUE, !.routes = {"lab"}],
   [Plain EXCEPT !.bad = TRUE]}

SplitOf(dir, file) ==
  [name |-> "corp", dir |-> dir, file |-> file, mode |-> "split", vpnFiles |-> None,
   gateway |-> FALSE, args |-> <<>>]

MCAsked ==
  {SplitOf("home", "client"),
   [SplitOf("home", "client") EXCEPT !.args = <<{}>>],
   [SplitOf("home", "client") EXCEPT !.vpnFiles = "other"],
   [SplitOf("home", "client") EXCEPT !.mode = "full"],
   [SplitOf("home", "client") EXCEPT !.gateway = TRUE, !.args = <<{}, {}>>],
   SplitOf("home", "other"),
   [SplitOf("home", None) EXCEPT !.mode = "full"],
   SplitOf("home", None),
   SplitOf("corp", "client")}

=============================================================================
