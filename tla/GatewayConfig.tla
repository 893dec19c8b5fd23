--------------------------- MODULE GatewayConfig ---------------------------
(***************************************************************************)
(* The OpenVPN files of a gateway.  vpn create --route-mode split copies   *)
(* the directory of the config under the data directory, patches the copy  *)
(* so that the gateway does not take the default route, and only then asks *)
(* Docker for a container of that name.  The container mounts the copy and *)
(* reads it whenever it starts: by a command, or by the daemon, which      *)
(* restarts it unless it was stopped.  --route-mode full mounts the        *)
(* directory of the config itself.                                         *)
(*                                                                         *)
(* Commands run side by side, may be interrupted at any step, and may name *)
(* the same gateway; the user edits the configs.                           *)
(***************************************************************************)
EXTENDS Naturals, Sequences, SequencesExt

CONSTANTS
  None,            \* no file, no gateway, no answer
  Names,           \* gateway names; each has a managed directory of its own
  SourceDirs,      \* the user's directories of OpenVPN files
  Files,           \* base names of the files in them
  Listing,         \* Files in the order in which WalkDir visits them
  Routes,          \* networks that route directives name
  Pushed,          \* the networks that the server pushes
  Texts,           \* contents that files may be given
  Asked,           \* requests of vpn create
  MaxCommands,     \* vpn create commands in a behaviour
  MaxEdits         \* edits of the user in a behaviour

ASSUME MaxCommandsType == MaxCommands \in Nat
ASSUME MaxEditsType    == MaxEdits \in Nat
ASSUME ListingType     == Listing \in Seq(Files) /\ \A f \in Files : Contains(Listing, f)
ASSUME PushedIsServers == Pushed \notin Routes
ASSUME NamesAreManaged == Names \cap SourceDirs = {} /\ None \notin Names \cup Files

\* Options of the openvpn command line that split mode adds.
NoPull == "--route-nopull"
Filter == "--pull-filter ignore redirect-gateway"

\* What the directives of a file come to.
Text == [redirect : BOOLEAN,          \* redirect-gateway
         hook     : BOOLEAN,          \* up or down with update-resolv-conf
         routes   : SUBSET Routes,    \* route, route-ipv6
         nopull   : BOOLEAN,          \* route-nopull
         filter   : BOOLEAN,          \* pull-filter ignore "redirect-gateway"
         bad      : BOOLEAN]          \* a route directive that does not parse

ASSUME TextsType == Texts \subseteq Text /\ None \notin Text

\* The managed directory of a gateway goes by the name of the gateway.
Dirs == SourceDirs \cup Names

Request == [name : Names, dir : Dirs, file : Files \cup {None}, \* None: --config <dir>
            mode : {"full", "split"},
            vpnFiles : Files \cup {None},                       \* --env VPN_FILES
            gateway  : BOOLEAN,                                 \* --env DEFAULT_GATEWAY
            args     : Seq(SUBSET {NoPull, Filter})]            \* each --env OTHER_ARGS

ASSUME AskedType == Asked \subseteq Request

VARIABLES
  files,           \* what each file of each directory holds
  cmds,            \* the vpn create commands, by number
  gateways,        \* the gateway containers
  owner,           \* history: the command that last wrote to a managed directory
  edits            \* how often the user has edited a file

vars == <<files, cmds, gateways, owner, edits>>

Commands == 1..MaxCommands
Stages   == {"new", "prepare", "copy", "patch", "engine", "create", "start", "done"}

Command == [stage  : Stages,
            req    : Request \cup {None},
            text   : Text \cup {None},      \* what PrepareSplitConfig read
            todo   : Seq(Files),            \* what is still to be copied
            routes : SUBSET Routes]

NoCommand == [stage |-> "new", req |-> None, text |-> None, todo |-> <<>>, routes |-> {}]

\* What a running gateway does: does the tunnel come up, where do default routes
\* come from, which networks are routed.
Run == [up : BOOLEAN, default : SUBSET {"config", "server", "image"},
        routes : SUBSET (Routes \cup {Pushed})]

Gateway == [by     : Commands,                   \* the command that created it
            dir    : Dirs,                       \* mounted
            loads  : Files \cup {None},          \* VPN_FILES
            args   : Seq(SUBSET {NoPull, Filter}),
            direct : BOOLEAN,                    \* DEFAULT_GATEWAY is not false
            routes : SUBSET Routes,              \* the label
            state  : {"created", "running", "stopped"},
            run    : Run \cup {None}]

At(i, stage) == cmds[i].stage = stage
Req(i)       == cmds[i].req
Split(i)     == Req(i).mode = "split"
Goto(i, stage) == cmds' = [cmds EXCEPT ![i].stage = stage]

-----------------------------------------------------------------------------
(* vpnconfig: a managed copy. *)

\* Fault: the directives that were disabled for the host are kept.
PatchedByAppending(t) ==
  [t EXCEPT !.nopull = t.nopull \/ t.routes # {}, !.filter = TRUE]

\* patchSplitConfig: redirect-gateway and the DNS hooks are commented out; routes of
\* the file are the only ones if there are any; pushed default routes are ignored.
Patched(t) ==
  [t EXCEPT !.redirect = FALSE, !.hook = FALSE,
            !.nopull = t.nopull \/ t.routes # {}, !.filter = TRUE]

\* The config a request names: None if there is no such file, or it is a directory.
Config(r) == IF r.file = None THEN None ELSE files[r.dir][r.file]

\* A request in full mode goes to the engine as it is.
Begin(i) ==
  /\ At(i, "new")
  /\ \A j \in Commands : j < i => ~At(j, "new")
  /\ \E r \in Asked :
       cmds' = [cmds EXCEPT ![i].req = r,
                            ![i].stage = IF r.mode = "split" THEN "prepare" ELSE "engine"]
  /\ UNCHANGED <<files, gateways, owner, edits>>

\* Read and parse the config; a directory is not copied onto itself.
Prepare(i) ==
  /\ At(i, "prepare")
  /\ LET t == Config(Req(i)) IN
       /\ t # None
       /\ ~t.bad
       /\ cmds' = [cmds EXCEPT
            ![i].text  = t,
            ![i].stage = IF Req(i).dir = Req(i).name THEN "patch" ELSE "copy",
            ![i].todo  = IF Req(i).dir = Req(i).name THEN <<>> ELSE Listing]
  /\ UNCHANGED <<files, gateways, owner, edits>>

\* copyFile: every regular file of the directory, the config too, is copied as it is.
CopyFile(i) ==
  /\ At(i, "copy")
  /\ cmds[i].todo # <<>>
  /\ LET f == Head(cmds[i].todo)
         t == files[Req(i).dir][f]
     IN IF t = None THEN UNCHANGED <<files, owner>>
        ELSE /\ files' = [files EXCEPT ![Req(i).name][f] = t]
             /\ owner' = [owner EXCEPT ![Req(i).name] = i]
  /\ cmds' = [cmds EXCEPT ![i].todo = Tail(@)]
  /\ UNCHANGED <<gateways, edits>>

CopyEnds(i) ==
  /\ At(i, "copy")
  /\ cmds[i].todo = <<>>
  /\ Goto(i, "patch")
  /\ UNCHANGED <<files, gateways, owner, edits>>

\* Fault: what was copied is patched, which may be newer than what was parsed.
PatchCopy(i) ==
  /\ At(i, "patch")
  /\ files' = [files EXCEPT ![Req(i).name][Req(i).file] = Patched(@)]
  /\ owner' = [owner EXCEPT ![Req(i).name] = i]
  /\ cmds'  = [cmds EXCEPT ![i].stage = "engine", ![i].req.dir = Req(i).name,
                           ![i].routes = cmds[i].text.routes]
  /\ UNCHANGED <<gateways, edits>>

\* The config itself is written last, over its copy, and is what is mounted.
Patch(i) ==
  /\ At(i, "patch")
  /\ files' = [files EXCEPT ![Req(i).name][Req(i).file] = Patched(cmds[i].text)]
  /\ owner' = [owner EXCEPT ![Req(i).name] = i]
  /\ cmds'  = [cmds EXCEPT ![i].stage = "engine", ![i].req.dir = Req(i).name,
                           ![i].routes = cmds[i].text.routes]
  /\ UNCHANGED <<gateways, edits>>

-----------------------------------------------------------------------------
(* engine: the request for the container. *)

\* Fault: where the file has no routes, the label names what the server will push.
RoutesWithPushed(i) ==
  IF Split(i) /\ cmds[i].routes = {} THEN {Pushed} ELSE cmds[i].routes

\* applyVPNRouteMode reads the config again when it has seen no routes in it, and
\* both modes want it to be there.
EngineRoutes(i) ==
  IF Split(i) /\ cmds[i].routes = {} THEN Config(Req(i)).routes ELSE cmds[i].routes

CreateVPNGateway(i) ==
  /\ At(i, "engine")
  /\ Req(i).file # None => Config(Req(i)) # None
  /\ Split(i) => Req(i).file # None /\ (cmds[i].routes = {} => ~Config(Req(i)).bad)
  /\ cmds' = [cmds EXCEPT ![i].stage = "create", ![i].routes = EngineRoutes(i)]
  /\ UNCHANGED <<files, gateways, owner, edits>>

\* Fault: the options are given only if the user gives none.
DefaultOpenVPNArgs(args, add) == IF args = <<>> THEN <<add>> ELSE args

\* upsertOpenVPNArgs: into the first OTHER_ARGS, or into one of its own.
UpsertOpenVPNArgs(args, add) ==
  IF args = <<>> THEN <<add>> ELSE [args EXCEPT ![1] = @ \cup add]

\* attachVPNConfig: the file is named to the image unless the user names one.
Loads(r) == IF r.vpnFiles # None THEN r.vpnFiles ELSE r.file

\* The container that is asked for: the default route is left to Docker in split
\* mode unless the user says otherwise.
NewGateway(i) ==
  [by     |-> i,
   dir    |-> Req(i).dir,
   loads  |-> Loads(Req(i)),
   args   |-> IF ~Split(i) THEN Req(i).args
              ELSE UpsertOpenVPNArgs(Req(i).args,
                     IF cmds[i].routes = {} THEN {Filter} ELSE {NoPull, Filter}),
   direct |-> Req(i).gateway \/ ~Split(i),
   routes |-> cmds[i].routes,
   state  |-> "created",
   run    |-> None]

CreateContainer(i) ==
  /\ At(i, "create")
  /\ gateways[Req(i).name] = None
  /\ gateways' = [gateways EXCEPT ![Req(i).name] = NewGateway(i)]
  /\ Goto(i, "start")
  /\ UNCHANGED <<files, owner, edits>>

-----------------------------------------------------------------------------
(* The gateway. *)

\* What the image makes of the file and of its environment.  Of a variable that is
\* given twice the last counts; route-nopull refuses a pushed default route as well.
RunWith(g, t) ==
  LET options == IF g.args = <<>> THEN {} ELSE Last(g.args)
      nopull  == t.nopull \/ NoPull \in options
      filter  == t.filter \/ Filter \in options
  IN [up      |-> ~t.hook,
      default |-> {w \in {"config", "server", "image"} :
                     \/ w = "config" /\ t.redirect
                     \/ w = "server" /\ ~nopull /\ ~filter
                     \/ w = "image"  /\ g.direct},
      routes  |-> t.routes \cup (IF nopull THEN {} ELSE {Pushed})]

NoTunnel == [up |-> FALSE, default |-> {}, routes |-> {}]

\* The process of the gateway starts: it reads the file of VPN_FILES, or one that it
\* finds in the directory.
Starts(n) ==
  \E f \in Files :
    /\ gateways[n].loads \in {f, None}
    /\ gateways' = [gateways EXCEPT
         ![n].state = "running",
         ![n].run   = IF files[gateways[n].dir][f] = None THEN NoTunnel
                      ELSE RunWith(gateways[n], files[gateways[n].dir][f])]

StartVPNGateway(i) ==
  /\ At(i, "start")
  /\ gateways[Req(i).name] # None
  /\ IF gateways[Req(i).name].state = "running" THEN UNCHANGED gateways
     ELSE Starts(Req(i).name)
  /\ Goto(i, "done")
  /\ UNCHANGED <<files, owner, edits>>

\* A refusal, an interrupt or an error: what was written stays.
Return(i) ==
  /\ ~At(i, "new") /\ ~At(i, "done")
  /\ Goto(i, "done")
  /\ UNCHANGED <<files, gateways, owner, edits>>

\* The process ended, or the daemon was restarted: restart unless stopped.
Restart(n) ==
  /\ gateways[n] # None
  /\ gateways[n].state = "running"
  /\ Starts(n)
  /\ UNCHANGED <<files, cmds, owner, edits>>

\* vpn start, vpn stop and vpn rm, of whoever.
StartAgain(n) ==
  /\ gateways[n] # None
  /\ gateways[n].state # "running"
  /\ Starts(n)
  /\ UNCHANGED <<files, cmds, owner, edits>>

Stop(n) ==
  /\ gateways[n] # None
  /\ gateways[n].state = "running"
  /\ gateways' = [gateways EXCEPT ![n].state = "stopped", ![n].run = None]
  /\ UNCHANGED <<files, cmds, owner, edits>>

RemoveGateway(n) ==
  /\ gateways[n] # None
  /\ gateways' = [gateways EXCEPT ![n] = None]
  /\ UNCHANGED <<files, cmds, owner, edits>>

\* The user edits a config of theirs.
Edit(d, f) ==
  /\ edits < MaxEdits
  /\ edits' = edits + 1
  /\ \E t \in Texts : files' = [files EXCEPT ![d][f] = t]
  /\ UNCHANGED <<cmds, gateways, owner>>

-----------------------------------------------------------------------------

Init ==
  /\ \E source \in [SourceDirs -> [Files -> Texts \cup {None}]] :
       files = [d \in Dirs |-> IF d \in SourceDirs THEN source[d] ELSE [f \in Files |-> None]]
  /\ cmds = [i \in Commands |-> NoCommand]
  /\ gateways = [n \in Names |-> None]
  /\ owner = [n \in Names |-> 0]
  /\ edits = 0

CommandStep(i) ==
  \/ Begin(i) \/ Prepare(i) \/ CopyFile(i) \/ CopyEnds(i) \/ Patch(i)
  \/ CreateVPNGateway(i) \/ CreateContainer(i) \/ StartVPNGateway(i) \/ Return(i)

Next ==
  \/ \E i \in Commands : CommandStep(i)
  \/ \E n \in Names : Restart(n) \/ StartAgain(n) \/ Stop(n) \/ RemoveGateway(n)
  \/ \E d \in SourceDirs, f \in Files : Edit(d, f)

Spec == Init /\ [][Next]_vars

-----------------------------------------------------------------------------
(* What split mode promises. *)

\* Every variable holds a value of its kind.
TypeOK ==
  /\ files \in [Dirs -> [Files -> Text \cup {None}]]
  /\ cmds \in [Commands -> Command]
  /\ gateways \in [Names -> Gateway \cup {None}]
  /\ owner \in [Names -> 0..MaxCommands]
  /\ edits \in 0..MaxEdits

SplitGateway(n) == gateways[n] # None /\ cmds[gateways[n].by].req.mode = "split"

\* The request of a gateway.
AskedFor(n) == cmds[gateways[n].by].req

\* A split gateway that runs the config it was created with, with no word of the
\* user about what it loads or where its default route goes.
RunsItsConfig(n) ==
  /\ SplitGateway(n)
  /\ gateways[n].run # None
  /\ AskedFor(n).vpnFiles = None
  /\ ~AskedFor(n).gateway

\* Nobody has written to the gateway's managed directory since its creator did.
Untouched(n) == owner[n] = gateways[n].by

\* "filters default-gateway pushes so the sidecar does not become a full tunnel by
\* default" (cli/vpn.go:80): a split gateway comes up and takes no default route,
\* from whatever config it was made and whenever it is restarted, though commands
\* for it were interrupted or refused before, and the config was edited meanwhile.
\* Later writes to its managed directory are the finding SplitStaysSplit.
SplitTakesNoDefault ==
  \A n \in Names :
    RunsItsConfig(n) /\ Untouched(n) => gateways[n].run.up /\ gateways[n].run.default = {}

\* The options on the command line (engine.go:1061) hold whatever file is read: the
\* default route that a server pushes is refused even while another command is
\* rewriting the directory, or VPN_FILES names a file that was copied as it is.
\* Of a repeated OTHER_ARGS only the first gets the options, and the last counts.
PushedDefaultIsRefused ==
  \A n \in Names :
    /\ SplitGateway(n)
    /\ gateways[n].run # None
    /\ Len(AskedFor(n).args) <= 1
    => "server" \notin gateways[n].run.default

\* "only those networks are routed through the VPN" (cli/vpn.go:78): the routes on
\* the label, which vpn info shows, are the ones that the gateway has, and with
\* none on it the server's are accepted unless the config refuses them.
RoutesAreShown ==
  \A n \in Names :
    RunsItsConfig(n) /\ Untouched(n) =>
      /\ gateways[n].run.routes \ {Pushed} = gateways[n].routes
      /\ gateways[n].routes # {} => Pushed \notin gateways[n].run.routes

\* "Split mode always writes a managed copy" (vpnconfig/ovpn.go:105), and the gateway
\* reads it: without a word of the user, no split gateway takes the default route
\* from its config.  Violated: a second vpn create of the name writes into the copy
\* that the gateway has mounted, raw config first, before anyone asks whether
\* the name is taken.
SplitStaysSplit ==
  \A n \in Names : RunsItsConfig(n) => gateways[n].run.default = {}

=============================================================================
