------------------------ MODULE GatewayConfigProofs ------------------------
(***************************************************************************)
(* Proofs about GatewayConfig, for any number of gateways, directories,    *)
(* files, commands and edits: what split mode promises.                    *)
(***************************************************************************)
EXTENDS GatewayConfig, SequenceTheorems, TLAPS

-----------------------------------------------------------------------------
(* The invariant. *)

\* A command has the parts of its record that its step uses.
CommandsProper ==
  \A i \in Commands :
    /\ ~At(i, "new") => Req(i) \in Request
    /\ cmds[i].stage \in {"prepare", "copy", "patch"} => Split(i)
    /\ cmds[i].stage \in {"copy", "patch"} => cmds[i].text \in Text /\ Req(i).file \in Files

IType == TypeOK /\ CommandsProper

\* What a split command knows of its copy from the moment it has patched it: until
\* another command writes to the directory, the config is patched from the text that
\* was read, and its routes are the ones that go on the label.
CopyKnown(i) ==
  Split(i) =>
    /\ Req(i).dir = Req(i).name
    /\ cmds[i].text \in Text
    /\ Req(i).file \in Files
    /\ owner[Req(i).name] = i =>
         /\ files[Req(i).name][Req(i).file] = Patched(cmds[i].text)
         /\ cmds[i].routes = cmds[i].text.routes

ICopies == \A i \in Commands : cmds[i].stage \in {"engine", "create", "start"} => CopyKnown(i)

\* The options that split mode asks for, by the routes on the label.
Options(routes) == IF routes = {} THEN {Filter} ELSE {NoPull, Filter}

\* A gateway is as its command asked for it.
GatewayKnown(n) ==
  LET g == gateways[n]
  IN /\ cmds[g.by].stage \in {"start", "done"}
     /\ Req(g.by).name = n
     /\ CopyKnown(g.by)
     /\ g.dir = Req(g.by).dir
     /\ g.loads = Loads(Req(g.by))
     /\ g.routes = cmds[g.by].routes
     /\ g.direct = (Req(g.by).gateway \/ ~Split(g.by))
     /\ Split(g.by) => g.args = UpsertOpenVPNArgs(Req(g.by).args, Options(cmds[g.by].routes))

IGateways == \A n \in Names : gateways[n] # None => GatewayKnown(n)

\* A running gateway runs some config, and the one it was made for if nobody has
\* written to its directory since.
RunKnown(n) ==
  LET g == gateways[n]
  IN /\ g.run = NoTunnel \/ \E t \in Text : g.run = RunWith(g, t)
     /\ Split(g.by) /\ Req(g.by).vpnFiles = None /\ owner[n] = g.by
          => g.run = RunWith(g, Patched(cmds[g.by].text))

IRuns == \A n \in Names : gateways[n] # None /\ gateways[n].run # None => RunKnown(n)

IKnown == IType /\ ICopies /\ IGateways /\ IRuns

-----------------------------------------------------------------------------
(* Values. *)

\* Patching takes away the default route and the hook, sees to the refusal of what the
\* server pushes, and keeps the routes.
LEMMA PatchedType ==
  ASSUME NEW t \in Text
  PROVE  /\ Patched(t) \in Text
         /\ Patched(t).routes = t.routes
         /\ ~Patched(t).redirect /\ ~Patched(t).hook
         /\ Patched(t).filter
         /\ t.routes # {} => Patched(t).nopull
BY DEF Patched, Text

\* A command names a file to load, or leaves the choice to the gateway.
LEMMA LoadsType ==
  ASSUME NEW r \in Request
  PROVE  Loads(r) \in Files \cup {None}
BY DEF Loads, Request

\* Upserting OTHER_ARGS leaves a list of options.
LEMMA UpsertType ==
  ASSUME NEW args \in Seq(SUBSET {NoPull, Filter}), NEW add \in SUBSET {NoPull, Filter}
  PROVE  UpsertOpenVPNArgs(args, add) \in Seq(SUBSET {NoPull, Filter})
<1>1. CASE args = <<>>
  BY <1>1 DEF UpsertOpenVPNArgs
<1>2. CASE args # <<>>
  <2>1. 1 \in DOMAIN args /\ args[1] \in SUBSET {NoPull, Filter}
    BY <1>2
  <2>2. args[1] \cup add \in SUBSET {NoPull, Filter}
    BY <2>1
  <2>. QED
    BY <1>2, <2>1, <2>2 DEF UpsertOpenVPNArgs
<1>. QED
  BY <1>1, <1>2

\* What a process makes of a text is a run.
LEMMA RunType ==
  ASSUME NEW g \in Gateway, NEW t \in Text
  PROVE  RunWith(g, t) \in Run
<1>1. t.hook \in BOOLEAN /\ t.routes \in SUBSET Routes
  BY DEF Text
<1>. QED
  BY <1>1 DEF RunWith, Run

\* So is the one without a tunnel.
LEMMA NoTunnelType == NoTunnel \in Run
BY DEF NoTunnel, Run

\* The process of a gateway has read a file that it may load, or found none.
LEMMA StartedGateway ==
  ASSUME TypeOK, NEW n \in Names, gateways[n] \in Gateway, Starts(n)
  PROVE  \E f \in Files, run \in Run :
           /\ gateways[n].loads \in {f, None}
           /\ gateways' = [gateways EXCEPT ![n] =
                [gateways[n] EXCEPT !.state = "running", !.run = run]]
           /\ gateways'[n] \in Gateway
           /\ IF files[gateways[n].dir][f] = None THEN run = NoTunnel
              ELSE /\ files[gateways[n].dir][f] \in Text
                   /\ run = RunWith(gateways[n], files[gateways[n].dir][f])
<1>1. PICK f \in Files :
        /\ gateways[n].loads \in {f, None}
        /\ gateways' = [gateways EXCEPT
             ![n].state = "running",
             ![n].run   = IF files[gateways[n].dir][f] = None THEN NoTunnel
                          ELSE RunWith(gateways[n], files[gateways[n].dir][f])]
  BY DEF Starts
<1> DEFINE t   == files[gateways[n].dir][f]
           run == IF t = None THEN NoTunnel ELSE RunWith(gateways[n], t)
<1>2. t \in Text \cup {None}
  BY DEF TypeOK, Gateway
<1>3. run \in Run
  BY <1>2, RunType, NoTunnelType
<1>4. gateways' = [gateways EXCEPT ![n] = [gateways[n] EXCEPT !.state = "running", !.run = run]]
  BY <1>1
<1>5. gateways'[n] = [gateways[n] EXCEPT !.state = "running", !.run = run]
  BY <1>4 DEF TypeOK
<1>6. gateways'[n] \in Gateway
  <2>. HIDE DEF run
  <2>. QED
    BY <1>3, <1>5 DEF Gateway
<1>. QED
  BY <1>1, <1>2, <1>3, <1>4, <1>6

-----------------------------------------------------------------------------
(* Types. *)

\* Every step of a command keeps types.
LEMMA CommandStepType ==
  ASSUME IType, NEW i \in Commands, CommandStep(i)
  PROVE  IType'
<1>. USE DEF IType
<1>1. cmds[i] \in Command /\ cmds \in [Commands -> Command]
  BY DEF TypeOK
<1>2. i \in 0..MaxCommands /\ i \in Nat
  BY MaxCommandsType DEF Commands
<1>3. CASE Begin(i)
  <2>1. PICK r \in Asked :
          cmds' = [cmds EXCEPT ![i].req = r,
                               ![i].stage = IF r.mode = "split" THEN "prepare" ELSE "engine"]
    BY <1>3 DEF Begin
  <2>2. r \in Request
    BY AskedType
  <2>3. cmds' \in [Commands -> Command]
    BY <1>1, <2>1, <2>2 DEF Command, Stages
  <2>4. CommandsProper'
    BY <1>1, <2>1, <2>2 DEF CommandsProper, At, Req, Split, Command, Request
  <2>. QED
    BY <1>3, <2>3, <2>4 DEF Begin, TypeOK
<1>4. CASE Prepare(i)
  <2>1. Req(i) \in Request
    BY <1>4 DEF Prepare, CommandsProper, At
  <2>2. Config(Req(i)) \in Text /\ Req(i).file \in Files
    BY <1>4, <2>1 DEF Prepare, Config, TypeOK, Request
  <2>3. Listing \in Seq(Files) /\ <<>> \in Seq(Files)
    BY ListingType
  <2>4. cmds' \in [Commands -> Command]
    BY <1>1, <1>4, <2>2, <2>3 DEF Prepare, Command, Stages
  <2>5. CommandsProper'
    BY <1>1, <1>4, <2>1, <2>2 DEF Prepare, CommandsProper, At, Req, Split, Command
  <2>. QED
    BY <1>4, <2>4, <2>5 DEF Prepare, TypeOK
<1>5. CASE CopyFile(i)
  <2>1. Req(i) \in Request /\ Req(i).name \in Dirs /\ Req(i).name \in Names /\ Req(i).dir \in Dirs
    BY <1>5 DEF CopyFile, CommandsProper, At, Request, Dirs
  <2>2. Head(cmds[i].todo) \in Files /\ Tail(cmds[i].todo) \in Seq(Files)
    BY <1>1, <1>5 DEF CopyFile, Command
  <2>3. files' \in [Dirs -> [Files -> Text \cup {None}]]
    <3> DEFINE f == Head(cmds[i].todo)
               t == files[Req(i).dir][f]
    <3>1. t \in Text \cup {None}
      BY <2>1, <2>2 DEF TypeOK
    <3>2. files' = files \/ files' = [files EXCEPT ![Req(i).name][f] = t]
      BY <1>5 DEF CopyFile
    <3>. HIDE DEF t, f
    <3>. QED
      BY <2>1, <3>1, <3>2 DEF TypeOK
  <2>4. owner' \in [Names -> 0..MaxCommands]
    BY <1>2, <1>5, <2>1 DEF CopyFile, TypeOK
  <2>5. cmds' \in [Commands -> Command]
    BY <1>1, <1>5, <2>2 DEF CopyFile, Command
  <2>6. CommandsProper'
    BY <1>1, <1>5 DEF CopyFile, CommandsProper, At, Req, Split, Command
  <2>. QED
    BY <1>5, <2>3, <2>4, <2>5, <2>6 DEF CopyFile, TypeOK
<1>6. CASE CopyEnds(i)
  <2>1. cmds' \in [Commands -> Command]
    BY <1>1, <1>6 DEF CopyEnds, Goto, Command, Stages
  <2>2. CommandsProper'
    BY <1>1, <1>6 DEF CopyEnds, Goto, CommandsProper, At, Req, Split, Command
  <2>. QED
    BY <1>6, <2>1, <2>2 DEF CopyEnds, TypeOK
<1>7. CASE Patch(i)
  <2>1. /\ Req(i) \in Request /\ Req(i).name \in Dirs /\ Req(i).name \in Names
        /\ cmds[i].text \in Text /\ Req(i).file \in Files
    BY <1>7 DEF Patch, CommandsProper, At, Request, Dirs
  <2>2. Patched(cmds[i].text) \in Text
    BY <2>1, PatchedType
  <2>3. files' \in [Dirs -> [Files -> Text \cup {None}]]
    BY <1>7, <2>1, <2>2 DEF Patch, TypeOK
  <2>4. owner' \in [Names -> 0..MaxCommands]
    BY <1>2, <1>7, <2>1 DEF Patch, TypeOK
  <2>5. [Req(i) EXCEPT !.dir = Req(i).name] \in Request
    BY <2>1 DEF Request
  <2>6. cmds[i].text.routes \in SUBSET Routes
    BY <2>1 DEF Text
  <2>7. cmds' = [cmds EXCEPT ![i] = [cmds[i] EXCEPT !.stage = "engine",
                   !.req = [Req(i) EXCEPT !.dir = Req(i).name],
                   !.routes = cmds[i].text.routes]]
    BY <1>1, <1>7, <2>1 DEF Patch, Req, Command
  <2>8. cmds' \in [Commands -> Command]
    BY <1>1, <2>5, <2>6, <2>7 DEF Command, Stages
  <2>9. CommandsProper'
    BY <1>1, <2>5, <2>7 DEF CommandsProper, At, Req, Split, Command
  <2>. QED
    BY <1>7, <2>3, <2>4, <2>8, <2>9 DEF Patch, TypeOK
<1>8. CASE CreateVPNGateway(i)
  <2>1. Req(i) \in Request
    BY <1>8 DEF CreateVPNGateway, CommandsProper, At
  <2>2. EngineRoutes(i) \in SUBSET Routes
    <3>1. CASE Split(i) /\ cmds[i].routes = {}
      <4>1. Config(Req(i)) \in Text
        BY <1>8, <2>1, <3>1 DEF CreateVPNGateway, Config, TypeOK, Request
      <4>. QED
        BY <3>1, <4>1 DEF EngineRoutes, Text
    <3>2. CASE ~(Split(i) /\ cmds[i].routes = {})
      BY <1>1, <3>2 DEF EngineRoutes, Command
    <3>. QED
      BY <3>1, <3>2
  <2>3. cmds' \in [Commands -> Command]
    BY <1>1, <1>8, <2>2 DEF CreateVPNGateway, Command, Stages
  <2>4. CommandsProper'
    BY <1>1, <1>8, <2>1 DEF CreateVPNGateway, CommandsProper, At, Req, Split, Command
  <2>. QED
    BY <1>8, <2>3, <2>4 DEF CreateVPNGateway, TypeOK
<1>9. CASE CreateContainer(i)
  <2>1. Req(i) \in Request /\ Req(i).name \in Names
    BY <1>9 DEF CreateContainer, CommandsProper, At, Request
  <2>2. NewGateway(i) \in Gateway
    <3>1. /\ Loads(Req(i)) \in Files \cup {None}
          /\ UpsertOpenVPNArgs(Req(i).args, {Filter}) \in Seq(SUBSET {NoPull, Filter})
          /\ UpsertOpenVPNArgs(Req(i).args, {NoPull, Filter}) \in Seq(SUBSET {NoPull, Filter})
          /\ Req(i).args \in Seq(SUBSET {NoPull, Filter})
      BY <2>1, LoadsType, UpsertType DEF Request
    <3>2. Req(i).dir \in Dirs /\ Req(i).gateway \in BOOLEAN /\ cmds[i].routes \in SUBSET Routes
      BY <1>1, <2>1 DEF Request, Command
    <3>. QED
      BY <3>1, <3>2 DEF NewGateway, Gateway, Split
  <2>3. gateways' \in [Names -> Gateway \cup {None}]
    BY <1>9, <2>1, <2>2 DEF CreateContainer, TypeOK
  <2>4. cmds' \in [Commands -> Command]
    BY <1>1, <1>9 DEF CreateContainer, Goto, Command, Stages
  <2>5. CommandsProper'
    BY <1>1, <1>9, <2>1 DEF CreateContainer, Goto, CommandsProper, At, Req, Split, Command
  <2>. QED
    BY <1>9, <2>3, <2>4, <2>5 DEF CreateContainer, TypeOK
<1>10. CASE StartVPNGateway(i)
  <2>1. Req(i) \in Request /\ Req(i).name \in Names
    BY <1>10 DEF StartVPNGateway, CommandsProper, At, Request
  <2>2. gateways[Req(i).name] \in Gateway
    BY <1>10, <2>1 DEF StartVPNGateway, TypeOK
  <2>3. gateways' \in [Names -> Gateway \cup {None}]
    <3>1. CASE UNCHANGED gateways
      BY <3>1 DEF TypeOK
    <3>2. CASE Starts(Req(i).name)
      BY <2>1, <2>2, <3>2, StartedGateway DEF TypeOK
    <3>. QED
      BY <1>10, <3>1, <3>2 DEF StartVPNGateway
  <2>4. cmds' \in [Commands -> Command]
    BY <1>1, <1>10 DEF StartVPNGateway, Goto, Command, Stages
  <2>5. CommandsProper'
    BY <1>1, <1>10, <2>1 DEF StartVPNGateway, Goto, CommandsProper, At, Req, Split, Command
  <2>. QED
    BY <1>10, <2>3, <2>4, <2>5 DEF StartVPNGateway, TypeOK
<1>11. CASE Return(i)
  <2>1. Req(i) \in Request
    BY <1>11 DEF Return, CommandsProper
  <2>2. cmds' \in [Commands -> Command]
    BY <1>1, <1>11 DEF Return, Goto, Command, Stages
  <2>3. CommandsProper'
    BY <1>1, <1>11, <2>1 DEF Return, Goto, CommandsProper, At, Req, Split, Command
  <2>. QED
    BY <1>11, <2>2, <2>3 DEF Return, TypeOK
<1>. QED
  BY <1>3, <1>4, <1>5, <1>6, <1>7, <1>8, <1>9, <1>10, <1>11 DEF CommandStep

\* So does every step of the world.
LEMMA WorldStepType ==
  ASSUME IType,
         \/ \E n \in Names : Restart(n) \/ StartAgain(n) \/ Stop(n) \/ RemoveGateway(n)
         \/ \E d \in SourceDirs, f \in Files : Edit(d, f)
  PROVE  IType'
<1>. USE DEF IType
<1>1. ASSUME NEW n \in Names, Restart(n) \/ StartAgain(n)
      PROVE  IType'
  <2>1. gateways[n] \in Gateway /\ Starts(n)
    BY <1>1 DEF Restart, StartAgain, TypeOK
  <2>2. gateways' \in [Names -> Gateway \cup {None}]
    BY <2>1, StartedGateway DEF TypeOK
  <2>. QED
    BY <1>1, <2>2 DEF Restart, StartAgain, TypeOK, CommandsProper, At, Req, Split
<1>2. ASSUME NEW n \in Names, Stop(n)
      PROVE  IType'
  <2>1. gateways[n] \in Gateway
    BY <1>2 DEF Stop, TypeOK
  <2>2. [gateways[n] EXCEPT !.state = "stopped", !.run = None] \in Gateway
    BY <2>1 DEF Gateway
  <2>3. gateways' = [gateways EXCEPT ![n] = [gateways[n] EXCEPT !.state = "stopped", !.run = None]]
    BY <1>2 DEF Stop
  <2>4. gateways' \in [Names -> Gateway \cup {None}]
    BY <2>2, <2>3 DEF TypeOK
  <2>. QED
    BY <1>2, <2>4 DEF Stop, TypeOK, CommandsProper, At, Req, Split
<1>3. ASSUME NEW n \in Names, RemoveGateway(n)
      PROVE  IType'
  BY <1>3 DEF RemoveGateway, TypeOK, CommandsProper, At, Req, Split
<1>4. ASSUME NEW d \in SourceDirs, NEW f \in Files, Edit(d, f)
      PROVE  IType'
  <2>1. files' \in [Dirs -> [Files -> Text \cup {None}]]
    BY <1>4, TextsType DEF Edit, TypeOK, Dirs
  <2>2. edits' \in 0..MaxEdits
    BY <1>4, MaxEditsType DEF Edit, TypeOK
  <2>. QED
    BY <1>4, <2>1, <2>2 DEF Edit, TypeOK, CommandsProper, At, Req, Split
<1>. QED
  BY <1>1, <1>2, <1>3, <1>4

-----------------------------------------------------------------------------
(* What a step leaves known. *)

\* A command keeps what it knows of its copy.
Same(j) ==
  /\ cmds'[j].req = cmds[j].req
  /\ cmds'[j].text = cmds[j].text
  /\ cmds'[j].routes = cmds[j].routes

\* If the managed directory of n is command j's afterwards, it was so before and has
\* not changed.
Held(n, j) == owner'[n] = j => owner[n] = j /\ files'[n] = files[n]

\* What a command knows of its copy stays so while nobody else writes there.
LEMMA CopyKept ==
  ASSUME NEW j \in Commands, CopyKnown(j), Same(j), Held(Req(j).name, j)
  PROVE  CopyKnown(j)'
BY DEF CopyKnown, Same, Held, Split, Req

\* A step of one command leaves what the others know of their copies.
LEMMA CopiesKept ==
  ASSUME IKnown, NEW i \in Commands,
         \A j \in Commands \ {i} : cmds'[j] = cmds[j] /\ \A n \in Names : Held(n, j),
         cmds'[i].stage \in {"engine", "create", "start"} => CopyKnown(i)'
  PROVE  ICopies'
<1>1. ASSUME NEW j \in Commands, j # i, cmds'[j].stage \in {"engine", "create", "start"}
      PROVE  CopyKnown(j)'
  <2>1. cmds[j].stage \in {"engine", "create", "start"} /\ Same(j)
    BY <1>1 DEF Same
  <2>2. CopyKnown(j) /\ Req(j).name \in Names
    BY <2>1 DEF IKnown, IType, CommandsProper, ICopies, At, Request
  <2>. QED
    BY <1>1, <2>1, <2>2, CopyKept
<1>. QED
  BY <1>1 DEF ICopies

\* A gateway is still as it was asked for.
LEMMA GatewayKept ==
  ASSUME IKnown, NEW n \in Names, gateways[n] # None,
         gateways'[n].by = gateways[n].by,
         gateways'[n].dir = gateways[n].dir,
         gateways'[n].loads = gateways[n].loads,
         gateways'[n].args = gateways[n].args,
         gateways'[n].direct = gateways[n].direct,
         gateways'[n].routes = gateways[n].routes,
         Same(gateways[n].by),
         cmds'[gateways[n].by].stage \in {"start", "done"},
         Held(n, gateways[n].by)
  PROVE  GatewayKnown(n)'
<1>1. GatewayKnown(n) /\ gateways[n].by \in Commands
  BY DEF IKnown, IType, TypeOK, IGateways, Gateway
<1>2. CopyKnown(gateways[n].by)'
  BY <1>1, CopyKept DEF GatewayKnown
<1>. QED
  BY <1>1, <1>2 DEF GatewayKnown, Same, Req, Split

\* A step that changes no gateway leaves what is known of gateways and their runs.
LEMMA GatewaysKept ==
  ASSUME IKnown, UNCHANGED gateways,
         \A j \in Commands : cmds[j].stage \in {"start", "done"} =>
           /\ Same(j)
           /\ cmds'[j].stage \in {"start", "done"}
           /\ \A n \in Names : Held(n, j)
  PROVE  IGateways' /\ IRuns'
<1>1. ASSUME NEW n \in Names, gateways[n] # None
      PROVE  /\ gateways[n].by \in Commands
             /\ GatewayKnown(n)
             /\ Same(gateways[n].by)
             /\ cmds'[gateways[n].by].stage \in {"start", "done"}
             /\ Held(n, gateways[n].by)
  BY <1>1 DEF IKnown, IType, TypeOK, IGateways, GatewayKnown, Gateway
<1>2. ASSUME NEW n \in Names, gateways[n] # None
      PROVE  GatewayKnown(n)'
  BY <1>1, <1>2, GatewayKept
<1>3. ASSUME NEW n \in Names, gateways[n] # None, gateways[n].run # None
      PROVE  RunKnown(n)'
  <2>1. RunKnown(n)
    BY <1>3 DEF IKnown, IRuns
  <2>. QED
    BY <1>1, <1>3, <2>1 DEF RunKnown, Same, Held, Split, Req
<1>. QED
  BY <1>2, <1>3 DEF IGateways, IRuns

\* What runs depends on the options and the file, not on the gateway's state.
LEMMA RunWithSame ==
  ASSUME NEW g, NEW h, NEW t, g.args = h.args, g.direct = h.direct
  PROVE  RunWith(g, t) = RunWith(h, t)
BY DEF RunWith

\* A gateway that starts is one of which all is known.
LEMMA StartKept ==
  ASSUME IKnown, NEW n \in Names, gateways[n] # None, Starts(n),
         UNCHANGED <<files, owner>>,
         \A j \in Commands : Same(j),
         \A j \in Commands : cmds[j].stage \in {"start", "done"} => cmds'[j].stage \in {"start", "done"}
  PROVE  IGateways' /\ IRuns'
<1>1. gateways[n] \in Gateway /\ TypeOK /\ gateways[n].by \in Commands
  BY DEF IKnown, IType, TypeOK, Gateway
<1>2. PICK f \in Files, run \in Run :
           /\ gateways[n].loads \in {f, None}
           /\ gateways' = [gateways EXCEPT ![n] =
                [gateways[n] EXCEPT !.state = "running", !.run = run]]
           /\ gateways'[n] \in Gateway
           /\ IF files[gateways[n].dir][f] = None THEN run = NoTunnel
              ELSE /\ files[gateways[n].dir][f] \in Text
                   /\ run = RunWith(gateways[n], files[gateways[n].dir][f])
  BY <1>1, StartedGateway
<1>3. gateways'[n] = [gateways[n] EXCEPT !.state = "running", !.run = run]
  BY <1>1, <1>2 DEF TypeOK
<1>4. \A m \in Names : m # n => gateways'[m] = gateways[m]
  BY <1>2 DEF IKnown, IType, TypeOK
<1>5. ASSUME NEW m \in Names, gateways[m] # None
      PROVE  GatewayKnown(m)'
  <2>1. GatewayKnown(m) /\ gateways[m] \in Gateway /\ gateways[m].by \in Commands
    BY <1>5 DEF IKnown, IType, TypeOK, IGateways, Gateway
  <2>2. /\ gateways'[m].by = gateways[m].by
        /\ gateways'[m].dir = gateways[m].dir
        /\ gateways'[m].loads = gateways[m].loads
        /\ gateways'[m].args = gateways[m].args
        /\ gateways'[m].direct = gateways[m].direct
        /\ gateways'[m].routes = gateways[m].routes
    BY <1>3, <1>4, <2>1 DEF Gateway
  <2>3. cmds'[gateways[m].by].stage \in {"start", "done"} /\ Held(m, gateways[m].by)
    BY <2>1 DEF GatewayKnown, Held
  <2>. QED
    BY <1>5, <2>1, <2>2, <2>3, GatewayKept
<1>6. RunKnown(n)'
  <2> DEFINE g == gateways[n]
             b == gateways[n].by
  <2>1. GatewayKnown(n) /\ Same(b) /\ b \in Commands
    BY <1>1 DEF IKnown, IGateways
  <2>2. gateways'[n].run = run /\ gateways'[n].by = b
    BY <1>1, <1>3 DEF Gateway
  <2>3. \A t : RunWith(gateways'[n], t) = RunWith(g, t)
    <3>1. gateways'[n].args = g.args /\ gateways'[n].direct = g.direct
      BY <1>1, <1>3 DEF Gateway
    <3>. QED
      BY <3>1, RunWithSame
  <2>4. run = NoTunnel \/ \E t \in Text : run = RunWith(gateways'[n], t)
    BY <1>2, <2>3
  <2>5. ASSUME Split(b), Req(b).vpnFiles = None, owner[n] = b
        PROVE  run = RunWith(g, Patched(cmds[b].text))
    <3>1. /\ g.dir = n /\ g.loads = Req(b).file /\ Req(b).file \in Files
          /\ files[n][Req(b).file] = Patched(cmds[b].text) /\ cmds[b].text \in Text
      BY <2>1, <2>5 DEF GatewayKnown, CopyKnown, Loads
    <3>2. f = Req(b).file
      BY <1>2, <3>1, NamesAreManaged
    <3>3. files[g.dir][f] # None
      BY <3>1, <3>2, PatchedType, TextsType
    <3>. QED
      BY <1>2, <3>1, <3>2, <3>3
  <2>. QED
    BY <2>1, <2>2, <2>3, <2>4, <2>5 DEF RunKnown, Same, Split, Req
<1>7. ASSUME NEW m \in Names, m # n, gateways[m] # None, gateways[m].run # None
      PROVE  RunKnown(m)'
  <2>1. RunKnown(m) /\ gateways'[m] = gateways[m] /\ Same(gateways[m].by)
    BY <1>4, <1>7 DEF IKnown, IType, TypeOK, IRuns, Gateway
  <2>. QED
    BY <2>1 DEF RunKnown, Same, Split, Req
<1>. QED
  BY <1>4, <1>5, <1>6, <1>7 DEF IGateways, IRuns

-----------------------------------------------------------------------------
(* Every step keeps the invariant. *)

\* Initially nobody has asked for anything.
LEMMA InitKnown == Init => IKnown
<1>. SUFFICES ASSUME Init PROVE IKnown
  OBVIOUS
<1>1. \A i \in Commands : cmds[i] = NoCommand
  BY DEF Init
<1>2. TypeOK
  <2>1. files \in [Dirs -> [Files -> Text \cup {None}]]
    <3>1. PICK source \in [SourceDirs -> [Files -> Texts \cup {None}]] :
            files = [d \in Dirs |-> IF d \in SourceDirs THEN source[d] ELSE [f \in Files |-> None]]
      BY DEF Init
    <3>2. \A d \in SourceDirs : source[d] \in [Files -> Text \cup {None}]
      BY TextsType
    <3>. QED
      BY <3>1, <3>2
  <2>2. NoCommand \in Command
    BY DEF NoCommand, Command, Stages
  <2>3. cmds \in [Commands -> Command]
    BY <2>2 DEF Init
  <2>4. owner \in [Names -> 0..MaxCommands] /\ edits \in 0..MaxEdits
    BY MaxCommandsType, MaxEditsType DEF Init
  <2>. QED
    BY <2>1, <2>3, <2>4 DEF Init, TypeOK
<1>3. \A i \in Commands : cmds[i].stage = "new"
  BY <1>1 DEF NoCommand
<1>4. CommandsProper /\ ICopies
  BY <1>3 DEF CommandsProper, ICopies, At
<1>5. IGateways /\ IRuns
  BY DEF Init, IGateways, IRuns
<1>. QED
  BY <1>2, <1>4, <1>5 DEF IKnown, IType

\* The steps of the world keep the invariant.
LEMMA WorldStepKnown ==
  ASSUME IKnown,
         \/ \E n \in Names : Restart(n) \/ StartAgain(n) \/ Stop(n) \/ RemoveGateway(n)
         \/ \E d \in SourceDirs, f \in Files : Edit(d, f)
  PROVE  IKnown'
<1>1. IType'
  BY WorldStepType DEF IKnown
<1>2. UNCHANGED <<cmds, owner>> /\ \A n \in Names : files'[n] = files[n]
  <2>1. CASE \E n \in Names : Restart(n) \/ StartAgain(n) \/ Stop(n) \/ RemoveGateway(n)
    BY <2>1 DEF Restart, StartAgain, Stop, RemoveGateway
  <2>2. CASE \E d \in SourceDirs, f \in Files : Edit(d, f)
    BY <2>2, NamesAreManaged DEF Edit, IKnown, IType, TypeOK, Dirs
  <2>. QED
    BY <2>1, <2>2
<1>3. \A j \in Commands : Same(j) /\ \A n \in Names : Held(n, j)
  BY <1>2 DEF Same, Held
<1>4. ICopies'
  <2>1. ASSUME NEW j \in Commands, cmds[j].stage \in {"engine", "create", "start"}
        PROVE  CopyKnown(j)'
    <3>1. CopyKnown(j) /\ Req(j).name \in Names
      BY <2>1 DEF IKnown, IType, ICopies, CommandsProper, At, Request
    <3>. QED
      BY <1>3, <3>1, CopyKept
  <2>. QED
    BY <1>2, <2>1 DEF ICopies
<1>5. ASSUME NEW n \in Names, Restart(n) \/ StartAgain(n)
      PROVE  IGateways' /\ IRuns'
  BY <1>3, <1>5, StartKept DEF Restart, StartAgain
<1>6. ASSUME NEW n \in Names, Stop(n) \/ RemoveGateway(n)
      PROVE  IGateways' /\ IRuns'
  <2>1. \A m \in Names : m # n => gateways'[m] = gateways[m]
    BY <1>6 DEF Stop, RemoveGateway, IKnown, IType, TypeOK
  <2>2. gateways'[n] = None \/ gateways'[n] = [gateways[n] EXCEPT !.state = "stopped", !.run = None]
    BY <1>6 DEF Stop, RemoveGateway, IKnown, IType, TypeOK
  <2>3. gateways[n] \in Gateway
    BY <1>6 DEF Stop, RemoveGateway, IKnown, IType, TypeOK
  <2>4. ASSUME NEW m \in Names, gateways[m] # None, gateways'[m] # None
        PROVE  GatewayKnown(m)'
    <3>1. GatewayKnown(m) /\ gateways[m].by \in Commands
      BY <2>4 DEF IKnown, IType, TypeOK, IGateways, Gateway
    <3>2. /\ gateways'[m].by = gateways[m].by
          /\ gateways'[m].dir = gateways[m].dir
          /\ gateways'[m].loads = gateways[m].loads
          /\ gateways'[m].args = gateways[m].args
          /\ gateways'[m].direct = gateways[m].direct
          /\ gateways'[m].routes = gateways[m].routes
      <4>1. CASE m # n
        BY <2>1, <4>1
      <4>2. CASE m = n
        BY <2>2, <2>3, <2>4, <4>2 DEF Gateway
      <4>. QED
        BY <4>1, <4>2
    <3>3. cmds'[gateways[m].by].stage \in {"start", "done"}
      BY <1>2, <3>1 DEF GatewayKnown
    <3>. QED
      BY <1>3, <2>4, <3>1, <3>2, <3>3, GatewayKept
  <2>5. ASSUME NEW m \in Names, gateways'[m] # None, gateways'[m].run # None
        PROVE  RunKnown(m)'
    <3>1. m # n /\ gateways'[m] = gateways[m]
      BY <2>1, <2>2, <2>3, <2>5 DEF Gateway
    <3>2. RunKnown(m)
      BY <2>5, <3>1 DEF IKnown, IRuns
    <3>. QED
      BY <1>2, <3>1, <3>2 DEF RunKnown, Split, Req
  <2>6. \A m \in Names : gateways'[m] # None => gateways[m] # None
    BY <1>6, <2>1 DEF Stop, RemoveGateway
  <2>. QED
    BY <2>4, <2>5, <2>6 DEF IGateways, IRuns
<1>7. ASSUME NEW d \in SourceDirs, NEW f \in Files, Edit(d, f)
      PROVE  IGateways' /\ IRuns'
  <2>1. UNCHANGED <<cmds, gateways>>
    BY <1>7 DEF Edit
  <2>. QED
    BY <1>3, <2>1, GatewaysKept
<1>. QED
  BY <1>1, <1>4, <1>5, <1>6, <1>7 DEF IKnown

\* What a command writes to the managed directory is its own.
LEMMA OthersHeld ==
  ASSUME IKnown, NEW i \in Commands, CommandStep(i)
  PROVE  \A j \in Commands \ {i} : cmds'[j] = cmds[j] /\ Same(j) /\ \A n \in Names : Held(n, j)
<1>1. \A j \in Commands \ {i} : cmds'[j] = cmds[j]
  BY DEF CommandStep, Begin, Prepare, CopyFile, CopyEnds, Patch, CreateVPNGateway,
         CreateContainer, StartVPNGateway, Return, Goto, IKnown, IType, TypeOK
<1>2. \A n \in Names : owner'[n] = i \/ (owner'[n] = owner[n] /\ files'[n] = files[n])
  <2>1. CASE UNCHANGED <<files, owner>>
    BY <2>1
  <2>2. CASE CopyFile(i) /\ ~UNCHANGED <<files, owner>>
    <3> DEFINE f == Head(cmds[i].todo)
               t == files[Req(i).dir][f]
    <3>1. files' = [files EXCEPT ![Req(i).name][f] = t] /\ owner' = [owner EXCEPT ![Req(i).name] = i]
      BY <2>2 DEF CopyFile
    <3>. HIDE DEF f, t
    <3>. QED
      BY <3>1 DEF IKnown, IType, TypeOK, Dirs
  <2>3. CASE Patch(i)
    BY <2>3 DEF Patch, IKnown, IType, TypeOK, Dirs
  <2>. QED
    BY <2>1, <2>2, <2>3 DEF CommandStep, Begin, Prepare, CopyEnds, CreateVPNGateway,
                           CreateContainer, StartVPNGateway, Return
<1>. QED
  BY <1>1, <1>2 DEF Same, Held

\* The steps of commands keep the invariant.
LEMMA CommandStepKnown ==
  ASSUME IKnown, NEW i \in Commands, CommandStep(i)
  PROVE  IKnown'
<1>1. IType' /\ TypeOK /\ cmds[i] \in Command
  BY CommandStepType DEF IKnown, IType, TypeOK
<1>2. \A j \in Commands \ {i} : cmds'[j] = cmds[j] /\ Same(j) /\ \A n \in Names : Held(n, j)
  BY OthersHeld
<1>3. ASSUME cmds[i].stage \notin {"start", "done"}, UNCHANGED gateways
      PROVE  IGateways' /\ IRuns'
  BY <1>2, <1>3, GatewaysKept
<1>4. ASSUME cmds'[i].stage \notin {"engine", "create", "start"}
      PROVE  ICopies'
  BY <1>2, <1>4, CopiesKept
<1>5. CASE Begin(i)
  <2>1. PICK r \in Asked :
          cmds' = [cmds EXCEPT ![i].req = r,
                               ![i].stage = IF r.mode = "split" THEN "prepare" ELSE "engine"]
    BY <1>5 DEF Begin
  <2>2. cmds'[i].req = r /\ (cmds'[i].stage = IF r.mode = "split" THEN "prepare" ELSE "engine")
    BY <1>1, <2>1 DEF TypeOK, Command
  <2>3. cmds'[i].stage = "engine" => CopyKnown(i)'
    BY <2>2 DEF CopyKnown, Split, Req
  <2>4. ICopies'
    BY <1>2, <2>2, <2>3, CopiesKept
  <2>. QED
    BY <1>1, <1>3, <1>5, <2>4 DEF Begin, At, IKnown
<1>6. CASE Prepare(i)
  <2>1. cmds'[i].stage \in {"patch", "copy"}
    BY <1>1, <1>6 DEF Prepare, TypeOK, Command
  <2>. QED
    BY <1>1, <1>3, <1>4, <1>6, <2>1 DEF Prepare, At, IKnown
<1>7. CASE CopyFile(i)
  <2>1. cmds'[i].stage = "copy"
    BY <1>1, <1>7 DEF CopyFile, At, TypeOK, Command
  <2>. QED
    BY <1>1, <1>3, <1>4, <1>7, <2>1 DEF CopyFile, At, IKnown
<1>8. CASE CopyEnds(i)
  <2>1. cmds'[i].stage = "patch"
    BY <1>1, <1>8 DEF CopyEnds, Goto, TypeOK, Command
  <2>. QED
    BY <1>1, <1>3, <1>4, <1>8, <2>1 DEF CopyEnds, At, IKnown
<1>9. CASE Patch(i)
  <2>1. /\ Req(i) \in Request /\ Req(i).name \in Names /\ Req(i).name \in Dirs
        /\ cmds[i].text \in Text /\ Req(i).file \in Files
    BY <1>9 DEF Patch, IKnown, IType, CommandsProper, At, Request, Dirs
  <2>2. cmds'[i] = [cmds[i] EXCEPT !.stage = "engine",
                     !.req = [Req(i) EXCEPT !.dir = Req(i).name],
                     !.routes = cmds[i].text.routes]
    BY <1>1, <1>9, <2>1 DEF Patch, Req, TypeOK, Command
  <2>3. Req(i)' = [Req(i) EXCEPT !.dir = Req(i).name] /\ cmds'[i].text = cmds[i].text
        /\ cmds'[i].routes = cmds[i].text.routes /\ cmds'[i].stage = "engine"
    BY <1>1, <2>2 DEF Req, Command
  <2>4. files'[Req(i).name][Req(i).file] = Patched(cmds[i].text)
    BY <1>1, <1>9, <2>1 DEF Patch, TypeOK
  <2>5. CopyKnown(i)'
    BY <2>1, <2>3, <2>4 DEF CopyKnown, Request, Req
  <2>6. ICopies'
    BY <1>2, <2>5, CopiesKept
  <2>. QED
    BY <1>1, <1>3, <1>9, <2>6 DEF Patch, At, IKnown
<1>10. CASE CreateVPNGateway(i)
  <2>1. /\ cmds'[i].req = cmds[i].req /\ cmds'[i].text = cmds[i].text
        /\ cmds'[i].routes = EngineRoutes(i)
    BY <1>1, <1>10 DEF CreateVPNGateway, TypeOK, Command
  <2>2. CopyKnown(i)
    BY <1>10 DEF CreateVPNGateway, At, IKnown, ICopies
  <2>3. CopyKnown(i)'
    <3>1. ASSUME Split(i), owner[Req(i).name] = i
          PROVE  EngineRoutes(i) = cmds[i].text.routes
      <4>1. /\ Config(Req(i)) = Patched(cmds[i].text) /\ cmds[i].text \in Text
            /\ cmds[i].routes = cmds[i].text.routes
        BY <2>2, <3>1, NamesAreManaged DEF CopyKnown, Config
      <4>2. Config(Req(i)).routes = cmds[i].text.routes
        BY <4>1, PatchedType
      <4>. QED
        BY <4>1, <4>2 DEF EngineRoutes
    <3>2. UNCHANGED <<files, owner>>
      BY <1>10 DEF CreateVPNGateway
    <3>. QED
      BY <2>1, <2>2, <3>1, <3>2 DEF CopyKnown, Split, Req
  <2>4. ICopies'
    BY <1>2, <2>3, CopiesKept
  <2>. QED
    BY <1>1, <1>3, <1>10, <2>4 DEF CreateVPNGateway, At, IKnown
<1>11. CASE CreateContainer(i)
  <2>1. Req(i) \in Request /\ Req(i).name \in Names /\ CopyKnown(i)
    BY <1>11 DEF CreateContainer, IKnown, IType, CommandsProper, ICopies, At, Request
  <2>2. Same(i) /\ cmds'[i].stage = "start" /\ UNCHANGED <<files, owner>>
    BY <1>1, <1>11 DEF CreateContainer, Goto, Same, TypeOK, Command
  <2>3. CopyKnown(i)'
    BY <2>1, <2>2, CopyKept DEF Held
  <2>4. ICopies'
    BY <1>2, <2>3, CopiesKept
  <2>5. PICK m \in Names : m = Req(i).name
    BY <2>1
  <2>6. gateways'[m] = NewGateway(i) /\ \A n \in Names : n # m => gateways'[n] = gateways[n]
    BY <1>1, <1>11, <2>5 DEF CreateContainer, TypeOK
  <2>7. GatewayKnown(m)'
    BY <2>2, <2>3, <2>5, <2>6 DEF GatewayKnown, NewGateway, Options, Same, Req, Split
  <2>8. gateways'[m].run = None
    BY <2>6 DEF NewGateway
  <2>9. ASSUME NEW n \in Names, n # m, gateways[n] # None
        PROVE  GatewayKnown(n)' /\ (gateways[n].run # None => RunKnown(n)')
    <3>1. GatewayKnown(n) /\ gateways[n].by \in Commands /\ gateways'[n] = gateways[n]
      BY <1>1, <2>6, <2>9 DEF IKnown, TypeOK, IGateways, Gateway
    <3>2. gateways[n].by # i
      BY <1>11, <3>1 DEF GatewayKnown, CreateContainer, At
    <3>3. /\ Same(gateways[n].by) /\ Held(n, gateways[n].by)
          /\ cmds'[gateways[n].by].stage \in {"start", "done"}
      BY <1>2, <3>1, <3>2 DEF GatewayKnown
    <3>4. GatewayKnown(n)'
      BY <2>9, <3>1, <3>3, GatewayKept
    <3>5. ASSUME gateways[n].run # None
          PROVE  RunKnown(n)'
      <4>1. RunKnown(n)
        BY <2>9, <3>5 DEF IKnown, IRuns
      <4>. QED
        BY <2>2, <3>1, <3>3, <4>1 DEF RunKnown, Same, Split, Req
    <3>. QED
      BY <3>4, <3>5
  <2>10. IGateways'
    BY <2>6, <2>7, <2>9 DEF IGateways
  <2>11. IRuns'
    BY <2>6, <2>8, <2>9 DEF IRuns
  <2>. QED
    BY <1>1, <2>4, <2>10, <2>11 DEF IKnown
<1>12. CASE StartVPNGateway(i)
  <2>1. Same(i) /\ cmds'[i].stage = "done" /\ UNCHANGED <<files, owner>>
    BY <1>1, <1>12 DEF StartVPNGateway, Goto, Same, TypeOK, Command
  <2>2. \A j \in Commands : Same(j) /\ \A n \in Names : Held(n, j)
    BY <1>2, <2>1 DEF Held
  <2>3. \A j \in Commands : cmds[j].stage \in {"start", "done"} => cmds'[j].stage \in {"start", "done"}
    BY <1>2, <2>1
  <2>4. Req(i).name \in Names
    BY <1>12 DEF StartVPNGateway, IKnown, IType, CommandsProper, At, Request
  <2>5. IGateways' /\ IRuns'
    <3>1. CASE UNCHANGED gateways
      BY <2>2, <2>3, <3>1, GatewaysKept
    <3>2. CASE Starts(Req(i).name)
      BY <1>12, <2>1, <2>2, <2>3, <2>4, <3>2, StartKept DEF StartVPNGateway
    <3>. QED
      BY <1>12, <3>1, <3>2 DEF StartVPNGateway
  <2>. QED
    BY <1>1, <1>4, <2>1, <2>5 DEF IKnown
<1>13. CASE Return(i)
  <2>1. Same(i) /\ cmds'[i].stage = "done" /\ UNCHANGED <<files, owner, gateways>>
    BY <1>1, <1>13 DEF Return, Goto, Same, TypeOK, Command
  <2>2. \A j \in Commands : Same(j) /\ \A n \in Names : Held(n, j)
    BY <1>2, <2>1 DEF Held
  <2>3. IGateways' /\ IRuns'
    BY <1>2, <2>1, <2>2, GatewaysKept
  <2>. QED
    BY <1>1, <1>4, <2>1, <2>3 DEF IKnown
<1>. QED
  BY <1>5, <1>6, <1>7, <1>8, <1>9, <1>10, <1>11, <1>12, <1>13 DEF CommandStep

-----------------------------------------------------------------------------
(* What split mode promises. *)

\* The invariant: a command that has patched its copy, a gateway that it made and
\* what the gateway runs go together, until someone else writes to the directory.
THEOREM KnowledgeCorrect == Spec => []IKnown
<1>1. Init => IKnown
  BY InitKnown
<1>2. IKnown /\ [Next]_vars => IKnown'
  <2>1. ASSUME IKnown, Next
        PROVE  IKnown'
    BY <2>1, CommandStepKnown, WorldStepKnown DEF Next
  <2>2. ASSUME IKnown, UNCHANGED vars
        PROVE  IKnown'
    BY <2>2 DEF vars, IKnown, IType, TypeOK, CommandsProper, ICopies, IGateways, IRuns,
                GatewayKnown, RunKnown, CopyKnown, At, Req, Split
  <2>. QED
    BY <2>1, <2>2
<1>. QED
  BY <1>1, <1>2, PTL DEF Spec

\* Every variable holds a value of its kind.
THEOREM TypeCorrect == Spec => []TypeOK
<1>1. IKnown => TypeOK
  BY DEF IKnown, IType
<1>. QED
  BY <1>1, KnowledgeCorrect, PTL

\* A gateway that runs its config runs the patched text of it.
LEMMA RunsPatched ==
  ASSUME IKnown, NEW n \in Names, RunsItsConfig(n), Untouched(n)
  PROVE  \E t \in Text :
           /\ gateways[n].run = RunWith(gateways[n], Patched(t))
           /\ gateways[n].routes = t.routes
           /\ gateways[n].direct = FALSE
<1> DEFINE b == gateways[n].by
<1>1. /\ gateways[n] # None /\ Split(b) /\ gateways[n].run # None
      /\ Req(b).vpnFiles = None /\ ~Req(b).gateway /\ owner[n] = b
  BY DEF RunsItsConfig, SplitGateway, AskedFor, Untouched, Split, Req
<1>2. GatewayKnown(n) /\ RunKnown(n)
  BY <1>1 DEF IKnown, IGateways, IRuns
<1>3. /\ gateways[n].run = RunWith(gateways[n], Patched(cmds[b].text))
      /\ cmds[b].text \in Text
      /\ gateways[n].routes = cmds[b].text.routes
  BY <1>1, <1>2 DEF GatewayKnown, RunKnown, CopyKnown
<1>4. gateways[n].direct = FALSE
  BY <1>1, <1>2 DEF GatewayKnown
<1>. QED
  BY <1>3, <1>4

\* A split gateway takes no default route from the config it was made with, however
\* commands for it interleave and whenever it is restarted.
THEOREM SplitCorrect == Spec => []SplitTakesNoDefault
<1>1. ASSUME IKnown, NEW n \in Names, RunsItsConfig(n), Untouched(n)
      PROVE  gateways[n].run.up /\ gateways[n].run.default = {}
  <2>1. PICK t \in Text :
          /\ gateways[n].run = RunWith(gateways[n], Patched(t))
          /\ gateways[n].direct = FALSE
    BY <1>1, RunsPatched
  <2>2. Patched(t).filter /\ ~Patched(t).redirect /\ ~Patched(t).hook
    BY PatchedType
  <2>3. gateways[n].run.up
    <3>1. gateways[n].run.up = ~Patched(t).hook
      BY <2>1 DEF RunWith
    <3>. QED
      BY <2>2, <3>1
  <2>4. gateways[n].run.default = {}
    BY <2>1, <2>2 DEF RunWith
  <2>. QED
    BY <2>3, <2>4
<1>2. IKnown => SplitTakesNoDefault
  BY <1>1 DEF SplitTakesNoDefault
<1>. QED
  BY <1>2, KnowledgeCorrect, PTL

\* The routes on the label of a gateway are the ones that it has.
THEOREM RoutesCorrect == Spec => []RoutesAreShown
<1>1. ASSUME IKnown, NEW n \in Names, RunsItsConfig(n), Untouched(n)
      PROVE  /\ gateways[n].run.routes \ {Pushed} = gateways[n].routes
             /\ gateways[n].routes # {} => Pushed \notin gateways[n].run.routes
  <2>1. PICK t \in Text :
          /\ gateways[n].run = RunWith(gateways[n], Patched(t))
          /\ gateways[n].routes = t.routes
    BY <1>1, RunsPatched
  <2>2. Patched(t).routes = t.routes /\ (t.routes # {} => Patched(t).nopull)
    BY PatchedType
  <2>3. Pushed \notin t.routes
    BY PushedIsServers DEF Text
  <2>4. t.routes # {} => gateways[n].run.routes = t.routes
    BY <2>1, <2>2 DEF RunWith
  <2>5. gateways[n].run.routes \in {t.routes, t.routes \cup {Pushed}}
    BY <2>1, <2>2 DEF RunWith
  <2>. QED
    BY <2>1, <2>3, <2>4, <2>5
<1>2. IKnown => RoutesAreShown
  BY <1>1 DEF RoutesAreShown
<1>. QED
  BY <1>2, KnowledgeCorrect, PTL

\* The one OTHER_ARGS that counts has the filter.
LEMMA FilterIsLast ==
  ASSUME NEW args \in Seq(SUBSET {NoPull, Filter}), Len(args) <= 1,
         NEW add \in SUBSET {NoPull, Filter}, Filter \in add
  PROVE  /\ UpsertOpenVPNArgs(args, add) # <<>>
         /\ Filter \in Last(UpsertOpenVPNArgs(args, add))
<1>1. CASE args = <<>>
  BY <1>1 DEF UpsertOpenVPNArgs, Last
<1>2. CASE args # <<>>
  <2> DEFINE S == SUBSET {NoPull, Filter}
             s == [args EXCEPT ![1] = @ \cup add]
  <2>1. args \in Seq(S) /\ add \in S
    OBVIOUS
  <2>2. \A e \in S : e \cup add \in S
    OBVIOUS
  <2>3. s \in Seq(S) /\ Len(s) = 1 /\ s[1] = args[1] \cup add
    <3>. HIDE DEF S
    <3>. HIDE DEF s
    <3>1. Len(args) = 1
      <4> DEFINE k == Len(args)
      <4>1. k \in Nat \ {0}
        BY <1>2, <2>1, EmptySeq
      <4>2. k <= 1
        OBVIOUS
      <4>3. \A m \in Nat \ {0} : m <= 1 => m = 1
        OBVIOUS
      <4>. HIDE DEF k
      <4>4. k = 1
        BY <4>1, <4>2, <4>3
      <4>. QED
        BY <4>4 DEF k
    <3>2. 1 \in DOMAIN args /\ args[1] \in S
      BY <2>1, <3>1, LenProperties, ElementOfSeq
    <3>. QED
      BY <2>1, <2>2, <3>1, <3>2 DEF s
  <2>. QED
    BY <1>2, <2>3 DEF UpsertOpenVPNArgs, Last
<1>. QED
  BY <1>1, <1>2

\* The default route that a server pushes is refused whatever file is read.
THEOREM PushedCorrect == Spec => []PushedDefaultIsRefused
<1>1. ASSUME IKnown, NEW n \in Names, SplitGateway(n), gateways[n].run # None,
             Len(AskedFor(n).args) <= 1
      PROVE  "server" \notin gateways[n].run.default
  <2> DEFINE b == gateways[n].by
             add == Options(cmds[b].routes)
  <2>1. gateways[n] # None /\ Split(b) /\ Len(Req(b).args) <= 1
    BY <1>1 DEF SplitGateway, AskedFor, Split, Req
  <2>2. GatewayKnown(n) /\ RunKnown(n) /\ b \in Commands
    BY <1>1, <2>1 DEF IKnown, IType, TypeOK, IGateways, IRuns, Gateway
  <2>3. Req(b).args \in Seq(SUBSET {NoPull, Filter})
    BY <1>1, <2>2 DEF IKnown, IType, CommandsProper, GatewayKnown, At, Request
  <2>4. add \in SUBSET {NoPull, Filter} /\ Filter \in add
    BY DEF Options
  <2>5. gateways[n].args # <<>> /\ Filter \in Last(gateways[n].args)
    <3>1. gateways[n].args = UpsertOpenVPNArgs(Req(b).args, add)
      BY <2>1, <2>2 DEF GatewayKnown
    <3>. HIDE DEF add, b
    <3>. QED
      BY <2>1, <2>3, <2>4, <3>1, FilterIsLast
  <2>6. CASE gateways[n].run = NoTunnel
    BY <2>6 DEF NoTunnel
  <2>7. ASSUME NEW t \in Text, gateways[n].run = RunWith(gateways[n], t)
        PROVE  "server" \notin gateways[n].run.default
    BY <2>5, <2>7 DEF RunWith
  <2>. QED
    BY <2>2, <2>6, <2>7 DEF RunKnown
<1>2. IKnown => PushedDefaultIsRefused
  BY <1>1 DEF PushedDefaultIsRefused
<1>. QED
  BY <1>2, KnowledgeCorrect, PTL

=============================================================================
