----------------------------- MODULE MCRequests -----------------------------
(***************************************************************************)
(* Instance of Requests for TLC: families of command lines, each about one *)
(* part of the request, with profiles that touch the same part.            *)
(***************************************************************************)
EXTENDS Requests

CONSTANT Absent    \* a flag that is not given

\* The command lines that take their flags from the choices; what a choice does not
\* name is not given.
Lines(profiles, choices) ==
  {[command |-> "env", profile |-> p,
    envFiles |-> IF "files" \in DOMAIN c THEN c.files ELSE <<>>,
    given   |-> {x \in DOMAIN c \ (Lists \cup {"files"}) : c[x] # Absent},
    values  |-> [x \in Fields |-> IF x \in DOMAIN c /\ c[x] # Absent THEN c[x]
                                ELSE DefaultRequest[x]]] :
     p \in profiles, c \in choices}

\* Everything that is said anywhere.
MCText ==
  {AnyAddress, DefaultImage, DesktopImage, DefaultMount, DefaultKey, DefaultPort, Local,
   "lab", "contaigen-lab", "workspace", "mesh", "net-app", "corp", "box", "localhost", "6902",
   "secret", "mine", "8080", "80", "7000", "LANG", "PW", "fr", "it", "C", "de", "en", "p",
   "tools", "notes", "/opt", "shop", "nginx", "./shop.yaml", "kali", "./kali.yaml", "other",
   "db", "no name", "db.local", "serve", "run", "market", "market.local", "juice", "own",
   "service"} \cup Networks

MCPathLike    == [profile |-> {"./kali.yaml"}, service |-> {"./shop.yaml"}]
MCDerivedName ==
  [image \in Given |-> IF image \in {"shop", "nginx", "juice"} THEN image ELSE "service"]

Mount(source, target) == [source |-> source, target |-> target]
Var(key, value)       == [key |-> key, value |-> value]

\* Network, gateway, hostname and image.
NetworkLines ==
  [network : {Absent, None, "vpn", "segment", "isolated", "mesh"},
   networkName : {Absent, "net-app"},
   vpn : {Absent, None, "corp"}, hostname : {Absent, "box"}, image : {Absent, DefaultImage},
   deskOn : {Absent, TRUE}]

\* The desktop: on the bridge or on the gateway, with ports of its own.
DesktopLines ==
  [vpn : {Absent, "corp"}, deskOn : {Absent, FALSE}, deskIP : {Absent, AnyAddress, "localhost"},
   deskPort : {Absent, "6902"}, password : {Absent, None, "secret"},
   env : {<<>>, <<Var("VNC_PW", "mine")>>, <<Var("VNC_PW", None)>>},
   ports : {<<>>, <<Port(None, "8080", "6901", "tcp")>>, <<Port(None, "6901", "6901", "udp")>>}]

EnvFileLists ==
  {<<>>, <<[ok |-> FALSE, env |-> <<>>]>>,
   <<[ok |-> TRUE, env |-> <<Var("LANG", "fr"), Var("PW", "p")>>],
     [ok |-> TRUE, env |-> <<Var("LANG", "it")>>]>>}

\* Lists and mounts.
ListLines ==
  [env : {<<Var("LANG", "C"), Var("LANG", "de")>>, <<Var("VNC_PW", "mine")>>},
   files : EnvFileLists,
   ports : {<<>>, <<Port(Local, "8080", "80", "tcp")>>},
   volumes : {<<>>, <<Mount("tools", DefaultMount)>>, <<Mount("tools", "/opt")>>},
   wsMount : {Absent, None, "/opt"}, wsName : {Absent, "mine"}, noWs : {Absent, TRUE},
   start : {Absent, FALSE}]

\* service add, of a template or an image.
ServiceLines ==
  {[command |-> "service", profile |-> p, envFiles |-> fs, given |-> g, values |-> v] :
     p \in {"shop", "nginx", "./shop.yaml", None}, fs \in EnvFileLists,
     g \in SUBSET {"name", "alias", "start"},
     v \in {[name |-> n, alias |-> a, image |-> None, start |-> FALSE, command |-> c,
             env |-> <<Var("LANG", "C")>>, ports |-> <<Port(ip, "80", "80", None)>>,
             volumes |-> <<>>] :
               n \in {None, "db", "no name"}, a \in {None, "db.local"},
               c \in {<<>>, <<"serve">>}, ip \in {None, "localhost"}}}

MCFlags ==
  ServiceLines \cup
  Lines({None, "kali", "./kali.yaml"}, NetworkLines)
    \cup Lines({None, "kali"}, DesktopLines) \cup Lines({"kali"}, ListLines)

\* A profile that sets nothing but what is needed.
Spec0 == [x \in Fields |->
            IF x \in Lists THEN <<>> ELSE IF x \in {"deskOn", "noWs"} THEN FALSE
            ELSE IF x = "image" THEN "own" ELSE None]

Doc(spec) == [source |-> "file", kind |-> "profile", name |-> "kali", ok |-> TRUE,
              spec |-> spec]

Desk == [Spec0 EXCEPT !.deskOn = TRUE, !.network = "bridge"]
Vpn  == [Spec0 EXCEPT !.network = "vpn", !.networkName = "corp", !.start = FALSE]
Rich == [Spec0 EXCEPT !.deskOn = TRUE, !.passwordEnv = "PW", !.deskPort = "6902",
                      !.networkName = "net-app", !.env = <<Var("LANG", "en"), Var("PW", "p")>>,
                      !.ports = <<Port(AnyAddress, "7000", "6901", None)>>,
                      !.volumes = <<Mount("notes", "/opt")>>]

\* Service templates: one that says all, and one that leaves its name open.
Shop(spec) == [source |-> "file", kind |-> "service", name |-> "shop", ok |-> TRUE,
               spec |-> spec]
Bare == [name |-> None, alias |-> None, image |-> "juice", start |-> None, command |-> <<>>,
         env |-> <<>>, ports |-> <<>>, volumes |-> <<>>]
Full == [Bare EXCEPT !.name = "market", !.alias = "market.local", !.start = FALSE,
                     !.command = <<"run">>, !.env = <<Var("LANG", "en")>>,
                     !.volumes = <<Mount("notes", "/opt")>>]

\* A file in the template directory is met by both kinds of lookup.
Library(user, services, file, service) ==
  [files |-> [ref \in Text |-> CASE ref = "./kali.yaml" -> file
                                [] ref \in {"nginx", "./shop.yaml"} -> service
                                [] OTHER -> None],
   user |-> [profile |-> user, service |-> services],
   builtin |-> {[d EXCEPT !.source = "built-in"] : d \in {Doc(Desk), Shop(Bare)}}]

MCLibraries ==
  LET broken == [Shop(Bare) EXCEPT !.kind = None, !.name = None, !.ok = FALSE]
      bad(d) == [d EXCEPT !.ok = FALSE]
  IN {Library(<<>>, <<>>, Doc(Vpn), Shop(Full)),
      Library(<<Shop(Full), Doc(Rich)>>, <<Shop(Full), Doc(Rich)>>, None, None),
      Library(<<[Doc(Vpn) EXCEPT !.name = "other"], Doc(Vpn)>>, <<broken>>,
              bad(Doc(Vpn)), Doc(Vpn)),
      Library(<<Doc(Rich), bad(Doc(Vpn))>>, <<Shop(Full), Shop(Bare)>>, Doc(Rich), bad(Shop(Full)))}

\* --port 6902:6901, --vnc 6901, and --vnc that --port stands for.
MCGatewayRequests ==
  {[ports |-> <<Port(None, "6902", "6901", "tcp")>>, vnc |-> <<>>],
   [ports |-> <<>>, vnc |-> <<[ip |-> None, host |-> None, cont |-> "6901"]>>],
   [ports |-> <<Port(AnyAddress, "6901", "6901", None)>>,
    vnc |-> <<[ip |-> None, host |-> None, cont |-> "6901"],
              [ip |-> AnyAddress, host |-> "6902", cont |-> "6901"]>>]}

=============================================================================
