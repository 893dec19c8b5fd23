# Contaigen in TLA+

Contaigen is a command-line program that keeps security work in Docker: workbench
containers ("environments"), service containers beside them, VPN gateways whose
network they share, user-defined networks, and host directories ("workspaces").
It has no daemon, no lock and no database. Every command is a process that reads
Docker's labels, decides, and calls Docker again; whatever other terminals, docker
compose, workbenches and the user do in between is seen or missed depending on
where the calls fall. This directory models that, checks it with TLC on small
instances, and proves with TLAPS, for every size, all of what the runs check but liveness.

To check: `tlc -config <Run>.cfg <module of the run>`; to prove: `tlapm <Module>Proofs.tla`.
`PROJECT.json` lists runs, the source lines of each definition, the mutants that
show what each property catches, the hazards, the findings and the theorems.

## 1. The system

| Component (under `src/internal`) | State | Operations | Talks to |
|---|---|---|---|
| `engine` | none of its own; each call's local variables | create/start/stop/remove environment, service, gateway; ensure network; compose networks; nuke | dockerx, workspace, templates |
| `dockerx` | none; the daemon's containers and networks | find by label, act by ID; EnsureNetwork; pull images | Docker daemon |
| `workspace` | directories with a metadata file; archives | create, ensure, list, inspect, remove, backup, restore | file system |
| encrypted archives (`workspace/store.go` 689-929) | writer: buffer, nonce counter; reader: counter | Write, Close, Read | archive/tar, crypto/aes |
| `cli` | flags, prompts | one command per operation; nuke's confirmation | engine, templates, vpnconfig |
| `composex` | none | docker compose up/down with an override file | docker CLI |
| `templates` | YAML files: the user's, built-in ones | find a profile or a service template, lay it over a request | file system |
| `vpnconfig` | the user's .ovpn directories, a managed copy per gateway | read, copy and patch a config for split mode | file system; the gateway's container mounts the copy |
| `progress`, `cli/status` | the spinner and its lock | report, fail, close | a goroutine and a ticker |
| `config`, `logging`, `doctor`, `version` | none | paths, output | - |

What is hard:

- *Interleaving*: a lookup by label and the call by ID that follows are two calls.
  EnsureNetwork inspects and then creates. Two creates of one name both find nothing.
- *Stale state*: a service's network comes from a label written when the environment
  was created. Nuke plans twice, before and after a prompt.
- *Partial failure*: any call can fail, and nothing is rolled back; nuke carries on
  after every error. Backups fail half-written.
- *Ordering*: a network goes only after what runs on it. Defaults, profile and flags
  are laid over one another in an order that decides who wins.
- *Shared files*: the copy that a gateway has mounted is written by whichever
  `vpn create` names it, before anyone asks whether the name is free; the daemon
  restarts the gateway on it at any moment.
- *Boundaries*: archives named to the second; nonces of records counted by the
  writer; ports.

What makes each part correct: a ref (kind, environment, name) has one container at a
time; a command changes only what its request names; a workbench's own network is one
of Contaigen's; nuke removes nothing that is not managed and no workspace whose backup
failed, takes things in an order in which they can go, reports what stays, and ends; what
is backed up can be restored as it was, or is refused; flags win over profiles, in the
container and not only in the request, except where the code lets something else win (§3
names it); the desktop that is printed is the one that can be reached; a gateway in split
mode takes no default route.

## 2. The modules

| Module | Models | Rests on |
|---|---|---|
| `Labels` | names, refs, network modes (`model/labels.go`, `model/network.go`) | - |
| `Docker` | the daemon: containers, networks, one operator per API call | `Labels` |
| `Workspaces` | directories with metadata (`workspace/store.go`) | `Labels` |
| `Inventory` | the abstract promise: one container per ref | - |
| `Commands` | every command but nuke, by any number of terminals (`engine`, `dockerx`, `composex`) | `Docker`, `Workspaces` |
| `CommandsProofs` | theorems about `Commands`, and that it implements `Inventory` | `Commands` |
| `Nuke` | the nuke command beside all the others (`cli/nuke.go`, `Engine.Nuke`, `Store.Backup`) | `Commands` |
| `NukeProofs` | theorems about `Nuke`, with those about `Commands` beside it | `Nuke`, `CommandsProofs` |
| `Requests` | from command line, env files and template to the container, and what is read back from it (`cli/env.go`, `cli/service.go`, `templates/store.go`, `engine`) | - |
| `RequestsProofs` | theorems about `Requests` | `Requests` |
| `GatewayConfig` | the config files of a gateway, from `vpn create` to the running process (`cli/vpn.go`, `vpnconfig/ovpn.go`, `engine`) | - |
| `GatewayConfigProofs` | theorems about `GatewayConfig` | `GatewayConfig` |
| `WorkspaceStore` | create, backup, restore and remove by system calls (`workspace/store.go`) | - |
| `WorkspaceStoreProofs` | theorems about `WorkspaceStore` | `WorkspaceStore` |
| `SealedBackup` | the encrypted archive: writer, file, reader (`workspace/store.go`) | - |
| `SealedBackupProofs` | theorems about `SealedBackup` | `SealedBackup` |
| `StatusDisplay` | the status line, its mutex and its spinner (`cli/status.go`) | - |
| `PullProgress` | the progress of a pull, on that display (`dockerx/client.go`, `engine`) | `StatusDisplay` |
| `PullProgressProofs` | theorems about `PullProgress`, with the display it runs on | `PullProgress` |
| `MCCommands`, `MCNuke`, `MCWorkspaceStore`, `MCRequests`, `MCGatewayConfig` | instances for TLC | their modules |

### Docker and Workspaces

`Docker` is external code, modelled from the calls in `dockerx`. Each call is atomic.
IDs are never given twice, and names are unique among live containers and among live
networks. A container keeps the state, name, managed label, ref, network label,
network mode and mount, because the code decides from these and from nothing else. A
mode is a built-in one (`bridge`, `host`, `none`), the name of a user-defined network,
or a container's name standing for `container:<name>`. Starting needs the network, or
the running gateway (`CanJoin`); removing a network needs nobody running on it.

`Workspaces` keeps what each path holds: existence, the name in its metadata file,
and a version of its content. Its operations are atomic here: what lies between the
system calls of one operation is the subject of `WorkspaceStore`.

### Commands

`cmds[p]` is the command that terminal `p` runs: where it is (`pc`), its request, the
object it found, and the mode, label and mount it has decided on. One action is one
Docker or workspace call with what the code computes from the answer. The guard is
the answer on which the code goes on; for every other answer the code returns the
error and undoes nothing, which is `Return` (always enabled, so that it also stands for
refusals, interrupts and failed image pulls).

| Code | Actions |
|---|---|
| `CreateEnvironment` | `Begin`, a profile action (`BuiltinProfile`, `SegmentProfile`, `VPNProfile`), `ReuseNetwork`/`MissNetwork`/`CreateNetwork`/`ReadNetwork`, `SkipWorkspace`/`ReuseWorkspace`/`MissWorkspace`/`MakeWorkspace`, `FindNone`, `CreateContainer`, `InspectCreated`, then `FindToStart`, `Start`, `InspectStarted` if it is to be started |
| `CreateService`, compose | `InspectEnvironment`, then as above, or `ComposeUp`, `ComposeDown` |
| `CreateVPNGateway` | `FindNone`, `CreateContainer`, ... |
| start, stop, rm of any kind | `FindToStart`/`Start`, `FindToStop`/`Stop`, `FindToRm`/`Remove` |
| `EnsureNetwork` of `net create` | `ReuseNetwork`, `MissNetwork`, `CreateNetwork`, `ReadNetwork` |

`InspectEnvironment` makes one step of a list and an inspect: the labels and the mode
it reads never change in a container's life. `ComposeUp` and `ComposeDown` make one
step of what docker compose does to one service: it looks at names and its own
labels, never at Contaigen's.

The world's actions: a container's process ends (`Exit`; the daemon restarts a
gateway's by its restart policy), other tools make containers and networks
(`ForeignContainer`, `ForeignNetwork`), the user removes any container
(`ForeignRemoval`), a workbench writes (`Workbench`). The user does not remove managed
networks behind Contaigen's back in this module; in `Nuke` they do.

### Nuke

`nuke` holds the whole command: five lists, the prompt, five lists again, backups, and
for each container a lookup, a stop, a lookup and a removal; then networks, then
workspaces. With `Faults`, every call may also fail for no reason. The order within a
kind is left open (the code sorts by name), and a backup reads the directory at one
moment. `quiet` is a history variable: nothing else has happened since the second
listing began. `archives` is the backup directory, one file per name and second.
`Others` is every step of `Commands`, and `docker network rm`.

### Requests

One command, `env create` or `service add`, whose `stage` follows the calls of the code,
and beside it another terminal that may replace the VPN gateway (`ReplaceGateway`)
between the moment the command looks at it and the moment it uses it.

| Code | Actions |
|---|---|
| `parseEnvFiles`, then the template of the command line: a file, a user template, a built-in one | `SkipProfile`, `LoadProfile`, `ProfileRefused`; `LoadService`, `ServiceFromImage`, `TemplateRefused` |
| `applyEnvCreateFlagOverrides`, `applyServiceAddFlagOverrides` | `Override`, `OverrideService` |
| normalise and validate | `Validate`, `ValidateService` |
| `applyDesktop`, `applyNetworkProfile`, `attachWorkspace` | `ApplyDesktop`, `PlainNetwork`/`VPNNetwork`, `AttachWorkspace` |
| the container; what `env info` reads back | `CreateContainer`, `CreateService`, `InspectEnvironment` |

A request is a record with the fields of the code's; a command line has the set of
flags that were given, so that a flag given as empty differs from one that is not. YAML
is reduced to whether a file parses, of which kind and name it is, and its fields; an
env file to its entries or that it is refused; names, images, addresses and values of
variables are members of `Text`, of which some are no addresses (`Addresses`) or no names
(`BadNames`), and `Generated` is a password that nobody gave. `EnvSpec` and `ServiceSpec`
are the requests there can be, and the templates, which may leave open what a request
says. Of the user's template files those of one name are told apart by their place in the
order in which the code visits them (`Templates`). A port of the
gateway comes from `vpn create --port` and `--vnc` (`GatewayPorts`). What the daemon
does to create the network and the container, and where a service goes, is the subject
of `Commands`, whose `RequestsType` stands for `Valid` here.

### GatewayConfig

`files` is what each .ovpn file of each directory holds, as what its directives come to:
does it redirect the gateway, does it have the DNS hooks, which routes, which options
of its own, does a route fail to parse. Each gateway name has a managed directory; the
others are the user's, who may edit them (`Edit`).

| Code | Actions |
|---|---|
| `vpn create`, `PrepareSplitConfig` | `Begin`, `Prepare` (read and parse), `CopyFile` for each file in the order of `WalkDir`, `CopyEnds`, `Patch` |
| `CreateVPNGateway`, `applyVPNRouteMode`, `attachVPNConfig` | `CreateVPNGateway`, `CreateContainer`, `StartVPNGateway` |
| an error, a refusal or an interrupt at any call | `Return` |
| `vpn start`, `vpn stop`, `vpn rm`; the daemon's restarts | `StartAgain`, `Stop`, `RemoveGateway`, `Restart` |

Every start reads the file anew (`Starts`): the one that `VPN_FILES` names, or any if none
is named, which is how the code in `src/` uses the image; `RunWith` is what comes of the
file, the options and `DEFAULT_GATEWAY`. `owner` is a history variable: the command that
wrote last to a managed directory. Directories are not nested in one another.

### WorkspaceStore

Directories hold files, directories and links by relative path, and a metadata file
that is missing (`None`), truncated (`Torn`) or names a workspace. A command is a
sequence of system calls; other commands, a workbench that writes files and an
interrupt may come between any two. The walk of a backup keeps the entries it has
listed and not visited (`todo`) and, between the header and the content of a file, the
length it promised (`open`): an entry that has gone, or a length that has changed,
fails the backup. A restore makes the target, goes over the items of the archive, and
writes the metadata last. Two history variables of a command say what it may be held
to: `stable`, the entries that nobody changed since a backup began, and `alone`,
whether nobody else changed the target of a restore. An item whose place somebody else
has taken with a directory, or whose directory with a file, fails the restore
(`InTheWay`).

Left out: directories are not moved or copied by hand (the path in the metadata would
then win over the path asked for), one file is written in one step, modes count only
as writable or not, an output file is used by one backup (what happens otherwise is
the finding `ArchivesKept`), and directories are nested once. `Commands` and `Nuke` use
the coarser `Workspaces`, where an operation is one step; the two are not related by a
refinement, because Create shows a directory without metadata for a moment.

### SealedBackup

The plaintext is a row of `Size` units, of which `TarEnd` ends the tar archive and the
rest is what gzip puts after it; a full record has `Chunk` units. The writer fills its
buffer, flushes full records, and at the end the tail and an empty final record. A
flush seals, writes and counts, and the write may fail and leave part of a record
(`Debris`). The stream may break off, and the command then closes the writer all the
same, as the code does. `sealed` records everything sealed under the key, so that
`NonceUsedOnce` can speak of it. The file may be damaged: a record spoilt, or pieces
lost, repeated or moved. The reader counts nonces itself, opens what it is offered only
under its own count, stops asking once the tar archive is complete, and refuses a final
record that comes before.

The cipher is ideal: a record opens under its own nonce and key, unchanged, or not at
all. The counter has 64 bits in the code and does not wrap here.

### StatusDisplay and PullProgress

`StatusDisplay` has the two goroutines, the mutex and the channels of `status.go`, one
step per lock, unlock, send and receive. What is printed is a line that the cursor is
on and the line above it, each a sequence of what was put there, so that a result
printed after a spinner's frame shows as a line of two. `PullProgress` drives it with
`CreateEnvironment` from the pull on: what it says, in order, with every answer of
Docker, and the messages of the daemon about each layer, summed and throttled.
Formatting, widths and elapsed times are left out. The order of the daemon's messages
about one layer is its usual one; a message without bytes may leave the bytes of the
last one or replace them by zero, as both are in use.

## 3. What the runs check

| Run | Instance | Shows |
|---|---|---|
| `Lifecycle` | 2 terminals, 3 container IDs, 1 network; the life of an environment and a service; a foreign container and network with the same names | `OneContainerPerRef`, `OnlyRequestedChanges`, and `ImplementsInventory` |
| `Networks` | 2 terminals, 3 containers, 2 networks; segment, vpn and isolated profiles, workspace at default and custom path, compose beside service add | `OneContainerPerRef` of refs that stay unique beside compose, `SegmentsAreManaged` |
| `Nuke` | 1 nuke and 1 terminal, 3 containers, 2 networks, any call may fail | `RemovedOrReported`, `RemovedInOrder`, `OnlyReportedStays`, `NukeTouchesManagedOnly`, `RemovedWasBackedUp` |
| `NukeEnds` | 1 nuke and 1 terminal with environment and gateway | `NukeTerminates` under fairness |
| `SealedBackup` | a stream of 5 units in records of 2, failures at any write, 2 damages, right and wrong passwords | `NonceUsedOnce`, `RestoredIsWhole`, `ReportedRestores` |
| `WorkspaceStore` | 2 terminals, 2 workspaces, a directory with a file and a file beside it, one edit at any time, interrupts anywhere | `BackupCovers`, `RestoreIsWhole` |
| `PullProgress` | a pull of 2 layers within 2 seconds, on a terminal and into a log | `DoneIsShown`, `WholeLines`, `QuietAtTheEnd`, `CommandEnds` under fairness |
| `Requests` | 1 command of families of command lines about network, desktop, lists and services; 4 sets of template files; the gateway replaced once | `EndpointIsPublished`, `PasswordWorks`, `AskedAsDockerTakes`, `FlagsWin`, `UserTemplatesShadow` |
| `GatewayConfig` | 2 `vpn create` commands of one gateway, a directory of 2 configs, one edit, interrupts anywhere | `SplitTakesNoDefault`, `PushedDefaultIsRefused`, `RoutesAreShown` |
| `ArchivesKept` | violated: two archives of one name within a second | `ArchivesKept` |
| `BackupRestores` | violated: what backup archives without an error, restore refuses: a link, a directory without write permission | `BackupRestores` |
| `SplitStaysSplit` | violated: a second `vpn create` of a name that is taken writes the raw config over the one that the gateway has mounted | `SplitStaysSplit` |

Every module has one type invariant, checked by one run: that of `Commands` by `Lifecycle`
(`Networks` does not repeat it) and that of `Nuke` by `Nuke` (nor does `NukeEnds`). The
three violations are the findings in `PROJECT.json`, with the line of the code and the
line that says otherwise.

`RemovedOrReported` and `RemovedInOrder` hold with any interference; `OnlyReportedStays`
is about a nuke that ran alone, and says something of one that had errors, too: all of
the rest has gone. That gateways go after environments is proved for any instance; the
instance of the run has services, an environment, networks and a workspace.

One thing departs from what the documents say and has no run of its own. A given
`--desktop-host` or `--desktop-port` loses to a tcp port, of the template or of `--port`,
that reaches the desktop in the container (`engine.go:810`), although `cli/env.go:189` and
`docs/templates.md:88` say that flags win. `FlagsWin` states it as an exception: such a port
and nothing else moves the endpoint, and only to where it is. Its other exceptions: on
the vpn network hostname and network name are the gateway's (the hostname is dropped with
a warning), and a default image becomes a desktop's.

Some behaviour that a user may not expect is in the models, and no document promises
anything else; the properties are stated around it. A
service goes to the network that a label names, though its environment may be on the
bridge. Compose and `service add` together make two containers of one service ref.
With no workspace in nuke's first plan, the choice of backups is dropped, and one that
appears before the second plan is removed without. A service template's alias stays
when `--name` gives the service another name. A desktop's port that is published for
udp too may be read back as the endpoint.

*Bounds.* IDs are used once, so `ContainerIds` bounds creations, not containers: three
allow a container, its replacement and one more. Two terminals are enough for the
races between a lookup and the act that follows: while one of them is between the
two, the other can run any number of whole commands. `MaxData` bounds writes to a
workspace, `MaxClock` the seconds that pass. Nuke runs once, beside one terminal, which
can again run any number of commands at any point. IDs and terminals are
interchangeable and are declared symmetric in the runs that check safety only.

`SealedBackup`: five units in records of two leave a tail of one, so that full records,
a partial one and the final one occur; four of the units are the archive, so that it
can be complete before the stream is. Two damages allow one to undo or to repeat the
other. `WorkspaceStore`: the tree has what a walk distinguishes, an entry that is listed
with its directory and one that is listed later; one edit suffices for an entry that is
gone, new, of another length or of other content when it is copied. `PullProgress`:
with two layers their messages interleave and one is done while the other is not; the
clock moves once, so that reports fall inside and outside of an interval. At most one
spinner is ever alive, so that one slot, used again, is enough.

`Requests`: `Text` is everything that a command line or a template of the instance says.
The parts of a request that are decided independently vary in families of
their own, each with all combinations of absent, empty and given flags that its code
looks at; a profile that is silent, one that has everything, and ones for desktop and
gateway; template files that are missing, broken, of the other kind, twice, or
shadowed. One replacement of the gateway can fall between any two steps.
`GatewayConfig`: two commands suffice for one to write under the other's container;
of two files one is the config and one is not, so that `VPN_FILES` may name a file that
was copied and not patched; one edit can fall between reading and copying. These
two, `SplitStaysSplit` and `PullProgress` may stop: when the commands are done and nobody
acts any more, nothing is left to do. All others are checked for deadlock.

*Fairness.* `NukeEnds`: weak fairness of listing and of carrying out,
because every call to Docker and to the file system returns, with an answer or an
error. Nothing is assumed of the user who has to confirm, nor of other terminals.
`PullProgress`: the scheduler runs both goroutines; strong fairness of taking the
mutex (`sync.Mutex` hands itself to who has waited long) and of the spinner's `stop`
case (`select` chooses at random among ready cases); a daemon that is asked answers
and its stream ends. The code has no timeout: a daemon that stalls, stalls the command.

## 4. What is proved

`CommandsProofs` proves, for any number of terminals, requests, names, paths and IDs:

- `TypeCorrect`: `Spec => []TypeOK`.
- `NamesCorrect` (`IUnique` below): live containers have distinct names, and a managed container of a
  unique ref has the name the code gives to that ref.
- `OneContainer`: `Spec => []OneContainerPerRef`.
- `RequestedOnly`: `Spec => OnlyRequestedChanges`.
- `ManagedSegments`: `Spec => []SegmentsAreManaged`: a user-defined mode that a command
  carries from `EnsureNetwork` to the create is the name of a live managed network
  (`OnSegment`), and stays one (`ManagedStays`).
- `Implementation`: `Spec => ImplementsInventory`.

None of these is inductive. A command acts by ID on what it found some calls ago, so the
invariant has to say what a command still knows then. `KnowledgeCorrect` proves the
inductive invariant:

- `IType`: types, that a command at a step has the parts of its record that the step uses
  (`CommandsProper`), and that a managed environment without a network label is on one
  of Docker's built-in modes (`EnvironmentsLabelled`), so that a service finds a network;
- `IUnique`: live containers do not share a name, and a managed container of a unique
  ref has the name of that ref (`NamesKept`): of two creates that both found nothing,
  the daemon refuses the second by its name, and this alone keeps refs unique;
- `IFound`: what a command found as its request's container is, if it still lives, a
  managed container of that ref (`FoundAsAsked`): labels do not change and IDs are not
  given twice, so the lookup is never undone by what happened since.

Assumed of the constants, by name: `NamesAreApart`, `DefaultPathType`, `MaxDataType`,
`RequestsType` (requests have passed validation), `NameOfType`, `ComposeType`,
`ForeignType`, `DefaultNetType`, `IdsAreApart`. Nothing is assumed of `NameOf` beyond
its type: different refs may have the same container name, as an environment
`lab-svc-web` and the service `web` of `lab` do.

`NukeProofs` proves of `NukeSpec`, for any number of terminals, containers, networks,
workspaces and seconds, and whatever calls fail:

- `NukeTypeCorrect`: `NukeTypeOK`.
- `ReportsCorrect`: `RemovedOrReported`. `OrderCorrect`: `RemovedInOrder`.
- `LeftoversCorrect`: `OnlyReportedStays`.
- `ManagedOnly`: `NukeTouchesManagedOnly`. `BackedUp`: `RemovedWasBackedUp`.

Nuke acts on two lists it made earlier and on what a name meant at its last lookup. The
inductive invariant `INukeKnown` says what these are still worth:

- `IPlan`: a listed container or network is still managed under the same ref or name,
  or has gone for good (`PlanKept`; labels do not change, IDs are not given twice);
- `IFinds`: what a lookup found is managed, and is the item at hand unless that has gone
  (`FindsKept`). For containers this needs no uniqueness of refs: the lookup fails on
  two. For networks it needs that live names are unique (`NetworksHaveNames`);
- `IRemoved`: what is of the plan is still to be done, or at hand, or gone, or its failure
  is recorded (`NothingDropped`, `RemovedKept`);
- `IOrder`: what is at hand has nothing left to do before it, and a workspace is struck
  when neither containers nor networks are left (`OrderKept`);
- `ISaved`: once backups were chosen, a workspace that may be removed is still to be
  backed up, could not be, or has been; and none is left when backups end;
- `IQuiet`: as long as nobody else has acted, each kind that was listed is all there is
  of it (`OnlyLess`: nuke itself makes nothing managed), and a workspace in the root is
  still to be removed, or its failure is recorded (`ListedRemoved`).

The steps of the other commands come in through `CommandsProofs`: they change at most
one container and one network by a call of Docker's (`NextContainers`, `NextNetworks`).
The assumptions are those above, `ChoicesType`, `FaultsType` and `MaxClockType`.

`SealedBackupProofs` proves, for every length of stream and record and any number of
damages:

- `TypeCorrect`: `Spec => []TypeOK`.
- `NoncesCorrect`: no nonce seals two records, though a failed write makes `Close` seal
  the same buffer again under the same nonce. It is the same record then, because
  `Counted` holds: a record at the counter was sealed by a flush that failed, and after
  a failure nothing is added to the buffer any more.
- `RestoredCorrect`: what a restore accepts is the stream from its start to the end of
  the tar archive, from whatever file. Records are end to end (`EndToEnd`), the file has
  none that was not sealed (`FromSealed`), and the reader has had one for each nonce
  below its count (`Received`).
- `ReportedCorrect`: a reported and undamaged backup is never refused under its
  password: as long as no error has come up, record *n* is piece *n* of the file
  (`InOrder`), and the reader finds it there (`ReadsOn`).

`GatewayConfigProofs` proves, for any number of gateways, directories, files, commands
and edits:

- `TypeCorrect`: `Spec => []TypeOK`.
- `SplitCorrect`, `RoutesCorrect`: a split gateway whose directory only its creator has
  written to comes up, takes no default route, and has the routes on its label.
- `PushedCorrect`: with at most one `OTHER_ARGS` of the user, the option that refuses the
  server's default route is in effect whatever file the gateway reads.

The argument is one of ownership. `KnowledgeCorrect` proves the inductive invariant
`IKnown`: from the moment a command has patched its copy (`CopyKnown`), and as long as
`owner` still names it, the config is `Patched` of the text that the command parsed,
whatever the user did to the original since, and the routes it will put on the label
are that text's; a gateway is as its command asked (`GatewayKnown`); and what it runs
was read from some text, and from that patched one if the directory is still the
command's (`RunKnown`). Without the history variable nothing of this could be said of a
container that outlives its command, because a later command of the same name rewrites
the file under it: that is the finding. For `PushedCorrect` no ownership is needed, as
the options are in the container and not in the file.

Assumed: `MaxCommandsType`, `MaxEditsType`, `ListingType` (every file is visited),
`PushedIsServers`, `NamesAreManaged` (managed directories are not the user's),
`TextsType`, `AskedType`.

`WorkspaceStoreProofs` proves, for any number of terminals, workspaces, files and edits,
with an interrupt between any two system calls:

- `StoreTypeCorrect`: `Spec => []TypeOK`: directories are trees, whoever writes to them.
- `BackupsCover`: `BackupCovers`. `RestoresAreWhole`: `RestoreIsWhole`.

The inductive invariant `IStore` (`StoreCorrect`) follows the walk. Every file of an
archive comes once and after its directory (`WalksInOrder`); an archive has one writer
(`OneWriter`), since the file is opened only if there is none; what a backup has still to
write is not in the archive, and its directory is (`Written`); an entry that nobody
touched is in the archive, or ahead, or below a directory that is ahead (`Covered`); and
what a restore that is alone has made is exactly the items before its next one
(`Restored`), which needs `WalksInOrder`, for an item that came twice would overwrite
itself. Of the other commands it is only needed that they leave what they touch out of
`stable` and `alone` (`Follows`). Assumed: `StorePathType`, `TreeType`, `CommandType`.

`PullProgressProofs` proves, for any number of spinners, layers, messages and seconds:

- `LinesAreWhole`: `WholeLines`. `EndsQuietly`: `QuietAtTheEnd`.
- `PullTypeCorrect`: `TypeOK`. `WholeIsShown`: `DoneIsShown`.

`IDisplay` (`DisplayCorrect`) says of the two goroutines who holds the mutex
(`Exclusive`), that a spinner which still lives is either the one that `stop` names or
the one that the command waits for (`OneSpinner`), and what stands on the line
(`LineKept`): a command that prints a result has waited for the spinner and cleared the
line under the mutex. `IPull` (`PullCorrect`) adds what was heard of the layers and what of
it was said (`PullSaid`): a throttled report leaves something unsaid, but the last one is
forced. That no report shows more than its total (`SaysRight`) compares two sums over the
layers; sums are folds over sets, and what is needed of them is proved by well-founded
induction over the subsets of a finite set (`SmallerFirst`). Assumed: `DisplayType`,
`PullType`.

`RequestsProofs` proves, for every command line, env file, template, gateway and port:

- `RequestsTypeCorrect`: `Spec => []TypeOK`.
- `EndpointsArePublished`: `EndpointIsPublished`. `PasswordsWork`: `PasswordWorks`.
- `AskedIsTaken`: `AskedAsDockerTakes`.
- `FlagsAlwaysWin`: `FlagsWin`, with its exceptions.
- `UserTemplatesAlwaysShadow`: `UserTemplatesShadow`.

Each of these relates the end of the pipeline to its beginning, and is an invariant of
the last stage only. The inductive invariant `IRequests` (`RequestsCorrect`) says from
which stage on each part of it holds, and every later stage has to leave it alone:

- `Typed`: the request is one, and no password was made before the desktop is decided;
- `Shadowed`: a built-in template was taken, or a name for an image, only where the user
  has nothing that may be meant;
- `FlagsCount`: from `Override` on the request has what the flags ask (`Asked`), and until
  the password is set its variables end with the ones that were given (`EndsWithGiven`),
  so that these count (`Wins`);
- `Validated`: from `Validate` on the network is one, with a gateway if it is the
  gateway's, and ports have a host port, so that the endpoint can be read from one;
- `DesktopDecided`: from `ApplyDesktop` on there is an endpoint, a port that reaches it
  unless the gateway has it, and a password that is the variable's (`HasDesktop`);
- `EndpointCounts`: until the desktop is decided the ports are the template's and then the
  flags'; from then on the desktop is where its flags put it, or where one of those ports
  does that reaches it;
- `NetworkDecided`: the request fits the gateway that was looked at (`FitsGateway`);
- `WorkspaceAttached`: the workspace is mounted first and alone there;
- `Created`: the container is the request, and what is shown was read from it.

Two operators go along a sequence, `GatewayPorts` and the library's `FlattenSeq`. What
they return is proved by least counterexample: the first index at which the claim fails
cannot be one, since natural numbers are well-founded (`FirstExists`, `StepsExist`,
`StepsStay`). Assumed: `TextType` and `FlagsType` (what may be given), `LibrariesType`
(templates that parse are of their kind and name an image; what is built in is told from
a file by its source), `DerivedType`, `GatewayType`, `MaxReplacedType`.

Only model-checked: `NukeTerminates` and `CommandEnds`, which are liveness under fairness
and out of the prover's reach, as are `ENABLED` and therefore the absence of deadlock. That
`Commands` implements `Inventory`, and every invariant and action property of the passing
runs, is proved.

## 5. What is not modelled

- Parsing and formatting: the text of YAML, .ovpn, env and compose files, of ports,
  volumes and durations; tables and colours. What a text comes to is modelled where
  something depends on it (`Requests`, `GatewayConfig`).
- Compose projects of several services and the override file that Contaigen writes for
  them: `Commands` has docker compose on one service.
- `Requests` and `Commands` are not composed: `Commands` takes any validated request,
  which includes those that `Requests` arrives at, and its instances choose them by hand.
- `EnterEnvironment`: it attaches a terminal to a container and changes nothing here.
- Logs, lists, `validate`, `doctor`, `version`, configuration, the network map: they only read.
- The daemon's own faults, beyond calls that fail.

## 6. Hazards

`PROJECT.json` lists what is hard to test, each at its line, with the properties that
would notice, or a note where none does: what is known to go wrong, so that no property
can hold (two containers of one ref once compose and `service add` have both made a
service, the choice of backups dropped between nuke's two plans, a service on the network
of a stale label), what no document promises (two creates of one workspace, two restores
into one target, a desktop's port read back as udp, two services with one alias), and
what is planned.

## 7. Plan

1. Compose with several services and the override file (`composex/compose.go`), and the
   network map.
2. `Requests` composed with `Commands`, so that `Lifecycle` and `Networks` start from
   flags.
3. Proofs: that what `Requests` arrives at is what `Commands` assumes of its requests
   (`RequestsType`), once the two are composed.
