---------------------------- MODULE PullProgress ----------------------------
(***************************************************************************)
(* The progress of env create while it gets its image: EnsureImage pulls   *)
(* it, the daemon sends one stream of messages about many layers, and      *)
(* imagePullProgress (dockerx/client.go) makes one line of it, reported at *)
(* most once in a second to the display of the command.                    *)
(***************************************************************************)
EXTENDS StatusDisplay, FiniteSetsExt

CONSTANTS
  Layers,      \* layers of the image
  Tag,         \* the tag, which the daemon's first message has for an id
  Bytes        \* size of every layer

ASSUME PullType ==
  /\ Bytes \in Nat \ {0}
  /\ Layers # {} /\ IsFiniteSet(Layers) /\ Tag \notin Layers
  /\ None \notin [{"downloading", "extracting", "waiting", "complete", "active"} -> Nat]

VARIABLES
  step,        \* how far the command is
  layers,      \* what the last messages said of each layer
  status,      \* the last message about the whole image
  lastReport,  \* when the last report of the pull was made
  reported     \* what it said

pull == <<layers, status, lastReport, reported>>
vars == <<display, main, clock, step, pull>>

-----------------------------------------------------------------------------

\* pullStatusKind, of the statuses the daemon sends.
Statuses ==
  {"Pulling from", "Pulling fs layer", "Waiting", "Downloading", "Verifying Checksum",
   "Download complete", "Extracting", "Pull complete", "Already exists"}

Kind ==
  [st \in Statuses |->
     CASE st = "Downloading"                       -> "downloading"
       [] st = "Extracting"                        -> "extracting"
       [] st \in {"Waiting", "Pulling fs layer"}   -> "waiting"
       [] st \in {"Download complete", "Pull complete", "Already exists"} -> "complete"
       [] OTHER                                    -> "other"]

Layer == [status : Statuses, current : 0..Bytes + 1, total : {0, Bytes}]

\* Fault: what is sent is taken as it is.
Unclamped(n, total) == n

clampProgress(n, total) == IF n > total THEN total ELSE n

-----------------------------------------------------------------------------
(* summary. *)

Ids == Layers \cup {Tag}

Known(ls)       == {i \in Ids : ls[i] # None}
Count(ls, kind) == Cardinality({i \in Known(ls) : Kind[ls[i].status] = kind})

\* The detail names the kinds that occur; layers of no known kind only if there are
\* no others.
Named == {"downloading", "extracting", "waiting", "complete"}

Detail(ls, st) ==
  IF Known(ls) = {} THEN st
  ELSE [kind \in Named \cup {"active"} |->
          IF kind \in Named THEN Count(ls, kind)
          ELSE IF \A k \in Named : Count(ls, k) = 0 THEN Count(ls, "other") ELSE 0]

Total(ls) == MapThenSumSet(LAMBDA i : ls[i].total, Known(ls))

\* Fault: a layer that is complete counts as what its last message said.
CurrentAsSent(ls) ==
  MapThenSumSet(LAMBDA i : clampProgress(ls[i].current, ls[i].total), Known(ls))

Current(ls) ==
  MapThenSumSet(LAMBDA i : IF Kind[ls[i].status] = "complete" THEN ls[i].total
                           ELSE clampProgress(ls[i].current, ls[i].total),
                Known(ls))

summary(ls, st) ==
  [detail |-> Detail(ls, st), current |-> Current(ls), total |-> Total(ls)]

-----------------------------------------------------------------------------
(* report, after a message has been taken in. *)

\* Fault: the last report is throttled like the others.
HeldBackAlways(force, new) ==
  \/ lastReport # None /\ clock - lastReport < 1
  \/ new.detail = None
  \/ reported # None /\ new.detail = reported.detail

HeldBack(force, new) ==
  \/ ~force /\ lastReport # None /\ clock - lastReport < 1
  \/ new.detail = None
  \/ ~force /\ reported # None /\ new.detail = reported.detail

report(force, ls, st) ==
  IF HeldBack(force, summary(ls, st))
  THEN UNCHANGED <<reported, lastReport, main>>
  ELSE /\ reported' = summary(ls, st)
       /\ lastReport' = clock
       /\ Call("active", <<"Pulling image", reported'>>)

-----------------------------------------------------------------------------
(* Messages, in the order in which the daemon sends them for a layer.  Only  *)
(* those of a download and of an extraction carry bytes.                     *)

Update(l, st, bytes, total) ==
  /\ layers' = [layers EXCEPT ![l] = [status |-> st, current |-> bytes, total |-> total]]
  /\ report(FALSE, layers', status)
  /\ UNCHANGED status

\* A message without bytes leaves those of the last one, unless it has an empty
\* field for them.
Renamed(l, st) ==
  \/ Update(l, st, layers[l].current, layers[l].total)
  \/ Update(l, st, 0, 0)

Announced(l) ==
  /\ layers[l] = None
  /\ \E st \in {"Pulling fs layer", "Already exists"} : Update(l, st, 0, 0)

Proceeds(l, from, to) ==
  /\ layers[l] # None
  /\ layers[l].status = from
  /\ Renamed(l, to)

\* Compressed sizes are estimates: a download may pass its total.
Moves(l, from, st) ==
  /\ layers[l] # None
  /\ \/ layers[l].status \in from /\ \E b \in 0..1 : Update(l, st, b, Bytes)
     \/ /\ layers[l].status = st
        /\ layers[l].current <= Bytes
        /\ Update(l, st, layers[l].current + 1, Bytes)

\* The first message names the repository, under the tag.
ImageMessage ==
  /\ layers[Tag] = None
  /\ Update(Tag, "Pulling from", 0, 0)

LayerMessage(l) ==
  /\ layers[Tag] # None
  /\ \/ Announced(l)
     \/ Proceeds(l, "Pulling fs layer", "Waiting")
     \/ Moves(l, {"Pulling fs layer", "Waiting"}, "Downloading")
     \/ Proceeds(l, "Downloading", "Verifying Checksum")
     \/ Proceeds(l, "Verifying Checksum", "Download complete")
     \/ Moves(l, {"Download complete"}, "Extracting")
     \/ Proceeds(l, "Extracting", "Pull complete")

Finished == \A l \in Layers :
  layers[l] # None /\ layers[l].status \in {"Pull complete", "Already exists"}

\* Messages without an id: the digest, and how the pull ended.
StatusMessage ==
  /\ Finished
  /\ status = None
  /\ status' = "Digest"
  /\ report(FALSE, layers, "Digest")
  /\ UNCHANGED layers

Message == ImageMessage \/ StatusMessage \/ \E l \in Layers : LayerMessage(l)

\* The stream has ended.
Flush == Finished /\ report(TRUE, layers, status) /\ UNCHANGED <<layers, status>>

-----------------------------------------------------------------------------
(* The command: CreateEnvironment from its pull on, with EnsureImage, under  *)
(* runWithProgress.  A step says something, and an outcome is what Docker    *)
(* answers.                                                                  *)

During(from, to) == main.at = "idle" /\ step = from /\ step' = to

Says(from, state, text, to) ==
  During(from, to) /\ Call(state, text) /\ UNCHANGED <<display, clock, pull>>

Fails == \E from \in {"inspect", "pull", "create"} :
           Says(from, "fail", <<"Create environment">>, "failed")

EnsureImage ==
  \/ Says("check", "active", <<"Checking image">>, "inspect")
  \/ Says("inspect", "active", <<"Available locally">>, "ready")
  \/ Says("inspect", "active", <<"Pulling image">>, "pull")
  \/ During("pull", "pull") /\ Message /\ UNCHANGED <<display, clock>>
  \/ During("pull", "ready") /\ Flush /\ UNCHANGED <<display, clock>>

CreateEnvironment ==
  \/ Says("announce", "info", <<"Pulls are non-interactive">>, "ensure")
  \/ Says("ensure", "active", <<"Ensuring image">>, "check")
  \/ EnsureImage
  \/ Says("ready", "done", <<"Image ready">>, "creating")
  \/ Says("creating", "active", <<"Creating container">>, "create")
  \/ Says("create", "done", <<"Created container">>, "created")
  \/ Says("created", "close", NoText, "closed")
  \/ Fails

Init ==
  /\ DisplayInit
  /\ step = "announce"
  /\ layers = [i \in Ids |-> None]
  /\ status = None
  /\ lastReport = None
  /\ reported = None

Next ==
  \/ CreateEnvironment
  \/ /\ InCall \/ Elapses \/ \E g \in Spinners : Spinning(g)
     /\ UNCHANGED <<step, pull>>

\* A daemon that is asked answers, and a stream it sends ends.
Spec == Init /\ [][Next]_vars /\ DisplayFairness /\ WF_vars(CreateEnvironment)

-----------------------------------------------------------------------------
(* What the line says. *)

\* Every variable holds a value of its kind; no report is of more bytes than there
\* are.
TypeOK ==
  /\ interactive \in BOOLEAN /\ running \in BOOLEAN
  /\ mu \in Spinners \cup {"main", None}
  /\ stop \in Spinners \cup {None} /\ closed \subseteq Spinners
  /\ spinners \in [Spinners -> {"none", "select", "lock", "holds", "ended"}]
  /\ main.at \in {"idle", "lock", "holds", "waits", "relock", "finishes", "over"}
  /\ clock \in 0..MaxClock /\ lastLineAt \in 0..MaxClock
  /\ layers \in [Ids -> Layer \cup {None}]
  /\ status \in {None, "Digest"}
  /\ lastReport \in (0..MaxClock) \cup {None}
  /\ reported # None => reported.current <= reported.total

\* When EnsureImage has pulled the image, what stands on the terminal, or in the log,
\* is the pull with every layer complete, however little time passed since the report
\* before.
Whole ==
  [detail |-> [kind \in Named \cup {"active"} |->
                 IF kind = "complete" THEN Cardinality(Layers) ELSE 0],
   current |-> Total(layers), total |-> Total(layers)]

DoneIsShown ==
  step = "ready" /\ main.at = "idle" /\ Known(layers) # {} =>
    (IF interactive THEN line ELSE last) = << <<"Pulling image", Whole>> >>

\* A command comes to an end, with its spinner.
CommandEnds == <>(main.at = "over")

=============================================================================
