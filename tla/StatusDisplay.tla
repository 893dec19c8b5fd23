--------------------------- MODULE StatusDisplay ---------------------------
(***************************************************************************)
(* How a command shows its progress (cli/status.go).  The command's own    *)
(* goroutine reports; on a terminal a second one, the spinner, redraws the *)
(* line until it is stopped.  Both write under one mutex, which the        *)
(* command has to release while it waits for the spinner to end.           *)
(***************************************************************************)
EXTENDS Naturals, Sequences, FiniteSets

CONSTANTS
  Spinners,  \* goroutines that run spin, by what names them
  MaxClock,  \* how long a command may take, in seconds
  None

ASSUME DisplayType ==
  /\ MaxClock \in Nat
  /\ "main" \notin Spinners /\ None \notin Spinners \cup {"main"}

VARIABLES
  interactive,  \* whether the output is a terminal
  mu,           \* who holds the mutex
  running,      \* whether a spinner was started and not told to stop
  current,      \* the text of the line; empty when there is none
  lastLine,     \* the last text printed to an output that is no terminal
  lastLineAt,   \* when
  stop,         \* the spinner of s.stop and s.stopped
  closed,       \* spinners whose stop channel is closed
  spinners,     \* where every spinner is
  main,         \* where the command is in a call of the display, and with what
  line,         \* the line the cursor is on, as a sequence of what was put there
  last,         \* the line above it
  clock         \* the time, in seconds

display == <<interactive, mu, running, current, lastLine, lastLineAt, stop, closed,
             spinners, line, last>>
shown   == <<display, main>>

\* A text is a tuple; the empty one is no text.
NoText == <<>>

-----------------------------------------------------------------------------
(* What the command calls.  The call then takes the mutex.                  *)

Call(state, text) ==
  /\ main.at = "idle"
  /\ main' = [at |-> "lock", state |-> state, text |-> text]

Goes(at) == main' = [main EXCEPT !.at = at]

Lock(from, to) ==
  /\ main.at = from
  /\ mu = None
  /\ mu' = "main"
  /\ Goes(to)
  /\ UNCHANGED <<interactive, running, current, lastLine, lastLineAt, stop, closed,
                 spinners, line, last, clock>>

Return ==
  /\ mu' = None
  /\ Goes(IF main.state \in {"fail", "close"} THEN "over" ELSE "idle")

-----------------------------------------------------------------------------
(* The spinner. *)

startSpinnerLocked ==
  IF running
  THEN UNCHANGED <<running, stop, closed, spinners>>
  ELSE \E g \in Spinners :
         /\ spinners[g] \in {"none", "ended"}
         /\ running' = TRUE
         /\ stop' = g
         /\ closed' = closed \ {g}
         /\ spinners' = [spinners EXCEPT ![g] = "select"]

At(g, from, to) ==
  /\ spinners[g] = from
  /\ spinners' = [spinners EXCEPT ![g] = to]
  /\ UNCHANGED <<interactive, running, current, lastLine, lastLineAt, stop, closed,
                 main, last, clock>>

\* A tick of 120 ms may be there whenever the spinner looks.
TickCase(g) == At(g, "select", "lock") /\ UNCHANGED <<mu, line>>
StopCase(g) == g \in closed /\ At(g, "select", "ended") /\ UNCHANGED <<mu, line>>

SpinnerLock(g) == At(g, "lock", "holds") /\ mu = None /\ mu' = g /\ UNCHANGED line

Render(text, old) == IF text = NoText THEN old ELSE <<text>>

Spin(g) ==
  /\ At(g, "holds", "select")
  /\ mu' = None
  /\ line' = IF running THEN Render(current, line) ELSE line

-----------------------------------------------------------------------------
(* Calls that leave the spinner running. *)

Throttled(text) == text = lastLine /\ clock - lastLineAt < 2

updateActiveLocked ==
  /\ main.at = "holds" /\ main.state = "active"
  /\ current' = main.text
  /\ IF interactive
     THEN /\ startSpinnerLocked
          /\ line' = <<main.text>>
          /\ UNCHANGED <<lastLine, lastLineAt, last>>
     ELSE /\ UNCHANGED <<running, stop, closed, spinners>>
          /\ IF Throttled(main.text)
             THEN UNCHANGED <<lastLine, lastLineAt, line, last>>
             ELSE /\ lastLine' = main.text /\ lastLineAt' = clock
                  /\ last' = Append(line, main.text) /\ line' = <<>>
  /\ Return
  /\ UNCHANGED <<interactive, clock>>

writeInfoLocked ==
  /\ main.at = "holds" /\ main.state = "info"
  /\ LET here == interactive /\ running
     IN  /\ last' = Append(IF here THEN <<>> ELSE line, main.text)
         /\ line' = IF here THEN Render(current, <<>>) ELSE <<>>
  /\ Return
  /\ UNCHANGED <<interactive, running, current, lastLine, lastLineAt, stop, closed,
                 spinners, clock>>

-----------------------------------------------------------------------------
(* Calls that end the line: stopSpinnerLocked, then the rest.               *)

Ends == main.state \in {"done", "fail", "close"}

\* Fault: a line that is finished leaves the spinner to Close.
StopsAtClose == main.state = "close" /\ running

Stops == (interactive \/ main.state = "close") /\ running

\* Fault: the mutex is kept while the command waits.
WaitHolding ==
  /\ main.at = "holds" /\ Ends /\ Stops
  /\ closed' = closed \cup {stop}
  /\ running' = FALSE
  /\ stop' = None
  /\ main' = [at |-> "waits", state |-> main.state, text |-> main.text, for |-> stop]
  /\ UNCHANGED <<interactive, mu, current, lastLine, lastLineAt, spinners, line, last,
                 clock>>

stopSpinnerLocked ==
  /\ main.at = "holds" /\ Ends /\ Stops
  /\ closed' = closed \cup {stop}
  /\ running' = FALSE
  /\ stop' = None
  /\ mu' = None
  /\ main' = [at |-> "waits", state |-> main.state, text |-> main.text, for |-> stop]
  /\ UNCHANGED <<interactive, current, lastLine, lastLineAt, spinners, line, last,
                 clock>>

NothingToStop ==
  /\ main.at = "holds" /\ Ends /\ ~Stops
  /\ Goes("finishes")
  /\ UNCHANGED <<display, clock>>

\* <-stopped.
Stopped ==
  /\ main.at = "waits"
  /\ spinners[main.for] = "ended"
  /\ main' = [at |-> "relock", state |-> main.state, text |-> main.text]
  /\ UNCHANGED <<display, clock>>

\* Fault: the line is cleared only when the spinner still runs.
ClearedIfRunning == IF interactive /\ running THEN <<>> ELSE line

Cleared == IF interactive THEN <<>> ELSE line

finishLineLocked ==
  /\ main.at = "finishes" /\ main.state \in {"done", "fail"}
  /\ last' = Append(Cleared, main.text)
  /\ line' = <<>>
  /\ current' = NoText
  /\ lastLine' = NoText
  /\ Return
  /\ UNCHANGED <<interactive, running, lastLineAt, stop, closed, spinners, clock>>

Close ==
  /\ main.at = "finishes" /\ main.state = "close"
  /\ line' = IF current # NoText THEN Cleared ELSE line
  /\ current' = NoText
  /\ Return
  /\ UNCHANGED <<interactive, running, lastLine, lastLineAt, stop, closed, spinners, last,
                 clock>>

-----------------------------------------------------------------------------

DisplayInit ==
  /\ interactive \in BOOLEAN
  /\ mu = None
  /\ running = FALSE
  /\ current = NoText /\ lastLine = NoText /\ lastLineAt = 0
  /\ stop = None /\ closed = {}
  /\ spinners = [g \in Spinners |-> "none"]
  /\ main = [at |-> "idle"]
  /\ line = <<>> /\ last = <<>>
  /\ clock = 0

InCall ==
  \/ Lock("lock", "holds") \/ Lock("relock", "finishes")
  \/ updateActiveLocked \/ writeInfoLocked
  \/ stopSpinnerLocked \/ NothingToStop \/ Stopped
  \/ finishLineLocked \/ Close

Spinning(g) == TickCase(g) \/ SpinnerLock(g) \/ Spin(g) \/ StopCase(g)

Elapses ==
  /\ clock < MaxClock
  /\ main.at # "over"
  /\ clock' = clock + 1
  /\ UNCHANGED <<display, main>>

\* The scheduler runs every goroutine; sync.Mutex hands itself over to who has waited
\* long; select takes every ready case in the long run.  Ticks are owed to nobody.
DisplayFairness ==
  /\ WF_shown(InCall)
  /\ SF_shown(Lock("lock", "holds")) /\ SF_shown(Lock("relock", "finishes"))
  /\ \A g \in Spinners : WF_shown(Spin(g)) /\ SF_shown(SpinnerLock(g)) /\ SF_shown(StopCase(g))

-----------------------------------------------------------------------------
(* What makes the display right. *)

Live == {g \in Spinners : spinners[g] \notin {"none", "ended"}}

\* Every line that stays was put on an empty line: no result is glued to a frame of
\* the spinner, whatever the spinner did while the command waited for it.
WholeLines == Len(last) <= 1

\* When a command is over, its spinner is, and no frame stands where the shell's prompt
\* will.
QuietAtTheEnd == main.at = "over" => Live = {} /\ line = <<>> /\ mu = None

=============================================================================
