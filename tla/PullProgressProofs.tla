------------------------- MODULE PullProgressProofs -------------------------
(***************************************************************************)
(* Proofs about PullProgress and the display of StatusDisplay under it,    *)
(* for any number of layers and spinners, any size of a layer and any      *)
(* time.  The inductive invariant says who holds the mutex, which spinner  *)
(* may still draw, and what the line then is.                              *)
(***************************************************************************)
EXTENDS PullProgress, TLAPS, FiniteSetTheorems

Places   == {"idle", "lock", "holds", "waits", "relock", "finishes", "over"}
States   == {"info", "active", "done", "fail", "close"}
Stations == {"none", "select", "lock", "holds", "ended"}

\* A line is empty or was put there by a single write.
OneWrite(text) == text = <<>> \/ \E x : text = <<x>>

\* Where the command is in a call, and with what.
InOrder ==
  /\ interactive \in BOOLEAN /\ running \in BOOLEAN
  /\ spinners \in [Spinners -> Stations]
  /\ closed \subseteq Spinners
  /\ stop \in Spinners \cup {None}
  /\ mu \in Spinners \cup {"main", None}
  /\ "at" \in DOMAIN main
  /\ main.at \in Places
  /\ main.at # "idle" => "state" \in DOMAIN main /\ main.state \in States
  /\ main.at \in {"waits", "relock", "finishes", "over"} => main.state \in {"done", "fail", "close"}
  /\ main.at \in {"lock", "holds"} /\ main.state = "active" => main.text # NoText
  /\ main.at = "waits" => main.for \in Spinners

\* Who holds the mutex is where only its holder can be.
Exclusive ==
  /\ mu = "main" <=> main.at \in {"holds", "finishes"}
  /\ \A g \in Spinners : mu = g <=> spinners[g] = "holds"

\* A spinner that is there was started and not told to stop, or the command waits for
\* it to see that it was.
OneSpinner ==
  /\ \A g \in Live :
       \/ running /\ g = stop /\ g \notin closed
       \/ main.at = "waits" /\ g = main.for /\ g \in closed
  /\ running => interactive /\ stop \in Live
  /\ main.at \in {"waits", "relock", "finishes", "over"} => ~running

\* What stands on the line.
LineKept ==
  /\ OneWrite(line) /\ OneWrite(last)
  /\ interactive \/ line = <<>>
  /\ current = NoText => line = <<>>
  /\ running \/ main.at \in {"waits", "relock", "finishes"} \/ line = <<>>

IDisplay == InOrder /\ Exclusive /\ OneSpinner /\ LineKept

-----------------------------------------------------------------------------
(* The steps. *)

\* What the command does between the calls of the display: it makes the next call, or
\* takes in a message.
Reports ==
  /\ UNCHANGED <<display, clock>>
  /\ \/ main' = main
     \/ \E state \in States : \E text :
          /\ main.at = "idle"
          /\ main' = [at |-> "lock", state |-> state, text |-> text]
          /\ state = "active" => text # NoText

\* A call with something to say.
LEMMA Calls ==
  ASSUME NEW state \in States, NEW text, text # NoText \/ state # "active",
         Call(state, text), UNCHANGED <<display, clock>>
  PROVE  Reports
BY DEF Call, Reports

\* A report of the pull is never empty.
LEMMA ReportCalls ==
  ASSUME NEW force, NEW ls, NEW st, report(force, ls, st), UNCHANGED <<display, clock>>
  PROVE  Reports
<1>1. CASE UNCHANGED <<reported, lastReport, main>>
  BY <1>1 DEF Reports
<1>2. CASE Call("active", <<"Pulling image", reported'>>)
  <2>1. <<"Pulling image", reported'>> # NoText
    BY DEF NoText
  <2>. QED
    BY <1>2, <2>1, Calls DEF States
<1>. QED
  BY <1>1, <1>2 DEF report

\* Every step of the command is one of these.
LEMMA CommandReports ==
  ASSUME CreateEnvironment
  PROVE  Reports
<1>1. ASSUME NEW from, NEW state \in States, NEW text, text # NoText \/ state # "active",
             NEW to, Says(from, state, text, to)
      PROVE  Reports
  BY <1>1, Calls DEF Says
<1>2. ASSUME Message, UNCHANGED <<display, clock>>
      PROVE  Reports
  <2>1. ASSUME NEW l, NEW st, NEW bytes, NEW total, Update(l, st, bytes, total)
        PROVE  Reports
    BY <1>2, <2>1, ReportCalls DEF Update
  <2>2. ASSUME NEW l, NEW from, NEW to, Proceeds(l, from, to)
        PROVE  Reports
    BY <2>1, <2>2 DEF Proceeds, Renamed
  <2>3. ASSUME NEW l, NEW from, NEW st, Moves(l, from, st)
        PROVE  Reports
    BY <2>1, <2>3 DEF Moves
  <2>4. ASSUME NEW l, LayerMessage(l)
        PROVE  Reports
    BY <2>1, <2>2, <2>3, <2>4 DEF LayerMessage, Announced
  <2>5. CASE ImageMessage
    BY <2>1, <2>5 DEF ImageMessage
  <2>6. CASE StatusMessage
    BY <1>2, <2>6, ReportCalls DEF StatusMessage
  <2>. QED
    BY <1>2, <2>4, <2>5, <2>6 DEF Message
<1>3. ASSUME Flush, UNCHANGED <<display, clock>>
      PROVE  Reports
  BY <1>3, ReportCalls DEF Flush
<1>4. CASE EnsureImage
  <2>1. \A t : <<t>> # NoText
    BY DEF NoText
  <2>. QED
    BY <1>1, <1>2, <1>3, <1>4, <2>1 DEF EnsureImage, States
<1>5. CASE Fails
  BY <1>1, <1>5 DEF Fails, States
<1>6. CASE ~EnsureImage /\ ~Fails
  <2>1. \A t : <<t>> # NoText
    BY DEF NoText
  <2>. QED
    BY <1>1, <1>6, <2>1 DEF CreateEnvironment, States
<1>. QED
  BY <1>4, <1>5, <1>6

\* A call that is made, and a step that leaves the display alone.
LEMMA ReportsKeep ==
  ASSUME IDisplay, Reports
  PROVE  IDisplay'
<1> USE DEF IDisplay, Reports, display
<1>1. InOrder'
  BY DEF InOrder, Places, States
<1>2. Exclusive'
  BY DEF Exclusive, InOrder
<1>3. OneSpinner'
  BY DEF OneSpinner, Live, InOrder
<1>4. LineKept'
  BY DEF LineKept, InOrder
<1>. QED
  BY <1>1, <1>2, <1>3, <1>4

\* The mutex is taken when it is free.
LEMMA LockKeeps ==
  ASSUME IDisplay, Lock("lock", "holds") \/ Lock("relock", "finishes")
  PROVE  IDisplay'
<1> USE DEF IDisplay
<1>1. PICK from \in {"lock", "relock"}, to \in {"holds", "finishes"} :
        (from = "lock" <=> to = "holds") /\ Lock(from, to)
  OBVIOUS
<1>2. /\ main' = [main EXCEPT !.at = to] /\ main.at = from
      /\ mu = None /\ mu' = "main"
      /\ UNCHANGED <<interactive, running, current, stop, closed, spinners, line, last>>
  BY <1>1 DEF Lock, Goes
<1>3. main'.at = to /\ main'.state = main.state /\ main'.text = main.text
      /\ DOMAIN main' = DOMAIN main
  BY <1>2 DEF InOrder
<1>4. InOrder'
  BY <1>1, <1>2, <1>3 DEF InOrder, Places
<1>5. Exclusive'
  BY <1>1, <1>2, <1>3, DisplayType DEF Exclusive
<1>6. OneSpinner'
  BY <1>1, <1>2, <1>3 DEF OneSpinner, Live
<1>7. LineKept'
  BY <1>1, <1>2, <1>3 DEF LineKept
<1>. QED
  BY <1>4, <1>5, <1>6, <1>7

\* What a call leaves when it returns.
LEMMA Returned ==
  ASSUME InOrder, main.at \in {"holds", "finishes"}, Return
  PROVE  /\ main'.at = IF main.state \in {"fail", "close"} THEN "over" ELSE "idle"
         /\ main'.state = main.state
         /\ DOMAIN main' = DOMAIN main
         /\ mu' = None
BY DEF Return, Goes, InOrder

\* A spinner is started only when there is none.
LEMMA UpdateKeeps ==
  ASSUME IDisplay, updateActiveLocked
  PROVE  IDisplay'
<1> USE DEF IDisplay
<1>1. /\ main.at = "holds" /\ main.state = "active" /\ main.text # NoText
      /\ current' = main.text /\ interactive' = interactive
  BY DEF updateActiveLocked, InOrder
<1>2. main'.at = "idle" /\ DOMAIN main' = DOMAIN main /\ mu' = None /\ mu = "main"
  BY <1>1, Returned DEF updateActiveLocked, Exclusive
<1>3. CASE ~interactive
  <2>1. UNCHANGED <<running, stop, closed, spinners>>
    BY <1>3 DEF updateActiveLocked
  <2>2. line = <<>> /\ line' = <<>>
    BY <1>3 DEF updateActiveLocked, LineKept
  <2>3. OneWrite(last')
    <3>1. Append(line, main.text) = <<main.text>>
      BY <2>2
    <3>. QED
      BY <1>3, <3>1 DEF updateActiveLocked, LineKept, OneWrite
  <2>4. InOrder'
    BY <1>1, <1>2, <2>1 DEF InOrder, Places
  <2>5. Exclusive'
    BY <1>2, <2>1, DisplayType DEF Exclusive
  <2>6. OneSpinner'
    BY <1>1, <1>2, <2>1 DEF OneSpinner, Live
  <2>7. LineKept'
    BY <1>1, <1>2, <1>3, <2>2, <2>3 DEF LineKept, OneWrite
  <2>. QED
    BY <2>4, <2>5, <2>6, <2>7
<1>4. CASE interactive
  <2>1. line' = <<main.text>> /\ last' = last
    BY <1>4 DEF updateActiveLocked
  <2>2. LineKept'
    <3>1. startSpinnerLocked => running'
      BY DEF startSpinnerLocked, InOrder
    <3>. QED
      BY <1>1, <1>2, <1>4, <2>1, <3>1 DEF LineKept, OneWrite, updateActiveLocked
  <2>3. CASE running
    <3>1. UNCHANGED <<running, stop, closed, spinners>>
      BY <1>4, <2>3 DEF updateActiveLocked, startSpinnerLocked
    <3>2. InOrder'
      BY <1>1, <1>2, <3>1 DEF InOrder, Places
    <3>3. Exclusive'
      BY <1>2, <3>1, DisplayType DEF Exclusive
    <3>4. OneSpinner'
      BY <1>1, <1>2, <3>1 DEF OneSpinner, Live
    <3>. QED
      BY <2>2, <3>2, <3>3, <3>4
  <2>4. CASE ~running
    <3>1. PICK g \in Spinners :
            /\ spinners[g] \in {"none", "ended"}
            /\ running' = TRUE /\ stop' = g
            /\ closed' = closed \ {g}
            /\ spinners' = [spinners EXCEPT ![g] = "select"]
      BY <1>4, <2>4 DEF updateActiveLocked, startSpinnerLocked
    <3>2. InOrder'
      BY <1>1, <1>2, <3>1 DEF InOrder, Places, Stations
    <3>3. Exclusive'
      BY <1>2, <3>1, DisplayType DEF Exclusive, InOrder
    <3>4. \A h \in Live : FALSE
      BY <1>1, <2>4 DEF OneSpinner
    <3>5. \A h \in Spinners : spinners'[h] \notin {"none", "ended"} => h = g
      BY <3>1, <3>4 DEF Live, InOrder
    <3>6. g \in Live' /\ g \notin closed'
      BY <3>1 DEF Live, InOrder
    <3>7. OneSpinner'
      BY <1>1, <1>2, <1>4, <3>1, <3>5, <3>6 DEF OneSpinner, Live
    <3>. QED
      BY <2>2, <3>2, <3>3, <3>7
  <2>. QED
    BY <2>3, <2>4 DEF InOrder
<1>. QED
  BY <1>3, <1>4 DEF InOrder

\* A line that stays is put on an empty line, or in the place of a frame.
LEMMA InfoKeeps ==
  ASSUME IDisplay, writeInfoLocked
  PROVE  IDisplay'
<1> USE DEF IDisplay
<1>1. /\ main.at = "holds" /\ main.state = "info"
      /\ UNCHANGED <<interactive, running, current, stop, closed, spinners>>
  BY DEF writeInfoLocked
<1>2. main'.at = "idle" /\ DOMAIN main' = DOMAIN main /\ mu' = None /\ mu = "main"
  BY <1>1, Returned DEF writeInfoLocked, Exclusive
<1>3. InOrder'
  BY <1>1, <1>2 DEF InOrder, Places
<1>4. Exclusive'
  BY <1>1, <1>2, DisplayType DEF Exclusive
<1>5. OneSpinner'
  BY <1>1, <1>2 DEF OneSpinner, Live
<1>6. Append(<<>>, main.text) = <<main.text>>
  OBVIOUS
<1>7. CASE interactive /\ running
  <2>1. last' = <<main.text>> /\ line' = Render(current, <<>>)
    BY <1>6, <1>7 DEF writeInfoLocked
  <2>. QED
    BY <1>1, <1>2, <1>3, <1>4, <1>5, <1>7, <2>1 DEF LineKept, OneWrite, Render
<1>8. CASE ~(interactive /\ running)
  <2>1. line = <<>>
    BY <1>1, <1>8 DEF LineKept
  <2>2. last' = <<main.text>> /\ line' = <<>>
    BY <1>6, <1>8, <2>1 DEF writeInfoLocked
  <2>. QED
    BY <1>1, <1>2, <1>3, <1>4, <1>5, <2>2 DEF LineKept, OneWrite
<1>. QED
  BY <1>7, <1>8

\* A call that ends the line has the spinner told to stop before it goes on.
LEMMA EndingKeeps ==
  ASSUME IDisplay, stopSpinnerLocked \/ NothingToStop \/ Stopped
  PROVE  IDisplay'
<1> USE DEF IDisplay
<1>1. CASE stopSpinnerLocked
  <2>1. /\ main.at = "holds" /\ main.state \in {"done", "fail", "close"} /\ running
        /\ closed' = closed \cup {stop} /\ running' = FALSE /\ stop' = None /\ mu' = None
        /\ main' = [at |-> "waits", state |-> main.state, text |-> main.text, for |-> stop]
        /\ UNCHANGED <<interactive, current, spinners, line, last>>
    BY <1>1 DEF stopSpinnerLocked, Ends, Stops
  <2>2. stop \in Live /\ stop \in Spinners /\ mu = "main"
    BY <2>1 DEF OneSpinner, Exclusive, Live
  <2>3. InOrder'
    BY <2>1, <2>2 DEF InOrder, Places, States
  <2>4. Exclusive'
    BY <2>1, <2>2, DisplayType DEF Exclusive
  <2>5. OneSpinner'
    BY <2>1, <2>2 DEF OneSpinner, Live
  <2>6. LineKept'
    BY <2>1 DEF LineKept
  <2>. QED
    BY <2>3, <2>4, <2>5, <2>6
<1>2. CASE NothingToStop
  <2>1. /\ main.at = "holds" /\ main.state \in {"done", "fail", "close"}
        /\ main' = [main EXCEPT !.at = "finishes"]
        /\ UNCHANGED display
    BY <1>2 DEF NothingToStop, Ends, Goes
  <2>2. ~running
    BY <1>2, <2>1 DEF NothingToStop, Stops, OneSpinner, InOrder
  <2>3. main'.at = "finishes" /\ main'.state = main.state /\ DOMAIN main' = DOMAIN main
    BY <2>1 DEF InOrder
  <2>4. InOrder'
    BY <2>1, <2>3 DEF InOrder, Places, display
  <2>5. Exclusive'
    BY <2>1, <2>3 DEF Exclusive, display
  <2>6. OneSpinner'
    BY <2>1, <2>2, <2>3 DEF OneSpinner, Live, display
  <2>7. LineKept'
    BY <2>1, <2>3 DEF LineKept, display
  <2>. QED
    BY <2>4, <2>5, <2>6, <2>7
<1>3. CASE Stopped
  <2>1. /\ main.at = "waits" /\ spinners[main.for] = "ended"
        /\ main' = [at |-> "relock", state |-> main.state, text |-> main.text]
        /\ UNCHANGED display
    BY <1>3 DEF Stopped
  <2>2. InOrder'
    BY <2>1 DEF InOrder, Places, display
  <2>3. Exclusive'
    BY <2>1 DEF Exclusive, display
  <2>4. OneSpinner'
    BY <2>1 DEF OneSpinner, Live, display
  <2>5. LineKept'
    BY <2>1 DEF LineKept, display
  <2>. QED
    BY <2>2, <2>3, <2>4, <2>5
<1>. QED
  BY <1>1, <1>2, <1>3

\* What ends the line finds no spinner, and a line that is cleared.
LEMMA FinishKeeps ==
  ASSUME IDisplay, finishLineLocked \/ Close
  PROVE  IDisplay'
<1> USE DEF IDisplay
<1>1. /\ main.at = "finishes" /\ current' = NoText
      /\ UNCHANGED <<interactive, running, stop, closed, spinners>>
  BY DEF finishLineLocked, Close
<1>2. /\ main'.at \in {"idle", "over"} /\ main'.state = main.state
      /\ DOMAIN main' = DOMAIN main /\ mu' = None /\ mu = "main" /\ ~running
  BY <1>1, Returned DEF finishLineLocked, Close, Exclusive, OneSpinner
<1>3. InOrder'
  BY <1>1, <1>2 DEF InOrder, Places
<1>4. Exclusive'
  BY <1>1, <1>2, DisplayType DEF Exclusive
<1>5. OneSpinner'
  BY <1>1, <1>2 DEF OneSpinner, Live
<1>6. line' = <<>> /\ OneWrite(last')
  <2>1. Cleared = <<>>
    BY DEF Cleared, LineKept
  <2>2. CASE finishLineLocked
    <3>1. Append(Cleared, main.text) = <<main.text>>
      BY <2>1
    <3>. QED
      BY <2>2, <3>1 DEF finishLineLocked, OneWrite
  <2>3. CASE Close
    BY <2>1, <2>3 DEF Close, LineKept
  <2>. QED
    BY <2>2, <2>3
<1>7. LineKept'
  BY <1>1, <1>6 DEF LineKept, OneWrite
<1>. QED
  BY <1>3, <1>4, <1>5, <1>7

\* A spinner draws only while it holds the mutex, and nothing once it was stopped.
LEMMA SpinningKeeps ==
  ASSUME IDisplay, NEW g \in Spinners, Spinning(g)
  PROVE  IDisplay'
<1> USE DEF IDisplay
<1>1. ASSUME NEW from \in {"select", "lock", "holds"}, NEW to \in Stations, At(g, from, to)
      PROVE  /\ spinners[g] = from /\ spinners' = [spinners EXCEPT ![g] = to]
             /\ UNCHANGED <<interactive, running, current, stop, closed, main, last>>
             /\ spinners' \in [Spinners -> Stations]
             /\ to # "none" /\ (to = "ended" => g \in closed) => OneSpinner'
  <2>1. /\ spinners[g] = from /\ spinners' = [spinners EXCEPT ![g] = to]
        /\ UNCHANGED <<interactive, running, current, stop, closed, main, last>>
        /\ spinners' \in [Spinners -> Stations]
    BY <1>1 DEF At, InOrder
  <2>2. \A h \in Spinners : spinners'[h] = IF h = g THEN to ELSE spinners[h]
    BY <2>1 DEF InOrder
  <2>3. g \in Live
    BY <2>1 DEF Live
  <2>4. ASSUME to # "none", to = "ended" => g \in closed
        PROVE  OneSpinner'
    <3>1. Live' \subseteq Live
      BY <2>2, <2>3 DEF Live
    <3>2. running => stop \in Live'
      BY <2>2, <2>3, <2>4 DEF Live, OneSpinner
    <3>. QED
      BY <2>1, <3>1, <3>2 DEF OneSpinner
  <2>. QED
    BY <2>1, <2>4
<1>2. CASE TickCase(g)
  <2>1. /\ spinners' = [spinners EXCEPT ![g] = "lock"] /\ spinners[g] = "select"
        /\ UNCHANGED <<interactive, running, current, stop, closed, main, last, mu, line>>
        /\ spinners' \in [Spinners -> Stations] /\ OneSpinner'
    BY <1>1, <1>2 DEF TickCase, Stations
  <2>2. InOrder' /\ LineKept'
    BY <2>1 DEF InOrder, LineKept
  <2>3. Exclusive'
    BY <2>1 DEF Exclusive, InOrder
  <2>. QED
    BY <2>1, <2>2, <2>3
<1>3. CASE StopCase(g)
  <2>1. /\ spinners' = [spinners EXCEPT ![g] = "ended"] /\ spinners[g] = "select"
        /\ UNCHANGED <<interactive, running, current, stop, closed, main, last, mu, line>>
        /\ spinners' \in [Spinners -> Stations] /\ OneSpinner'
    BY <1>1, <1>3 DEF StopCase, Stations
  <2>2. InOrder' /\ LineKept'
    BY <2>1 DEF InOrder, LineKept
  <2>3. Exclusive'
    BY <2>1 DEF Exclusive, InOrder
  <2>. QED
    BY <2>1, <2>2, <2>3
<1>4. CASE SpinnerLock(g)
  <2>1. /\ spinners' = [spinners EXCEPT ![g] = "holds"] /\ spinners[g] = "lock"
        /\ UNCHANGED <<interactive, running, current, stop, closed, main, last, line>>
        /\ spinners' \in [Spinners -> Stations] /\ OneSpinner'
        /\ mu = None /\ mu' = g
    BY <1>1, <1>4 DEF SpinnerLock, Stations
  <2>2. InOrder' /\ LineKept'
    BY <2>1 DEF InOrder, LineKept
  <2>3. Exclusive'
    BY <2>1, DisplayType DEF Exclusive, InOrder
  <2>. QED
    BY <2>1, <2>2, <2>3
<1>5. CASE Spin(g)
  <2>1. /\ spinners' = [spinners EXCEPT ![g] = "select"] /\ spinners[g] = "holds"
        /\ UNCHANGED <<interactive, running, current, stop, closed, main, last>>
        /\ spinners' \in [Spinners -> Stations] /\ OneSpinner'
        /\ mu' = None /\ mu = g
    BY <1>1, <1>5 DEF Spin, Stations, Exclusive
  <2>2. InOrder'
    BY <2>1 DEF InOrder
  <2>3. Exclusive'
    BY <2>1, DisplayType DEF Exclusive, InOrder
  <2>4. LineKept'
    <3>1. line' = line \/ (running /\ current # NoText /\ line' = <<current>>)
      BY <1>5 DEF Spin, Render
    <3>. QED
      BY <2>1, <3>1 DEF LineKept, OneSpinner, OneWrite
  <2>. QED
    BY <2>1, <2>2, <2>3, <2>4
<1>. QED
  BY <1>2, <1>3, <1>4, <1>5 DEF Spinning

\* A step that changes nothing but the time.
LEMMA UnchangedKeeps ==
  ASSUME IDisplay, UNCHANGED <<display, main>>
  PROVE  IDisplay'
BY DEF IDisplay, InOrder, Exclusive, OneSpinner, LineKept, Live, display

\* The inductive step.
LEMMA DisplayKept == IDisplay /\ [Next]_vars => IDisplay'
<1> SUFFICES ASSUME IDisplay, [Next]_vars
             PROVE  IDisplay'
  OBVIOUS
<1>1. CASE CreateEnvironment
  BY <1>1, CommandReports, ReportsKeep
<1>2. CASE InCall
  BY <1>2, LockKeeps, UpdateKeeps, InfoKeeps, EndingKeeps, FinishKeeps DEF InCall
<1>3. CASE Elapses
  <2>1. UNCHANGED <<display, main>>
    BY <1>3 DEF Elapses
  <2>. QED
    BY <2>1, UnchangedKeeps
<1>4. CASE \E g \in Spinners : Spinning(g)
  BY <1>4, SpinningKeeps
<1>5. CASE UNCHANGED vars
  <2>1. UNCHANGED <<display, main>>
    BY <1>5 DEF vars
  <2>. QED
    BY <2>1, UnchangedKeeps
<1>. QED
  BY <1>1, <1>2, <1>3, <1>4, <1>5 DEF Next

\* Initially nobody is in a call and there is no spinner.
LEMMA InitDisplay == Init => IDisplay
<1> SUFFICES ASSUME Init
             PROVE  IDisplay
  OBVIOUS
<1> USE DEF Init, DisplayInit
<1>1. InOrder
  BY DEF InOrder, Places, Stations
<1>2. Exclusive
  BY DisplayType DEF Exclusive
<1>3. OneSpinner
  BY DEF OneSpinner, Live
<1>4. LineKept
  BY DEF LineKept, OneWrite
<1>. QED
  BY <1>1, <1>2, <1>3, <1>4 DEF IDisplay

\* Who holds the mutex, who may draw, and what the line is are so at all times.
THEOREM DisplayCorrect == Spec => []IDisplay
BY InitDisplay, DisplayKept, PTL DEF Spec

\* Every line that stays was put on an empty line: no result is glued to a frame of the
\* spinner, whatever the spinner did while the command waited for it without the mutex.
THEOREM LinesAreWhole == Spec => []WholeLines
<1>1. ASSUME IDisplay
      PROVE  WholeLines
  <2>1. CASE last = <<>>
    BY <2>1 DEF WholeLines
  <2>2. ASSUME NEW x, last = <<x>>
        PROVE  WholeLines
    BY <2>2 DEF WholeLines
  <2>. QED
    BY <1>1, <2>1, <2>2 DEF IDisplay, LineKept, OneWrite
<1>. QED
  BY <1>1, DisplayCorrect, PTL

\* When a command is over, its spinner is, the mutex is free, and no frame stands where
\* the shell's prompt will.
THEOREM EndsQuietly == Spec => []QuietAtTheEnd
<1>1. ASSUME IDisplay, main.at = "over"
      PROVE  Live = {} /\ line = <<>> /\ mu = None
  <2>1. ~running /\ Live = {}
    BY <1>1 DEF IDisplay, OneSpinner
  <2>2. line = <<>>
    BY <1>1, <2>1 DEF IDisplay, LineKept
  <2>3. mu # "main" /\ \A g \in Spinners : mu # g
    BY <1>1, <2>1 DEF IDisplay, Exclusive, Live
  <2>. QED
    BY <1>1, <2>1, <2>2, <2>3 DEF IDisplay, InOrder
<1>. QED
  BY <1>1, DisplayCorrect, PTL DEF QuietAtTheEnd

-----------------------------------------------------------------------------
(* What the pull has heard of the layers. *)

\* The daemon names the image once, under its tag, without bytes.
TagNamed ==
  layers[Tag] # None => layers[Tag] = [status |-> "Pulling from", current |-> 0, total |-> 0]

PullTyped ==
  /\ clock \in 0..MaxClock /\ lastLineAt \in 0..MaxClock
  /\ layers \in [Ids -> Layer \cup {None}]
  /\ status \in {None, "Digest"}
  /\ lastReport \in (0..MaxClock) \cup {None}
  /\ TagNamed

\* What a report leaves.
LEMMA Reported ==
  ASSUME PullTyped, NEW force, NEW ls, NEW st, report(force, ls, st)
  PROVE  lastReport' \in (0..MaxClock) \cup {None}
BY DEF PullTyped, report

\* A message about a layer leaves a layer.
LEMMA UpdateTyped ==
  ASSUME PullTyped, NEW l \in Layers, NEW st \in Statuses, NEW bytes \in 0..Bytes + 1,
         NEW total \in {0, Bytes}, Update(l, st, bytes, total), UNCHANGED <<display, clock>>
  PROVE  PullTyped'
<1> DEFINE new == [status |-> st, current |-> bytes, total |-> total]
<1>1. new \in Layer
  BY DEF Layer
<1>2. l \in Ids /\ Tag \in Ids /\ l # Tag
  BY PullType DEF Ids
<1>3. layers' = [layers EXCEPT ![l] = new]
  BY DEF Update
<1>4. layers' \in [Ids -> Layer \cup {None}] /\ layers'[Tag] = layers[Tag]
  BY <1>1, <1>2, <1>3 DEF PullTyped
<1>5. lastReport' \in (0..MaxClock) \cup {None}
  BY Reported DEF Update
<1>. QED
  BY <1>4, <1>5 DEF PullTyped, TagNamed, Update, display

\* Every message, and the end of the stream, does.
LEMMA MessagesTyped ==
  ASSUME PullTyped, Message \/ Flush, UNCHANGED <<display, clock>>
  PROVE  PullTyped'
<1>0. /\ 0 \in 0..Bytes + 1 /\ 1 \in 0..Bytes + 1 /\ Bytes \in Nat
      /\ \A b \in 0..Bytes + 1 : b <= Bytes => b + 1 \in 0..Bytes + 1
  BY PullType
<1>1. ASSUME NEW l \in Layers, layers[l] # None
      PROVE  layers[l] \in Layer /\ layers[l].current \in 0..Bytes + 1
             /\ layers[l].total \in {0, Bytes}
  BY <1>1 DEF PullTyped, Ids, Layer
<1>2. ASSUME NEW l \in Layers, NEW from, NEW to \in Statuses, Proceeds(l, from, to)
      PROVE  PullTyped'
  BY <1>0, <1>1, <1>2, UpdateTyped DEF Proceeds, Renamed
<1>3. ASSUME NEW l \in Layers, NEW from, NEW st \in Statuses, Moves(l, from, st)
      PROVE  PullTyped'
  <2>1. CASE \E b \in 0..1 : Update(l, st, b, Bytes)
    <3>1. PICK b \in 0..1 : Update(l, st, b, Bytes)
      BY <2>1
    <3>2. b \in 0..Bytes + 1
      BY <1>0
    <3>. QED
      BY <3>1, <3>2, UpdateTyped
  <2>2. CASE layers[l].current <= Bytes /\ Update(l, st, layers[l].current + 1, Bytes)
    <3>1. layers[l].current + 1 \in 0..Bytes + 1
      BY <1>0, <1>1, <1>3, <2>2 DEF Moves
    <3>. QED
      BY <2>2, <3>1, UpdateTyped
  <2>. QED
    BY <1>3, <2>1, <2>2 DEF Moves
<1>4. ASSUME NEW l \in Layers, LayerMessage(l)
      PROVE  PullTyped'
  <2>1. CASE Announced(l)
    BY <1>0, <2>1, UpdateTyped DEF Announced, Statuses
  <2>2. CASE ~Announced(l)
    BY <1>2, <1>3, <1>4, <2>2 DEF LayerMessage, Statuses
  <2>. QED
    BY <2>1, <2>2
<1>5. CASE ImageMessage
  <2> DEFINE new == [status |-> "Pulling from", current |-> 0, total |-> 0]
  <2>1. new \in Layer
    BY <1>0 DEF Layer, Statuses
  <2>2. layers' = [layers EXCEPT ![Tag] = new] /\ status' = status /\ Tag \in Ids
    BY <1>5 DEF ImageMessage, Update, Ids
  <2>3. lastReport' \in (0..MaxClock) \cup {None}
    BY <1>5, Reported DEF ImageMessage, Update
  <2>. QED
    BY <2>1, <2>2, <2>3 DEF PullTyped, TagNamed, display
<1>6. CASE StatusMessage
  BY <1>6, Reported DEF StatusMessage, PullTyped, TagNamed, display
<1>7. CASE Flush
  BY <1>7, Reported DEF Flush, PullTyped, TagNamed, display
<1>. QED
  BY <1>4, <1>5, <1>6, <1>7 DEF Message

-----------------------------------------------------------------------------
(* Sums over finite sets.  MapThenSumSet is a recursive function on the      *)
(* subsets of a set, so what it is worth is proved by well-founded induction *)
(* over those subsets.                                                       *)

\* The element that the fold takes from a set.
Pick(s) == CHOOSE x \in s : TRUE

\* What the fold of MapThenSumSet computes for a set from what it computes for its subsets.
Adds(f, h, s) == IF s = {} THEN 0 ELSE f[Pick(s)] + h[s \ {Pick(s)}]
Sums(f, h, K) == h = [s \in SUBSET K |-> Adds(f, h, s)]
SumOf(f, K) == (CHOOSE h : Sums(f, h, K))[K]

\* Induction over the subsets of a finite set: of a set of them that is not empty, one
\* has no smaller one in it.
LEMMA SmallerFirst ==
  ASSUME NEW K, IsFiniteSet(K), NEW T \in SUBSET SUBSET K, T # {}
  PROVE  \E s \in T : \A t \in T : t \subseteq s => t = s
<1>1. IsWellFoundedOn(StrictSubsetOrdering(K), FiniteSubsetsOf(K))
  BY FS_StrictSubsetOrderingWellFounded
<1>2. T \subseteq FiniteSubsetsOf(K)
  BY FS_Subset DEF FiniteSubsetsOf
<1>3. PICK s \in T : \A t \in T : <<t, s>> \notin StrictSubsetOrdering(K)
  BY <1>1, <1>2, WFMin
<1>. QED
  BY <1>3 DEF StrictSubsetOrdering

\* What is picked from a set is in it.
LEMMA Picks == \A s : s # {} => Pick(s) \in s
BY DEF Pick

\* Two functions that add up as they should agree wherever both are defined.
LEMMA SumsAgree ==
  ASSUME NEW K, IsFiniteSet(K), NEW f, NEW X \in SUBSET K, NEW Y \in SUBSET K,
         NEW h, NEW k, Sums(f, h, X), Sums(f, k, Y), NEW s \in SUBSET (X \cap Y)
  PROVE  h[s] = k[s]
<1> DEFINE T == {t \in SUBSET (X \cap Y) : h[t] # k[t]}
<1> SUFFICES ASSUME T # {}
             PROVE  FALSE
  OBVIOUS
<1>0. T \in SUBSET SUBSET K
  OBVIOUS
<1>1. PICK t \in T : \A u \in T : u \subseteq t => u = t
  <2> HIDE DEF T
  <2>. QED
    BY <1>0, SmallerFirst
<1>2. h[t] = Adds(f, h, t) /\ k[t] = Adds(f, k, t)
  BY <1>1 DEF Sums
<1>3. CASE t = {}
  BY <1>1, <1>2, <1>3 DEF Adds
<1>4. CASE t # {}
  <2>1. Pick(t) \in t
    BY <1>4, Picks
  <2>2. h[t \ {Pick(t)}] = k[t \ {Pick(t)}]
    BY <1>1, <2>1
  <2>. QED
    BY <1>1, <1>2, <1>4, <2>2 DEF Adds
<1>. QED
  BY <1>3, <1>4

\* There is such a function: it takes what those of smaller sets say.
LEMMA SumsExist ==
  ASSUME NEW K, IsFiniteSet(K), NEW f
  PROVE  \A X \in SUBSET K : \E h : Sums(f, h, X)
<1> DEFINE T == {X \in SUBSET K : ~ \E h : Sums(f, h, X)}
<1> SUFFICES ASSUME T # {}
             PROVE  FALSE
  OBVIOUS
<1>0. T \in SUBSET SUBSET K
  OBVIOUS
<1>1. PICK X \in T : \A Y \in T : Y \subseteq X => Y = X
  <2> HIDE DEF T
  <2>. QED
    BY <1>0, SmallerFirst
<1> DEFINE H(Y) == CHOOSE h : Sums(f, h, Y)
           g    == [s \in SUBSET X |->
                      IF s = {} THEN 0 ELSE f[Pick(s)] + H(s \ {Pick(s)})[s \ {Pick(s)}]]
<1>2. \A Y \in SUBSET X : Y # X => Sums(f, H(Y), Y)
  <2> SUFFICES ASSUME NEW Y \in SUBSET X, Y # X
               PROVE  Sums(f, H(Y), Y)
    OBVIOUS
  <2>1. Y \notin T
    BY <1>1
  <2>2. \E h : Sums(f, h, Y)
    BY <2>1
  <2>. QED
    BY <2>2
<1>3. ASSUME NEW s \in SUBSET X, s # {}
      PROVE  g[s \ {Pick(s)}] = H(s \ {Pick(s)})[s \ {Pick(s)}]
  <2> DEFINE t == s \ {Pick(s)}
             u == t \ {Pick(t)}
  <2>0. Pick(s) \in s
    BY <1>3, Picks
  <2>1. t \in SUBSET X /\ t # X
    BY <2>0
  <2>2. H(t) = [r \in SUBSET t |-> Adds(f, H(t), r)]
    BY <1>2, <2>1 DEF Sums
  <2>3. H(t)[t] = Adds(f, H(t), t)
    <3> HIDE DEF H
    <3>. QED
      BY <2>2
  <2>4. CASE t = {}
    BY <2>1, <2>3, <2>4 DEF Adds
  <2>5. CASE t # {}
    <3>0. Pick(t) \in t
      BY <2>5, Picks
    <3>1. u \in SUBSET X /\ u # X /\ u \in SUBSET t
      BY <2>1
    <3>2. Sums(f, H(t), t) /\ Sums(f, H(u), u)
      BY <1>2, <2>1, <3>1
    <3>3. X \in SUBSET K
      BY <1>1
    <3>4. H(t)[u] = H(u)[u]
      <4> HIDE DEF H, u, t
      <4>1. t \in SUBSET K /\ u \in SUBSET K /\ u \in SUBSET (t \cap u)
        BY <3>1, <3>3, <2>1
      <4>. QED
        BY <3>2, <4>1, SumsAgree
    <3>5. H(t)[t] = f[Pick(t)] + H(t)[u]
      BY <2>3, <2>5 DEF Adds
    <3>6. g[t] = f[Pick(t)] + H(u)[u]
      BY <2>1, <2>5
    <3>. QED
      BY <3>4, <3>5, <3>6
  <2>. QED
    BY <2>4, <2>5
<1>4. Sums(f, g, X)
  <2>1. \A s \in SUBSET X : g[s] = Adds(f, g, s)
    <3> SUFFICES ASSUME NEW s \in SUBSET X
                 PROVE  g[s] = Adds(f, g, s)
      OBVIOUS
    <3>1. g[s] = IF s = {} THEN 0 ELSE f[Pick(s)] + H(s \ {Pick(s)})[s \ {Pick(s)}]
      OBVIOUS
    <3> HIDE DEF g, H
    <3>. QED
      BY <1>3, <3>1 DEF Adds
  <2>2. g = [s \in SUBSET X |-> g[s]]
    OBVIOUS
  <2> HIDE DEF g
  <2>. QED
    BY <2>1, <2>2 DEF Sums
<1>. QED
  BY <1>1, <1>4

\* So the fold over a finite set is what its definition says.
LEMMA SumsDefined ==
  ASSUME NEW K, IsFiniteSet(K), NEW f
  PROVE  Sums(f, CHOOSE h : Sums(f, h, K), K)
<1>1. \E h : Sums(f, h, K)
  BY SumsExist
<1>. QED
  BY <1>1

\* A sum of natural numbers is one, and is no more than a sum of larger ones.
LEMMA SumBounded ==
  ASSUME NEW K, IsFiniteSet(K), NEW f, NEW g,
         \A i \in K : f[i] \in Nat /\ g[i] \in Nat /\ f[i] <= g[i]
  PROVE  SumOf(f, K) \in Nat /\ SumOf(g, K) \in Nat /\ SumOf(f, K) <= SumOf(g, K)
<1> DEFINE F == CHOOSE h : Sums(f, h, K)
           G == CHOOSE h : Sums(g, h, K)
           OK(s) == F[s] \in Nat /\ G[s] \in Nat /\ F[s] <= G[s]
           T == {s \in SUBSET K : ~OK(s)}
<1>1. Sums(f, F, K) /\ Sums(g, G, K)
  BY SumsDefined
<1> HIDE DEF F, G
<1>2. ASSUME T # {}
      PROVE  FALSE
  <2>0. T \in SUBSET SUBSET K
    OBVIOUS
  <2>1. PICK s \in T : \A u \in T : u \subseteq s => u = s
    <3> HIDE DEF T
    <3>. QED
      BY <1>2, <2>0, SmallerFirst
  <2>2. F[s] = Adds(f, F, s) /\ G[s] = Adds(g, G, s)
    BY <1>1, <2>1 DEF Sums
  <2>3. CASE s = {}
    BY <2>1, <2>2, <2>3 DEF Adds
  <2>4. CASE s # {}
    <3>1. Pick(s) \in s /\ Pick(s) \in K
      BY <2>1, <2>4, Picks
    <3>2. OK(s \ {Pick(s)})
      BY <2>1, <3>1
    <3>3. F[s] = f[Pick(s)] + F[s \ {Pick(s)}] /\ G[s] = g[Pick(s)] + G[s \ {Pick(s)}]
      BY <2>2, <2>4 DEF Adds
    <3>4. OK(s)
      BY <3>1, <3>2, <3>3
    <3>. QED
      BY <2>1, <3>4
  <2>. QED
    BY <2>3, <2>4
<1>3. OK(K)
  BY <1>2
<1>4. SumOf(f, K) = F[K] /\ SumOf(g, K) = G[K]
  BY DEF SumOf, F, G
<1>. QED
  BY <1>3, <1>4

\* Bytes of a layer that count as transferred.
Counted(ls, i) ==
  IF Kind[ls[i].status] = "complete" THEN ls[i].total
  ELSE clampProgress(ls[i].current, ls[i].total)

\* The total of a report is such a sum.
LEMMA TotalIsSum ==
  ASSUME NEW ls
  PROVE  Total(ls) = SumOf([i \in Known(ls) |-> ls[i].total], Known(ls))
<1> DEFINE K    == Known(ls)
           f    == [i \in K |-> ls[i].total]
           F(h) == [s \in SUBSET K |->
                      IF s = {} THEN 0
                      ELSE ls[CHOOSE x \in s : TRUE].total + h[s \ {CHOOSE x \in s : TRUE}]]
<1>1. \A h : Sums(f, h, K) <=> h = F(h)
  <2>1. \A s \in SUBSET K : s # {} => (CHOOSE x \in s : TRUE) \in K
    OBVIOUS
  <2>. QED
    BY <2>1 DEF Sums, Adds, Pick
<1>2. (CHOOSE h : h = F(h)) = (CHOOSE h : Sums(f, h, K))
  <2> HIDE DEF F, f
  <2>. QED
    BY <1>1, Zenon
<1>3. Total(ls) = (CHOOSE h : h = F(h))[K]
  BY DEF Total, MapThenSumSet, MapThenFoldSet
<1>. QED
  BY <1>2, <1>3, Zenon DEF SumOf

\* So is what it says was transferred.
LEMMA CurrentIsSum ==
  ASSUME NEW ls
  PROVE  Current(ls) = SumOf([i \in Known(ls) |-> Counted(ls, i)], Known(ls))
<1> DEFINE K    == Known(ls)
           f    == [i \in K |-> Counted(ls, i)]
           F(h) == [s \in SUBSET K |->
                      IF s = {} THEN 0
                      ELSE Counted(ls, CHOOSE x \in s : TRUE)
                           + h[s \ {CHOOSE x \in s : TRUE}]]
<1>1. \A h : Sums(f, h, K) <=> h = F(h)
  <2>1. \A s \in SUBSET K : s # {} => (CHOOSE x \in s : TRUE) \in K
    OBVIOUS
  <2>. QED
    BY <2>1 DEF Sums, Adds, Pick
<1>2. (CHOOSE h : h = F(h)) = (CHOOSE h : Sums(f, h, K))
  <2> HIDE DEF F, f
  <2>. QED
    BY <1>1, Zenon
<1>3. Current(ls) = (CHOOSE h : h = F(h))[K]
  BY DEF Current, Counted, MapThenSumSet, MapThenFoldSet
<1>. QED
  BY <1>2, <1>3, Zenon DEF SumOf

LayersOK(ls) == ls \in [Ids -> Layer \cup {None}]

\* The layers that are known are finitely many, and each is a layer.
LEMMA KnownLayers ==
  ASSUME NEW ls, LayersOK(ls)
  PROVE  /\ IsFiniteSet(Known(ls)) /\ Known(ls) \subseteq Ids
         /\ \A i \in Known(ls) : ls[i] \in Layer
<1>1. IsFiniteSet(Ids)
  BY PullType, FS_AddElement DEF Ids
<1>2. Known(ls) \in SUBSET Ids
  BY DEF Known
<1>. QED
  BY <1>1, <1>2, FS_Subset DEF Known, LayersOK

\* No report says that more was transferred than there is.
LEMMA NoMoreThanTotal ==
  ASSUME NEW ls, LayersOK(ls)
  PROVE  Current(ls) \in Nat /\ Total(ls) \in Nat /\ Current(ls) <= Total(ls)
<1> DEFINE f == [i \in Known(ls) |-> Counted(ls, i)]
           g == [i \in Known(ls) |-> ls[i].total]
<1>1. \A i \in Known(ls) : f[i] \in Nat /\ g[i] \in Nat /\ f[i] <= g[i]
  BY KnownLayers, PullType DEF Counted, clampProgress, Layer
<1>2. SumOf(f, Known(ls)) \in Nat /\ SumOf(g, Known(ls)) \in Nat
      /\ SumOf(f, Known(ls)) <= SumOf(g, Known(ls))
  <2> HIDE DEF f, g
  <2>. QED
    BY <1>1, KnownLayers, SumBounded
<1>. QED
  BY <1>2, TotalIsSum, CurrentIsSum

\* A pull of which every layer is complete has transferred everything.
LEMMA CompleteIsTotal ==
  ASSUME NEW ls, \A i \in Known(ls) : Counted(ls, i) = ls[i].total
  PROVE  Current(ls) = Total(ls)
<1>1. [i \in Known(ls) |-> Counted(ls, i)] = [i \in Known(ls) |-> ls[i].total]
  OBVIOUS
<1>. QED
  BY <1>1, TotalIsSum, CurrentIsSum
-----------------------------------------------------------------------------
(* What the command shows of the pull. *)

\* While nothing was pulled, nothing was heard of any layer.
Early == {"announce", "ensure", "check", "inspect"}

\* The line of the finished pull is on its way, or stands there.
Shown(text) ==
  \/ main.at \in {"lock", "holds"} /\ main.state = "active" /\ main.text = text
  \/ /\ main.at = "idle"
     /\ IF interactive THEN current = text /\ line = <<text>> ELSE last = <<text>>

\* An output that is no terminal has its last text on its last line.
PullSaid ==
  /\ step \in Early => Known(layers) = {}
  /\ step = "announce" => main.at = "idle" /\ lastLine = NoText
  /\ main.at \in {"lock", "holds"} /\ main.state = "info" => lastLine = NoText
  /\ ~interactive /\ lastLine # NoText => last = <<lastLine>>
  /\ step = "ready" /\ Known(layers) # {} => Shown(<<"Pulling image", Whole>>)

SaysRight == reported # None => reported.current <= reported.total

IPull == IDisplay /\ PullTyped /\ SaysRight /\ PullSaid

\* What a report says is the summary of what was heard.
LEMMA ReportSums ==
  ASSUME SaysRight, NEW force, NEW ls, LayersOK(ls), NEW st, report(force, ls, st)
  PROVE  SaysRight'
<1>1. CASE reported' = reported
  BY <1>1 DEF SaysRight
<1>2. CASE reported' = summary(ls, st)
  BY <1>2, NoMoreThanTotal DEF SaysRight, summary
<1>. QED
  BY <1>1, <1>2 DEF report

\* What the command does keeps what it heard, and what it reports.
LEMMA CommandTyped ==
  ASSUME PullTyped, SaysRight, CreateEnvironment
  PROVE  PullTyped' /\ SaysRight'
<1>1. ASSUME NEW from, NEW state, NEW text, NEW to, Says(from, state, text, to)
      PROVE  PullTyped' /\ SaysRight'
  BY <1>1 DEF Says, PullTyped, TagNamed, SaysRight, display, pull
<1>2. ASSUME Message \/ Flush, UNCHANGED <<display, clock>>
      PROVE  PullTyped' /\ SaysRight'
  <2>1. PullTyped'
    BY <1>2, MessagesTyped
  <2>2. LayersOK(layers')
    BY <2>1 DEF PullTyped, LayersOK
  <2>3. \E force, st : report(force, layers', st)
    <3>1. ASSUME NEW l, NEW st, NEW bytes, NEW total, Update(l, st, bytes, total)
          PROVE  \E force, s : report(force, layers', s)
      BY <3>1 DEF Update
    <3>2. ASSUME NEW l, LayerMessage(l)
          PROVE  \E force, st : report(force, layers', st)
      BY <3>1, <3>2 DEF LayerMessage, Announced, Proceeds, Renamed, Moves
    <3>3. CASE StatusMessage
      BY <3>3 DEF StatusMessage
    <3>4. CASE Flush
      BY <3>4 DEF Flush
    <3>. QED
      BY <1>2, <3>1, <3>2, <3>3, <3>4 DEF Message, ImageMessage
  <2>. QED
    BY <2>1, <2>2, <2>3, ReportSums
<1>3. CASE EnsureImage
  BY <1>1, <1>2, <1>3 DEF EnsureImage
<1>4. CASE ~EnsureImage
  BY <1>1, <1>4 DEF CreateEnvironment, Fails
<1>. QED
  BY <1>3, <1>4

\* Every step does.
LEMMA PullKept ==
  ASSUME IPull, [Next]_vars
  PROVE  PullTyped' /\ SaysRight'
<1> USE DEF IPull
<1>1. CASE CreateEnvironment
  BY <1>1, CommandTyped
<1>2. ASSUME UNCHANGED pull, clock' \in 0..MaxClock, lastLineAt' \in {lastLineAt, clock}
      PROVE  PullTyped' /\ SaysRight'
  BY <1>2 DEF PullTyped, TagNamed, SaysRight, pull
<1>3. CASE InCall /\ UNCHANGED pull
  <2>1. clock' = clock /\ lastLineAt' \in {lastLineAt, clock}
    BY <1>3 DEF InCall, Lock, updateActiveLocked, writeInfoLocked, stopSpinnerLocked,
                NothingToStop, Stopped, finishLineLocked, Close, display
  <2>. QED
    BY <1>2, <1>3, <2>1 DEF PullTyped
<1>4. CASE Elapses /\ UNCHANGED pull
  <2>1. clock + 1 \in 0..MaxClock
    BY <1>4, DisplayType DEF Elapses, PullTyped
  <2>. QED
    BY <1>2, <1>4, <2>1 DEF Elapses, display
<1>5. ASSUME NEW g \in Spinners, Spinning(g), UNCHANGED pull
      PROVE  PullTyped' /\ SaysRight'
  BY <1>2, <1>5 DEF Spinning, TickCase, StopCase, SpinnerLock, Spin, At, PullTyped
<1>6. CASE UNCHANGED vars
  BY <1>2, <1>6 DEF vars, display, PullTyped
<1>. QED
  BY <1>1, <1>3, <1>4, <1>5, <1>6 DEF Next

\* A stream that has ended has left every layer complete, and the tag without bytes.
LEMMA FinishedIsComplete ==
  ASSUME PullTyped, Finished
  PROVE  /\ \A l \in Layers : l \in Known(layers) /\ Kind[layers[l].status] = "complete"
         /\ \A i \in Known(layers) \ Layers :
              /\ Kind[layers[i].status] = "other"
              /\ layers[i].current = 0 /\ layers[i].total = 0
<1>1. ASSUME NEW l \in Layers
      PROVE  l \in Known(layers) /\ Kind[layers[l].status] = "complete"
  BY <1>1 DEF Finished, Known, Ids, Kind, Statuses
<1>2. ASSUME NEW i \in Known(layers) \ Layers
      PROVE  /\ Kind[layers[i].status] = "other"
             /\ layers[i].current = 0 /\ layers[i].total = 0
  <2> DEFINE named == [status |-> "Pulling from", current |-> 0, total |-> 0]
  <2>1. layers[i] = named
    BY <1>2 DEF PullTyped, TagNamed, Known, Ids
  <2>2. Kind["Pulling from"] = "other"
    BY DEF Kind, Statuses
  <2>3. named.status = "Pulling from" /\ named.current = 0 /\ named.total = 0
    OBVIOUS
  <2> HIDE DEF named
  <2>. QED
    BY <2>1, <2>2, <2>3, Zenon
<1>. QED
  BY <1>1, <1>2

\* So the summary of it is that of the whole image.
LEMMA WholeSummary ==
  ASSUME PullTyped, Finished, NEW st
  PROVE  summary(layers, st) = Whole
<1> DEFINE Of(kind) == {i \in Known(layers) : Kind[layers[i].status] = kind}
<1>1. Of("complete") = Layers
  <2>1. Of("complete") \subseteq Layers
    BY FinishedIsComplete
  <2>2. Layers \subseteq Of("complete")
    BY FinishedIsComplete
  <2>. QED
    BY <2>1, <2>2
<1>2. \A kind \in Named : kind # "complete" => Of(kind) = {}
  BY FinishedIsComplete DEF Named
<1>3. Count(layers, "complete") = Cardinality(Layers)
  BY <1>1 DEF Count
<1>4. \A kind \in Named : kind # "complete" => Count(layers, kind) = 0
  BY <1>2, FS_EmptySet DEF Count
<1>5. Cardinality(Layers) # 0 /\ Known(layers) # {}
  BY FinishedIsComplete, PullType, FS_EmptySet
<1>6. Detail(layers, st) = [kind \in Named \cup {"active"} |->
                              IF kind = "complete" THEN Cardinality(Layers) ELSE 0]
  <2>1. "complete" \in Named /\ "active" \notin Named
    BY DEF Named
  <2>2. \A kind \in Named \cup {"active"} :
          (IF kind \in Named THEN Count(layers, kind)
           ELSE IF \A k \in Named : Count(layers, k) = 0
                THEN Count(layers, "other") ELSE 0)
          = (IF kind = "complete" THEN Cardinality(Layers) ELSE 0)
    <3> HIDE DEF Named
    <3>. QED
      BY <1>3, <1>4, <1>5, <2>1
  <2>. QED
    BY <1>5, <2>2 DEF Detail
<1>7. Current(layers) = Total(layers)
  <2>1. \A i \in Known(layers) : Counted(layers, i) = layers[i].total
    BY FinishedIsComplete DEF Counted, clampProgress
  <2>. QED
    BY <2>1, CompleteIsTotal
<1>. QED
  BY <1>6, <1>7 DEF summary, Whole

\* The end of the stream is always reported.
LEMMA FlushShows ==
  ASSUME PullTyped, Flush
  PROVE  Whole' = Whole /\ Call("active", <<"Pulling image", Whole>>)
<1>1. summary(layers, status) = Whole
  BY WholeSummary DEF Flush
<1>2. Whole.detail \in [{"downloading", "extracting", "waiting", "complete", "active"} -> Nat]
  <2>1. Cardinality(Layers) \in Nat
    BY PullType, FS_CardinalityType
  <2>2. Named \cup {"active"}
        = {"downloading", "extracting", "waiting", "complete", "active"}
    BY DEF Named
  <2>. QED
    BY <2>1, <2>2 DEF Whole
<1>3. Whole.detail # None
  BY <1>2, PullType
<1>4. ~HeldBack(TRUE, Whole)
  BY <1>3 DEF HeldBack
<1>5. reported' = Whole /\ Call("active", <<"Pulling image", reported'>>)
  BY <1>1, <1>4 DEF Flush, report
<1>6. Whole' = Whole
  <2>1. layers' = layers
    BY DEF Flush
  <2>2. Total(layers') = Total(layers)
    BY <2>1, TotalIsSum DEF Known
  <2>. QED
    BY <2>2 DEF Whole
<1>. QED
  BY <1>5, <1>6

\* A step of the command that only says something.
LEMMA SayingKeeps ==
  ASSUME IPull, NEW from, NEW state, NEW text, NEW to, Says(from, state, text, to),
         to # "announce", to \in Early \cup {"ready"} => from \in Early,
         state = "info" => from = "announce"
  PROVE  PullSaid'
<1> USE DEF IPull
<1>1. /\ main.at = "idle" /\ step = from /\ step' = to
      /\ main' = [at |-> "lock", state |-> state, text |-> text]
      /\ UNCHANGED <<layers, lastLine, last, interactive>>
  BY DEF Says, During, Call, display, pull
<1>2. Known(layers') = Known(layers)
  BY <1>1
<1>3. to \in Early \cup {"ready"} => Known(layers') = {}
  BY <1>1, <1>2 DEF PullSaid
<1>. QED
  BY <1>1, <1>3 DEF PullSaid, Early, Known

\* A step of the command: at the end of the stream it says that the image is whole.
LEMMA CommandSaid ==
  ASSUME IPull, CreateEnvironment
  PROVE  PullSaid'
<1> USE DEF IPull
<1>1. ASSUME During("pull", "pull"), Message, UNCHANGED <<display, clock>>
      PROVE  PullSaid'
  <2>1. step' = "pull" /\ main.at = "idle" /\ UNCHANGED <<lastLine, last, interactive>>
    BY <1>1 DEF During, display
  <2>2. main' = main \/ main'.state = "active"
    <3>1. ASSUME NEW force, NEW ls, NEW st, report(force, ls, st)
          PROVE  main' = main \/ main'.state = "active"
      <4>1. \A text : [at |-> "lock", state |-> "active", text |-> text].state = "active"
        OBVIOUS
      <4>. QED
        BY <3>1, <4>1 DEF report, Call
    <3>2. ASSUME NEW l, LayerMessage(l)
          PROVE  main' = main \/ main'.state = "active"
      BY <3>1, <3>2 DEF LayerMessage, Announced, Proceeds, Renamed, Moves, Update
    <3>. QED
      BY <1>1, <3>1, <3>2 DEF Message, ImageMessage, StatusMessage, Update
  <2>. QED
    BY <2>1, <2>2 DEF PullSaid, Early
<1>2. ASSUME During("pull", "ready"), Flush, UNCHANGED <<display, clock>>
      PROVE  PullSaid'
  <2>1. step' = "ready" /\ UNCHANGED <<lastLine, last, interactive>>
    BY <1>2 DEF During, display
  <2>2. Whole' = Whole
        /\ main' = [at |-> "lock", state |-> "active", text |-> <<"Pulling image", Whole>>]
    BY <1>2, FlushShows DEF Call
  <2>. QED
    BY <2>1, <2>2 DEF PullSaid, Early, Shown
<1>3. CASE EnsureImage
  BY <1>1, <1>2, <1>3, SayingKeeps DEF EnsureImage, Early
<1>4. CASE Fails
  BY <1>4, SayingKeeps DEF Fails, Early
<1>5. CASE ~EnsureImage /\ ~Fails
  BY <1>5, SayingKeeps DEF CreateEnvironment, Early
<1>. QED
  BY <1>3, <1>4, <1>5

\* A call of the display: what is shown stays, and what is on its way arrives.
LEMMA CallsShow ==
  ASSUME IPull, InCall, UNCHANGED <<step, pull>>
  PROVE  PullSaid'
<1> USE DEF IPull
<1> DEFINE W == <<"Pulling image", Whole>>
<1>1. /\ layers' = layers /\ Known(layers') = Known(layers) /\ Whole' = Whole
      /\ interactive' = interactive
  <2>1. layers' = layers
    BY DEF pull
  <2>2. Total(layers') = Total(layers)
    BY <2>1, TotalIsSum DEF Known
  <2>3. interactive' = interactive
    BY DEF InCall, Lock, updateActiveLocked, writeInfoLocked, stopSpinnerLocked,
           NothingToStop, Stopped, finishLineLocked, Close, display
  <2>. QED
    BY <2>1, <2>2, <2>3 DEF Whole
<1> HIDE DEF W
<1>2. ASSUME Shown(W) => Shown(W)',
             main'.at \in {"lock", "holds"} /\ main'.state = "info" => lastLine' = NoText,
             ~interactive /\ lastLine' # NoText => last' = <<lastLine'>>,
             main.at # "idle"
      PROVE  PullSaid'
  BY <1>1, <1>2 DEF PullSaid, W
<1>3. CASE Lock("lock", "holds") \/ Lock("relock", "finishes")
  <2>1. PICK from \in {"lock", "relock"}, to \in {"holds", "finishes"} :
          (from = "lock" <=> to = "holds") /\ Lock(from, to)
    BY <1>3
  <2>2. /\ main.at = from /\ main'.at = to
        /\ main'.state = main.state /\ main'.text = main.text
        /\ UNCHANGED <<interactive, lastLine, last>>
    BY <2>1 DEF Lock, Goes, IDisplay, InOrder
  <2>3. Shown(W) => Shown(W)'
    BY <1>1, <2>1, <2>2 DEF Shown, W
  <2>. QED
    BY <1>2, <2>1, <2>2, <2>3 DEF PullSaid
<1>4. CASE updateActiveLocked
  <2>1. /\ main.at = "holds" /\ main.state = "active" /\ main.text # NoText
        /\ current' = main.text /\ main'.at = "idle"
    BY <1>4, Returned DEF updateActiveLocked, IDisplay, InOrder
  <2>2. interactive => line' = <<main.text>> /\ UNCHANGED <<lastLine, last>>
    BY <1>4 DEF updateActiveLocked
  <2>3. ~interactive => last' = <<main.text>> /\ lastLine' = main.text
    <3>1. CASE ~interactive /\ Throttled(main.text)
      BY <1>4, <2>1, <3>1 DEF updateActiveLocked, Throttled, PullSaid
    <3>2. CASE ~interactive /\ ~Throttled(main.text)
      <4>1. line = <<>>
        BY <3>2 DEF IDisplay, LineKept
      <4>2. Append(line, main.text) = <<main.text>>
        BY <4>1
      <4>. QED
        BY <1>4, <3>2, <4>2 DEF updateActiveLocked
    <3>. QED
      BY <3>1, <3>2
  <2>4. Shown(W) => Shown(W)'
    BY <1>1, <2>1, <2>2, <2>3 DEF Shown, W
  <2>. QED
    BY <1>2, <2>1, <2>2, <2>3, <2>4 DEF PullSaid
<1>5. CASE writeInfoLocked
  <2>1. /\ main.at = "holds" /\ main.state = "info" /\ main'.at = "idle"
        /\ lastLine' = lastLine
    BY <1>5, Returned DEF writeInfoLocked, IDisplay
  <2>2. lastLine = NoText /\ ~Shown(W)
    BY <2>1 DEF PullSaid, Shown
  <2>. QED
    BY <1>2, <2>1, <2>2
<1>6. CASE stopSpinnerLocked \/ NothingToStop \/ Stopped
  <2>1. /\ main.at \in {"holds", "waits"} /\ main.state \in {"done", "fail", "close"}
        /\ main'.at \in {"waits", "finishes", "relock"}
        /\ UNCHANGED <<lastLine, last>>
    BY <1>6 DEF stopSpinnerLocked, NothingToStop, Stopped, Ends, Goes, display, IDisplay, InOrder
  <2>2. ~Shown(W)
    BY <2>1 DEF Shown
  <2>. QED
    BY <1>2, <2>1, <2>2 DEF PullSaid
<1>7. CASE finishLineLocked \/ Close
  <2>1. main.at = "finishes" /\ main'.at \in {"idle", "over"}
    BY <1>7, Returned DEF finishLineLocked, Close, IDisplay
  <2>2. ~Shown(W)
    BY <2>1 DEF Shown
  <2>3. lastLine' = NoText \/ UNCHANGED <<lastLine, last>>
    BY <1>7 DEF finishLineLocked, Close
  <2>. QED
    BY <1>2, <2>1, <2>2, <2>3 DEF PullSaid
<1>. QED
  BY <1>3, <1>4, <1>5, <1>6, <1>7 DEF InCall

\* Everything that is known of the pull and of what is shown of it stays so.
LEMMA IPullKept == IPull /\ [Next]_vars => IPull'
<1> SUFFICES ASSUME IPull, [Next]_vars
             PROVE  IPull'
  OBVIOUS
<1> USE DEF IPull
<1>1. IDisplay' /\ PullTyped' /\ SaysRight'
  BY DisplayKept, PullKept
<1> SUFFICES PullSaid'
  BY <1>1
<1>2. ASSUME UNCHANGED <<step, layers, interactive, main, current, lastLine, last>>,
             line' = line \/ line' = Render(current, line)
      PROVE  PullSaid'
  <2>1. Total(layers') = Total(layers) /\ Known(layers') = Known(layers)
    BY <1>2, TotalIsSum DEF Known
  <2>2. Whole' = Whole
    BY <2>1 DEF Whole
  <2>3. line = <<current>> => line' = <<current>>
    BY <1>2 DEF Render
  <2> DEFINE W == <<"Pulling image", Whole>>
  <2>4. Shown(W) => Shown(W)'
    BY <1>2, <2>2, <2>3 DEF Shown
  <2>5. W' = W
    BY <2>2
  <2> HIDE DEF W
  <2>. QED
    BY <1>2, <2>1, <2>4 DEF PullSaid, W
<1>3. CASE CreateEnvironment
  BY <1>3, CommandSaid
<1>4. CASE InCall /\ UNCHANGED <<step, pull>>
  BY <1>4, CallsShow
<1>5. CASE Elapses /\ UNCHANGED <<step, pull>>
  BY <1>2, <1>5 DEF Elapses, display, pull
<1>6. ASSUME NEW g \in Spinners, Spinning(g), UNCHANGED <<step, pull>>
      PROVE  PullSaid'
  BY <1>2, <1>6 DEF Spinning, TickCase, StopCase, SpinnerLock, Spin, At, pull
<1>7. CASE UNCHANGED vars
  BY <1>2, <1>7 DEF vars, display, pull
<1>. QED
  BY <1>3, <1>4, <1>5, <1>6, <1>7 DEF Next

\* Initially nothing was heard and nothing was said.
LEMMA InitPull == Init => IPull
<1> SUFFICES ASSUME Init
             PROVE  IPull
  OBVIOUS
<1> USE DEF Init
<1>1. IDisplay
  BY InitDisplay
<1>2. PullTyped
  BY DisplayType, PullType DEF DisplayInit, PullTyped, TagNamed, Ids
<1>3. SaysRight
  BY DEF SaysRight
<1>4. PullSaid
  BY DEF PullSaid, DisplayInit, Known
<1>. QED
  BY <1>1, <1>2, <1>3, <1>4 DEF IPull

\* The display, what was heard of the layers and what stands on the line belong together
\* at all times.
THEOREM PullCorrect == Spec => []IPull
BY InitPull, IPullKept, PTL DEF Spec

\* Every variable holds a value of its kind, and no report is of more bytes than there
\* are, whatever the daemon sends of each layer.
THEOREM PullTypeCorrect == Spec => []TypeOK
<1>1. IPull => TypeOK
  BY DEF IPull, IDisplay, InOrder, Places, Stations, PullTyped, SaysRight, TypeOK
<1>. QED
  BY <1>1, PullCorrect, PTL

\* When EnsureImage has pulled the image, what stands on the terminal, or in the log, is
\* the pull with every layer complete, however little time passed since the report before.
THEOREM WholeIsShown == Spec => []DoneIsShown
<1>1. IPull => DoneIsShown
  BY DEF IPull, PullSaid, Shown, DoneIsShown
<1>. QED
  BY <1>1, PullCorrect, PTL

=============================================================================
