\* Instance of PullProgress.  A command comes to an end, and nothing happens after it.
SPECIFICATION Spec
CONSTANTS
  None = None
  Spinners = {g1}
  Layers = {"a", "b"}
  Tag = "latest"
  Bytes = 1
  MaxClock = 1
INVARIANT TypeOK
INVARIANT DoneIsShown
INVARIANT WholeLines
INVARIANT QuietAtTheEnd
PROPERTY CommandEnds
CHECK_DEADLOCK FALSE
