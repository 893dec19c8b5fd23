\* Instance of Nuke; see MCNuke.tla.
SPECIFICATION NukeSpec
CONSTANTS
  None = None
  Environments = {"lab", "tmp"}
  Services = {}
  Gateways = {}
  ContainerNames = {"lab", "tmp"}
  NetworkNames = {"net-lab", "net-tmp"}
  WorkspaceNames = {"work"}
  Paths = {"root/work", "data"}
  DefaultPath <- MCDefaultPath
  MaxData = 0
  ContainerIds = {c1, c2}
  NetworkIds = {n1}
  Procs = {p1}
  Requests <- TwoPathRequests
  DefaultNet <- MCTwoDefaultNet
  NameOf <- MCTwoNameOf
  ComposeNames = {}
  ForeignNames = {}
  Choices = {"backup"}
  Faults = FALSE
  MaxClock = 1
SYMMETRY NukeSymmetry
INVARIANT ArchivesKept
