\* Instance of Nuke; see MCNuke.tla.
SPECIFICATION NukeSpec
CONSTANTS
  None = None
  Environments = {"lab"}
  Services = {"web"}
  Gateways = {"corp"}
  ContainerNames = {"lab", "lab-web", "vpn-corp"}
  NetworkNames = {"net-lab"}
  WorkspaceNames = {"work"}
  Paths = {"root/work"}
  DefaultPath <- MCDefaultPath
  MaxData = 0
  ContainerIds = {c1, c2, c3}
  NetworkIds = {n1, n2}
  Procs = {p1}
  Requests <- NukeRequests
  DefaultNet <- MCDefaultNet
  NameOf <- MCNameOf
  ComposeNames = {}
  ForeignNames = {"net-lab"}
  Choices = {"ask"}
  Faults = TRUE
  MaxClock = 0
SYMMETRY NukeSymmetry
INVARIANT NukeTypeOK
INVARIANT RemovedOrReported
INVARIANT RemovedInOrder
INVARIANT OnlyReportedStays
PROPERTY NukeTouchesManagedOnly
PROPERTY RemovedWasBackedUp
