\* Instance of Nuke; see MCNuke.tla.
SPECIFICATION FairNukeSpec
CONSTANTS
  None = None
  Environments = {"lab"}
  Services = {"web"}
  Gateways = {"corp"}
  ContainerNames = {"lab", "lab-web", "vpn-corp"}
  NetworkNames = {"net-lab"}
  WorkspaceNames = {"work"}
  Paths = {"root/work"}
  DefaultPath <- MCDefaultPath
  MaxData = 0
  ContainerIds = {c1, c2, c3}
  NetworkIds = {n1}
  Procs = {p1}
  Requests <- GatewayRequests
  DefaultNet <- MCDefaultNet
  NameOf <- MCNameOf
  ComposeNames = {}
  ForeignNames = {}
  Choices = {"no"}
  Faults = TRUE
  MaxClock = 1
PROPERTY NukeTerminates
