\* Instance of Commands; see MCCommands.tla.
SPECIFICATION Spec
CONSTANTS
  None = None
  Environments = {"lab"}
  Services = {"web"}
  Gateways = {"corp"}
  ContainerNames = {"lab", "lab-web", "vpn-corp"}
  NetworkNames = {"net-lab", "net-app"}
  WorkspaceNames = {"work"}
  Paths = {"root/work"}
  DefaultPath <- MCDefaultPath
  MaxData = 0
  ContainerIds = {c1, c2, c3}
  NetworkIds = {n1}
  Procs = {p1, p2}
  Requests <- LifecycleRequests
  DefaultNet <- MCDefaultNet
  NameOf <- MCNameOf
  ComposeNames = {}
  ForeignNames = {"lab-web", "net-lab"}
SYMMETRY Symmetry
INVARIANT TypeOK
INVARIANT OneContainerPerRef
PROPERTY OnlyRequestedChanges
PROPERTY ImplementsInventory
