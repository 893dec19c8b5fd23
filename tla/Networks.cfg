\* Instance of Commands; see MCCommands.tla.
SPECIFICATION Spec
CONSTANTS
  None = None
  Environments = {"lab"}
  Services = {"web"}
  Gateways = {"corp"}
  ContainerNames = {"lab", "lab-web", "vpn-corp", "compose-web"}
  NetworkNames = {"net-lab", "net-app"}
  WorkspaceNames = {"work"}
  Paths = {"root/work"}
  DefaultPath <- MCDefaultPath
  MaxData = 1
  ContainerIds = {c1, c2, c3}
  NetworkIds = {n1, n2}
  Procs = {p1, p2}
  Requests <- NetworkRequests
  DefaultNet <- MCDefaultNet
  NameOf <- MCNameOf
  ComposeNames = {"compose-web"}
  ForeignNames = {"net-app"}
SYMMETRY Symmetry
INVARIANT OneContainerPerRef
INVARIANT SegmentsAreManaged
