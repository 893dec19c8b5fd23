\* Instance of WorkspaceStore; see MCWorkspaceStore.tla.
SPECIFICATION Spec
CONSTANTS
  None = None
  Torn = Torn
  WorkspaceNames = {"lab", "copy"}
  Paths = {"root/lab", "root/copy"}
  DefaultPath <- MCDefaultPath
  Order <- MCOrder
  Parent <- MCParent
  Contents = {"old", "new", "long"}
  Size <- MCSize
  First = "lab"
  Trees <- HardTrees
  Archives = {"a"}
  Requests <- RestoreRequests
  Procs = {p1}
  MaxEdits = 0
INVARIANT BackupRestores
