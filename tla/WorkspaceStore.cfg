\* Instance of WorkspaceStore; see MCWorkspaceStore.tla.
SPECIFICATION Spec
CONSTANTS
  None = None
  Torn = Torn
  WorkspaceNames = {"lab", "copy"}
  Paths = {"root/lab", "root/copy"}
  DefaultPath <- MCDefaultPath
  Order <- MCOrder
  Parent <- MCParent
  Contents = {"old", "new", "long"}
  Size <- MCSize
  First = "lab"
  Trees <- PlainTrees
  Archives = {"a"}
  Requests <- StoreRequests
  Procs = {p1, p2}
  MaxEdits = 1
SYMMETRY StoreSymmetry
INVARIANT TypeOK
INVARIANT BackupCovers
INVARIANT RestoreIsWhole
