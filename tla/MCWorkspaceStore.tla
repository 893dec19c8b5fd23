-------------------------- MODULE MCWorkspaceStore --------------------------
(***************************************************************************)
(* Instances of WorkspaceStore for TLC: one workspace with a directory, a  *)
(* file in it and an entry beside it.                                      *)
(***************************************************************************)
EXTENDS WorkspaceStore, TLC

MCDefaultPath == "lab" :> "root/lab" @@ "copy" :> "root/copy"
MCOrder       == <<"src", "src/main", "todo">>
MCParent      == "src" :> None @@ "src/main" :> "src" @@ "todo" :> None
MCSize        == "old" :> 1 @@ "new" :> 1 @@ "long" :> 2

PlainTree == "src" :> "dir" @@ "src/main" :> "old" @@ "todo" :> "old"

PlainTrees == {PlainTree}

\* A link, or a directory that its owner may not write to.
HardTrees == {[PlainTree EXCEPT !["todo"] = "link"], [PlainTree EXCEPT !["src"] = "locked"]}

Asks(op, name, custom, archive) ==
  [op |-> op, name |-> name, custom |-> custom, archive |-> archive]

StoreRequests ==
  {Asks("backup", "lab", None, "a"), Asks("restore", "copy", None, "a"),
   Asks("create", "copy", None, None), Asks("remove", "lab", None, None),
   Asks("remove", "copy", None, None)}

RestoreRequests ==
  {Asks("backup", "lab", None, "a"), Asks("restore", "copy", None, "a")}

StoreSymmetry == Permutations(Procs)

=============================================================================
