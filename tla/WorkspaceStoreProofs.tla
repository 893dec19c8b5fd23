------------------------ MODULE WorkspaceStoreProofs ------------------------
(***************************************************************************)
(* Proofs about WorkspaceStore, for any workspaces, files, terminals,      *)
(* commands and backups.  The inductive invariant says what a backup has   *)
(* written when it has come so far, and what a restore has made of it.     *)
(***************************************************************************)
EXTENDS WorkspaceStore, TLAPS, WellFoundedInduction

Stages == {"idle", "open", "walk", "copy", "mkdir", "extract", "truncate", "write", "remove",
           "done", "failed", "refused"}

Dir == [exists : BOOLEAN, meta : WorkspaceNames \cup {None, Torn},
        files : [Files -> Entry \cup {None}]]

Command == [at : Stages, req : Requests \cup {None}, path : Paths \cup {None},
            todo : SUBSET Files, open : [name : Files, size : Nat] \cup {None},
            next : Nat \ {0}, stable : SUBSET Files, alone : BOOLEAN]

\* What a command is about, by how far it is.
Stage(c) ==
  /\ c.at = "idle" => c.path = None
  /\ c.at # "idle" => c.req \in Requests /\ c.path = PathOf(c.req) /\ c.path \in Paths
  /\ c.at \in {"open", "walk", "copy"} => c.req.op = "backup"
  /\ c.at = "extract" => c.req.op = "restore"
  /\ c.at \in {"mkdir", "truncate", "write"} => c.req.op \in {"create", "restore"}
  /\ c.at = "remove" => c.req.op = "remove"
  /\ c.at = "copy" => c.open \in [name : Files, size : Nat]

IType ==
  /\ TypeOK
  /\ procs \in [Procs -> Command]
  /\ \A p \in Procs : Stage(procs[p])

-----------------------------------------------------------------------------
(* What is in an archive. *)

NamedIn(items) == {items[i].name : i \in 1..Len(items)}

\* The directory of an item comes before it.
Under(items, f, n) ==
  Parent[f] # None =>
    \E j \in 1..(n - 1) : items[j].name = Parent[f] /\ items[j].entry \in Directories

\* Every file comes once, after its directory.
InWalkOrder(items) ==
  /\ \A i, j \in 1..Len(items) : items[i].name = items[j].name => i = j
  /\ \A i \in 1..Len(items) : Under(items, items[i].name, i)

WalksInOrder == \A a \in Archives : archives[a] # None => InWalkOrder(archives[a].items)

\* Who writes an archive.
Writes(c, a) == c.at \in {"open", "walk", "copy"} /\ c.req.archive = a

OneWriter ==
  \A p, q \in Procs, a \in Archives : Writes(procs[p], a) /\ Writes(procs[q], a) => p = q

\* What a backup has still to write.
Ahead(c) == IF c.at = "copy" THEN c.todo \cup {c.open.name} ELSE c.todo

\* What a backup has written goes before what it has still to write.
Written(c) ==
  /\ c.at = "open" => archives[c.req.archive] = None
  /\ c.at = "done" /\ c.req.op = "backup" => archives[c.req.archive] # None
  /\ c.at \in {"walk", "copy"} =>
       /\ archives[c.req.archive] # None /\ ~archives[c.req.archive].whole
       /\ c.at = "copy" => c.open.name \notin c.todo
       /\ \A f \in Ahead(c) :
            /\ f \notin NamedIn(archives[c.req.archive].items)
            /\ Under(archives[c.req.archive].items, f,
                     Len(archives[c.req.archive].items) + 1)

\* What nobody touched is in the archive, or ahead, or below what is.
Covered(c) ==
  c.at \in {"walk", "copy"} \/ (c.at = "done" /\ c.req.op = "backup") =>
    \A f \in c.stable : dirs[c.path].files[f] # None =>
      \/ [name |-> f, entry |-> dirs[c.path].files[f]] \in Items(c.req.archive)
      \/ c.at # "done" /\ (f \in Ahead(c) \/ (Parent[f] # None /\ Parent[f] \in c.todo))

\* The files are those of the first items, and no others.
Filled(files, items, n) ==
  /\ \A i \in 1..n : files[items[i].name] = items[i].entry
  /\ \A f \in Files : files[f] # None => \E i \in 1..n : items[i].name = f

\* What a restore has made, as long as nobody else changed its directory.
Restored(c) ==
  /\ c.req.op = "restore" /\ c.at \in {"mkdir", "extract", "truncate", "write"} =>
       archives[c.req.archive] # None
  /\ c.req.op = "restore" /\ c.alone =>
       /\ c.at # "done" => dirs[c.path].meta \in {None, Torn}
       /\ c.at \in {"mkdir", "extract"} =>
            /\ dirs[c.path].meta = None
            /\ c.next \in 1..(Len(archives[c.req.archive].items) + 1)
            /\ Filled(dirs[c.path].files, archives[c.req.archive].items, c.next - 1)
       /\ c.at \in {"truncate", "write", "done"} =>
            /\ archives[c.req.archive] # None /\ archives[c.req.archive].whole
            /\ Filled(dirs[c.path].files, archives[c.req.archive].items,
                      Len(archives[c.req.archive].items))

Progress(c) == c.at # "idle" => Written(c) /\ Covered(c) /\ Restored(c)

IStore == IType /\ WalksInOrder /\ OneWriter /\ \A p \in Procs : Progress(procs[p])

-----------------------------------------------------------------------------
(* What a command that goes on leaves of all of them. *)

\* How the command of q goes on from c, when that of p takes a step.
Follows(p, q, c) ==
  /\ procs'[q].at = c.at /\ procs'[q].req = c.req /\ procs'[q].path = c.path
  /\ procs'[q].todo = c.todo /\ procs'[q].open = c.open /\ procs'[q].next = c.next
  /\ procs'[q].stable \subseteq c.stable
  /\ c.path # None =>
       \A f \in procs'[q].stable : dirs'[c.path].files[f] = dirs[c.path].files[f]
  /\ procs'[q].alone => c.alone
  /\ procs'[q].alone /\ c.path # None /\ q # p => dirs'[c.path] = dirs[c.path]

\* What Becomes says of every command: one is new, and of all what happened to their
\* directories is recorded.
LEMMA Goings ==
  ASSUME procs \in [Procs -> Command], NEW p, NEW new, p \in Procs => new \in Command,
         Becomes(p, new)
  PROVE  /\ procs' \in [Procs -> Command]
         /\ \A q \in Procs : Follows(p, q, IF q = p THEN new ELSE procs[q])
<1> DEFINE C(q) == IF q = p THEN new ELSE procs[q]
           S(q) == {f \in C(q).stable :
                      dirs'[C(q).path].files[f] = dirs[C(q).path].files[f]}
           A(q) == C(q).alone /\ (q = p \/ dirs'[C(q).path] = dirs[C(q).path])
           G(q) == IF C(q).path = None THEN C(q)
                   ELSE [C(q) EXCEPT !.stable = S(q), !.alone = A(q)]
<1>1. procs' = [q \in Procs |-> G(q)]
  BY DEF Becomes
<1>2. ASSUME NEW q \in Procs
      PROVE  C(q) \in Command /\ S(q) \in SUBSET Files /\ A(q) \in BOOLEAN
  <2>1. C(q) \in Command
    BY <1>2
  <2> HIDE DEF C
  <2>. QED
    BY <2>1 DEF Command
<1>3. ASSUME NEW q \in Procs
      PROVE  procs'[q] \in Command /\ Follows(p, q, C(q))
  <2>1. procs'[q] = G(q)
    BY <1>1
  <2> HIDE DEF C
  <2>2. CASE C(q).path = None
    BY <1>2, <2>1, <2>2 DEF Follows
  <2>3. CASE C(q).path # None
    <3> DEFINE r == [C(q) EXCEPT !.stable = S(q), !.alone = A(q)]
    <3>1. /\ r \in Command
          /\ r.at = C(q).at /\ r.req = C(q).req /\ r.path = C(q).path
          /\ r.todo = C(q).todo /\ r.open = C(q).open /\ r.next = C(q).next
          /\ r.stable = S(q) /\ (r.alone <=> A(q))
      <4> HIDE DEF S, A
      <4>. QED
        BY <1>2 DEF Command
    <3>2. procs'[q] = r
      BY <2>1, <2>3
    <3> HIDE DEF r
    <3>. QED
      BY <3>1, <3>2 DEF Follows
  <2>. QED
    BY <2>2, <2>3
<1>4. procs' \in [Procs -> Command]
  <2> HIDE DEF G
  <2>1. \A q \in Procs : G(q) \in Command
    BY <1>1, <1>3
  <2>. QED
    BY <1>1, <2>1
<1>. QED
  BY <1>3, <1>4

-----------------------------------------------------------------------------
(* What is in the directories and the archives is of its kind. *)

DirKind(d) == d \in Dir /\ Rooted(d.files) /\ (d.exists \/ d = NoDir)

\* Every directory is of its kind.
LEMMA DirsKinds ==
  ASSUME TypeOK, NEW path \in Paths
  PROVE  DirKind(dirs[path])
BY DEF TypeOK, DirKind, Dir

\* One directory changes.
OnlyAt(path, d) == dirs' = [dirs EXCEPT ![path] = d]

\* A step that changes one directory into another of its kind keeps the types.
LEMMA DirPut ==
  ASSUME TypeOK, NEW path \in Paths, NEW d, DirKind(d), OnlyAt(path, d),
         archives' \in [Archives -> Archive \cup {None}], edits' \in 0..MaxEdits
  PROVE  TypeOK'
<1> USE DEF OnlyAt
<1>1. dirs' \in [Paths -> Dir]
  BY DEF TypeOK, DirKind, Dir
<1>2. \A q \in Paths : dirs'[q] = IF q = path THEN d ELSE dirs[q]
  BY DEF TypeOK
<1>3. \A q \in Paths : DirKind(dirs'[q])
  BY <1>2, DirsKinds
<1>. QED
  BY <1>1, <1>3 DEF TypeOK, DirKind, Dir

\* What is changed of a directory, and that it is one still.
Changed(d, ex, m, fs) ==
  /\ d.exists = ex /\ d.meta = m /\ d.files = fs
  /\ ex \in BOOLEAN /\ m \in WorkspaceNames \cup {None, Torn}
       /\ fs \in [Files -> Entry \cup {None}] => d \in Dir

\* The fields of a directory that is changed.
LEMMA DirChange ==
  ASSUME NEW d \in Dir, NEW ex, NEW m, NEW fs
  PROVE  /\ Changed([d EXCEPT !.exists = ex], ex, d.meta, d.files)
         /\ Changed([d EXCEPT !.meta = m], d.exists, m, d.files)
         /\ Changed([d EXCEPT !.files = fs], d.exists, d.meta, fs)
         /\ Changed([d EXCEPT !.files = fs, !.meta = m], d.exists, m, fs)
         /\ Changed([d EXCEPT !.exists = ex, !.files = fs], ex, d.meta, fs)
<1>1. Changed([d EXCEPT !.exists = ex], ex, d.meta, d.files)
  BY DEF Changed, Dir
<1>2. Changed([d EXCEPT !.meta = m], d.exists, m, d.files)
  BY DEF Changed, Dir
<1>3. Changed([d EXCEPT !.files = fs], d.exists, d.meta, fs)
  BY DEF Changed, Dir
<1>4. Changed([d EXCEPT !.files = fs, !.meta = m], d.exists, m, fs)
  BY DEF Changed, Dir
<1>5. Changed([d EXCEPT !.exists = ex, !.files = fs], ex, d.meta, fs)
  BY DEF Changed, Dir
<1>. QED
  BY <1>1, <1>2, <1>3, <1>4, <1>5

\* A directory that is there, or holds nothing, and has nothing below a file.
LEMMA DirStep ==
  ASSUME TypeOK, NEW path \in Paths, NEW d, NEW ex \in BOOLEAN,
         NEW m \in WorkspaceNames \cup {None, Torn}, NEW fs \in [Files -> Entry \cup {None}],
         Rooted(fs), ex, Changed(d, ex, m, fs), OnlyAt(path, d),
         archives' = archives, edits' \in 0..MaxEdits
  PROVE  TypeOK'
<1>1. DirKind(d)
  BY DEF DirKind, Changed
<1>2. archives' \in [Archives -> Archive \cup {None}]
  BY DEF TypeOK
<1>. QED
  BY <1>1, <1>2, DirPut

\* What is known of the directory of a command.
LEMMA HereKind ==
  ASSUME TypeOK, NEW path \in Paths
  PROVE  /\ dirs[path] \in Dir
         /\ dirs[path].exists \in BOOLEAN
         /\ dirs[path].meta \in WorkspaceNames \cup {None, Torn}
         /\ dirs[path].files \in [Files -> Entry \cup {None}]
         /\ Rooted(dirs[path].files)
         /\ ~dirs[path].exists => dirs[path].meta = None /\ dirs[path].files = NoFiles
BY DirsKinds DEF DirKind, Dir, NoDir

-----------------------------------------------------------------------------
(* What a step of one command leaves of the others. *)

\* An archive that is written grows.
Grows(x, y) == x # None =>
  /\ ~x.whole /\ y # None
  /\ Len(x.items) <= Len(y.items)
  /\ \A i \in 1..Len(x.items) : y.items[i] = x.items[i]

\* Only who writes an archive changes it.
ArchivesMove(p) == \A a \in Archives :
  \/ archives'[a] = archives[a]
  \/ p \in Procs /\ Writes(procs[p], a) /\ Grows(archives[a], archives'[a])

Others(p) ==
  /\ procs' \in [Procs -> Command]
  /\ \A q \in Procs : q # p => Follows(p, q, procs[q])

\* What an archive is a list of.
Item == [name : Files, entry : Entry]

\* An archive, its items and their number.
LEMMA Archived ==
  ASSUME NEW x \in Archive
  PROVE  /\ x.items \in Seq(Item) /\ x.whole \in BOOLEAN /\ Len(x.items) \in Nat
         /\ \A i \in 1..Len(x.items) :
              x.items[i] \in Item /\ x.items[i].name \in Files /\ x.items[i].entry \in Entry
         /\ ToSet(x.items) = {x.items[i] : i \in 1..Len(x.items)}
<1>1. x.items \in Seq(Item) /\ x.whole \in BOOLEAN
  BY DEF Archive, Item
<1> DEFINE s == x.items
<1>2. s \in Seq(Item)
  BY <1>1
<1> HIDE DEF s
<1>3. DOMAIN s = 1..Len(s) /\ Len(s) \in Nat /\ \A i \in 1..Len(s) : s[i] \in Item
  BY <1>2
<1>4. \A e \in Item : e.name \in Files /\ e.entry \in Entry
  BY DEF Item
<1>5. ToSet(s) = {s[i] : i \in 1..Len(s)}
  BY <1>3 DEF ToSet
<1>. QED
  BY <1>1, <1>3, <1>4, <1>5 DEF s

\* The archive of a command.
LEMMA ArchiveOf ==
  ASSUME NEW c, Stage(c), c.at # "idle", c.req.op \in {"backup", "restore"}
  PROVE  c.req.archive \in Archives /\ c.path \in Paths /\ c.path # None
BY CommandType, StorePathType DEF Stage

\* A backup of somebody else is not disturbed.
LEMMA OtherWritten ==
  ASSUME IStore, TypeOK', NEW p, NEW q \in Procs, q # p, Follows(p, q, procs[q]),
         ArchivesMove(p), procs[q].at # "idle"
  PROVE  Written(procs[q])' /\ Covered(procs[q])'
<1> DEFINE c == procs[q]
           a == c.req.archive
<1> USE DEF IStore, IType
<1>1. /\ procs'[q].at = c.at /\ procs'[q].req = c.req /\ procs'[q].path = c.path
      /\ procs'[q].todo = c.todo /\ procs'[q].open = c.open
      /\ procs'[q].stable \subseteq c.stable
      /\ c.path # None =>
           \A f \in procs'[q].stable : dirs'[c.path].files[f] = dirs[c.path].files[f]
  BY DEF Follows
<1>2. Stage(c) /\ Written(c) /\ Covered(c) /\ c.stable \subseteq Files
  BY DEF Progress, Command
<1>3. CASE c.at \in {"open", "walk", "copy"}
  <2>1. a \in Archives /\ c.path # None
    BY <1>2, <1>3, ArchiveOf DEF Stage
  <2>2. archives'[a] = archives[a]
    BY <1>3, <2>1 DEF ArchivesMove, OneWriter, Writes
  <2>3. Written(procs[q])'
    BY <1>1, <1>2, <1>3, <2>2 DEF Written, Ahead
  <2>4. Covered(procs[q])'
    BY <1>1, <1>2, <1>3, <2>1, <2>2 DEF Covered, Ahead, Items
  <2>. QED
    BY <2>3, <2>4
<1>4. CASE c.at = "done" /\ c.req.op = "backup"
  <2>1. a \in Archives /\ c.path # None
    BY <1>2, <1>4, ArchiveOf
  <2>2. archives[a] # None /\ archives'[a] # None
    BY <1>2, <1>4, <2>1 DEF Written, ArchivesMove, Grows
  <2>3. ToSet(archives[a].items) \subseteq ToSet(archives'[a].items)
    <3>1. CASE archives'[a] = archives[a]
      BY <3>1
    <3>2. CASE Grows(archives[a], archives'[a])
      <4>0. archives[a] \in Archive /\ archives'[a] \in Archive
        BY <2>1, <2>2 DEF TypeOK
      <4>1. /\ Len(archives[a].items) \in Nat /\ Len(archives'[a].items) \in Nat
            /\ ToSet(archives[a].items)
               = {archives[a].items[i] : i \in 1..Len(archives[a].items)}
            /\ ToSet(archives'[a].items)
               = {archives'[a].items[i] : i \in 1..Len(archives'[a].items)}
        BY <4>0, Archived
      <4>2. \A i \in 1..Len(archives[a].items) :
              i \in 1..Len(archives'[a].items) /\ archives'[a].items[i] = archives[a].items[i]
        BY <2>2, <3>2, <4>1 DEF Grows
      <4>. QED
        BY <4>1, <4>2
    <3>. QED
      BY <2>1, <3>1, <3>2 DEF ArchivesMove
  <2>4. Written(procs[q])'
    BY <1>1, <1>4, <2>2 DEF Written
  <2>5. Covered(procs[q])'
    <3>1. ASSUME NEW f \in procs'[q].stable, dirs'[c.path].files[f] # None
          PROVE  [name |-> f, entry |-> dirs'[c.path].files[f]] \in ToSet(archives'[a].items)
      BY <1>1, <1>2, <1>4, <2>1, <2>3, <3>1 DEF Covered, Items
    <3>. QED
      BY <1>1, <1>4, <3>1 DEF Covered, Items
  <2>. QED
    BY <2>4, <2>5
<1>5. CASE ~(c.at \in {"open", "walk", "copy"}) /\ ~(c.at = "done" /\ c.req.op = "backup")
  BY <1>1, <1>5 DEF Written, Covered
<1>. QED
  BY <1>3, <1>4, <1>5

\* Neither is a restore that is alone with its directory: its archive may only grow.
LEMMA OtherRestored ==
  ASSUME IStore, TypeOK', NEW p, NEW q \in Procs, q # p, Follows(p, q, procs[q]),
         ArchivesMove(p), procs[q].at # "idle"
  PROVE  Restored(procs[q])'
<1> DEFINE c == procs[q]
           a == c.req.archive
<1> USE DEF IStore, IType
<1>1. /\ procs'[q].at = c.at /\ procs'[q].req = c.req /\ procs'[q].path = c.path
      /\ procs'[q].next = c.next
      /\ procs'[q].alone => c.alone /\ (c.path # None => dirs'[c.path] = dirs[c.path])
  BY DEF Follows
<1>2. Stage(c) /\ Restored(c)
  BY DEF Progress
<1>3. CASE c.req.op # "restore"
  BY <1>1, <1>3 DEF Restored
<1>4. CASE c.req.op = "restore"
  <2>1. a \in Archives /\ c.path # None
    BY <1>2, <1>4, ArchiveOf
  <2>2. archives[a] # None => archives'[a] # None
    BY <2>1 DEF ArchivesMove, Grows
  <2>3. c.at \in {"mkdir", "extract", "truncate", "write"} => archives'[a] # None
    BY <1>2, <1>4, <2>2 DEF Restored
  <2>4. ASSUME procs'[q].alone
        PROVE  /\ c.at # "done" => dirs'[c.path].meta \in {None, Torn}
               /\ c.at \in {"mkdir", "extract"} =>
                    /\ dirs'[c.path].meta = None
                    /\ c.next \in 1..(Len(archives'[a].items) + 1)
                    /\ Filled(dirs'[c.path].files, archives'[a].items, c.next - 1)
               /\ c.at \in {"truncate", "write", "done"} =>
                    /\ archives'[a] # None /\ archives'[a].whole
                    /\ Filled(dirs'[c.path].files, archives'[a].items, Len(archives'[a].items))
    <3>1. c.alone /\ dirs'[c.path] = dirs[c.path]
      BY <1>1, <2>1, <2>4
    <3>2. c.at # "done" => dirs'[c.path].meta \in {None, Torn}
      BY <1>2, <1>4, <3>1 DEF Restored
    <3>3. CASE c.at \in {"mkdir", "extract"}
      <4>1. /\ archives[a] # None
            /\ dirs'[c.path].meta = None
            /\ c.next \in 1..(Len(archives[a].items) + 1)
            /\ Filled(dirs'[c.path].files, archives[a].items, c.next - 1)
        BY <1>2, <1>4, <3>1, <3>3 DEF Restored
      <4>2. CASE archives'[a] = archives[a]
        BY <3>2, <3>3, <4>1, <4>2
      <4>3. CASE Grows(archives[a], archives'[a])
        <5>1. Len(archives[a].items) \in Nat /\ Len(archives'[a].items) \in Nat
          BY <2>1, <2>2, <4>1, Archived DEF TypeOK
        <5>2. /\ Len(archives[a].items) <= Len(archives'[a].items)
              /\ \A i \in 1..Len(archives[a].items) :
                   archives'[a].items[i] = archives[a].items[i]
          BY <4>1, <4>3 DEF Grows
        <5>3. /\ c.next \in 1..(Len(archives'[a].items) + 1)
              /\ \A i \in 1..(c.next - 1) : i \in 1..Len(archives[a].items)
          <6>1. \A n, k, m \in Nat : n \in 1..(k + 1) /\ k <= m =>
                  n \in 1..(m + 1) /\ \A i \in 1..(n - 1) : i \in 1..k
            OBVIOUS
          <6>2. c.next \in Nat
            BY <4>1, <5>1
          <6> HIDE DEF c, a
          <6>. QED
            BY <4>1, <5>1, <5>2, <6>1, <6>2
        <5>4. \A i \in 1..(c.next - 1) : archives'[a].items[i] = archives[a].items[i]
          BY <5>2, <5>3
        <5>5. Filled(dirs'[c.path].files, archives'[a].items, c.next - 1)
          BY <4>1, <5>4 DEF Filled
        <5>. QED
          BY <3>2, <3>3, <4>1, <5>3, <5>5
      <4>. QED
        BY <2>1, <4>2, <4>3 DEF ArchivesMove
    <3>4. CASE c.at \in {"truncate", "write", "done"}
      <4>1. /\ archives[a] # None /\ archives[a].whole
            /\ Filled(dirs[c.path].files, archives[a].items, Len(archives[a].items))
        BY <1>2, <1>4, <3>1, <3>4 DEF Restored
      <4>2. archives'[a] = archives[a]
        BY <2>1, <4>1 DEF ArchivesMove, Grows
      <4>. QED
        BY <3>1, <3>2, <3>4, <4>1, <4>2
    <3>. QED
      BY <3>2, <3>3, <3>4
  <2>. QED
    BY <1>1, <1>4, <2>3, <2>4 DEF Restored
<1>. QED
  BY <1>3, <1>4

\* What a step of p has to keep itself.
Kept(p) ==
  /\ TypeOK' /\ Others(p) /\ ArchivesMove(p) /\ WalksInOrder'
  /\ p \in Procs =>
       /\ Stage(procs[p])'
       /\ procs'[p].at # "idle" => Written(procs[p])' /\ Covered(procs[p])' /\ Restored(procs[p])'
       /\ \A a \in Archives : Writes(procs[p], a)' =>
            Writes(procs[p], a) \/ \A q \in Procs : ~Writes(procs[q], a)

\* It is all there is to show.
LEMMA KeptIsAll ==
  ASSUME IStore, NEW p, Kept(p)
  PROVE  IStore'
<1> USE DEF IStore, IType, Kept, Others
<1>1. \A q \in Procs : Stage(procs[q])'
  BY DEF Stage, Follows
<1>2. \A q \in Procs : Progress(procs[q])'
  <2> SUFFICES ASSUME NEW q \in Procs
               PROVE  Progress(procs[q])'
    OBVIOUS
  <2>1. CASE q = p
    BY <2>1 DEF Progress
  <2>2. CASE q # p
    <3>1. Follows(p, q, procs[q]) /\ procs'[q].at = procs[q].at
      BY <2>2 DEF Follows
    <3>. QED
      BY <2>2, <3>1, OtherWritten, OtherRestored DEF Progress
  <2>. QED
    BY <2>1, <2>2
<1>3. OneWriter'
  <2> SUFFICES ASSUME NEW q \in Procs, NEW r \in Procs, NEW a \in Archives,
                      Writes(procs[q], a)', Writes(procs[r], a)', q # r
               PROVE  FALSE
    BY DEF OneWriter
  <2>1. \A s \in Procs : s # p /\ Writes(procs[s], a)' => Writes(procs[s], a)
    BY DEF Writes, Follows
  <2>. QED
    BY <2>1 DEF OneWriter
<1>. QED
  BY <1>1, <1>2, <1>3

-----------------------------------------------------------------------------
(* The steps that leave the directories and the archives alone. *)

\* They keep what is said of directories and archives.
LEMMA QuietKinds ==
  ASSUME IStore, UNCHANGED <<dirs, archives, edits>>, NEW p
  PROVE  TypeOK' /\ ArchivesMove(p) /\ WalksInOrder'
<1>1. TypeOK'
  BY DEF IStore, IType, TypeOK
<1>2. ArchivesMove(p)
  BY DEF ArchivesMove
<1>3. WalksInOrder'
  BY DEF IStore, WalksInOrder
<1>. QED
  BY <1>1, <1>2, <1>3

\* What Goes changes of the command of p.
LEMMA Gone ==
  ASSUME IStore, NEW p \in Procs, NEW at \in Stages, Goes(p, at)
  PROVE  /\ Others(p)
         /\ procs'[p].at = at /\ procs'[p].req = procs[p].req /\ procs'[p].path = procs[p].path
         /\ procs'[p].todo = procs[p].todo /\ procs'[p].open = procs[p].open
         /\ procs'[p].next = procs[p].next
         /\ procs'[p].stable \subseteq procs[p].stable
         /\ procs[p].path # None => \A f \in procs'[p].stable :
              dirs'[procs[p].path].files[f] = dirs[procs[p].path].files[f]
         /\ procs'[p].alone => procs[p].alone
<1> DEFINE c   == procs[p]
           new == [c EXCEPT !.at = at]
<1>1. c \in Command
  BY DEF IStore, IType
<1>2. /\ new \in Command
      /\ new.at = at /\ new.req = c.req /\ new.path = c.path /\ new.todo = c.todo
      /\ new.open = c.open /\ new.next = c.next /\ new.stable = c.stable /\ new.alone = c.alone
  <2> HIDE DEF c
  <2>. QED
    BY <1>1 DEF Command
<1>3. Becomes(p, new)
  BY DEF Goes
<1> HIDE DEF new
<1>4. Others(p) /\ Follows(p, p, new)
  BY <1>2, <1>3, Goings DEF IStore, IType, Others
<1>. QED
  BY <1>2, <1>4 DEF Follows

\* A command that gives up.
LEMMA GivesUp ==
  ASSUME IStore, NEW p \in Procs, procs[p].at \notin {"idle", "done"},
         NEW at \in {"failed", "refused"}, Goes(p, at), UNCHANGED <<dirs, archives, edits>>
  PROVE  Kept(p)
<1>1. at \in Stages
  BY DEF Stages
<1>2. /\ Others(p)
      /\ procs'[p].at = at /\ procs'[p].req = procs[p].req /\ procs'[p].path = procs[p].path
      /\ procs'[p].alone => procs[p].alone
  BY <1>1, Gone
<1>3. Stage(procs[p]) /\ Restored(procs[p])
  BY DEF IStore, IType, Progress
<1>4. Stage(procs[p])'
  BY <1>2, <1>3 DEF Stage
<1>5. Written(procs[p])' /\ Covered(procs[p])' /\ Restored(procs[p])'
  BY <1>2, <1>3 DEF Written, Covered, Restored
<1>6. \A a \in Archives : ~Writes(procs[p], a)'
  BY <1>2 DEF Writes
<1>. QED
  BY <1>2, <1>4, <1>5, <1>6, QuietKinds DEF Kept

\* The first step of a command: a restore begins with an archive and an empty directory,
\* a backup with an output that nobody has.
LEMMA Begins ==
  ASSUME IStore, NEW p \in Procs, NEW req \in Requests,
         NEW at \in {"failed", "mkdir", "open", "remove"}, Begin(p, req, at),
         UNCHANGED <<dirs, archives, edits>>,
         at = "mkdir" => req.op \in {"create", "restore"},
         at = "mkdir" /\ req.op = "restore" =>
           archives[req.archive] # None /\ Empty(PathOf(req)),
         at = "open" => /\ req.op = "backup" /\ archives[req.archive] = None
                        /\ \A q \in Procs : procs[q].req # req,
         at = "remove" => req.op = "remove"
  PROVE  Kept(p)
<1> DEFINE stable == IF at = "open" THEN Files ELSE {}
           alone  == at = "mkdir" /\ req.op = "restore"
           new    == [Idle EXCEPT !.at = at, !.req = req, !.path = PathOf(req),
                                  !.stable = stable, !.alone = alone]
<1>1. PathOf(req) \in Paths /\ PathOf(req) # None /\ at \in Stages /\ at # "idle"
  BY CommandType, StorePathType DEF PathOf, Stages
<1>2. /\ new.at = at /\ new.req = req /\ new.path = PathOf(req) /\ new.todo = {}
      /\ new.open = None /\ new.next = 1 /\ new.stable = stable /\ (new.alone <=> alone)
  <2> HIDE DEF stable, alone
  <2>. QED
    BY DEF Idle
<1>3. new \in Command
  <2>1. stable \in SUBSET Files /\ alone \in BOOLEAN
    OBVIOUS
  <2> HIDE DEF stable, alone
  <2>2. Idle \in Command
    BY DEF Idle, Command, Stages
  <2>. QED
    BY <1>1, <2>1, <2>2 DEF Command
<1>4. Becomes(p, new)
  BY DEF Begin
<1>5. Others(p) /\ Follows(p, p, new)
  <2> HIDE DEF new
  <2>. QED
    BY <1>3, <1>4, Goings DEF IStore, IType, Others
<1>6. /\ procs'[p].at = at /\ procs'[p].req = req /\ procs'[p].path = PathOf(req)
      /\ procs'[p].next = 1 /\ (procs'[p].alone => alone)
  <2> HIDE DEF new
  <2>. QED
    BY <1>2, <1>5 DEF Follows
<1>7. Stage(procs[p])'
  BY <1>1, <1>6 DEF Stage, PathOf
<1>8. Written(procs[p])'
  BY <1>6 DEF Written
<1>9. Covered(procs[p])'
  BY <1>6 DEF Covered
<1>10. Restored(procs[p])'
  <2>1. CASE ~(at = "mkdir" /\ req.op = "restore")
    BY <1>6, <2>1 DEF Restored
  <2>2. CASE at = "mkdir" /\ req.op = "restore"
    <3>1. archives[req.archive] # None /\ req.archive \in Archives
      BY <2>2, CommandType
    <3>2. Len(archives[req.archive].items) \in Nat
      BY <3>1, Archived DEF IStore, IType, TypeOK
    <3>3. 1 \in 1..(Len(archives[req.archive].items) + 1)
      BY <3>2
    <3>4. dirs[PathOf(req)].meta = None /\ dirs[PathOf(req)].files = NoFiles
      BY <2>2 DEF Empty
    <3>5. Filled(dirs[PathOf(req)].files, archives[req.archive].items, 1 - 1)
      BY <3>4 DEF Filled, NoFiles
    <3>. QED
      BY <1>6, <2>2, <3>1, <3>3, <3>4, <3>5 DEF Restored
  <2>. QED
    BY <2>1, <2>2
<1>11. \A a \in Archives : Writes(procs[p], a)' => \A q \in Procs : ~Writes(procs[q], a)
  <2> SUFFICES ASSUME NEW a \in Archives, Writes(procs[p], a)', NEW q \in Procs,
                      Writes(procs[q], a)
               PROVE  FALSE
    OBVIOUS
  <2>1. at = "open" /\ req.archive = a /\ req.op = "backup"
    BY <1>6 DEF Writes
  <2>2. procs[q].req \in Requests /\ procs[q].req.op = "backup" /\ procs[q].req.archive = a
    BY DEF Writes, IStore, IType, Stage
  <2>. QED
    BY <2>1, <2>2, CommandType
<1>. QED
  BY <1>5, <1>7, <1>8, <1>9, <1>10, <1>11, QuietKinds DEF Kept

\* What each command checks before it begins is what it has to.
LEMMA StartKeeps ==
  ASSUME IStore, NEW p \in Procs, NEW req \in Requests, Start(p, req)
  PROVE  Kept(p)
<1>1. CASE StartCreate(p, req)
  BY <1>1, Begins DEF StartCreate
<1>2. CASE StartBackup(p, req)
  BY <1>2, Begins DEF StartBackup
<1>3. CASE StartRestore(p, req)
  BY <1>3, Begins DEF StartRestore
<1>4. CASE StartRemove(p, req)
  BY <1>4, Begins DEF StartRemove
<1>. QED
  BY <1>1, <1>2, <1>3, <1>4 DEF Start

\* The terminal is free again.
LEMMA NextCommandKeeps ==
  ASSUME IStore, NEW p \in Procs, NextCommand(p)
  PROVE  Kept(p)
<1>1. Idle \in Command /\ Idle.at = "idle" /\ Idle.path = None
  BY DEF Idle, Command, Stages
<1>2. procs' = [procs EXCEPT ![p] = Idle] /\ UNCHANGED <<dirs, archives, edits>>
  BY DEF NextCommand
<1>3. procs' \in [Procs -> Command] /\ procs'[p] = Idle
      /\ \A q \in Procs : q # p => procs'[q] = procs[q]
  BY <1>1, <1>2 DEF IStore, IType
<1>4. Others(p)
  BY <1>2, <1>3 DEF Others, Follows
<1>5. Stage(procs[p])' /\ \A a \in Archives : ~Writes(procs[p], a)'
  BY <1>1, <1>3 DEF Stage, Writes
<1>. QED
  BY <1>1, <1>2, <1>3, <1>4, <1>5, QuietKinds DEF Kept

-----------------------------------------------------------------------------
(* The steps that make, name or empty a directory. *)

\* What a step that changes one directory keeps, whoever takes it.
LEMMA DirKept ==
  ASSUME IStore, NEW p, NEW path \in Paths, NEW d, NEW m \in WorkspaceNames \cup {None, Torn},
         NEW fs \in [Files -> Entry \cup {None}], Rooted(fs), Changed(d, TRUE, m, fs),
         OnlyAt(path, d), archives' = archives, edits' \in 0..MaxEdits
  PROVE  /\ TypeOK' /\ ArchivesMove(p) /\ WalksInOrder'
         /\ dirs'[path].meta = m /\ dirs'[path].files = fs
<1>1. TypeOK'
  BY DirStep DEF IStore, IType
<1>2. ArchivesMove(p) /\ WalksInOrder'
  BY DEF ArchivesMove, WalksInOrder, IStore
<1>3. dirs'[path] = d
  BY DEF OnlyAt, IStore, IType, TypeOK
<1>. QED
  BY <1>1, <1>2, <1>3 DEF Changed

\* The directory of a command that is under way.
LEMMA InDir ==
  ASSUME IStore, NEW p \in Procs, procs[p].at # "idle"
  PROVE  /\ procs[p].path \in Paths /\ procs[p].path # None
         /\ procs[p].req \in Requests /\ procs[p].req.name \in WorkspaceNames
         /\ Stage(procs[p]) /\ Written(procs[p]) /\ Covered(procs[p]) /\ Restored(procs[p])
         /\ edits \in 0..MaxEdits /\ TypeOK
         /\ dirs[procs[p].path] \in Dir
         /\ dirs[procs[p].path].exists \in BOOLEAN
         /\ dirs[procs[p].path].meta \in WorkspaceNames \cup {None, Torn}
         /\ dirs[procs[p].path].files \in [Files -> Entry \cup {None}]
         /\ Rooted(dirs[procs[p].path].files)
         /\ ~dirs[procs[p].path].exists =>
              dirs[procs[p].path].meta = None /\ dirs[procs[p].path].files = NoFiles
<1>1. /\ procs[p].path \in Paths /\ procs[p].path # None /\ procs[p].req \in Requests
      /\ Stage(procs[p])
  BY StorePathType DEF IStore, IType, Stage
<1>2. procs[p].req.name \in WorkspaceNames
  BY <1>1, CommandType
<1>3. edits \in 0..MaxEdits /\ TypeOK
      /\ Written(procs[p]) /\ Covered(procs[p]) /\ Restored(procs[p])
  BY DEF IStore, IType, TypeOK, Progress
<1>. QED
  BY <1>1, <1>2, <1>3, HereKind

\* A directory that is made holds no more than before.
LEMMA MkdirKeeps ==
  ASSUME IStore, NEW p \in Procs, Mkdir(p)
  PROVE  Kept(p)
<1> DEFINE path == procs[p].path
           d    == [dirs[path] EXCEPT !.exists = TRUE]
           at   == IF procs[p].req.op = "restore" THEN "extract" ELSE "truncate"
<1>0. procs[p].at = "mkdir" /\ Goes(p, at) /\ UNCHANGED <<archives, edits>> /\ at \in Stages
  BY DEF Mkdir, Stages
<1>1. OnlyAt(path, d)
  BY DEF Mkdir, OnlyAt
<1>2. Changed(d, TRUE, dirs[path].meta, dirs[path].files)
  <2> HIDE DEF path
  <2>. QED
    BY <1>0, InDir, DirChange DEF path
<1> HIDE DEF d
<1>3. /\ TypeOK' /\ ArchivesMove(p) /\ WalksInOrder'
      /\ dirs'[path].meta = dirs[path].meta /\ dirs'[path].files = dirs[path].files
  <2>1. /\ edits' \in 0..MaxEdits /\ path \in Paths /\ archives' = archives
        /\ dirs[path].meta \in WorkspaceNames \cup {None, Torn}
        /\ dirs[path].files \in [Files -> Entry \cup {None}]
        /\ Rooted(dirs[path].files)
    BY <1>0, InDir
  <2> HIDE DEF path
  <2>. QED
    BY <1>1, <1>2, <2>1, DirKept
<1>4. /\ Others(p)
      /\ procs'[p].at = at /\ procs'[p].req = procs[p].req /\ procs'[p].path = path
      /\ procs'[p].next = procs[p].next
      /\ procs'[p].alone => procs[p].alone
  BY <1>0, Gone
<1>5. Stage(procs[p])'
  BY <1>0, <1>4, InDir DEF Stage, PathOf
<1>6. Written(procs[p])' /\ Covered(procs[p])'
  BY <1>4 DEF Written, Covered
<1>7. Restored(procs[p])'
  BY <1>0, <1>3, <1>4, InDir DEF Restored
<1>8. \A a \in Archives : ~Writes(procs[p], a)'
  BY <1>4 DEF Writes
<1>. QED
  BY <1>3, <1>4, <1>5, <1>6, <1>7, <1>8 DEF Kept

\* Metadata is truncated and written at the end of a restore, and of a create.
LEMMA MetadataKeeps ==
  ASSUME IStore, NEW p \in Procs, TruncateMetadata(p) \/ WriteMetadata(p)
  PROVE  Kept(p)
<1> DEFINE path == procs[p].path
<1>0. procs[p].at \in {"truncate", "write"} /\ UNCHANGED <<archives, edits>>
  BY DEF TruncateMetadata, WriteMetadata
<1>1. ASSUME NEW m \in WorkspaceNames \cup {None, Torn}, NEW at \in {"write", "done"},
             \/ OnlyAt(path, [dirs[path] EXCEPT !.meta = m]) /\ dirs[path].exists
             \/ dirs' = dirs /\ m = dirs[path].meta,
             Goes(p, at), at = "write" => m = Torn
      PROVE  Kept(p)
  <2>1. /\ TypeOK' /\ ArchivesMove(p) /\ WalksInOrder'
        /\ dirs'[path].meta = m /\ dirs'[path].files = dirs[path].files
    <3>1. CASE dirs' = dirs /\ m = dirs[path].meta
      BY <1>0, <3>1, QuietKinds
    <3>2. CASE OnlyAt(path, [dirs[path] EXCEPT !.meta = m]) /\ dirs[path].exists
      <4> DEFINE d == [dirs[path] EXCEPT !.meta = m]
      <4>1. Changed(d, TRUE, m, dirs[path].files)
        <5>1. Changed(d, dirs[path].exists, m, dirs[path].files) /\ dirs[path].exists \in BOOLEAN
          BY <1>0, InDir, DirChange
        <5>. QED
          BY <3>2, <5>1
      <4>2. /\ edits' \in 0..MaxEdits /\ path \in Paths /\ archives' = archives
            /\ dirs[path].files \in [Files -> Entry \cup {None}]
            /\ Rooted(dirs[path].files)
            /\ OnlyAt(path, d)
        BY <1>0, <3>2, InDir
      <4> HIDE DEF d, path
      <4>. QED
        BY <1>1, <4>1, <4>2, DirKept
    <3>. QED
      BY <1>1, <3>1, <3>2
  <2>2. /\ Others(p)
        /\ procs'[p].at = at /\ procs'[p].req = procs[p].req /\ procs'[p].path = path
        /\ procs'[p].alone => procs[p].alone
    BY <1>1, Gone DEF Stages
  <2>3. procs[p].req.op \in {"create", "restore"}
    BY <1>0, InDir DEF Stage
  <2>4. Stage(procs[p])'
    BY <1>0, <1>1, <2>2, <2>3, InDir DEF Stage, PathOf
  <2>5. Written(procs[p])' /\ Covered(procs[p])'
    BY <1>1, <2>2, <2>3 DEF Written, Covered
  <2>6. Restored(procs[p])'
    BY <1>0, <1>1, <2>1, <2>2, InDir DEF Restored
  <2>7. \A a \in Archives : ~Writes(procs[p], a)'
    BY <1>1, <2>2 DEF Writes
  <2>. QED
    BY <2>1, <2>2, <2>4, <2>5, <2>6, <2>7 DEF Kept
<1>2. CASE TruncateMetadata(p)
  <2>1. CASE dirs[path].exists
    BY <1>1, <1>2, <2>1 DEF TruncateMetadata, OnlyAt, Here
  <2>2. CASE ~dirs[path].exists
    BY <1>0, <1>2, <2>2, GivesUp DEF TruncateMetadata, Here
  <2>. QED
    BY <2>1, <2>2
<1>3. CASE WriteMetadata(p)
  <2>1. dirs[path].meta \in WorkspaceNames \cup {None, Torn}
        /\ procs[p].req.name \in WorkspaceNames
        /\ (dirs[path].meta # None => dirs[path].exists)
    BY <1>0, InDir
  <2>. QED
    BY <1>1, <1>3, <2>1 DEF WriteMetadata, OnlyAt, Here
<1>. QED
  BY <1>2, <1>3

\* A file is removed when nothing lies below it, so that what is left is a tree.
LEMMA RemoveKeeps ==
  ASSUME IStore, NEW p \in Procs, RemoveFile(p) \/ RemoveMetadata(p) \/ RemoveEnds(p)
  PROVE  Kept(p)
<1> DEFINE path == procs[p].path
           here == dirs[path]
<1>0. /\ procs[p].at = "remove" /\ procs[p].req.op = "remove"
      /\ path \in Paths /\ edits \in 0..MaxEdits /\ here \in Dir
      /\ here.files \in [Files -> Entry \cup {None}] /\ Rooted(here.files)
      /\ here.exists \in BOOLEAN /\ here.meta \in WorkspaceNames \cup {None, Torn}
      /\ ~here.exists => here.meta = None /\ here.files = NoFiles
      /\ Stage(procs[p])
  <2>1. procs[p].at = "remove"
    BY DEF RemoveFile, RemoveMetadata, RemoveEnds
  <2>2. Stage(procs[p]) /\ procs[p].at # "idle"
    BY <2>1, InDir
  <2>3. procs[p].req.op = "remove"
    BY <2>1, <2>2 DEF Stage
  <2>. QED
    BY <2>1, <2>3, InDir
<1>1. ASSUME NEW at \in {"remove", "done"}, Goes(p, at), archives' = archives,
             TypeOK'
      PROVE  Kept(p)
  <2>1. /\ Others(p)
        /\ procs'[p].at = at /\ procs'[p].req = procs[p].req /\ procs'[p].path = path
    BY <1>1, Gone DEF Stages
  <2>2. Stage(procs[p])'
    BY <1>0, <1>1, <2>1 DEF Stage, PathOf
  <2>3. Written(procs[p])' /\ Covered(procs[p])' /\ Restored(procs[p])'
    BY <1>0, <1>1, <2>1 DEF Written, Covered, Restored
  <2>4. \A a \in Archives : ~Writes(procs[p], a)'
    BY <1>1, <2>1 DEF Writes
  <2>5. ArchivesMove(p) /\ WalksInOrder'
    BY <1>1 DEF ArchivesMove, WalksInOrder, IStore
  <2>. QED
    BY <1>1, <2>1, <2>2, <2>3, <2>4, <2>5 DEF Kept
<1>2. ASSUME NEW fs \in [Files -> Entry \cup {None}], Rooted(fs),
             NEW m \in WorkspaceNames \cup {None, Torn}, here.exists, Removing(p, fs, m)
      PROVE  Kept(p)
  <2> DEFINE d == [here EXCEPT !.files = fs, !.meta = m]
  <2>1. Changed(d, TRUE, m, fs)
    <3>1. Changed(d, here.exists, m, fs)
      <4> HIDE DEF here
      <4>. QED
        BY <1>0, DirChange
    <3>. QED
      BY <1>0, <1>2, <3>1
  <2>2. OnlyAt(path, d) /\ archives' = archives /\ edits' \in 0..MaxEdits
    BY <1>0, <1>2 DEF Removing, OnlyAt
  <2> HIDE DEF d
  <2>3. TypeOK'
    BY <1>0, <1>2, <2>1, <2>2, DirKept
  <2>. QED
    BY <1>1, <1>2, <2>2, <2>3 DEF Removing
<1>3. CASE RemoveFile(p)
  <2>1. PICK f \in Files :
          /\ here.files[f] # None /\ Held(path, f) = {}
          /\ IF Locked(p, f) THEN Fails(p)
             ELSE Removing(p, [here.files EXCEPT ![f] = None], here.meta)
    BY <1>3 DEF RemoveFile, Here
  <2>2. CASE Locked(p, f)
    BY <1>0, <2>1, <2>2, GivesUp DEF Fails
  <2>3. CASE ~Locked(p, f)
    <3> DEFINE fs == [here.files EXCEPT ![f] = None]
    <3>1. fs \in [Files -> Entry \cup {None}]
          /\ \A g \in Files : fs[g] = IF g = f THEN None ELSE here.files[g]
      BY <1>0
    <3>2. \A g \in Files : Parent[g] = f => here.files[g] = None
      BY <2>1 DEF Held
    <3>3. Parent \in [Files -> Files \cup {None}]
      BY TreeType
    <3>4. Rooted(fs)
      <4> HIDE DEF fs
      <4>. QED
        BY <1>0, <3>1, <3>2, <3>3 DEF Rooted
    <3>5. here.exists
      BY <1>0, <2>1 DEF NoFiles
    <3>. QED
      BY <1>0, <1>2, <2>1, <2>3, <3>1, <3>4, <3>5
  <2>. QED
    BY <2>2, <2>3
<1>4. CASE RemoveMetadata(p)
  <2>1. here.exists /\ Removing(p, here.files, None)
    BY <1>0, <1>4 DEF RemoveMetadata, Here
  <2>. QED
    BY <1>0, <1>2, <2>1
<1>5. CASE RemoveEnds(p)
  <2>1. DirKind(NoDir)
    BY DEF DirKind, NoDir, Dir, NoFiles, Rooted
  <2>2. OnlyAt(path, NoDir) /\ archives' = archives /\ edits' = edits /\ Goes(p, "done")
    BY <1>5 DEF RemoveEnds, OnlyAt
  <2>3. archives' \in [Archives -> Archive \cup {None}]
    BY <2>2 DEF IStore, IType, TypeOK
  <2>4. TypeOK'
    BY <1>0, <2>1, <2>2, <2>3, DirPut DEF IStore, IType
  <2>. QED
    BY <1>1, <2>2, <2>4
<1>. QED
  BY <1>3, <1>4, <1>5

\* A workbench changes a file, and no command goes on.
LEMMA WorkbenchKeeps ==
  ASSUME IStore, Workbench
  PROVE  Kept(None)
<1>1. PICK path \in Paths, f \in Files, new \in Contents \cup {None} :
        /\ dirs[path].exists
        /\ f \notin {Parent[g] : g \in Files}
        /\ Parent[f] # None => dirs[path].files[Parent[f]] = "dir"
        /\ dirs' = [dirs EXCEPT ![path].files[f] = new]
  BY DEF Workbench
<1> DEFINE here == dirs[path]
           fs   == [here.files EXCEPT ![f] = new]
           d    == [here EXCEPT !.files = fs]
<1>2. TypeOK
  BY DEF IStore, IType
<1>3. /\ here \in Dir /\ here.files \in [Files -> Entry \cup {None}] /\ Rooted(here.files)
      /\ here.meta \in WorkspaceNames \cup {None, Torn}
  BY <1>2, HereKind
<1>4. OnlyAt(path, d)
  BY <1>1, <1>2 DEF OnlyAt
<1>5. fs \in [Files -> Entry \cup {None}]
      /\ \A g \in Files : fs[g] = IF g = f THEN new ELSE here.files[g]
  BY <1>3 DEF Entry
<1>6. Rooted(fs)
  <2>1. \A g \in Files : Parent[g] # f /\ Parent[g] \in Files \cup {None}
    BY <1>1, TreeType
  <2>2. Parent[f] # None => here.files[Parent[f]] \in Directories
    BY <1>1 DEF Directories
  <2> HIDE DEF fs
  <2>. QED
    BY <1>3, <1>5, <2>1, <2>2 DEF Rooted
<1>7. Changed(d, TRUE, here.meta, fs)
  <2>1. Changed(d, here.exists, here.meta, fs) /\ here.exists \in BOOLEAN
    <3>1. here.exists \in BOOLEAN
      BY <1>3 DEF Dir
    <3> HIDE DEF here, fs
    <3>. QED
      BY <1>3, <3>1, DirChange
  <2>. QED
    BY <1>1, <2>1
<1>8. edits' \in 0..MaxEdits /\ archives' = archives /\ Becomes(None, Idle)
  BY <1>2, TreeType DEF Workbench, TypeOK
<1> HIDE DEF d, fs
<1>9. TypeOK' /\ ArchivesMove(None) /\ WalksInOrder'
  BY <1>3, <1>4, <1>5, <1>6, <1>7, <1>8, DirKept
<1>10. Others(None)
  BY <1>8, Goings, CommandType DEF Others, IStore, IType
<1>. QED
  BY <1>9, <1>10, CommandType DEF Kept

-----------------------------------------------------------------------------
(* The steps of a backup. *)

\* The walk takes what it has still to visit.
LEMMA EarliestIsAhead ==
  ASSUME NEW todo \in SUBSET Files, todo # {}
  PROVE  Earliest(todo) \in todo
<1> DEFINE T == {i \in 1..Len(Order) : Order[i] \in todo}
<1>0. Order \in Seq(Files) /\ Len(Order) \in Nat /\ DOMAIN Order = 1..Len(Order)
  BY TreeType
<1>1. T # {} /\ T \subseteq Nat
  <2>1. PICK f \in todo : TRUE
    OBVIOUS
  <2>2. f \in {Order[i] : i \in DOMAIN Order}
    BY <2>1 DEF Files, ToSet
  <2>. QED
    BY <1>0, <2>2
<1>2. PICK i \in T : \A j \in T : <<j, i>> \notin OpToRel(<, Nat)
  <2> HIDE DEF T
  <2>. QED
    BY <1>1, NatLessThanWellFounded, WFMin
<1>3. i \in DOMAIN Order /\ Order[i] \in todo /\ \A j \in 1..(i - 1) : Order[j] \notin todo
  <2>1. ASSUME NEW j \in 1..(i - 1), Order[j] \in todo
        PROVE  FALSE
    <3>1. j \in T /\ j < i /\ j \in Nat /\ i \in Nat
      BY <1>0, <2>1
    <3>. QED
      BY <1>2, <3>1 DEF OpToRel
  <2>. QED
    BY <1>0, <2>1
<1>. QED
  BY <1>3 DEF Earliest

\* What a backup is about.
LEMMA InBackup ==
  ASSUME IStore, NEW p \in Procs, procs[p].at \in {"open", "walk", "copy"}
  PROVE  /\ procs[p].req.op = "backup" /\ procs[p].req.archive \in Archives
         /\ procs[p].at # "idle"
         /\ procs[p].at # "open" => /\ archives[procs[p].req.archive] \in Archive
                                    /\ archives[procs[p].req.archive] # None
                                    /\ InWalkOrder(archives[procs[p].req.archive].items)
<1>1. procs[p].at # "idle"
  OBVIOUS
<1>2. Stage(procs[p]) /\ Written(procs[p])
  BY <1>1, InDir
<1>3. procs[p].req.op = "backup" /\ procs[p].req.archive \in Archives
  BY <1>2, ArchiveOf DEF Stage
<1>4. procs[p].at # "open" => archives[procs[p].req.archive] # None
  BY <1>2 DEF Written
<1>. QED
  BY <1>1, <1>3, <1>4 DEF IStore, IType, TypeOK, WalksInOrder

\* The archive of a backup changes.
LEMMA ArchiveKept ==
  ASSUME IStore, NEW p \in Procs, procs[p].at \in {"open", "walk", "copy"},
         NEW x \in Archive, InWalkOrder(x.items), Grows(archives[procs[p].req.archive], x),
         archives' = [archives EXCEPT ![procs[p].req.archive] = x], UNCHANGED <<dirs, edits>>
  PROVE  /\ TypeOK' /\ ArchivesMove(p) /\ WalksInOrder'
         /\ archives'[procs[p].req.archive] = x
<1> DEFINE a == procs[p].req.archive
<1>1. a \in Archives /\ archives \in [Archives -> Archive \cup {None}]
  BY InBackup DEF IStore, IType, TypeOK
<1>2. archives' \in [Archives -> Archive \cup {None}] /\ archives'[a] = x
      /\ \A b \in Archives : b # a => archives'[b] = archives[b]
  BY <1>1
<1>3. TypeOK'
  BY <1>2 DEF IStore, IType, TypeOK
<1>4. ArchivesMove(p)
  BY <1>2 DEF ArchivesMove, Writes
<1>5. WalksInOrder'
  BY <1>2 DEF WalksInOrder, IStore
<1>. QED
  BY <1>2, <1>3, <1>4, <1>5

\* A backup is kept when it has written what it should.
LEMMA BackupKept ==
  ASSUME IStore, NEW p \in Procs, procs[p].at \in {"open", "walk", "copy"},
         TypeOK', ArchivesMove(p), WalksInOrder', Others(p),
         procs'[p].req = procs[p].req, procs'[p].path = procs[p].path,
         procs'[p].at \in {"walk", "copy", "done", "failed"},
         procs'[p].at = "copy" => procs'[p].open \in [name : Files, size : Nat],
         Written(procs[p])', Covered(procs[p])'
  PROVE  Kept(p)
<1>1. procs[p].req.op = "backup" /\ Stage(procs[p]) /\ procs[p].at # "idle"
  BY InBackup, InDir
<1>2. Stage(procs[p])'
  BY <1>1 DEF Stage, PathOf
<1>3. Restored(procs[p])'
  BY <1>1 DEF Restored
<1>4. \A a \in Archives : Writes(procs[p], a)' => Writes(procs[p], a)
  BY DEF Writes
<1>. QED
  BY <1>2, <1>3, <1>4 DEF Kept

\* How a backup goes on to a step that walks or copies.
LEMMA WalkGoes ==
  ASSUME IStore, NEW p \in Procs, NEW new \in Command, Becomes(p, new),
         new.req = procs[p].req, new.path = procs[p].path, new.stable = procs[p].stable,
         procs[p].at # "idle", UNCHANGED dirs
  PROVE  /\ Others(p)
         /\ procs'[p].at = new.at /\ procs'[p].todo = new.todo /\ procs'[p].open = new.open
         /\ procs'[p].req = procs[p].req /\ procs'[p].path = procs[p].path
         /\ procs'[p].stable \subseteq procs[p].stable
<1>1. Others(p) /\ Follows(p, p, new)
  BY Goings DEF IStore, IType, Others
<1>. QED
  BY <1>1 DEF Follows

\* The items of an archive are replaced, or it is whole.
LEMMA ArchiveChange ==
  ASSUME NEW x \in Archive, NEW t \in Seq(Item)
  PROVE  /\ [x EXCEPT !.items = t] \in Archive
         /\ [x EXCEPT !.items = t].items = t /\ [x EXCEPT !.items = t].whole = x.whole
         /\ [x EXCEPT !.whole = TRUE] \in Archive
         /\ [x EXCEPT !.whole = TRUE].items = x.items /\ [x EXCEPT !.whole = TRUE].whole
BY DEF Archive, Item

\* What is true of a list of items that is longer by an entry of f.
Longer(s, t, f, e) ==
  /\ t \in Seq(Item) /\ InWalkOrder(t)
  /\ Len(s) \in Nat /\ Len(t) = Len(s) + 1
  /\ \A i \in 1..Len(s) : t[i] = s[i]
  /\ NamedIn(t) = NamedIn(s) \cup {f}
  /\ ToSet(t) = ToSet(s) \cup {[name |-> f, entry |-> e]}
  /\ \A g : Under(s, g, Len(s) + 1) => Under(t, g, Len(t) + 1)
  /\ \A g : Parent[g] = f /\ e \in Directories => Under(t, g, Len(t) + 1)

\* A file that the list does not name, and whose directory it does, may be appended.
LEMMA Appended ==
  ASSUME NEW s \in Seq(Item), NEW f \in Files, NEW e \in Entry,
         InWalkOrder(s), f \notin NamedIn(s), Under(s, f, Len(s) + 1)
  PROVE  Longer(s, Append(s, [name |-> f, entry |-> e]), f, e)
<1> DEFINE t    == Append(s, [name |-> f, entry |-> e])
           item == [name |-> f, entry |-> e]
<1>1. item \in Item /\ item.name = f /\ item.entry = e
  BY DEF Item
<1> HIDE DEF item
<1>2. Len(s) \in Nat /\ DOMAIN s = 1..Len(s)
  OBVIOUS
<1>3. t = Append(s, item)
  BY DEF item
<1> HIDE DEF t
<1>4. /\ t \in Seq(Item) /\ Len(t) = Len(s) + 1
      /\ \A i \in 1..Len(s) : t[i] = s[i]
      /\ t[Len(s) + 1] = item
      /\ DOMAIN t = 1..(Len(s) + 1)
  BY <1>1, <1>2, <1>3
<1>5. \A i : i \in 1..(Len(s) + 1) <=> i \in 1..Len(s) \/ i = Len(s) + 1
  BY <1>2
<1>6. NamedIn(t) = NamedIn(s) \cup {f}
  BY <1>1, <1>2, <1>4 DEF NamedIn
<1>7. ToSet(t) = ToSet(s) \cup {item}
  <2>1. ToSet(t) = {t[i] : i \in 1..(Len(s) + 1)} /\ ToSet(s) = {s[i] : i \in 1..Len(s)}
    BY <1>2, <1>4 DEF ToSet
  <2>2. ASSUME NEW u \in ToSet(t) PROVE u \in ToSet(s) \cup {item}
    BY <1>4, <1>5, <2>1
  <2>3. ASSUME NEW u \in ToSet(s) \cup {item} PROVE u \in ToSet(t)
    BY <1>2, <1>4, <1>5, <2>1
  <2>. QED
    BY <2>2, <2>3
<1>8. ASSUME NEW g, NEW n \in Int, n <= Len(s) + 1, Under(s, g, n)
      PROVE  Under(t, g, n)
  BY <1>2, <1>4, <1>8 DEF Under
<1>9. \A g : Under(s, g, Len(s) + 1) => Under(t, g, Len(t) + 1)
  BY <1>2, <1>4 DEF Under
<1>10. \A g : Parent[g] = f /\ e \in Directories => Under(t, g, Len(t) + 1)
  BY <1>1, <1>2, <1>4 DEF Under
<1>11. InWalkOrder(t)
  <2>1. \A i \in 1..Len(s) : s[i].name # f
    BY DEF NamedIn
  <2>2. \A i, j \in 1..Len(s) : s[i].name = s[j].name => i = j
    BY DEF InWalkOrder
  <2>3. \A i, j \in 1..Len(t) : t[i].name = t[j].name => i = j
    BY <1>1, <1>2, <1>4, <2>1, <2>2
  <2>4. \A i \in 1..Len(s) : Under(t, t[i].name, i)
    BY <1>2, <1>4, <1>8 DEF InWalkOrder
  <2>5. Under(t, t[Len(s) + 1].name, Len(s) + 1)
    BY <1>1, <1>2, <1>4, <1>8
  <2>. QED
    BY <1>2, <1>4, <1>5, <2>3, <2>4, <2>5 DEF InWalkOrder
<1>. QED
  BY <1>2, <1>4, <1>6, <1>7, <1>9, <1>10, <1>11 DEF item, t, Longer

\* Nothing is written yet: what is to be visited is what lies in the root.
LEMMA OpenKeeps ==
  ASSUME IStore, NEW p \in Procs, OpenArchive(p)
  PROVE  Kept(p)
<1> DEFINE c    == procs[p]
           a    == c.req.archive
           x    == [items |-> <<>>, whole |-> FALSE]
           todo == Held(c.path, None)
           new  == [c EXCEPT !.at = "walk", !.todo = todo]
<1>0. /\ c.at = "open" /\ UNCHANGED <<dirs, edits>>
      /\ archives' = [archives EXCEPT ![a] = x]
      /\ IF dirs[c.path].exists THEN Becomes(p, new) ELSE Goes(p, "failed")
  BY DEF OpenArchive, Here
<1>1. /\ a \in Archives /\ c \in Command /\ Written(c) /\ c.path \in Paths
      /\ dirs[c.path].files \in [Files -> Entry \cup {None}] /\ Rooted(dirs[c.path].files)
      /\ c.stable \in SUBSET Files
  BY <1>0, InBackup, InDir DEF IStore, IType, Command
<1>2. x \in Archive /\ InWalkOrder(x.items) /\ Grows(archives[a], x)
  <2>1. <<>> \in Seq([name : Files, entry : Entry])
    OBVIOUS
  <2>2. x \in Archive
    BY <2>1 DEF Archive
  <2>3. InWalkOrder(x.items)
    BY DEF InWalkOrder
  <2>4. Grows(archives[a], x)
    BY <1>0, <1>1 DEF Written, Grows
  <2>. QED
    BY <2>2, <2>3, <2>4
<1>3. TypeOK' /\ ArchivesMove(p) /\ WalksInOrder' /\ archives'[a] = x
  <2>1. procs[p].at \in {"open", "walk", "copy"} /\ UNCHANGED <<dirs, edits>>
        /\ archives' = [archives EXCEPT ![procs[p].req.archive] = x]
        /\ Grows(archives[procs[p].req.archive], x)
    BY <1>0, <1>2
  <2> HIDE DEF x
  <2>. QED
    BY <1>2, <2>1, ArchiveKept
<1>4. CASE ~dirs[c.path].exists
  <2>1. /\ Others(p)
        /\ procs'[p].at = "failed" /\ procs'[p].req = c.req /\ procs'[p].path = c.path
    BY <1>0, <1>4, Gone DEF Stages
  <2>2. Written(procs[p])' /\ Covered(procs[p])'
    BY <2>1 DEF Written, Covered
  <2>. QED
    BY <1>0, <1>3, <2>1, <2>2, BackupKept
<1>5. CASE dirs[c.path].exists
  <2>1. todo \in SUBSET Files
    BY DEF Held
  <2>2. /\ new \in Command /\ new.at = "walk" /\ new.todo = todo
        /\ new.req = c.req /\ new.path = c.path /\ new.stable = c.stable
    <3> HIDE DEF c, todo
    <3>. QED
      BY <1>1, <2>1 DEF Command, Stages
  <2>3. /\ Others(p) /\ procs'[p].at = "walk" /\ procs'[p].todo = todo
        /\ procs'[p].req = c.req /\ procs'[p].path = c.path
        /\ procs'[p].stable \subseteq c.stable
    <3>1. Becomes(p, new) /\ c.at # "idle" /\ UNCHANGED dirs
      BY <1>0, <1>5
    <3> HIDE DEF new
    <3>. QED
      BY <2>2, <3>1, WalkGoes
  <2>4. Written(procs[p])'
    <3>1. \A f \in todo : f \notin NamedIn(x.items) /\ Under(x.items, f, Len(x.items) + 1)
      BY DEF Held, NamedIn, Under
    <3>2. x # None /\ ~x.whole
      BY <1>2, CommandType
    <3>3. Ahead(procs[p])' = todo
      BY <2>3 DEF Ahead
    <3> HIDE DEF todo, x
    <3>. QED
      BY <1>3, <2>3, <3>1, <3>2, <3>3 DEF Written
  <2>5. Covered(procs[p])'
    <3>1. ASSUME NEW f \in procs'[p].stable, dirs[c.path].files[f] # None
          PROVE  f \in todo \/ (Parent[f] # None /\ Parent[f] \in todo)
      <4>1. f \in Files /\ Parent[f] \in Files \cup {None}
        BY <1>1, <2>3, TreeType
      <4>2. CASE Parent[f] = None
        BY <3>1, <4>1, <4>2 DEF Held
      <4>3. CASE Parent[f] # None
        <5>1. Parent[Parent[f]] = None /\ None \notin Directories
          BY <4>1, <4>3, TreeType DEF Entry
        <5>2. dirs[c.path].files[Parent[f]] # None
          BY <1>1, <3>1, <4>1, <4>3, <5>1 DEF Rooted
        <5>. QED
          BY <4>1, <4>3, <5>1, <5>2 DEF Held
      <4>. QED
        BY <4>2, <4>3
    <3> HIDE DEF todo
    <3>. QED
      BY <1>0, <2>3, <3>1 DEF Covered, Ahead
  <2>. QED
    BY <1>0, <1>3, <2>3, <2>4, <2>5, BackupKept
<1>. QED
  BY <1>4, <1>5

\* What is ahead goes into the archive as it is, and what lies in it comes next.
LEMMA PutKeeps ==
  ASSUME IStore, NEW p \in Procs, procs[p].at \in {"walk", "copy"},
         NEW f \in Ahead(procs[p]), NEW e \in Entry, e = dirs[procs[p].path].files[f],
         procs[p].at = "copy" => f = procs[p].open.name,
         Put(procs[p].req.archive, f, e), UNCHANGED <<dirs, edits>>,
         NEW new \in Command, Becomes(p, new), new.at = "walk",
         new.req = procs[p].req, new.path = procs[p].path, new.stable = procs[p].stable,
         new.todo = (procs[p].todo \ {f}) \cup Held(procs[p].path, f)
  PROVE  Kept(p)
<1> DEFINE c == procs[p]
           a == c.req.archive
           s == archives[a].items
           item == [name |-> f, entry |-> e]
           t == Append(s, item)
           y == [archives[a] EXCEPT !.items = t]
           fs == dirs[c.path].files
<1>1. /\ a \in Archives /\ c \in Command /\ Written(c) /\ Covered(c) /\ Stage(c)
      /\ archives[a] \in Archive /\ InWalkOrder(s) /\ c.at # "idle"
      /\ fs \in [Files -> Entry \cup {None}] /\ Rooted(fs) /\ c.path \in Paths
      /\ c.stable \in SUBSET Files /\ c.todo \in SUBSET Files
  BY InBackup, InDir DEF IStore, IType, Command
<1>2. /\ ~archives[a].whole
      /\ f \notin NamedIn(s) /\ Under(s, f, Len(s) + 1)
      /\ \A g \in Ahead(c) : g \notin NamedIn(s) /\ Under(s, g, Len(s) + 1)
      /\ c.at = "copy" => c.open.name \notin c.todo
  BY <1>1 DEF Written
<1>3. f \in Files
  BY <1>1 DEF Ahead, Stage
<1>4. s \in Seq(Item) /\ item \in Item
  BY <1>1, <1>3, Archived DEF Item
<1>5. Longer(s, t, f, e)
  BY <1>1, <1>2, <1>3, <1>4, Appended
<1>6. y \in Archive /\ y.items = t /\ y.whole = archives[a].whole
  <2>1. t \in Seq(Item)
    BY <1>5 DEF Longer
  <2> HIDE DEF t, a
  <2>. QED
    BY <1>1, <2>1, ArchiveChange
<1>7. archives' = [archives EXCEPT ![a] = y]
  BY DEF Put
<1>8. TypeOK' /\ ArchivesMove(p) /\ WalksInOrder' /\ archives'[a] = y
  <2>1. InWalkOrder(y.items) /\ Grows(archives[procs[p].req.archive], y)
    <3>1. y # None
      BY <1>6, CommandType
    <3>2. /\ Len(s) <= Len(t) /\ \A i \in 1..Len(s) : t[i] = s[i]
          /\ InWalkOrder(t)
      <4> HIDE DEF t, s
      <4>. QED
        BY <1>5 DEF Longer
    <3>3. y.items = t /\ ~archives[a].whole
      BY <1>2, <1>6
    <3> HIDE DEF y, t
    <3>. QED
      BY <3>1, <3>2, <3>3 DEF Grows
  <2>2. procs[p].at \in {"open", "walk", "copy"}
        /\ archives' = [archives EXCEPT ![procs[p].req.archive] = y]
    BY <1>7
  <2> HIDE DEF y
  <2>. QED
    BY <1>6, <2>1, <2>2, ArchiveKept
<1> HIDE DEF y, t
<1>9. /\ Others(p) /\ procs'[p].at = "walk" /\ procs'[p].todo = new.todo
      /\ procs'[p].req = c.req /\ procs'[p].path = c.path
      /\ procs'[p].stable \subseteq c.stable
  BY <1>1, WalkGoes
<1>10. \A g \in Files : Parent[g] = f /\ fs[g] # None => e \in Directories
  BY <1>1, <1>3, TreeType DEF Rooted
<1>11. ASSUME NEW g \in new.todo
       PROVE  g \notin NamedIn(t) /\ Under(t, g, Len(t) + 1)
  <2>1. CASE g \in c.todo \ {f}
    <3>1. g \in Ahead(c)
      BY <2>1 DEF Ahead
    <3>. QED
      BY <1>2, <1>5, <2>1, <3>1 DEF Longer
  <2>2. CASE g \in Held(c.path, f)
    <3>1. g \in Files /\ Parent[g] = f /\ fs[g] # None
      BY <2>2 DEF Held
    <3>2. g # f
      BY <1>3, <3>1, TreeType
    <3>3. g \notin NamedIn(s)
      <4> SUFFICES ASSUME NEW i \in 1..Len(s), s[i].name = g
                   PROVE  FALSE
        BY DEF NamedIn
      <4>1. Under(s, g, i)
        BY <1>1 DEF InWalkOrder
      <4>2. f # None
        BY <1>3, TreeType
      <4>3. PICK j \in 1..(i - 1) : s[j].name = f
        BY <3>1, <4>1, <4>2 DEF Under
      <4>4. j \in 1..Len(s)
        BY <1>5 DEF Longer
      <4>. QED
        BY <1>2, <4>3, <4>4 DEF NamedIn
    <3>. QED
      BY <1>5, <1>10, <3>1, <3>2, <3>3 DEF Longer
  <2>. QED
    BY <2>1, <2>2
<1>12. Written(procs[p])'
  <2>1. y # None
    BY <1>6, CommandType
  <2>2. Ahead(procs[p])' = new.todo
    BY <1>9 DEF Ahead
  <2>. QED
    BY <1>2, <1>6, <1>8, <1>9, <1>11, <2>1, <2>2 DEF Written
<1>13. Covered(procs[p])'
  <2>1. ASSUME NEW g \in c.stable, fs[g] # None
        PROVE  \/ [name |-> g, entry |-> fs[g]] \in ToSet(t)
               \/ g \in new.todo \/ (Parent[g] # None /\ Parent[g] \in new.todo)
    <3>1. \/ [name |-> g, entry |-> fs[g]] \in ToSet(s)
          \/ g \in Ahead(c) \/ (Parent[g] # None /\ Parent[g] \in c.todo)
      BY <1>1, <2>1 DEF Covered, Items
    <3>2. CASE [name |-> g, entry |-> fs[g]] \in ToSet(s)
      BY <1>5, <3>2 DEF Longer
    <3>3. CASE g \in Ahead(c)
      BY <1>5, <3>3 DEF Ahead, Longer
    <3>4. CASE Parent[g] # None /\ Parent[g] \in c.todo
      BY <1>1, <2>1, <3>4 DEF Held
    <3>. QED
      BY <3>1, <3>2, <3>3, <3>4
  <2>2. Ahead(procs[p])' = new.todo
    BY <1>9 DEF Ahead
  <2>. QED
    BY <1>6, <1>8, <1>9, <2>1, <2>2 DEF Covered, Items
<1>. QED
  BY <1>8, <1>9, <1>12, <1>13, BackupKept

\* The walk writes what is not a file, opens a file, or gives up at what has gone.
LEMMA WalkKeeps ==
  ASSUME IStore, NEW p \in Procs, Walk(p)
  PROVE  Kept(p)
<1> DEFINE c  == procs[p]
           f  == Earliest(c.todo)
           fs == dirs[c.path].files
           e  == fs[f]
<1>0. /\ c.at = "walk" /\ c.todo # {} /\ UNCHANGED <<dirs, edits>>
      /\ WalkOther(p, f, e) \/ WalkFile(p, f, e) \/ WalkGone(p, f, e)
  BY DEF Walk, Here
<1>1. /\ c \in Command /\ Written(c) /\ Covered(c) /\ Stage(c)
      /\ fs \in [Files -> Entry \cup {None}] /\ Rooted(fs) /\ c.path \in Paths
      /\ c.stable \in SUBSET Files /\ c.todo \in SUBSET Files
  BY <1>0, InDir DEF IStore, IType, Command
<1>2. f \in c.todo /\ f \in Files /\ Ahead(c) = c.todo
  BY <1>0, <1>1, EarliestIsAhead DEF Ahead
<1>3. CASE WalkOther(p, f, e)
  <2> DEFINE todo == (c.todo \ {f}) \cup Held(c.path, f)
             new  == [c EXCEPT !.todo = todo]
  <2>1. e \in Entry /\ Put(c.req.archive, f, e) /\ Becomes(p, new)
    BY <1>3 DEF WalkOther, Entry
  <2>2. todo \in SUBSET Files
    BY <1>1 DEF Held
  <2>3. /\ new \in Command /\ new.at = "walk" /\ new.todo = todo
        /\ new.req = c.req /\ new.path = c.path /\ new.stable = c.stable
    <3> HIDE DEF c, todo
    <3>. QED
      BY <1>0, <1>1, <2>2 DEF Command
  <2> HIDE DEF new, f
  <2>. QED
    BY <1>0, <1>2, <2>1, <2>3, PutKeeps
<1>4. CASE WalkFile(p, f, e)
  <2> DEFINE todo == c.todo \ {f}
             open == [name |-> f, size |-> Size[e]]
             new  == [c EXCEPT !.at = "copy", !.todo = todo, !.open = open]
  <2>1. e \in Contents /\ UNCHANGED archives /\ Becomes(p, new)
    BY <1>4 DEF WalkFile
  <2>2. todo \in SUBSET Files /\ open \in [name : Files, size : Nat] /\ open.name = f
    BY <1>1, <1>2, <2>1, TreeType
  <2>3. /\ new \in Command /\ new.at = "copy" /\ new.todo = todo /\ new.open = open
        /\ new.req = c.req /\ new.path = c.path /\ new.stable = c.stable
    <3> HIDE DEF c, todo, open
    <3>. QED
      BY <1>1, <2>2 DEF Command, Stages
  <2>4. /\ Others(p) /\ procs'[p].at = "copy" /\ procs'[p].todo = todo
        /\ procs'[p].open = open /\ procs'[p].req = c.req /\ procs'[p].path = c.path
        /\ procs'[p].stable \subseteq c.stable
    <3> HIDE DEF new
    <3>. QED
      BY <1>0, <2>1, <2>3, WalkGoes
  <2>5. Ahead(procs[p])' = c.todo
    BY <1>2, <2>2, <2>4 DEF Ahead
  <2>6. Written(procs[p])'
    <3>1. procs'[p].open.name \notin procs'[p].todo
      BY <2>2, <2>4
    <3>. QED
      BY <1>0, <1>1, <1>2, <2>1, <2>4, <2>5, <3>1 DEF Written
  <2>7. Covered(procs[p])'
    <3>1. \A g \in Files : fs[g] # None => Parent[g] # f
      BY <1>1, <1>2, <2>1, TreeType DEF Rooted
    <3>2. \A g \in c.stable : fs[g] # None =>
            \/ [name |-> g, entry |-> fs[g]] \in Items(c.req.archive)
            \/ g \in c.todo \/ (Parent[g] # None /\ Parent[g] \in c.todo)
      BY <1>0, <1>1, <1>2 DEF Covered
    <3>. QED
      BY <1>0, <1>1, <2>1, <2>4, <2>5, <3>1, <3>2 DEF Covered, Items
  <2>8. TypeOK' /\ ArchivesMove(p) /\ WalksInOrder'
    BY <1>0, <2>1, QuietKinds
  <2>. QED
    BY <1>0, <2>2, <2>4, <2>6, <2>7, <2>8, BackupKept
<1>5. CASE WalkGone(p, f, e)
  BY <1>0, <1>5, GivesUp DEF WalkGone
<1>. QED
  BY <1>0, <1>3, <1>4, <1>5

\* A file is written when it has the length of its header still.
LEMMA CopyKeeps ==
  ASSUME IStore, NEW p \in Procs, Copy(p)
  PROVE  Kept(p)
<1> DEFINE c  == procs[p]
           f  == c.open.name
           fs == dirs[c.path].files
           e  == fs[f]
           new == [c EXCEPT !.at = "walk", !.open = None]
<1>0. /\ c.at = "copy" /\ UNCHANGED <<dirs, edits>>
      /\ IF e \in Contents /\ Size[e] = c.open.size
         THEN Put(c.req.archive, f, e) /\ Becomes(p, new)
         ELSE Goes(p, "failed") /\ UNCHANGED archives
  BY DEF Copy, Here
<1>1. /\ c \in Command /\ Written(c) /\ Stage(c)
      /\ fs \in [Files -> Entry \cup {None}] /\ Rooted(fs) /\ c.path \in Paths
      /\ c.todo \in SUBSET Files
  BY <1>0, InDir DEF IStore, IType, Command
<1>2. f \in Files /\ f \in Ahead(c) /\ f \notin c.todo
  BY <1>0, <1>1 DEF Ahead, Stage, Written
<1>3. CASE e \in Contents /\ Size[e] = c.open.size
  <2>1. e \in Entry /\ Put(c.req.archive, f, e) /\ Becomes(p, new)
    BY <1>0, <1>3 DEF Entry
  <2>2. /\ new \in Command /\ new.at = "walk" /\ new.todo = c.todo
        /\ new.req = c.req /\ new.path = c.path /\ new.stable = c.stable
    <3> HIDE DEF c
    <3>. QED
      BY <1>1 DEF Command, Stages
  <2>3. Held(c.path, f) = {}
    BY <1>1, <1>2, <1>3, TreeType DEF Held, Rooted
  <2>4. new.todo = (c.todo \ {f}) \cup Held(c.path, f)
    <3> HIDE DEF new
    <3>. QED
      BY <1>2, <2>2, <2>3
  <2>5. procs[p].at \in {"walk", "copy"} /\ (procs[p].at = "copy" => f = procs[p].open.name)
        /\ UNCHANGED <<dirs, edits>>
    BY <1>0
  <2> HIDE DEF new, f
  <2>. QED
    BY <1>2, <2>1, <2>2, <2>4, <2>5, PutKeeps
<1>4. CASE ~(e \in Contents /\ Size[e] = c.open.size)
  BY <1>0, <1>4, GivesUp
<1>. QED
  BY <1>3, <1>4

\* At the end nothing is ahead, so that what nobody touched is in the archive.
LEMMA BackupEndsKeeps ==
  ASSUME IStore, NEW p \in Procs, BackupEnds(p)
  PROVE  Kept(p)
<1> DEFINE c == procs[p]
           a == c.req.archive
           y == [archives[a] EXCEPT !.whole = TRUE]
<1>0. /\ c.at = "walk" /\ c.todo = {} /\ UNCHANGED <<dirs, edits>> /\ Goes(p, "done")
      /\ archives' = [archives EXCEPT ![a] = y]
  BY DEF BackupEnds
<1>1. /\ a \in Archives /\ Written(c) /\ Covered(c) /\ c.req.op = "backup"
      /\ archives[a] \in Archive /\ InWalkOrder(archives[a].items) /\ c.path # None
  BY <1>0, InBackup, InDir
<1>2. y \in Archive /\ y.items = archives[a].items
  <2>1. <<>> \in Seq(Item)
    OBVIOUS
  <2> HIDE DEF a
  <2>. QED
    BY <1>1, <2>1, ArchiveChange
<1>3. y # None
  BY <1>2, CommandType
<1> HIDE DEF y
<1>4. TypeOK' /\ ArchivesMove(p) /\ WalksInOrder' /\ archives'[a] = y
  <2>1. Len(archives[a].items) \in Nat
    BY <1>1, Archived
  <2>2. InWalkOrder(y.items) /\ Grows(archives[procs[p].req.archive], y)
    BY <1>0, <1>1, <1>2, <1>3, <2>1 DEF Grows, Written
  <2>3. procs[p].at \in {"open", "walk", "copy"}
        /\ archives' = [archives EXCEPT ![procs[p].req.archive] = y]
    BY <1>0
  <2>. QED
    BY <1>0, <1>2, <2>2, <2>3, ArchiveKept
<1>5. /\ Others(p)
      /\ procs'[p].at = "done" /\ procs'[p].req = c.req /\ procs'[p].path = c.path
      /\ procs'[p].stable \subseteq c.stable
  BY <1>0, Gone DEF Stages
<1>6. Written(procs[p])'
  BY <1>3, <1>4, <1>5 DEF Written
<1>7. Covered(procs[p])'
  <2>1. \A f \in c.stable : dirs[c.path].files[f] # None =>
          [name |-> f, entry |-> dirs[c.path].files[f]] \in Items(a)
    BY <1>0, <1>1 DEF Covered, Ahead
  <2>. QED
    BY <1>0, <1>2, <1>4, <1>5, <2>1 DEF Covered, Items
<1>. QED
  BY <1>0, <1>4, <1>5, <1>6, <1>7, BackupKept

-----------------------------------------------------------------------------
(* The steps of a restore. *)

\* What is made of a directory: its kind.
LEMMA MakesFiles ==
  ASSUME NEW files \in [Files -> Entry \cup {None}], Rooted(files), NEW f \in Files,
         NEW e \in Entry, ~InTheWay(files, f, e)
  PROVE  /\ Makes(files, f, e) \in [Files -> Entry \cup {None}]
         /\ Rooted(Makes(files, f, e))
         /\ \A g \in Files : Makes(files, f, e)[g] =
              IF g = f /\ files[g] \notin Directories THEN e
              ELSE IF g = Parent[f] /\ files[g] = None THEN "dir" ELSE files[g]
<1> DEFINE fs == Makes(files, f, e)
<1>1. \A g \in Files : fs[g] =
        IF g = f /\ files[g] \notin Directories THEN e
        ELSE IF g = Parent[f] /\ files[g] = None THEN "dir" ELSE files[g]
  BY DEF Makes
<1>2. fs \in [Files -> Entry \cup {None}]
  BY DEF Makes, Entry, Directories
<1> HIDE DEF fs
<1>3. None \notin Directories /\ "dir" \in Directories
  BY TreeType DEF Entry, Directories
<1>4. \A g \in Files : Parent[g] \in Files \cup {None}
        /\ (Parent[g] # None => Parent[Parent[g]] = None /\ Parent[g] # g)
  BY TreeType
<1>5. \A h \in Files : files[h] \in Directories => fs[h] \in Directories
  BY <1>1, <1>3
<1>6. ASSUME NEW g \in Files, fs[g] # None, Parent[g] # None
      PROVE  fs[Parent[g]] \in Directories
  <2>1. CASE g = f
    <3>1. files[Parent[f]] \in Directories \cup {None}
      BY <1>6, <2>1 DEF InTheWay
    <3>2. CASE files[Parent[f]] \in Directories
      BY <1>4, <1>5, <1>6, <2>1, <3>2
    <3>3. CASE files[Parent[f]] = None
      BY <1>1, <1>3, <1>4, <1>6, <2>1, <3>3
    <3>. QED
      BY <3>1, <3>2, <3>3
  <2>2. CASE g = Parent[f]
    BY <1>4, <1>6, <2>2, TreeType
  <2>3. CASE g # f /\ g # Parent[f]
    <3>1. files[Parent[g]] \in Directories
      BY <1>1, <1>6, <2>3 DEF Rooted
    <3>. QED
      BY <1>4, <1>5, <1>6, <3>1
  <2>. QED
    BY <2>1, <2>2, <2>3
<1>7. Rooted(fs)
  BY <1>6 DEF Rooted
<1>. QED
  BY <1>1, <1>2, <1>7 DEF fs

\* A directory that holds the first items holds the next one too.
LEMMA MakesFilled ==
  ASSUME NEW files \in [Files -> Entry \cup {None}], NEW fs, NEW f \in Files, NEW e \in Entry,
         \A g \in Files : fs[g] =
           IF g = f /\ files[g] \notin Directories THEN e
           ELSE IF g = Parent[f] /\ files[g] = None THEN "dir" ELSE files[g],
         NEW items, Len(items) \in Nat,
         \A i \in 1..Len(items) : items[i].name \in Files /\ items[i].entry \in Entry,
         InWalkOrder(items), NEW n \in 1..Len(items), items[n].name = f, items[n].entry = e,
         Filled(files, items, n - 1)
  PROVE  Filled(fs, items, n)
<1>1. /\ None \notin Directories /\ None \notin Entry /\ Parent[f] \in Files \cup {None}
      /\ None \notin Files
  BY TreeType DEF Entry
<1>2. /\ \A i \in 1..(n - 1) : i \in 1..Len(items) /\ i # n
      /\ \A i \in 1..n : i \in 1..(n - 1) \/ i = n
      /\ n \in 1..n /\ \A i \in 1..(n - 1) : i \in 1..n
  OBVIOUS
<1>3. \A i \in 1..(n - 1) : items[i].name # f
  BY <1>2 DEF InWalkOrder
<1>4. files[f] = None
  BY <1>3 DEF Filled
<1>5. ASSUME NEW i \in 1..n
      PROVE  fs[items[i].name] = items[i].entry
  <2>1. CASE i = n
    BY <1>1, <1>4, <2>1
  <2>2. CASE i \in 1..(n - 1)
    <3>1. files[items[i].name] = items[i].entry
      BY <2>2 DEF Filled
    <3>2. items[i].name \in Files /\ items[i].entry # None /\ items[i].name # f
      BY <1>1, <1>2, <1>3, <2>2
    <3>. QED
      BY <3>1, <3>2
  <2>. QED
    BY <1>2, <2>1, <2>2
<1>6. ASSUME NEW g \in Files, fs[g] # None
      PROVE  \E i \in 1..n : items[i].name = g
  <2>1. CASE g = f
    BY <1>2, <2>1
  <2>2. CASE g # f /\ g = Parent[f]
    <3>1. Under(items, f, n)
      BY DEF InWalkOrder
    <3>. QED
      BY <1>1, <1>2, <2>2, <3>1 DEF Under
  <2>3. CASE g # f /\ g # Parent[f]
    <3>1. files[g] # None
      BY <1>6, <2>3
    <3>. QED
      BY <1>2, <3>1 DEF Filled
  <2>. QED
    BY <2>1, <2>2, <2>3
<1>. QED
  BY <1>5, <1>6 DEF Filled

\* The archive that a restore reads.
LEMMA InRestore ==
  ASSUME IStore, NEW p \in Procs, procs[p].at = "extract"
  PROVE  /\ procs[p] \in Command /\ procs[p].req.op = "restore"
         /\ procs[p].next \in Nat \ {0}
         /\ archives[procs[p].req.archive] # None
         /\ archives[procs[p].req.archive] \in Archive
         /\ InWalkOrder(archives[procs[p].req.archive].items)
         /\ Len(archives[procs[p].req.archive].items) \in Nat
         /\ \A i \in 1..Len(archives[procs[p].req.archive].items) :
              /\ archives[procs[p].req.archive].items[i].name \in Files
              /\ archives[procs[p].req.archive].items[i].entry \in Entry
<1> DEFINE a == procs[p].req.archive
<1>1. procs[p] \in Command /\ Stage(procs[p]) /\ Restored(procs[p])
  BY InDir DEF IStore, IType
<1>2. procs[p].next \in Nat \ {0}
  BY <1>1 DEF Command
<1>3. procs[p].req.op = "restore" /\ a \in Archives
  BY <1>1, ArchiveOf DEF Stage
<1>4. archives[a] # None
  BY <1>1, <1>3 DEF Restored
<1>5. archives[a] \in Archive /\ InWalkOrder(archives[a].items)
  BY <1>3, <1>4 DEF IStore, IType, TypeOK, WalksInOrder
<1> HIDE DEF a
<1>6. Len(archives[a].items) \in Nat /\ \A i \in 1..Len(archives[a].items) :
        archives[a].items[i].name \in Files /\ archives[a].items[i].entry \in Entry
  BY <1>5, Archived
<1>. QED
  BY <1>1, <1>2, <1>3, <1>4, <1>5, <1>6 DEF a

\* An item is refused, is in somebody's way, or is made.
LEMMA ExtractKeeps ==
  ASSUME IStore, NEW p \in Procs, Extract(p)
  PROVE  Kept(p)
<1> DEFINE c     == procs[p]
           a     == c.req.archive
           items == archives[a].items
           n     == c.next
           f     == items[n].name
           e     == items[n].entry
           here  == dirs[c.path]
           fs    == Makes(here.files, f, e)
           d     == [here EXCEPT !.exists = TRUE, !.files = fs]
           new   == [c EXCEPT !.next = n + 1]
<1>0. /\ c.at = "extract" /\ n <= Len(items) /\ UNCHANGED <<archives, edits>>
      /\ \/ UNCHANGED dirs /\ (Goes(p, "refused") \/ Goes(p, "failed"))
         \/ /\ ~InTheWay(here.files, f, e)
            /\ dirs' = [dirs EXCEPT ![c.path].exists = TRUE,
                                    ![c.path].files  = Makes(@, f, e)]
            /\ Becomes(p, new)
  BY DEF Extract, Here
<1>1. /\ c \in Command /\ c.req.op = "restore" /\ n \in Nat \ {0} /\ archives[a] # None
      /\ InWalkOrder(items) /\ Len(items) \in Nat
      /\ \A i \in 1..Len(items) : items[i].name \in Files /\ items[i].entry \in Entry
  BY <1>0, InRestore
<1>2. /\ c.path \in Paths /\ c.path # None /\ Stage(c) /\ Restored(c)
      /\ edits \in 0..MaxEdits /\ here \in Dir
      /\ here.meta \in WorkspaceNames \cup {None, Torn}
      /\ here.files \in [Files -> Entry \cup {None}] /\ Rooted(here.files)
  BY <1>0, InDir
<1>3. CASE UNCHANGED dirs /\ (Goes(p, "refused") \/ Goes(p, "failed"))
  BY <1>0, <1>3, GivesUp
<1>4. CASE /\ ~InTheWay(here.files, f, e)
           /\ dirs' = [dirs EXCEPT ![c.path].exists = TRUE,
                                   ![c.path].files  = Makes(@, f, e)]
           /\ Becomes(p, new)
  <2>1. n \in 1..Len(items) /\ n + 1 \in Nat \ {0}
        /\ n + 1 \in 1..(Len(items) + 1) /\ (n + 1) - 1 = n
    <3> HIDE DEF n, items
    <3>. QED
      BY <1>0, <1>1
  <2>2. f \in Files /\ e \in Entry
    BY <1>1, <2>1
  <2>3. /\ fs \in [Files -> Entry \cup {None}] /\ Rooted(fs)
        /\ \A g \in Files : fs[g] =
              IF g = f /\ here.files[g] \notin Directories THEN e
              ELSE IF g = Parent[f] /\ here.files[g] = None THEN "dir" ELSE here.files[g]
    <3> HIDE DEF f, e, here
    <3>. QED
      BY <1>2, <1>4, <2>2, MakesFiles
  <2>4. OnlyAt(c.path, d)
    BY <1>4 DEF OnlyAt
  <2>5. Changed(d, TRUE, here.meta, fs)
    <3> HIDE DEF here, fs
    <3>. QED
      BY <1>2, DirChange
  <2> HIDE DEF d
  <2>6. /\ TypeOK' /\ ArchivesMove(p) /\ WalksInOrder'
        /\ dirs'[c.path].meta = here.meta /\ dirs'[c.path].files = fs
    <3> DEFINE path == c.path
               m    == here.meta
    <3>1. /\ edits' \in 0..MaxEdits /\ archives' = archives /\ path \in Paths
          /\ m \in WorkspaceNames \cup {None, Torn} /\ OnlyAt(path, d) /\ Changed(d, TRUE, m, fs)
          /\ fs \in [Files -> Entry \cup {None}] /\ Rooted(fs)
      BY <1>0, <1>2, <2>3, <2>4, <2>5
    <3>2. dirs'[path].meta = m /\ dirs'[path].files = fs
          /\ TypeOK' /\ ArchivesMove(p) /\ WalksInOrder'
      <4> HIDE DEF path, m, fs
      <4>. QED
        BY <3>1, DirKept
    <3>. QED
      BY <3>2
  <2>7. /\ new \in Command /\ new.at = c.at /\ new.next = n + 1
        /\ new.req = c.req /\ new.path = c.path /\ new.alone = c.alone
    <3> HIDE DEF c, n
    <3>. QED
      BY <1>1, <2>1 DEF Command
  <2>8. /\ Others(p)
        /\ procs'[p].at = "extract" /\ procs'[p].req = c.req /\ procs'[p].path = c.path
        /\ procs'[p].next = n + 1 /\ (procs'[p].alone => c.alone)
    <3>1. Others(p) /\ Follows(p, p, new)
      <4> HIDE DEF new
      <4>. QED
        BY <1>4, <2>7, Goings DEF IStore, IType, Others
    <3> HIDE DEF new
    <3>. QED
      BY <1>0, <2>7, <3>1 DEF Follows
  <2>9. Stage(procs[p])'
    BY <1>0, <1>2, <2>8 DEF Stage, PathOf
  <2>10. Written(procs[p])' /\ Covered(procs[p])'
    BY <2>8 DEF Written, Covered
  <2>11. Restored(procs[p])'
    <3>1. c.alone => here.meta = None /\ Filled(here.files, items, n - 1)
      BY <1>0, <1>1, <1>2 DEF Restored
    <3>2. c.alone => Filled(fs, items, n)
      <4> HIDE DEF here, fs, items, n
      <4>. QED
        BY <1>1, <1>2, <2>1, <2>2, <2>3, <3>1, MakesFilled DEF f, e
    <3>3. archives'[a] = archives[a]
      BY <1>0
    <3> HIDE DEF here, fs, items, n
    <3>. QED
      BY <1>1, <2>1, <2>6, <2>8, <3>1, <3>2, <3>3 DEF Restored, items
  <2>12. \A b \in Archives : ~Writes(procs[p], b)'
    BY <2>8 DEF Writes
  <2>. QED
    BY <2>6, <2>8, <2>9, <2>10, <2>11, <2>12 DEF Kept
<1>. QED
  BY <1>0, <1>3, <1>4

\* A restore that has come to the end of a whole archive has made all of it.
LEMMA ExtractEndsKeeps ==
  ASSUME IStore, NEW p \in Procs, ExtractEnds(p)
  PROVE  Kept(p)
<1> DEFINE c     == procs[p]
           a     == c.req.archive
           items == archives[a].items
<1>0. /\ c.at = "extract" /\ c.next > Len(items) /\ UNCHANGED <<dirs, archives, edits>>
      /\ Goes(p, IF archives[a].whole THEN "truncate" ELSE "refused")
  BY DEF ExtractEnds, AtTheEnd
<1>1. /\ c.req.op = "restore" /\ c.next \in Nat \ {0} /\ archives[a] # None
      /\ Len(items) \in Nat
  BY <1>0, InRestore
<1>2. Stage(c) /\ Restored(c)
  BY <1>0, InDir
<1>3. CASE ~archives[a].whole
  BY <1>0, <1>3, GivesUp
<1>4. CASE archives[a].whole
  <2>1. /\ Others(p)
        /\ procs'[p].at = "truncate" /\ procs'[p].req = c.req /\ procs'[p].path = c.path
        /\ (procs'[p].alone => c.alone)
    BY <1>0, <1>4, Gone DEF Stages
  <2>2. Stage(procs[p])'
    BY <1>0, <1>1, <1>2, <2>1 DEF Stage, PathOf
  <2>3. Written(procs[p])' /\ Covered(procs[p])'
    BY <2>1 DEF Written, Covered
  <2>4. c.alone => /\ dirs[c.path].meta = None
                   /\ Filled(dirs[c.path].files, items, Len(items))
    <3>1. c.alone => /\ dirs[c.path].meta = None /\ c.next \in 1..(Len(items) + 1)
                     /\ Filled(dirs[c.path].files, items, c.next - 1)
      BY <1>0, <1>1, <1>2 DEF Restored
    <3>2. c.alone => c.next - 1 = Len(items)
      <4> HIDE DEF items
      <4>. QED
        BY <1>0, <1>1, <3>1
    <3>. QED
      BY <3>1, <3>2
  <2>5. Restored(procs[p])'
    BY <1>0, <1>1, <1>4, <2>1, <2>4 DEF Restored
  <2>6. \A b \in Archives : ~Writes(procs[p], b)'
    BY <2>1 DEF Writes
  <2>. QED
    BY <1>0, <2>1, <2>2, <2>3, <2>5, <2>6, QuietKinds DEF Kept
<1>. QED
  BY <1>3, <1>4

-----------------------------------------------------------------------------
(* The invariant, and what follows from it. *)

\* Nothing runs and nothing is backed up; the tree of the one workspace is a tree.
LEMMA InitStore ==
  ASSUME Init
  PROVE  IStore
<1>1. PICK tree \in Trees :
        dirs = [path \in Paths |->
                  IF path = DefaultPath[First]
                  THEN [exists |-> TRUE, meta |-> First, files |-> tree] ELSE NoDir]
  BY DEF Init
<1>2. tree \in [Files -> Entry \cup {None}] /\ Rooted(tree)
  BY TreeType
<1>3. \A p \in Procs : procs[p] = Idle
  BY DEF Init
<1>4. DirKind(NoDir)
  BY DEF DirKind, NoDir, Dir, NoFiles, Rooted
<1>5. DirKind([exists |-> TRUE, meta |-> First, files |-> tree])
  BY <1>2, StorePathType DEF DirKind, Dir
<1>6. \A path \in Paths : DirKind(dirs[path])
  BY <1>1, <1>4, <1>5
<1>7. dirs \in [Paths -> Dir]
  <2>1. \A path \in Paths : dirs[path] \in Dir
    BY <1>6 DEF DirKind
  <2>. QED
    BY <1>1, <2>1
<1>8. TypeOK
  BY <1>6, <1>7, TreeType DEF TypeOK, DirKind, Dir, Init
<1>9. Idle \in Command /\ Idle.at = "idle" /\ Idle.path = None
  BY DEF Idle, Command, Stages
<1>10. IType
  BY <1>3, <1>8, <1>9 DEF IType, Init, Stage
<1>11. WalksInOrder
  BY DEF WalksInOrder, Init
<1>12. OneWriter
  BY <1>3, <1>9 DEF OneWriter, Writes
<1>. QED
  BY <1>3, <1>9, <1>10, <1>11, <1>12 DEF IStore, Progress

\* Every step keeps it: each disturbs one command, one directory and one archive.
LEMMA NextStore ==
  ASSUME IStore, [Next]_vars
  PROVE  IStore'
<1>1. CASE Workbench
  BY <1>1, WorkbenchKeeps, KeptIsAll
<1>2. ASSUME NEW p \in Procs,
             (\E req \in Requests : Start(p, req)) \/ Step(p) \/ Interrupted(p) \/ NextCommand(p)
      PROVE  Kept(p)
  <2>1. CASE \E req \in Requests : Start(p, req)
    BY <2>1, StartKeeps
  <2>2. CASE Step(p)
    <3>1. CASE Mkdir(p)
      BY <3>1, MkdirKeeps
    <3>2. CASE TruncateMetadata(p) \/ WriteMetadata(p)
      BY <3>2, MetadataKeeps
    <3>3. CASE OpenArchive(p)
      BY <3>3, OpenKeeps
    <3>4. CASE Walk(p)
      BY <3>4, WalkKeeps
    <3>5. CASE Copy(p)
      BY <3>5, CopyKeeps
    <3>6. CASE BackupEnds(p)
      BY <3>6, BackupEndsKeeps
    <3>7. CASE Extract(p)
      BY <3>7, ExtractKeeps
    <3>8. CASE ExtractEnds(p)
      BY <3>8, ExtractEndsKeeps
    <3>9. CASE RemoveFile(p) \/ RemoveMetadata(p) \/ RemoveEnds(p)
      BY <3>9, RemoveKeeps
    <3>. QED
      BY <2>2, <3>1, <3>2, <3>3, <3>4, <3>5, <3>6, <3>7, <3>8, <3>9 DEF Step
  <2>3. CASE Interrupted(p)
    BY <2>3, GivesUp DEF Interrupted, Busy, Fails
  <2>4. CASE NextCommand(p)
    BY <2>4, NextCommandKeeps
  <2>. QED
    BY <1>2, <2>1, <2>2, <2>3, <2>4
<1>3. CASE UNCHANGED vars
  BY <1>3 DEF vars, IStore, IType, TypeOK, WalksInOrder, OneWriter, Progress, Stage, Writes,
              Written, Covered, Restored, Ahead, Items
<1>. QED
  BY <1>1, <1>2, <1>3, KeptIsAll DEF Next

\* A backup under way holds or has ahead all that nobody touched, and a restore that is
\* alone has made just the items that it read: at every step of every interleaving.
THEOREM StoreCorrect == Spec => []IStore
<1>1. Init => IStore
  BY InitStore
<1>2. IStore /\ [Next]_vars => IStore'
  BY NextStore
<1>. QED
  BY <1>1, <1>2, PTL DEF Spec

\* Every directory is a tree and nothing lies in one that is not there; every archive is a
\* list of items.
THEOREM StoreTypeCorrect == Spec => []TypeOK
<1>1. IStore => TypeOK
  BY DEF IStore, IType
<1>. QED
  BY <1>1, StoreCorrect, PTL

\* A backup that is reported holds everything that nobody touched while it ran
\* (writeTarGzip): nothing is missed by a walk that lists a directory when it comes to it.
THEOREM BackupsCover == Spec => []BackupCovers
<1>1. IStore => BackupCovers
  <2> SUFFICES ASSUME IStore, NEW p \in Procs, procs[p].at = "done",
                      procs[p].req.op = "backup", NEW f \in procs[p].stable,
                      Here(p).files[f] # None
               PROVE  [name |-> f, entry |-> Here(p).files[f]] \in Items(procs[p].req.archive)
    BY DEF BackupCovers
  <2>1. Covered(procs[p])
    BY DEF IStore, Progress
  <2>. QED
    BY <2>1 DEF Covered, Here
<1>. QED
  BY <1>1, StoreCorrect, PTL

\* A directory has the name of the workspace restored to it only when all of a whole
\* archive is there and nothing else is (Restore writes the metadata last), as long as
\* nobody else changes that directory.
THEOREM RestoresAreWhole == Spec => []RestoreIsWhole
<1>1. IStore => RestoreIsWhole
  <2> SUFFICES ASSUME IStore, NEW p \in Procs, procs[p].at # "idle",
                      procs[p].req.op = "restore", procs[p].alone,
                      Here(p).meta = procs[p].req.name
               PROVE  /\ archives[procs[p].req.archive].whole
                      /\ Items(procs[p].req.archive) =
                           {[name |-> f, entry |-> Here(p).files[f]] :
                              f \in {g \in Files : Here(p).files[g] # None}}
    BY DEF RestoreIsWhole
  <2> DEFINE a     == procs[p].req.archive
             items == archives[a].items
             fs    == Here(p).files
  <2>1. /\ Restored(procs[p]) /\ procs[p].req.name \in WorkspaceNames /\ a \in Archives
    BY InDir, ArchiveOf
  <2>2. procs[p].req.name \notin {None, Torn}
    BY <2>1, StorePathType
  <2>3. procs[p].at = "done"
    BY <2>1, <2>2 DEF Restored, Here
  <2>4. archives[a] # None /\ archives[a].whole /\ Filled(fs, items, Len(items))
    BY <2>1, <2>3 DEF Restored, Here
  <2>5. archives[a] \in Archive
    BY <2>1, <2>4 DEF IStore, IType, TypeOK
  <2>6. /\ ToSet(items) = {items[i] : i \in 1..Len(items)}
        /\ \A i \in 1..Len(items) : items[i] \in Item
    <3> HIDE DEF a
    <3>. QED
      BY <2>5, Archived
  <2>7. None \notin Entry
    BY TreeType
  <2> HIDE DEF a, items, fs
  <2>8. ASSUME NEW i \in 1..Len(items)
        PROVE  \E f \in Files : fs[f] # None /\ items[i] = [name |-> f, entry |-> fs[f]]
    <3>1. items[i] \in Item /\ fs[items[i].name] = items[i].entry
      BY <2>4, <2>6 DEF Filled
    <3>2. items[i].name \in Files /\ items[i].entry \in Entry
          /\ items[i] = [name |-> items[i].name, entry |-> items[i].entry]
      BY <3>1 DEF Item
    <3>. QED
      BY <2>7, <3>1, <3>2
  <2>9. ASSUME NEW f \in Files, fs[f] # None
        PROVE  \E i \in 1..Len(items) : items[i] = [name |-> f, entry |-> fs[f]]
    <3>1. PICK i \in 1..Len(items) : items[i].name = f
      BY <2>4, <2>9 DEF Filled
    <3>2. items[i] \in Item /\ fs[f] = items[i].entry
      BY <2>4, <2>6, <3>1 DEF Filled
    <3>3. items[i] = [name |-> items[i].name, entry |-> items[i].entry]
      BY <3>2 DEF Item
    <3>. QED
      BY <3>1, <3>2, <3>3
  <2>10. ToSet(items) = {[name |-> f, entry |-> fs[f]] : f \in {g \in Files : fs[g] # None}}
    <3> DEFINE shown == {[name |-> f, entry |-> fs[f]] : f \in {g \in Files : fs[g] # None}}
    <3>1. ASSUME NEW u \in ToSet(items) PROVE u \in shown
      <4>1. PICK i \in 1..Len(items) : u = items[i]
        BY <2>6
      <4>. QED
        BY <2>8, <4>1
    <3>2. ASSUME NEW u \in shown PROVE u \in ToSet(items)
      <4>1. PICK f \in {g \in Files : fs[g] # None} : u = [name |-> f, entry |-> fs[f]]
        OBVIOUS
      <4>. QED
        BY <2>6, <2>9, <4>1
    <3>. QED
      BY <3>1, <3>2
  <2>. QED
    BY <2>4, <2>10 DEF a, items, fs, Items
<1>. QED
  BY <1>1, StoreCorrect, PTL

=============================================================================
