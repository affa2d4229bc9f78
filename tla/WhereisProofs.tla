---------------------------- MODULE WhereisProofs ----------------------------
(***************************************************************************)
(* What whereis finds, for every size of the volume, all names and however *)
(* files and folders have come and gone before: every match, each once,    *)
(* and under its own path where nothing has been found above it.           *)
(***************************************************************************)
EXTENDS Whereis, Fat32RootProofs

(***************************************************************************)
(* The volume as a search needs it: no directory has two entries of one    *)
(* key, a directory's own entry has the key of the entry that leads to it, *)
(* and, where no content looks like one, no file's data is taken for an    *)
(* entry of a directory.                                                   *)
(***************************************************************************)
Distinct(dk, ds) ==
  \A d \in ds : \A r, s \in Slots :
    /\ dk[d][r].name # NoName
    /\ dk[d][r].name = dk[d][s].name /\ dk[d][r].ext = dk[d][s].ext
    => r = s

Named(dk, ds) ==
  \A d \in ds, s \in ChildSlots :
    dk[d][s].attr = "dir" =>
      /\ dk[dk[d][s].cluster][SelfSlot].name = dk[d][s].name
      /\ dk[dk[d][s].cluster][SelfSlot].ext = dk[d][s].ext

Plain(dk, ds) ==
  NoFolderInData =>
    \A d \in ds, s \in ChildSlots :
      dk[d][s].attr = "file" => \A r \in Slots : dk[dk[d][s].cluster][r].attr # "dir"

Charted ==
  /\ Orderly
  /\ Blanks(disk, dirs) /\ Distinct(disk, dirs) /\ Named(disk, dirs) /\ Plain(disk, dirs)

(***************************************************************************)
(* The search.  H are the entries that were gone through, which lead to    *)
(* the directories that were opened.  An opened directory without a frame  *)
(* is finished.                                                            *)
(***************************************************************************)
Component == (Names \cup {RootName, OtherName, NoName}) \X Exts

FrameSet ==
  [ dir : Clusters, table : Table, slot : 1 .. SlotCount,
    path : Seq(Component), savedPath : Seq(Component), zeros : BOOLEAN ]

\* The frames are of directories, each in the one before, none twice.
Stacked ==
  /\ frames \in Seq(FrameSet)
  /\ frames # <<>> => frames[1].dir = RootCluster
  /\ \A i \in 1 .. Len(frames) :
       frames[i].dir \in dirs /\ frames[i].table = disk[frames[i].dir]
  /\ \A i \in 1 .. Len(frames) - 1 :
       LET f == frames[i]
       IN  /\ f.slot \in ChildSlots /\ disk[f.dir][f.slot].attr = "dir"
           /\ disk[f.dir][f.slot].cluster = frames[i + 1].dir
  /\ \A i, j \in 1 .. Len(frames) : frames[i].dir = frames[j].dir => i = j

Opened(H) ==
  {RootCluster} \cup {disk[e[1]][e[2]].cluster : e \in {e \in H : disk[e[1]][e[2]].attr = "dir"}}

\* The slots of the i-th frame that were gone through are those before this.
Bound(i) == IF i = Len(frames) THEN frames[i].slot ELSE frames[i].slot + 1

Walked(H) ==
  /\ H \subseteq Opened(H) \X ChildSlots
  /\ \A d \in Opened(H) :
       (\A i \in 1 .. Len(frames) : frames[i].dir # d) => \A s \in ChildSlots : <<d, s>> \in H
  /\ \A i \in 1 .. Len(frames) :
       /\ frames[i].dir \in Opened(H)
       /\ \A s \in ChildSlots : <<frames[i].dir, s>> \in H <=> s < Bound(i)

\* The lines collected are those of the matches gone through.
LineSet == [path : Seq(Component), entry : Clusters \X Slots, above : SUBSET Clusters]
Reported == {found[i].entry : i \in 1 .. Len(found)}

Noted(H) ==
  /\ found \in Seq(LineSet)
  /\ Reported = {e \in H : Matches(disk[e[1]][e[2]])}
  /\ IsFiniteSet(Reported) /\ Cardinality(Reported) = Len(found)

Searched ==
  /\ at \in {"prompt", "search", "done"}
  /\ frames = <<>> <=> at # "search"
  /\ at # "prompt" =>
       /\ sought \in Sought
       /\ \E H \in SUBSET (dirs \X ChildSlots) : Stacked /\ Walked(H) /\ Noted(H)

(***************************************************************************)
(* The paths.                                                              *)
(***************************************************************************)
\* Nothing was found in the directories of the first i frames.
Bare(i) ==
  \A j \in 1 .. Len(found), k \in 1 .. Len(frames) :
    k <= i => found[j].entry[1] # frames[k].dir

RightLine(j) ==
  (\A i \in 1 .. j - 1 : found[i].entry[1] \notin found[j].above) => Right(found[j])

Retraced ==
  at # "prompt" /\ clean =>
    /\ \A i \in 1 .. Len(frames) :
         /\ frames[i].zeros
         /\ Bare(i - 1) => Trail(disk, dirs, RootCluster, frames[i].savedPath, frames[i].dir)
         /\ Bare(i) => frames[i].path = frames[i].savedPath
    /\ \A j \in 1 .. Len(found) : RightLine(j)

LEMMA EntryFields ==
  /\ \A name, ext, c : LET e == DirEntry(name, ext, c)
                       IN  e.name = name /\ e.ext = ext /\ e.attr = "dir" /\ e.cluster = c
  /\ \A name, ext, c, n : LET e == FileEntry(name, ext, c, n)
                          IN  e.name = name /\ e.ext = ext /\ e.attr = "file" /\ e.cluster = c
BY DEF DirEntry, FileEntry, BlankEntry

LEMMA InitCharted == Init => Charted
<1>. SUFFICES ASSUME Init PROVE Charted
  OBVIOUS
<1>1. RootCluster \in Clusters
  BY ClusterMapAssumption DEF Clusters, RootCluster, FirstCluster
<1>2. dirs = {RootCluster} /\ disk[RootCluster] = RootTable
  BY <1>1 DEF Init
<1>3. RootTable[SelfSlot].name = RootName /\ \A s \in ChildSlots : RootTable[s] = BlankEntry
  BY SlotNumbers DEF RootTable, BlankTable, DirEntry, BlankEntry
<1>4. \A s \in ChildSlots : /\ disk[RootCluster][s].attr = "none"
                            /\ disk[RootCluster][s].cluster = 0
                            /\ disk[RootCluster][s].name = NoName
  BY <1>2, <1>3, BlankFields
<1>5. Blanks(disk, dirs) /\ Named(disk, dirs) /\ Plain(disk, dirs)
  BY <1>2, <1>4 DEF Blanks, Named, Plain
<1>6. Distinct(disk, dirs)
  BY <1>2, <1>4 DEF Distinct, ChildSlots
<1>. QED BY <1>5, <1>6, InitOrderly DEF Charted

\* A call that changes no table, or none at all.
LEMMA ChartedKept ==
  ASSUME Charted, UNCHANGED <<fat, disk, dirs>>, ret' \in -1 .. 3, overrun' \in BOOLEAN
  PROVE  Charted'
<1>1. Sound'
  BY DEF Charted, Orderly, Sound, TypeOK, DirsAreEnds, NoDangling, UniqueOwner, Entries, Target
<1>2. FilesWhole'
  BY UnchangedWhole DEF Charted, Orderly
<1>. QED BY <1>1, <1>2 DEF Charted, Orderly

\* Where the entries of directories lead.
LEMMA ChartedTargets ==
  ASSUME Charted, NEW d \in dirs, NEW s \in ChildSlots
  PROVE  /\ disk[d][s].attr \in {"none", "file", "dir"}
         /\ disk[d][s].attr # "none" => disk[d][s].name # NoName
         /\ disk[d][s].attr = "dir" => disk[d][s].cluster \in dirs
         /\ disk[d][s].attr = "file" =>
              /\ disk[d][s].cluster \in Clusters \ dirs
              /\ fat[disk[d][s].cluster] # EMPTY
<1>1. /\ disk[d][s].attr \in {"none", "file", "dir"}
      /\ disk[d][s].attr # "none" => disk[d][s].name # NoName
  BY DEF Charted, Orderly, Tables
<1>2. ASSUME disk[d][s].attr = "dir" PROVE disk[d][s].cluster \in dirs
  BY <1>2, BelowIs DEF Charted, Orderly, Tree, Closed
<1>3. ASSUME disk[d][s].attr = "file"
      PROVE  disk[d][s].cluster \in Clusters \ dirs /\ fat[disk[d][s].cluster] # EMPTY
  <2>0. PICK e : e = <<d, s>>
    OBVIOUS
  <2>1. e = <<d, s>> /\ e[1] = d /\ e[2] = s
    BY <2>0
  <2>2. e \in Entries /\ Target(e) = disk[d][s].cluster
    BY <1>1, <1>3, <2>1 DEF Entries, Target
  <2>3. Target(e) \in DataClusters /\ fat[Target(e)] # EMPTY
    BY <2>2 DEF Charted, Orderly, Sound, NoDangling
  <2>4. disk[d][s].cluster \notin dirs
    BY <1>3, <2>1, <2>2, FileCluster DEF Charted, Orderly
  <2>. QED BY <2>2, <2>3, <2>4, ClusterMapAssumption
       DEF DataClusters, Clusters, FirstCluster
<1>. QED BY <1>1, <1>2, <1>3

\* A new entry, whose key was not in the table, keeps them apart.
LEMMA StillDistinct ==
  ASSUME NEW dk, NEW dk2, NEW ds, Distinct(dk, ds), NEW p \in ds, NEW s \in Slots,
         KeyedSlots(dk[p], dk2[p][s].name, dk2[p][s].ext) = {},
         \A d \in ds, r \in Slots :
           ~ (d = p /\ r = s) => dk2[d][r].name = dk[d][r].name /\ dk2[d][r].ext = dk[d][r].ext
  PROVE  Distinct(dk2, ds)
<1>. SUFFICES ASSUME NEW d \in ds, NEW r \in Slots, NEW x \in Slots,
                     dk2[d][r].name # NoName,
                     dk2[d][r].name = dk2[d][x].name /\ dk2[d][r].ext = dk2[d][x].ext
              PROVE  r = x
  BY DEF Distinct
<1>1. CASE d = p /\ r = s
  BY <1>1 DEF KeyedSlots
<1>2. CASE d = p /\ x = s
  BY <1>2 DEF KeyedSlots
<1>3. CASE ~ (d = p /\ r = s) /\ ~ (d = p /\ x = s)
  BY <1>3 DEF Distinct
<1>. QED BY <1>1, <1>2, <1>3

LEMMA FolderCharted ==
  ASSUME Charted, Orderly', NEW p \in dirs, NEW name \in Names, WriteFolder(p, name, NoExt)
  PROVE  Charted'
<1>0. name \in Callable /\ NoExt \in Exts
  BY NameAssumption DEF Callable
<1>1. PICK ch \in Chains(fat, 1), s \in ChildSlots :
        /\ ch[1] \in DataClusters /\ ch[1] \notin dirs /\ fat[ch[1]] = EMPTY
        /\ dirs' = dirs \cup {ch[1]}
        /\ disk[p][s].name = NoName /\ name # NoName
        /\ disk'[ch[1]] = NewTable(name, ch[1])
        /\ disk'[p][s] = DirEntry(name, NoExt, ch[1])
        /\ \A r \in Slots : r # s => disk'[p][r] = disk[p][r]
        /\ \A c \in Clusters : c # p /\ c # ch[1] => disk'[c] = disk[c]
  BY <1>0, FolderTables DEF Charted, Orderly
<1>2. PICK n, dk : n = ch[1] /\ dk = disk'
  OBVIOUS
<1>3. /\ dk[n][SelfSlot] = DirEntry(name, NoExt, n)
      /\ \A r \in ChildSlots : dk[n][r] = BlankEntry
  BY <1>1, <1>2, SlotNumbers DEF NewTable, BlankTable
<1>4. dirs \subseteq Clusters /\ n \notin dirs /\ fat[n] = EMPTY /\ dirs' = dirs \cup {n}
  BY <1>1, <1>2 DEF Charted, Orderly, Sound, TypeOK
<1>5. \A d \in dirs, r \in Slots : ~ (d = p /\ r = s) => dk[d][r] = disk[d][r]
  BY <1>1, <1>2, <1>4
<1>6. /\ dk[p][s].name = name /\ dk[p][s].ext = NoExt
      /\ dk[p][s].attr = "dir" /\ dk[p][s].cluster = n
      /\ dk[n][SelfSlot].name = name /\ dk[n][SelfSlot].ext = NoExt
  BY <1>1, <1>2, <1>3, EntryFields
<1>7. \A r \in ChildSlots : /\ dk[n][r].attr = "none" /\ dk[n][r].name = NoName
                            /\ dk[n][r].cluster = 0
  BY <1>3, BlankFields
<1>8. KeyedSlots(disk[p], name, NoExt) = {}
  BY SearchFails DEF WriteFolder, WriteCode, Exists
<1>9. Distinct(dk, dirs \cup {n})
  <2>1. Distinct(dk, dirs)
    BY <1>5, <1>6, <1>8, SlotNumbers, StillDistinct DEF Charted
  <2>2. Distinct(dk, {n})
    BY <1>7 DEF Distinct, ChildSlots
  <2>. QED BY <2>1, <2>2 DEF Distinct
<1>10. Blanks(dk, dirs \cup {n})
  BY <1>1, <1>5, <1>6, <1>7, SlotNumbers DEF Charted, Blanks
<1>11. ASSUME NEW d \in dirs \cup {n}, NEW r \in ChildSlots, dk[d][r].attr = "dir"
       PROVE  /\ dk[dk[d][r].cluster][SelfSlot].name = dk[d][r].name
              /\ dk[dk[d][r].cluster][SelfSlot].ext = dk[d][r].ext
  <2>1. d \in dirs
    BY <1>7, <1>11
  <2>2. CASE d = p /\ r = s
    BY <1>6, <2>2
  <2>3. CASE ~ (d = p /\ r = s)
    <3>1. dk[d][r] = disk[d][r] /\ disk[d][r].attr = "dir"
      BY <1>5, <1>11, <2>1, <2>3, SlotNumbers
    <3>2. disk[d][r].cluster \in dirs
      BY <2>1, <3>1, ChartedTargets
    <3>3. dk[disk[d][r].cluster][SelfSlot] = disk[disk[d][r].cluster][SelfSlot]
      BY <1>5, <3>2, SlotNumbers
    <3>. QED BY <2>1, <3>1, <3>3 DEF Charted, Named
  <2>. QED BY <2>2, <2>3
<1>12. ASSUME NoFolderInData,
              NEW d \in dirs \cup {n}, NEW r \in ChildSlots, dk[d][r].attr = "file",
              NEW x \in Slots
       PROVE  dk[dk[d][r].cluster][x].attr # "dir"
  <2>1. d \in dirs /\ ~ (d = p /\ r = s)
    BY <1>6, <1>7, <1>12
  <2>2. dk[d][r] = disk[d][r]
    BY <1>5, <2>1, SlotNumbers
  <2>3. disk[d][r].cluster \in Clusters \ dirs /\ fat[disk[d][r].cluster] # EMPTY
    BY <1>12, <2>1, <2>2, ChartedTargets
  <2>4. dk[disk[d][r].cluster] = disk[disk[d][r].cluster]
    BY <1>1, <1>2, <1>4, <2>3
  <2>. QED BY <1>12, <2>1, <2>2, <2>4 DEF Charted, Plain
<1>13. Named(dk, dirs \cup {n}) /\ Plain(dk, dirs \cup {n})
  BY <1>11, <1>12 DEF Named, Plain
<1>. QED BY <1>2, <1>4, <1>9, <1>10, <1>13 DEF Charted

LEMMA FileCharted ==
  ASSUME Charted, Orderly', NEW p \in dirs, NEW name \in Names, NEW ext \in Exts,
         NEW size \in FileSizes, NEW d \in Datas, WriteFile(p, name, ext, size, d)
  PROVE  Charted'
<1>0. name \in Callable
  BY DEF Callable
<1>1. size \in Nat \ {0} /\ Needed(size) = size + 1 /\ UNCHANGED dirs
  BY <1>0, FileTables DEF Charted, Orderly
<1>2. PICK ch \in Chains(fat, Needed(size)), s \in ChildSlots :
        /\ disk[p][s].name = NoName /\ name # NoName
        /\ \A r \in Slots : r # s => Same(disk'[p][r], disk[p][r])
        /\ disk'[p][s] = FileEntry(name, ext, ch[1], size)
        /\ \A i \in 1 .. size : disk'[ch[i]] = DataTable(d, i)
        /\ \A c \in Clusters :
             c # p /\ (\A i \in 1 .. size : c # ch[i]) => disk'[c] = disk[c]
  BY <1>0, FileTables DEF Charted, Orderly
<1>3. PICK n, dk : n = ch[1] /\ dk = disk'
  OBVIOUS
<1>4. \A i \in 1 .. size : fat[ch[i]] = EMPTY
  <2>1. \A i \in 1 .. size : i \in 1 .. Needed(size) /\ Needed(size) \in Nat \ {0}
    BY <1>1
  <2>. QED BY <2>1, ChainClusters
<1>5. \A c \in dirs : c \in Clusters /\ fat[c] # EMPTY
  BY DEF Charted, Orderly, Sound, TypeOK, DirsAreEnds, EMPTY, EOF
\* What is in use stays as it is, but for the entry and a mark.
<1>6. \A c \in Clusters : c # p /\ fat[c] # EMPTY => dk[c] = disk[c]
  BY <1>2, <1>3, <1>4
<1>7. ASSUME NEW c \in dirs, NEW r \in Slots, ~ (c = p /\ r = s)
      PROVE  Same(dk[c][r], disk[c][r])
  <2>1. CASE c = p
    BY <1>2, <1>3, <1>7, <2>1
  <2>2. CASE c # p
    BY <1>5, <1>6, <2>2 DEF Same
  <2>. QED BY <2>1, <2>2
<1>8. /\ dk[p][s].name = name /\ dk[p][s].ext = ext
      /\ dk[p][s].attr = "file" /\ dk[p][s].cluster = n
  BY <1>2, <1>3, EntryFields
<1>9. ASSUME NoFolderInData
      PROVE  \A x \in Slots : dk[n][x].attr # "dir"
  <2>1. 1 \in 1 .. size /\ 1 \in 1 .. MaxFileClusters
    BY <1>1, SizeAssumption DEF FileSizes
  <2>2. dk[n] = DataTable(d, 1)
    BY <1>2, <1>3, <2>1
  <2>3. <<d, 1>> \in Pieces /\ Reading[<<d, 1>>] \in Table
    BY <2>1, ReadingAssumption DEF Pieces
  <2>4. \A x \in Slots : DataTable(d, 1)[x].attr = Reading[<<d, 1>>][x].attr
    BY <2>3 DEF DataTable, Table, Entry
  <2>. QED BY <1>9, <2>2, <2>3, <2>4 DEF NoFolderInData
<1>10. KeyedSlots(disk[p], name, ext) = {}
  <2>1. WriteCode(p, name, ext, size) = 0
    BY DEF WriteFile
  <2>2. ~ Exists(p, name, ext)
    BY <2>1 DEF WriteCode
  <2>. QED BY <2>2, SearchFails DEF Exists
<1>11. Distinct(dk, dirs)
  <2>1. \A c \in dirs, r \in Slots :
          ~ (c = p /\ r = s) => dk[c][r].name = disk[c][r].name /\ dk[c][r].ext = disk[c][r].ext
    BY <1>7 DEF Same
  <2>2. Distinct(disk, dirs) /\ KeyedSlots(disk[p], dk[p][s].name, dk[p][s].ext) = {}
    BY <1>8, <1>10 DEF Charted
  <2>3. p \in dirs /\ s \in Slots
    BY <1>2, SlotNumbers
  <2>. QED BY <2>1, <2>2, <2>3, StillDistinct
<1>12. Blanks(dk, dirs)
  BY <1>2, <1>7, <1>8, SlotNumbers DEF Charted, Blanks, Same
<1>13. ASSUME NEW c \in dirs, NEW r \in ChildSlots, dk[c][r].attr = "dir"
       PROVE  /\ dk[dk[c][r].cluster][SelfSlot].name = dk[c][r].name
              /\ dk[dk[c][r].cluster][SelfSlot].ext = dk[c][r].ext
  <2>1. Same(dk[c][r], disk[c][r])
    BY <1>7, <1>8, <1>13, SlotNumbers
  <2>2. PICK x : x = disk[c][r].cluster
    OBVIOUS
  <2>3. x \in dirs /\ dk[c][r].cluster = x /\ disk[c][r].attr = "dir"
    BY <1>13, <2>1, <2>2, ChartedTargets DEF Same
  <2>4. Same(dk[x][SelfSlot], disk[x][SelfSlot])
    BY <1>2, <1>7, <2>3, SlotNumbers
  <2>5. disk[x][SelfSlot].name = disk[c][r].name /\ disk[x][SelfSlot].ext = disk[c][r].ext
    BY <1>13, <2>2, <2>3 DEF Charted, Named
  <2>. QED BY <2>1, <2>3, <2>4, <2>5 DEF Same
<1>14. ASSUME NoFolderInData,
              NEW c \in dirs, NEW r \in ChildSlots, dk[c][r].attr = "file", NEW x \in Slots
       PROVE  dk[dk[c][r].cluster][x].attr # "dir"
  <2>1. CASE c = p /\ r = s
    BY <1>8, <1>9, <1>14, <2>1
  <2>2. CASE ~ (c = p /\ r = s)
    <3>1. Same(dk[c][r], disk[c][r])
      BY <1>7, <2>2, SlotNumbers
    <3>2. disk[c][r].cluster \in Clusters \ dirs /\ fat[disk[c][r].cluster] # EMPTY
      BY <1>14, <3>1, ChartedTargets DEF Same
    <3>3. dk[disk[c][r].cluster] = disk[disk[c][r].cluster]
      BY <1>6, <3>2
    <3>. QED BY <1>14, <3>1, <3>3 DEF Charted, Plain, Same
  <2>. QED BY <2>1, <2>2
<1>15. Named(dk, dirs) /\ Plain(dk, dirs)
  BY <1>13, <1>14 DEF Named, Plain
<1>. QED BY <1>1, <1>3, <1>11, <1>12, <1>15 DEF Charted

LEMMA DeleteCharted ==
  ASSUME Misuse \subseteq BenignKinds, Charted, Orderly',
         NEW p \in dirs \cap Parents, NEW name, NEW ext, DeleteEntry(p, name, ext)
  PROVE  Charted'
<1>1. PICK s \in ChildSlots :
        LET x == disk[p][s].cluster
        IN  /\ dirs' = dirs \ {x}
            /\ disk' = [disk EXCEPT ![p] = [disk[p] EXCEPT ![s] = BlankEntry]]
  BY BenignCalls, DeleteTables DEF Charted, Orderly
<1>2. PICK ds, dk : ds = dirs' /\ dk = disk'
  OBVIOUS
<1>3. /\ ds \subseteq dirs /\ dirs \subseteq Clusters
      /\ disk \in [Clusters -> Table] /\ p \in Clusters
  BY <1>1, <1>2 DEF Charted, Orderly, Sound, TypeOK
<1>4. /\ dk[p][s] = BlankEntry
      /\ \A r \in Slots : r # s => dk[p][r] = disk[p][r]
      /\ \A c \in Clusters : c # p => dk[c] = disk[c]
  BY <1>1, <1>2, <1>3, SlotNumbers DEF Table
<1>5. /\ dk[p][s].name = NoName /\ dk[p][s].attr = "none" /\ dk[p][s].cluster = 0
      /\ \A c \in dirs, r \in Slots : ~ (c = p /\ r = s) => dk[c][r] = disk[c][r]
  BY <1>3, <1>4, BlankFields
<1>6. Distinct(dk, ds)
  BY <1>3, <1>5 DEF Charted, Distinct
<1>7. Blanks(dk, ds)
  BY <1>3, <1>5, SlotNumbers DEF Charted, Blanks
<1>8. ASSUME NEW c \in ds, NEW r \in ChildSlots, dk[c][r].attr = "dir"
      PROVE  /\ dk[dk[c][r].cluster][SelfSlot].name = dk[c][r].name
             /\ dk[dk[c][r].cluster][SelfSlot].ext = dk[c][r].ext
  <2>1. dk[c][r] = disk[c][r] /\ c \in dirs
    BY <1>3, <1>5, <1>8, SlotNumbers
  <2>2. disk[c][r].cluster \in dirs
    BY <1>8, <2>1, ChartedTargets
  <2>3. dk[disk[c][r].cluster][SelfSlot] = disk[disk[c][r].cluster][SelfSlot]
    BY <1>5, <2>2, SlotNumbers
  <2>. QED BY <1>8, <2>1, <2>3 DEF Charted, Named
<1>9. ASSUME NoFolderInData,
             NEW c \in ds, NEW r \in ChildSlots, dk[c][r].attr = "file", NEW x \in Slots
      PROVE  dk[dk[c][r].cluster][x].attr # "dir"
  <2>1. dk[c][r] = disk[c][r] /\ c \in dirs
    BY <1>3, <1>5, <1>9, SlotNumbers
  <2>2. disk[c][r].cluster \in Clusters \ dirs
    BY <1>9, <2>1, ChartedTargets
  <2>3. dk[disk[c][r].cluster] = disk[disk[c][r].cluster]
    BY <1>4, <2>2
  <2>. QED BY <1>9, <2>1, <2>3 DEF Charted, Plain
<1>10. Named(dk, ds) /\ Plain(dk, ds)
  BY <1>8, <1>9 DEF Named, Plain
<1>. QED BY <1>2, <1>6, <1>7, <1>10 DEF Charted

LEMMA ChangeCharted ==
  ASSUME Misuse \subseteq CarefulKinds, Charted, Change
  PROVE  Charted'
<1>1. Misuse \subseteq BenignKinds
  BY DEF CarefulKinds
<1>2. dirs \subseteq Parents
  BY OrderlyVolume, VolumeDirs, ClusterMapAssumption
  DEF Charted, DataClusters, FirstCluster, RootCluster, Parents
<1>3. PICK p \in dirs, name \in Names :
        \/ WriteFolder(p, name, NoExt)
        \/ \E ext \in Exts, size \in FileSizes, d \in Datas : WriteFile(p, name, ext, size, d)
        \/ \E ext \in Exts : DeleteEntry(p, name, ext)
  BY DEF Change
<1>4. p \in Parents /\ name \in Callable /\ NoExt \in Exts
  BY <1>2, NameAssumption DEF Callable
<1>5. Next
  BY <1>3, <1>4 DEF Next, Call
<1>6. Orderly'
  BY <1>5, OrderlyStep DEF Charted
<1>7. ASSUME NEW ext \in Exts, DeleteEntry(p, name, ext)
      PROVE  Charted'
  BY <1>1, <1>4, <1>6, <1>7, DeleteCharted
<1>8. ASSUME NEW ext \in Exts, NEW size \in FileSizes, NEW d \in Datas,
             WriteFile(p, name, ext, size, d)
      PROVE  Charted'
  BY <1>6, <1>8, FileCharted
<1>. QED BY <1>3, <1>6, <1>7, <1>8, FolderCharted

\* A search that the table's own entry answers stops there: it is the first.
LEMMA SelfFirst ==
  ASSUME NEW t, NEW name, NEW ext, SelfSlot \in KeyedSlots(t, name, ext)
  PROVE  dir_table_search(t, name, ext) = {SelfSlot}
<1>1. /\ KeyedSlots(t, name, ext) \subseteq Slots
      /\ \A s \in Slots : s \in Nat /\ SelfSlot <= s
  BY SlotAssumption DEF KeyedSlots, Slots, SelfSlot
<1>. QED BY <1>1 DEF dir_table_search, First, SelfSlot

\* What the driver answers when it is asked for an entry in the entry's own
\* cluster: a directory, for that is what it finds itself to be, or no.
LEMMA AskAnswers ==
  ASSUME Charted, NEW d \in dirs, NEW s \in ChildSlots, NEW e, e = disk[d][s]
  PROVE  /\ Leads(e) <=> e.attr \in {"file", "dir"}
         /\ e.attr = "dir" =>
              dir_table_search(disk[e.cluster], e.name, e.ext) = {SelfSlot}
         /\ e.attr = "dir" => disk[e.cluster][SelfSlot].attr = "dir"
         /\ e.attr = "dir" => disk[e.cluster][SelfSlot].cluster = e.cluster
         /\ NoFolderInData /\ e.attr = "file" =>
              \A r \in dir_table_search(disk[e.cluster], e.name, e.ext) :
                disk[e.cluster][r].attr # "dir"
<1>1. /\ e.attr \in {"none", "file", "dir"}
      /\ e.attr = "none" => e.cluster = 0
  BY DEF Charted, Orderly, Tables, Blanks
<1>2. Leads(e) <=> e.attr \in {"file", "dir"}
  BY <1>1 DEF Leads
<1>3. ASSUME e.attr = "dir"
      PROVE  /\ dir_table_search(disk[e.cluster], e.name, e.ext) = {SelfSlot}
             /\ disk[e.cluster][SelfSlot].attr = "dir"
             /\ disk[e.cluster][SelfSlot].cluster = e.cluster
  <2>1. e.cluster \in dirs
    BY <1>3, ChartedTargets
  <2>2. SelfSlot \in KeyedSlots(disk[e.cluster], e.name, e.ext)
    BY <1>3, SlotNumbers DEF Charted, Named, KeyedSlots
  <2>3. dir_table_search(disk[e.cluster], e.name, e.ext) = {SelfSlot}
    BY <2>2, SelfFirst
  <2>. QED BY <2>1, <2>3 DEF Charted, Orderly, Tables
<1>4. ASSUME NoFolderInData, e.attr = "file",
             NEW r \in dir_table_search(disk[e.cluster], e.name, e.ext)
      PROVE  disk[e.cluster][r].attr # "dir"
  BY <1>4 DEF Charted, Plain, dir_table_search, First, KeyedSlots
<1>. QED BY <1>2, <1>3, <1>4

(***************************************************************************)
(* The stack of frames.                                                    *)
(***************************************************************************)
LEMMA ButLast ==
  ASSUME NEW S, NEW q \in Seq(S), NEW n \in Nat \ {0}, n = Len(q),
         NEW b, b = SubSeq(q, 1, n - 1)
  PROVE  b \in Seq(S) /\ Len(b) = n - 1 /\ \A i \in 1 .. n - 1 : b[i] = q[i]
<1>1. \A i \in 1 .. n - 1 : q[i] \in S /\ 1 + i - 1 = i
  BY ElementOfSeq
<1>. QED BY <1>1, SubSeqProperties

\* A sequence with its last element replaced by one, or by two.
LEMMA LastReplaced ==
  ASSUME NEW S, NEW q \in Seq(S), NEW n \in Nat \ {0}, n = Len(q), NEW x \in S,
         NEW r, r = SubSeq(q, 1, n - 1) \o <<x>>
  PROVE  r \in Seq(S) /\ Len(r) = n /\ r[n] = x /\ \A i \in 1 .. n - 1 : r[i] = q[i]
<1>1. PICK b : b = SubSeq(q, 1, n - 1)
  OBVIOUS
<1>2. b \in Seq(S) /\ Len(b) = n - 1 /\ \A i \in 1 .. n - 1 : b[i] = q[i]
  BY <1>1, ButLast
<1>3. <<x>> \in Seq(S) /\ Len(<<x>>) = 1 /\ <<x>>[1] = x
  OBVIOUS
<1>. QED BY <1>1, <1>2, <1>3, ConcatProperties

LEMMA LastFollowed ==
  ASSUME NEW S, NEW q \in Seq(S), NEW n \in Nat \ {0}, n = Len(q), NEW x \in S, NEW y \in S,
         NEW b, b = SubSeq(q, 1, n - 1), NEW z, z = <<x, y>>, NEW r, r = b \o z
  PROVE  /\ r \in Seq(S) /\ Len(r) = n + 1 /\ r[n] = x /\ r[Len(r)] = y
         /\ \A i \in 1 .. n - 1 : r[i] = q[i]
<1>1. b \in Seq(S) /\ Len(b) = n - 1 /\ \A i \in 1 .. n - 1 : b[i] = q[i]
  BY ButLast
<1>2. z \in Seq(S) /\ Len(z) = 2 /\ z[1] = x /\ z[2] = y
  OBVIOUS
<1>3. /\ r \in Seq(S) /\ Len(r) = n + 1
      /\ \A i \in 1 .. n + 1 : r[i] = IF i <= n - 1 THEN b[i] ELSE z[i - (n - 1)]
  BY <1>1, <1>2, ConcatProperties
<1>4. r[n] = z[1]
  <2>1. n \in 1 .. n + 1 /\ ~ (n <= n - 1) /\ n - (n - 1) = 1
    OBVIOUS
  <2>. QED BY <1>3, <2>1
<1>5. r[n + 1] = z[2]
  <2>1. n + 1 \in 1 .. n + 1 /\ ~ (n + 1 <= n - 1) /\ (n + 1) - (n - 1) = 2
    OBVIOUS
  <2>. QED BY <1>3, <2>1
<1>6. \A i \in 1 .. n - 1 : i \in 1 .. n + 1 /\ i <= n - 1
  OBVIOUS
<1>. QED BY <1>1, <1>2, <1>3, <1>4, <1>5, <1>6

\* The call in progress.
LEMMA TopIs ==
  ASSUME Charted, Searched, at = "search"
  PROVE  /\ frames \in Seq(FrameSet) /\ Len(frames) \in Nat \ {0}
         /\ Top = frames[Len(frames)] /\ Top \in FrameSet
         /\ Top.dir \in dirs /\ Top.table = disk[Top.dir]
         /\ Top.slot \in Slots =>
              /\ Top.slot \in ChildSlots /\ Top.slot + 1 \in 1 .. SlotCount
              /\ Here = disk[Top.dir][Top.slot]
              /\ KeyOf(Here) \in Component /\ PathHere \in Seq(Component)
<1>1. frames \in Seq(FrameSet) /\ Stacked /\ frames # <<>>
  BY DEF Searched, Stacked
<1>2. Len(frames) \in Nat \ {0}
  BY <1>1, EmptySeq, LenProperties
<1>3. /\ Top = frames[Len(frames)] /\ Top \in FrameSet
      /\ Top.dir \in dirs /\ Top.table = disk[Top.dir]
  BY <1>1, <1>2, ElementOfSeq DEF Top, Stacked
<1>4. ASSUME Top.slot \in Slots
      PROVE  /\ Top.slot \in ChildSlots /\ Top.slot + 1 \in 1 .. SlotCount
             /\ Here = disk[Top.dir][Top.slot]
             /\ KeyOf(Here) \in Component /\ PathHere \in Seq(Component)
  <2>1. Top.slot \in 1 .. SlotCount /\ Top.path \in Seq(Component)
    BY <1>3 DEF FrameSet
  <2>2. Top.slot \in ChildSlots /\ Top.slot + 1 \in 1 .. SlotCount
    BY <1>4, <2>1, SlotAssumption DEF Slots, ChildSlots, SelfSlot
  <2>3. Here = disk[Top.dir][Top.slot]
    BY <1>3 DEF Here
  <2>4. Here \in Entry
    BY <1>3, <1>4, <2>3 DEF Charted, Orderly, Sound, TypeOK, Table
  <2>5. KeyOf(Here) \in Component
    BY <2>4 DEF Entry, KeyOf, Component
  <2>6. NoKey \in Component
    BY NameAssumption DEF NoKey, Component
  <2>7. PathHere \in Seq(Component)
    BY <2>1, <2>5, <2>6, AppendProperties DEF PathHere
  <2>. QED BY <2>2, <2>3, <2>5, <2>7
<1>. QED BY <1>1, <1>2, <1>3, <1>4

\* What is added to the lines found, when an entry is gone through.
LEMMA ReportNoted ==
  ASSUME Charted, Searched, at = "search", Top.slot \in Slots, Report,
         UNCHANGED <<disk, sought>>,
         NEW H, Noted(H), NEW e, e = <<Top.dir, Top.slot>>, e \notin H
  PROVE  Noted(H \cup {e})'
<1>1. /\ frames \in Seq(FrameSet) /\ Top.dir \in Clusters /\ Top.slot \in Slots
      /\ Here = disk[Top.dir][Top.slot] /\ PathHere \in Seq(Component)
  BY TopIs DEF Charted, Orderly, Sound, TypeOK
<1>2. PICK m \in Nat : m = Len(found)
  BY LenProperties DEF Noted
<1>3. e[1] = Top.dir /\ e[2] = Top.slot
  OBVIOUS
<1>0. \A x : Matches(disk[x[1]][x[2]]) <=> Matches(disk[x[1]][x[2]])'
  BY DEF Matches
<1>4. CASE ~ Matches(Here)
  <2>1. found' = found /\ ~ Matches(disk[e[1]][e[2]])
    BY <1>1, <1>3, <1>4 DEF Report
  <2>2. Reported' = Reported
    BY <2>1 DEF Reported
  <2>3. Reported = {x \in H \cup {e} : Matches(disk[x[1]][x[2]])}
    BY <2>1 DEF Noted
  <2>. QED BY <1>0, <2>1, <2>2, <2>3 DEF Noted
<1>5. CASE Matches(Here)
  <2>1. PICK l : l = Line
    OBVIOUS
  <2>2. l \in LineSet /\ l.entry = e
    <3>1. ASSUME NEW i \in DOMAIN frames
          PROVE  frames[i].dir \in Clusters
      <4>1. DOMAIN frames = 1 .. Len(frames)
        BY <1>1, LenProperties
      <4>2. frames[i] \in FrameSet
        BY <1>1, <4>1, ElementOfSeq
      <4>. QED BY <4>2 DEF FrameSet
    <3>. QED BY <1>1, <2>1, <3>1 DEF Line, LineSet
  <2>3. found' = Append(found, l)
    BY <1>5, <2>1 DEF Report
  <2>4. /\ found' \in Seq(LineSet) /\ Len(found') = m + 1 /\ found'[m + 1] = l
        /\ \A i \in 1 .. m : found'[i] = found[i]
    BY <1>2, <2>2, <2>3, AppendProperties DEF Noted
  <2>5. Reported' = Reported \cup {e}
    <3>1. \A i \in 1 .. m + 1 : i = m + 1 \/ i \in 1 .. m
      BY <1>2
    <3>2. m + 1 \in 1 .. m + 1 /\ \A i \in 1 .. m : i \in 1 .. m + 1
      BY <1>2
    <3>. QED BY <1>2, <2>2, <2>4, <3>1, <3>2 DEF Reported
  <2>6. Reported' = {x \in H \cup {e} : Matches(disk[x[1]][x[2]])}
    BY <1>1, <1>3, <1>5, <2>5 DEF Noted
  <2>7. e \notin Reported
    BY DEF Noted
  <2>8. IsFiniteSet(Reported \cup {e}) /\ Cardinality(Reported \cup {e}) = m + 1
    BY <1>2, <2>7, FS_AddElement DEF Noted
  <2>9. IsFiniteSet(Reported') /\ Cardinality(Reported') = Len(found')
    BY <2>4, <2>5, <2>8
  <2>. QED BY <1>0, <2>4, <2>6, <2>9 DEF Noted
<1>. QED BY <1>4, <1>5

\* An entry that leads to no directory is gone through, and the call goes on.
LEMMA PassedSearched ==
  ASSUME Charted, Searched, at = "search", Top.slot \in Slots, Report,
         UNCHANGED <<disk, dirs, at, sought>>,
         Here.attr # "dir", frames' = Advance([Top EXCEPT !.path = PathHere])
  PROVE  Searched'
<1>1. PICK n \in Nat \ {0}, top \in FrameSet, s \in ChildSlots :
        n = Len(frames) /\ top = Top /\ s = Top.slot
  BY TopIs
<1>2. /\ frames \in Seq(FrameSet) /\ top = frames[n] /\ top.slot = s /\ s + 1 \in 1 .. SlotCount
      /\ top.dir \in dirs /\ top.table = disk[top.dir]
      /\ disk[top.dir][s].attr # "dir" /\ PathHere \in Seq(Component)
  BY <1>1, TopIs
<1>3. PICK x : x = [[top EXCEPT !.path = PathHere] EXCEPT !.slot = @ + 1]
  OBVIOUS
<1>4. x \in FrameSet /\ x.dir = top.dir /\ x.table = top.table /\ x.slot = s + 1
  BY <1>2, <1>3 DEF FrameSet
<1>5. PICK q : q = frames'
  OBVIOUS
<1>6. q = SubSeq(frames, 1, n - 1) \o <<x>>
  BY <1>1, <1>3, <1>5 DEF Advance, Callers
<1>7. /\ q \in Seq(FrameSet) /\ Len(q) = n /\ q[n] = x
      /\ \A i \in 1 .. n - 1 : q[i] = frames[i]
  BY <1>1, <1>2, <1>4, <1>6, LastReplaced
<1>8. PICK H \in SUBSET (dirs \X ChildSlots) : Stacked /\ Walked(H) /\ Noted(H)
  BY DEF Searched
<1>9. PICK e : e = <<top.dir, s>>
  OBVIOUS
<1>10. /\ e \in dirs \X ChildSlots /\ e[1] = top.dir /\ e[2] = s
       /\ disk[e[1]][e[2]].attr # "dir"
  BY <1>2, <1>9
<1>11. n \in 1 .. n /\ \A i \in 1 .. n : i = n \/ i \in 1 .. n - 1
  BY <1>1
<1>12. \A i \in 1 .. n : q[i].dir = frames[i].dir /\ q[i].table = frames[i].table
  BY <1>2, <1>4, <1>7, <1>11
<1>13. /\ Bound(n) = s /\ s \in Nat
       /\ Bound(n)' = s + 1 /\ \A i \in 1 .. n - 1 : Bound(i)' = Bound(i)
  <2>1. \A i \in 1 .. n - 1 : i # n
    BY <1>1
  <2>2. s \in Nat
    BY SlotAssumption DEF ChildSlots, Slots
  <2>. QED BY <1>1, <1>2, <1>4, <1>5, <1>7, <2>1, <2>2 DEF Bound
<1>14. e \notin H
  <2>1. <<frames[n].dir, s>> \in H <=> s < Bound(n)
    BY <1>1, <1>8, <1>11 DEF Walked
  <2>2. ~ (s < Bound(n))
    BY <1>13
  <2>. QED BY <1>2, <1>9, <2>1, <2>2
<1>15. Opened(H \cup {e}) = Opened(H)
  BY <1>10 DEF Opened
<1>16. Stacked'
  <2>1. q # <<>> /\ q[1].dir = RootCluster
    <3>1. frames # <<>> /\ 1 \in 1 .. n
      BY <1>1, <1>2, EmptySeq
    <3>. QED BY <1>7, <1>8, <1>12, <3>1, EmptySeq DEF Stacked
  <2>2. \A i \in 1 .. n : q[i].dir \in dirs /\ q[i].table = disk[q[i].dir]
    BY <1>1, <1>8, <1>12 DEF Stacked
  <2>3. \A i \in 1 .. n - 1 :
          /\ q[i].slot \in ChildSlots /\ disk[q[i].dir][q[i].slot].attr = "dir"
          /\ disk[q[i].dir][q[i].slot].cluster = q[i + 1].dir
    <3>1. \A i \in 1 .. n - 1 : i + 1 \in 1 .. n
      BY <1>1
    <3>. QED BY <1>1, <1>7, <1>8, <1>12, <3>1 DEF Stacked
  <2>4. \A i, j \in 1 .. n : q[i].dir = q[j].dir => i = j
    BY <1>1, <1>8, <1>12 DEF Stacked
  <2>5. /\ disk' = disk /\ dirs' = dirs /\ frames' = q
        /\ Len(q) = n /\ q \in Seq(FrameSet)
    BY <1>5, <1>7
  <2>. QED BY <2>1, <2>2, <2>3, <2>4, <2>5 DEF Stacked
<1>17. Walked(H \cup {e})'
  <2>1. H \cup {e} \subseteq Opened(H) \X ChildSlots
    <3>1. top.dir \in Opened(H)
      BY <1>1, <1>2, <1>8, <1>11 DEF Walked
    <3>. QED BY <1>8, <1>9, <3>1 DEF Walked
  <2>2. ASSUME NEW d \in Opened(H), \A i \in 1 .. n : q[i].dir # d, NEW r \in ChildSlots
        PROVE  <<d, r>> \in H \cup {e}
    BY <1>1, <1>8, <1>12, <2>2 DEF Walked
  <2>3. ASSUME NEW i \in 1 .. n, NEW r \in ChildSlots
        PROVE  /\ q[i].dir \in Opened(H)
               /\ <<q[i].dir, r>> \in H \cup {e} <=> r < Bound(i)'
    <3>1. frames[i].dir \in Opened(H) /\ (<<frames[i].dir, r>> \in H <=> r < Bound(i))
      BY <1>1, <1>8 DEF Walked
    <3>2. CASE i = n
      <4>1. r < s + 1 <=> r < s \/ r = s
        BY SlotNumbers, SlotAssumption DEF Slots, ChildSlots
      <4>2. <<top.dir, r>> = e <=> r = s
        BY <1>9
      <4>. QED BY <1>2, <1>12, <1>13, <3>1, <3>2, <4>1, <4>2
    <3>3. CASE i # n
      <4>1. i \in 1 .. n - 1 /\ frames[i].dir # frames[n].dir
        BY <1>1, <1>8, <1>11, <3>3 DEF Stacked
      <4>2. <<frames[i].dir, r>> # e
        BY <1>2, <1>9, <4>1
      <4>. QED BY <1>12, <1>13, <3>1, <4>1, <4>2
    <3>. QED BY <3>2, <3>3
  <2>4. \A i \in 1 .. n : q[i].dir \in Opened(H)
    BY <1>1, <1>8, <1>12 DEF Walked
  <2>5. Opened(H \cup {e})' = Opened(H)
    BY <1>15 DEF Opened
  <2>. QED BY <1>5, <1>7, <2>1, <2>2, <2>3, <2>4, <2>5 DEF Walked
<1>18. Noted(H \cup {e})'
  BY <1>1, <1>8, <1>9, <1>14, ReportNoted
<1>19. frames' # <<>> /\ sought' \in Sought /\ at' = "search"
  BY <1>5, <1>7, EmptySeq DEF Searched
<1>20. H \cup {e} \in SUBSET (dirs' \X ChildSlots)
  BY <1>8, <1>10
<1>21. \E G \in SUBSET (dirs' \X ChildSlots) : Stacked' /\ Walked(G)' /\ Noted(G)'
  BY <1>16, <1>17, <1>18, <1>20
<1>. QED BY <1>19, <1>21 DEF Searched

\* What read_directory answers for an entry that leads somewhere.
LEMMA DescendIs ==
  ASSUME NoFolderInData, Charted, Searched, at = "search", Top.slot \in Slots, Leads(Here), Ask
  PROVE  /\ ret' = 0 <=> Here.attr = "dir"
         /\ Here.attr = "dir" =>
              /\ dir_table_search(disk[Here.cluster], Here.name, Here.ext) = {SelfSlot}
              /\ disk[Here.cluster][SelfSlot].cluster = Here.cluster
<1>1. PICK d \in dirs, s \in ChildSlots : d = Top.dir /\ s = Top.slot /\ Here = disk[d][s]
  BY TopIs
<1>2. PICK e : e = Here
  OBVIOUS
<1>3. /\ e.attr \in {"file", "dir"}
      /\ e.attr = "dir" =>
           /\ dir_table_search(disk[e.cluster], e.name, e.ext) = {SelfSlot}
           /\ disk[e.cluster][SelfSlot].attr = "dir"
           /\ disk[e.cluster][SelfSlot].cluster = e.cluster
      /\ e.attr = "file" =>
           \A r \in dir_table_search(disk[e.cluster], e.name, e.ext) :
             disk[e.cluster][r].attr # "dir"
  <2>1. e = disk[d][s] /\ Leads(e)
    BY <1>1, <1>2
  <2>. QED BY <2>1, AskAnswers
<1>4. ReadDirectory(e.cluster, e.name, e.ext)
  BY <1>2 DEF Ask
<1>5. CASE e.attr = "dir"
  BY <1>2, <1>3, <1>4, <1>5 DEF ReadDirectory, Exists
<1>6. CASE e.attr = "file"
  BY <1>2, <1>3, <1>4, <1>6 DEF ReadDirectory, Exists
<1>. QED BY <1>3, <1>5, <1>6

LEMMA DescendSearched ==
  ASSUME NoFolderInData, Charted, Searched, Descend
  PROVE  Searched'
<1>0. /\ at = "search" /\ Top.slot \in Slots /\ Leads(Here) /\ Ask /\ ret' = 0 /\ Report
      /\ UNCHANGED <<at, sought, clean, disk, dirs>>
  BY DEF Descend, Ask, ReadDirectory
<1>1. PICK n \in Nat \ {0}, top \in FrameSet, s \in ChildSlots :
        n = Len(frames) /\ top = Top /\ s = Top.slot
  BY <1>0, TopIs
<1>2. /\ frames \in Seq(FrameSet) /\ top = frames[n] /\ top.slot = s /\ s \in Nat
      /\ top.dir \in dirs /\ top.table = disk[top.dir]
      /\ Here = disk[top.dir][s] /\ PathHere \in Seq(Component) /\ KeyOf(Here) \in Component
  BY <1>0, <1>1, TopIs, SlotAssumption DEF ChildSlots, Slots
<1>3. PICK c : c = Here.cluster
  OBVIOUS
<1>4. /\ disk[top.dir][s].attr = "dir" /\ disk[top.dir][s].cluster = c
      /\ c \in dirs /\ c \in Clusters /\ disk[c] \in Table
  BY <1>0, <1>2, <1>3, DescendIs, ChartedTargets DEF Charted, Orderly, Sound, TypeOK
<1>5. PICK x, y : x = [top EXCEPT !.path = PathHere] /\ y = Frame(c, disk[c], PathOf(Here), TRUE)
  OBVIOUS
<1>6. /\ x \in FrameSet /\ x.dir = top.dir /\ x.table = top.table /\ x.slot = s
      /\ y \in FrameSet /\ y.dir = c /\ y.table = disk[c] /\ y.slot = 1
  <2>1. PathOf(Here) \in Seq(Component)
    BY <1>2, AppendProperties DEF PathOf
  <2>2. 1 \in 1 .. SlotCount
    BY SlotAssumption
  <2>. QED BY <1>2, <1>4, <1>5, <2>1, <2>2 DEF FrameSet, Frame
<1>7. PICK q : q = frames'
  OBVIOUS
<1>8. PICK b, z : b = SubSeq(frames, 1, n - 1) /\ z = <<x, y>> /\ q = b \o z
  <2>1. \A r \in dir_table_search(disk[Here.cluster], Here.name, Here.ext) :
          disk[Here.cluster][r].cluster = c
    BY <1>0, <1>3, DescendIs
  <2>. QED BY <1>1, <1>5, <1>7, <2>1 DEF Descend, Callers
<1>9. /\ q \in Seq(FrameSet) /\ Len(q) = n + 1 /\ q[n] = x /\ q[n + 1] = y
      /\ \A i \in 1 .. n - 1 : q[i] = frames[i]
  <2>1. /\ frames \in Seq(FrameSet) /\ n \in Nat \ {0} /\ n = Len(frames)
        /\ x \in FrameSet /\ y \in FrameSet
    BY <1>1, <1>2, <1>6
  <2>2. b = SubSeq(frames, 1, n - 1) /\ z = <<x, y>> /\ q = b \o z
    BY <1>8
  <2>3. q \in Seq(FrameSet) /\ Len(q) = n + 1
    BY <2>1, <2>2, LastFollowed
  <2>4. q[n] = x
    BY <2>1, <2>2, LastFollowed
  <2>5. q[Len(q)] = y
    BY <2>1, <2>2, LastFollowed
  <2>6. \A i \in 1 .. n - 1 : q[i] = frames[i]
    BY <2>1, <2>2, LastFollowed
  <2>. QED BY <2>3, <2>4, <2>5, <2>6
<1>10. PICK H \in SUBSET (dirs \X ChildSlots) : Stacked /\ Walked(H) /\ Noted(H)
  BY <1>0 DEF Searched
<1>11. PICK e : e = <<top.dir, s>>
  OBVIOUS
<1>12. /\ e \in dirs \X ChildSlots /\ e[1] = top.dir /\ e[2] = s
       /\ disk[e[1]][e[2]].attr = "dir" /\ disk[e[1]][e[2]].cluster = c
  BY <1>2, <1>4, <1>11
<1>13. /\ n \in 1 .. n /\ n + 1 \notin 1 .. n
       /\ \A i \in 1 .. n : i = n \/ i \in 1 .. n - 1
       /\ \A i \in 1 .. n + 1 : i = n + 1 \/ i \in 1 .. n
       /\ \A i \in 1 .. n : i \in 1 .. n + 1 /\ i # n + 1
  BY <1>1
<1>14. \A i \in 1 .. n : /\ q[i].dir = frames[i].dir /\ q[i].table = frames[i].table
                         /\ q[i].slot = frames[i].slot
  BY <1>2, <1>6, <1>9, <1>13
<1>15. /\ Bound(n) = s /\ Bound(n)' = s + 1 /\ Bound(n + 1)' = 1
       /\ \A i \in 1 .. n - 1 : Bound(i)' = Bound(i)
  <2>1. \A i \in 1 .. n - 1 : i # n /\ i # n + 1
    BY <1>1
  <2>2. n # n + 1
    BY <1>1
  <2>. QED BY <1>1, <1>2, <1>6, <1>7, <1>9, <2>1, <2>2 DEF Bound
<1>16. e \notin H
  <2>1. <<frames[n].dir, s>> \in H <=> s < Bound(n)
    BY <1>1, <1>10, <1>13 DEF Walked
  <2>2. ~ (s < Bound(n))
    BY <1>2, <1>15
  <2>. QED BY <1>2, <1>11, <2>1, <2>2
<1>17. Opened(H \cup {e}) = Opened(H) \cup {c}
  BY <1>12 DEF Opened
\* The directory has not been opened before, for nothing else leads to it.
<1>18. c \notin Opened(H)
  <2>1. e \in Entries /\ Target(e) = c
    BY <1>12, ChartedTargets DEF Entries, Target
  <2>2. c # RootCluster
    BY <2>1, ClusterMapAssumption
    DEF Charted, Orderly, Sound, NoDangling, DataClusters, FirstCluster, RootCluster
  <2>3. ASSUME NEW g \in H, disk[g[1]][g[2]].attr = "dir", disk[g[1]][g[2]].cluster = c
        PROVE  FALSE
    <3>1. g \in dirs \X ChildSlots
      BY <1>10
    <3>2. g[1] \in dirs /\ g[2] \in ChildSlots
      BY <3>1
    <3>3. g \in Entries /\ Target(g) = c
      BY <2>3, <3>1, <3>2, ChartedTargets DEF Entries, Target
    <3>4. g = e
      BY <2>1, <3>3 DEF Charted, Orderly, Sound, UniqueOwner
    <3>. QED BY <1>16, <3>4
  <2>. QED BY <2>2, <2>3 DEF Opened
<1>19. \A i \in 1 .. n : frames[i].dir \in Opened(H) /\ frames[i].dir # c
  BY <1>1, <1>10, <1>18 DEF Walked
<1>20. Stacked'
  <2>1. q # <<>> /\ q[1].dir = RootCluster
    <3>1. frames # <<>> /\ 1 \in 1 .. n
      BY <1>1, <1>2, EmptySeq
    <3>. QED BY <1>9, <1>10, <1>14, <3>1, EmptySeq DEF Stacked
  <2>2. ASSUME NEW i \in 1 .. n + 1
        PROVE  q[i].dir \in dirs /\ q[i].table = disk[q[i].dir]
    <3>1. CASE i = n + 1
      BY <1>4, <1>6, <1>9, <3>1
    <3>2. CASE i \in 1 .. n
      BY <1>1, <1>10, <1>14, <3>2 DEF Stacked
    <3>. QED BY <1>13, <3>1, <3>2
  <2>3. ASSUME NEW i \in 1 .. n
        PROVE  /\ q[i].slot \in ChildSlots /\ disk[q[i].dir][q[i].slot].attr = "dir"
               /\ disk[q[i].dir][q[i].slot].cluster = q[i + 1].dir
    <3>1. CASE i = n
      BY <1>4, <1>6, <1>9, <3>1
    <3>2. CASE i \in 1 .. n - 1
      <4>1. i + 1 \in 1 .. n
        BY <1>1, <3>2
      <4>. QED BY <1>1, <1>10, <1>14, <3>2, <4>1 DEF Stacked
    <3>. QED BY <1>13, <3>1, <3>2
  <2>4. ASSUME NEW i \in 1 .. n + 1, NEW j \in 1 .. n + 1, q[i].dir = q[j].dir
        PROVE  i = j
    <3>1. CASE i \in 1 .. n /\ j \in 1 .. n
      BY <1>1, <1>10, <1>14, <2>4, <3>1 DEF Stacked
    <3>2. CASE i = n + 1 \/ j = n + 1
      BY <1>6, <1>9, <1>13, <1>14, <1>19, <2>4, <3>2
    <3>. QED BY <1>13, <3>1, <3>2
  <2>5. (n + 1) - 1 = n
    BY <1>1
  <2>. QED BY <1>0, <1>7, <1>9, <2>1, <2>2, <2>3, <2>4, <2>5 DEF Stacked
<1>21. Walked(H \cup {e})'
  <2>1. H \cup {e} \subseteq (Opened(H) \cup {c}) \X ChildSlots
    <3>1. top.dir \in Opened(H)
      BY <1>2, <1>13, <1>19
    <3>. QED BY <1>10, <1>11, <3>1 DEF Walked
  <2>2. ASSUME NEW d \in Opened(H) \cup {c}, \A i \in 1 .. n + 1 : q[i].dir # d,
               NEW r \in ChildSlots
        PROVE  <<d, r>> \in H \cup {e}
    <3>1. d # c /\ \A i \in 1 .. n : frames[i].dir # d
      <4>1. n + 1 \in 1 .. n + 1
        BY <1>1
      <4>. QED BY <1>6, <1>9, <1>13, <1>14, <2>2, <4>1
    <3>. QED BY <1>1, <1>10, <2>2, <3>1 DEF Walked
  <2>3. ASSUME NEW i \in 1 .. n + 1, NEW r \in ChildSlots
        PROVE  <<q[i].dir, r>> \in H \cup {e} <=> r < Bound(i)'
    <3>0. r \in Nat /\ r # 0
      BY SlotAssumption DEF ChildSlots, Slots, SelfSlot
    <3>1. CASE i = n + 1
      <4>1. <<c, r>> \notin H \cup {e}
        BY <1>2, <1>10, <1>11, <1>13, <1>18, <1>19 DEF Walked
      <4>2. ~ (r < 1)
        BY <3>0
      <4>. QED BY <1>6, <1>9, <1>15, <3>1, <4>1, <4>2
    <3>2. CASE i = n
      <4>1. <<frames[n].dir, r>> \in H <=> r < s
        BY <1>1, <1>10, <1>13, <1>15 DEF Walked
      <4>2. r < s + 1 <=> r < s \/ r = s
        BY <1>2, <3>0
      <4>3. <<top.dir, r>> = e <=> r = s
        BY <1>11
      <4>. QED BY <1>2, <1>13, <1>14, <1>15, <3>2, <4>1, <4>2, <4>3
    <3>3. CASE i \in 1 .. n - 1
      <4>1. i \in 1 .. n /\ i # n
        BY <1>1, <3>3
      <4>2. frames[i].dir # frames[n].dir
        BY <1>1, <1>10, <1>13, <4>1 DEF Stacked
      <4>3. <<frames[i].dir, r>> # e
        BY <1>2, <1>11, <4>2
      <4>4. <<frames[i].dir, r>> \in H <=> r < Bound(i)
        BY <1>1, <1>10, <4>1 DEF Walked
      <4>. QED BY <1>14, <1>15, <3>3, <4>1, <4>3, <4>4
    <3>. QED BY <1>13, <3>1, <3>2, <3>3
  <2>4. \A i \in 1 .. n + 1 : q[i].dir \in Opened(H) \cup {c}
    BY <1>6, <1>9, <1>13, <1>14, <1>19
  <2>5. Opened(H \cup {e})' = Opened(H) \cup {c}
    BY <1>0, <1>17 DEF Opened
  <2>. QED BY <1>7, <1>9, <2>1, <2>2, <2>3, <2>4, <2>5 DEF Walked
<1>22. Noted(H \cup {e})'
  BY <1>0, <1>1, <1>10, <1>11, <1>16, ReportNoted
<1>23. frames' # <<>> /\ sought' \in Sought
  BY <1>0, <1>7, <1>9, EmptySeq DEF Searched
<1>24. H \cup {e} \in SUBSET (dirs' \X ChildSlots)
  BY <1>0, <1>10, <1>12
<1>. QED BY <1>0, <1>20, <1>21, <1>22, <1>23, <1>24 DEF Searched

LEMMA ReturnSearched ==
  ASSUME Charted, Searched, Return
  PROVE  Searched'
<1>0. at = "search" /\ Top.slot \notin Slots /\ UNCHANGED <<disk, dirs, sought, found, clean>>
  BY DEF Return, vars
<1>1. PICK n \in Nat \ {0}, top \in FrameSet : n = Len(frames) /\ top = Top
  BY <1>0, TopIs
<1>2. /\ frames \in Seq(FrameSet) /\ top = frames[n]
      /\ top.slot = SlotCount /\ \A r \in ChildSlots : r < top.slot
  <2>1. top.slot \in 1 .. SlotCount /\ top.slot \notin Slots
    BY <1>0, <1>1 DEF FrameSet
  <2>2. top.slot = SlotCount
    BY <2>1, SlotAssumption DEF Slots
  <2>. QED BY <1>0, <1>1, <2>2, TopIs, SlotAssumption DEF ChildSlots, Slots
<1>3. PICK H \in SUBSET (dirs \X ChildSlots) : Stacked /\ Walked(H) /\ Noted(H)
  BY <1>0 DEF Searched
<1>4. PICK b : b = Callers
  OBVIOUS
<1>5. b \in Seq(FrameSet) /\ Len(b) = n - 1 /\ \A i \in 1 .. n - 1 : b[i] = frames[i]
  BY <1>1, <1>2, <1>4, ButLast DEF Callers
\* The directory of the call that returns is finished.
<1>6. /\ frames[n].dir \in Opened(H) /\ Bound(n) = top.slot
      /\ \A r \in ChildSlots : <<frames[n].dir, r>> \in H
  <2>1. n \in 1 .. n
    BY <1>1
  <2>2. Bound(n) = top.slot
    BY <1>1, <1>2 DEF Bound
  <2>. QED BY <1>1, <1>2, <1>3, <2>1, <2>2 DEF Walked
<1>7. ASSUME NEW d \in Opened(H), \A i \in 1 .. n - 1 : frames[i].dir # d, NEW r \in ChildSlots
      PROVE  <<d, r>> \in H
  <2>1. CASE d = frames[n].dir
    BY <1>6, <2>1
  <2>2. CASE d # frames[n].dir
    <3>1. \A i \in 1 .. n : i = n \/ i \in 1 .. n - 1
      BY <1>1
    <3>2. \A i \in 1 .. n : frames[i].dir # d
      BY <1>7, <2>2, <3>1
    <3>. QED BY <1>1, <1>3, <3>2 DEF Walked
  <2>. QED BY <2>1, <2>2
<1>8. Opened(H)' = Opened(H) /\ Noted(H)'
  BY <1>0, <1>3 DEF Opened, Noted, Reported, Matches
<1>9. CASE b = <<>>
  <2>1. frames' = <<>> /\ at' = "done"
    BY <1>4, <1>9 DEF Return
  <2>2. n - 1 = 0 /\ Len(frames') = 0 /\ frames' \in Seq(FrameSet)
    BY <1>5, <1>9, <2>1, EmptySeq
  <2>3. Stacked'
    BY <2>1, <2>2 DEF Stacked
  <2>4. \A d \in Opened(H), r \in ChildSlots : <<d, r>> \in H
    <3>1. n - 1 = 0
      BY <2>2
    <3>2. \A i \in 1 .. n - 1 : FALSE
      BY <3>1
    <3>. QED BY <1>7, <3>2
  <2>5. Walked(H)'
    BY <1>3, <1>8, <2>2, <2>4 DEF Walked
  <2>. QED BY <1>0, <1>3, <1>8, <2>1, <2>3, <2>5 DEF Searched
<1>10. CASE b # <<>>
  <2>1. n - 1 \in Nat \ {0} /\ n - 1 \in 1 .. n - 1 /\ n - 1 \in 1 .. n
    BY <1>1, <1>5, <1>10, EmptySeq
  <2>0. PICK m \in Nat \ {0} : m = n - 1
    BY <2>1
  <2>2. PICK q : q = frames' /\ m = n - 1
    BY <2>0
  <2>3. q = [b EXCEPT ![m] = Resume(@)] /\ at' = "search"
    BY <1>4, <1>5, <1>10, <2>2 DEF Return
  <2>4. PICK caller \in FrameSet, s \in ChildSlots : caller = frames[m] /\ s = caller.slot
    BY <1>1, <1>2, <1>3, <2>1, <2>2, ElementOfSeq DEF Stacked
  <2>5. PICK x : x = Resume(caller)
    OBVIOUS
  <2>6. x \in FrameSet /\ x.dir = caller.dir /\ x.table = caller.table /\ x.slot = s + 1
    <3>1. s + 1 \in 1 .. SlotCount
      BY SlotAssumption DEF ChildSlots, Slots, SelfSlot
    <3>. QED BY <2>4, <2>5, <3>1 DEF FrameSet, Resume
  <2>7. b[m] = caller /\ m \in 1 .. m /\ Len(b) = m
    BY <1>5, <2>1, <2>2, <2>4
  <2>8. q = [b EXCEPT ![m] = x]
    BY <2>3, <2>5, <2>7
  <2>9. /\ q \in Seq(FrameSet) /\ Len(q) = m /\ q[m] = x
        /\ \A i \in 1 .. m - 1 : q[i] = frames[i]
    <3>1. q \in Seq(FrameSet) /\ Len(q) = Len(b)
      BY <1>5, <2>6, <2>7, <2>8, ExceptSeq
    <3>2. DOMAIN b = 1 .. m
      BY <1>5, <2>7, LenProperties
    <3>3. \A i \in 1 .. m - 1 : i \in 1 .. m /\ i # m /\ i \in 1 .. n - 1
      BY <2>1, <2>2
    <3>. QED BY <1>5, <2>7, <2>8, <3>1, <3>2, <3>3
  <2>10. /\ \A i \in 1 .. m : i = m \/ i \in 1 .. m - 1
         /\ \A i \in 1 .. m : i \in 1 .. n /\ i # n
         /\ \A i \in 1 .. m - 1 : i \in 1 .. n - 1 /\ i # m /\ i + 1 \in 1 .. m
    BY <2>1, <2>2
  <2>11. \A i \in 1 .. m : q[i].dir = frames[i].dir /\ q[i].table = frames[i].table
    BY <2>4, <2>6, <2>9, <2>10
  <2>12. \A i \in 1 .. m : Bound(i)' = Bound(i)
    BY <1>1, <2>2, <2>4, <2>6, <2>9, <2>10 DEF Bound
  <2>13. Stacked'
    <3>1. q # <<>> /\ q[1].dir = RootCluster
      <4>1. 1 \in 1 .. m /\ frames # <<>>
        BY <1>1, <1>2, <2>2, EmptySeq
      <4>. QED BY <1>3, <2>9, <2>11, <4>1, EmptySeq DEF Stacked
    <3>2. \A i \in 1 .. m : q[i].dir \in dirs /\ q[i].table = disk[q[i].dir]
      BY <1>1, <1>3, <2>10, <2>11 DEF Stacked
    <3>3. \A i \in 1 .. m - 1 :
            /\ q[i].slot \in ChildSlots /\ disk[q[i].dir][q[i].slot].attr = "dir"
            /\ disk[q[i].dir][q[i].slot].cluster = q[i + 1].dir
      BY <1>1, <1>3, <2>9, <2>10, <2>11 DEF Stacked
    <3>4. \A i, j \in 1 .. m : q[i].dir = q[j].dir => i = j
      BY <1>1, <1>3, <2>10, <2>11 DEF Stacked
    <3>. QED BY <1>0, <2>2, <2>9, <3>1, <3>2, <3>3, <3>4 DEF Stacked
  <2>14. Walked(H)'
    <3>1. ASSUME NEW d \in Opened(H), \A i \in 1 .. m : q[i].dir # d, NEW r \in ChildSlots
          PROVE  <<d, r>> \in H
      BY <1>7, <2>2, <2>11, <3>1
    <3>2. \A i \in 1 .. m : /\ q[i].dir \in Opened(H)
                            /\ \A r \in ChildSlots : <<q[i].dir, r>> \in H <=> r < Bound(i)'
      BY <1>1, <1>3, <2>10, <2>11, <2>12 DEF Walked
    <3>3. H \subseteq Opened(H) \X ChildSlots
      BY <1>3 DEF Walked
    <3>. QED BY <1>8, <2>2, <2>9, <3>1, <3>2, <3>3 DEF Walked
  <2>15. frames' # <<>>
    BY <2>2, <2>9, EmptySeq
  <2>. QED BY <1>0, <1>3, <1>8, <2>3, <2>13, <2>14, <2>15 DEF Searched
<1>. QED BY <1>9, <1>10

LEMMA BeginSearched ==
  ASSUME Charted, Begin
  PROVE  Searched'
<1>1. PICK x : x = Frame(RootCluster, disk[RootCluster], <<>>, clean')
  OBVIOUS
<1>2. RootCluster \in dirs /\ RootCluster \in Clusters /\ disk[RootCluster] \in Table
  BY DEF Charted, Orderly, Sound, TypeOK, DirsAreEnds
<1>3. x \in FrameSet /\ x.dir = RootCluster /\ x.table = disk[RootCluster] /\ x.slot = 1
  <2>1. 1 \in 1 .. SlotCount /\ clean' \in BOOLEAN
    BY SlotAssumption DEF Begin
  <2>2. <<>> \in Seq(Component)
    BY EmptySeq
  <2>. QED BY <1>1, <1>2, <2>1, <2>2 DEF FrameSet, Frame
<1>4. PICK q : q = frames'
  OBVIOUS
<1>5. q = <<x>> /\ q \in Seq(FrameSet) /\ Len(q) = 1 /\ q[1] = x /\ q # <<>>
  BY <1>1, <1>3, <1>4 DEF Begin
<1>6. /\ UNCHANGED <<disk, dirs>> /\ at' = "search" /\ found' = <<>> /\ sought' \in Sought
      /\ Len(found') = 0
  BY EmptySeq DEF Begin, vars
<1>7. /\ \A i \in 1 .. 1 : i = 1
      /\ \A i \in 1 .. 1 - 1 : FALSE
      /\ \A i \in 1 .. 0 : FALSE
  OBVIOUS
<1>8. Stacked'
  BY <1>2, <1>3, <1>4, <1>5, <1>6, <1>7 DEF Stacked
<1>9. Walked({})'
  <2>1. Opened({})' = {RootCluster}
    BY DEF Opened
  <2>2. Bound(1)' = 1
    BY <1>3, <1>4, <1>5 DEF Bound
  <2>3. \A r \in ChildSlots : ~ (r < 1)
    BY SlotAssumption DEF ChildSlots, Slots, SelfSlot
  <2>4. \A i \in 1 .. 1 : /\ q[i].dir = RootCluster
                          /\ \A r \in ChildSlots : <<q[i].dir, r>> \in {} <=> r < Bound(i)'
    BY <1>3, <1>5, <1>7, <2>2, <2>3
  <2>. QED BY <1>3, <1>4, <1>5, <2>1, <2>4 DEF Walked
<1>10. Noted({})'
  <2>1. found' \in Seq(LineSet)
    BY <1>6, EmptySeq
  <2>2. Reported' = {}
    BY <1>6, <1>7 DEF Reported
  <2>. QED BY <1>6, <2>1, <2>2, FS_EmptySet DEF Noted
<1>11. {} \in SUBSET (dirs' \X ChildSlots)
  OBVIOUS
<1>. QED BY <1>4, <1>5, <1>6, <1>8, <1>9, <1>10, <1>11 DEF Searched

\* A question changes nothing, whatever it finds.
LEMMA ChartedStep ==
  ASSUME Misuse \subseteq CarefulKinds
  PROVE  Charted /\ [WhereisNext]_allVars => Charted'
<1>. SUFFICES ASSUME Charted, [WhereisNext]_allVars
              PROVE  Charted'
  OBVIOUS
<1>0. ret \in -1 .. 3 /\ overrun \in BOOLEAN
  BY DEF Charted, Orderly, Sound, TypeOK
<1>1. CASE Change
  BY <1>1, ChangeCharted
<1>2. CASE Descend \/ Skip
  <2>1. PICK c, name, ext : ReadDirectory(c, name, ext)
    BY <1>2 DEF Descend, Skip, Ask
  <2>2. UNCHANGED <<fat, disk, dirs, overrun>> /\ ret' \in {0, 1, 2}
    BY <2>1 DEF ReadDirectory
  <2>. QED BY <1>0, <2>2, ChartedKept
<1>3. CASE Begin \/ Pass \/ Return \/ PrintFound \/ UNCHANGED allVars
  <2>1. UNCHANGED <<fat, disk, dirs, overrun>> /\ ret' \in {0, ret}
    BY <1>3 DEF Begin, Pass, Return, PrintFound, allVars, vars
  <2>. QED BY <1>0, <2>1, ChartedKept
<1>. QED BY <1>1, <1>2, <1>3 DEF WhereisNext

\* Nothing preempts a search.
Guided == Charted /\ Searched

LEMMA InitGuided == WhereisInit => Guided
BY InitCharted DEF WhereisInit, Guided, Searched

LEMMA GuidedStep ==
  ASSUME Misuse \subseteq CarefulKinds, NoFolderInData
  PROVE  Guided /\ [WhereisNext]_allVars => Guided'
<1>. SUFFICES ASSUME Charted, Searched, [WhereisNext]_allVars
              PROVE  Searched'
  BY ChartedStep DEF Guided
<1>1. CASE Change
  BY <1>1 DEF Change, searchVars, Searched
<1>2. CASE Begin
  BY <1>2, BeginSearched
<1>3. CASE Pass
  <2>1. /\ at = "search" /\ Top.slot \in Slots /\ Report /\ ~ Leads(Here)
        /\ frames' = Advance([Top EXCEPT !.path = PathHere])
        /\ UNCHANGED <<fat, disk, dirs, ret, overrun, at, sought>>
    BY <1>3 DEF Pass, vars
  <2>2. Here.attr # "dir"
    BY <2>1 DEF Leads
  <2>. QED BY <2>1, <2>2, PassedSearched
<1>4. CASE Descend
  BY <1>4, DescendSearched
<1>5. CASE Skip
  <2>1. /\ at = "search" /\ Top.slot \in Slots /\ Report /\ Leads(Here) /\ Ask /\ ret' # 0
        /\ frames' = Advance([Top EXCEPT !.path = PathHere])
        /\ UNCHANGED <<fat, disk, dirs, overrun, at, sought>>
    BY <1>5 DEF Skip, Ask, ReadDirectory
  <2>2. Here.attr # "dir"
    BY <2>1, DescendIs
  <2>. QED BY <2>1, <2>2, PassedSearched
<1>6. CASE Return
  BY <1>6, ReturnSearched
<1>7. CASE PrintFound
  BY <1>7 DEF PrintFound, Searched
<1>8. CASE UNCHANGED allVars
  <2>1. UNCHANGED <<disk, dirs, at, sought, frames, found>>
    BY <1>8 DEF allVars, vars, searchVars
  <2>2. Stacked => Stacked'
    BY <2>1 DEF Stacked
  <2>3. \A H : Walked(H) => Walked(H)'
    BY <2>1 DEF Walked, Opened, Bound
  <2>4. \A H : Noted(H) => Noted(H)'
    BY <2>1 DEF Noted, Reported, Matches
  <2>. QED BY <2>1, <2>2, <2>3, <2>4 DEF Searched
<1>. QED BY <1>1, <1>2, <1>3, <1>4, <1>5, <1>6, <1>7, <1>8 DEF WhereisNext

LEMMA AlwaysGuided ==
  ASSUME Misuse \subseteq CarefulKinds, NoFolderInData
  PROVE  WhereisSpec => []Guided
BY InitGuided, GuidedStep, PTL DEF WhereisSpec

\* When every call has returned every opened directory is finished; so they are
\* the directories of the tree.
LEMMA AllOpened ==
  ASSUME Charted, NEW H \in SUBSET (dirs \X ChildSlots),
         Walked(H), frames = <<>>
  PROVE  H = dirs \X ChildSlots
<1>1. Len(frames) = 0 /\ \A i \in 1 .. 0 : FALSE
  BY EmptySeq
<1>2. \A d \in Opened(H), s \in ChildSlots : <<d, s>> \in H
  BY <1>1 DEF Walked
<1>3. RootCluster \in Opened(H)
  BY DEF Opened
<1>4. Opened(H) \subseteq dirs
  <2>1. RootCluster \in dirs
    BY DEF Charted, Orderly, Sound, DirsAreEnds
  <2>2. ASSUME NEW e \in H, disk[e[1]][e[2]].attr = "dir"
        PROVE  disk[e[1]][e[2]].cluster \in dirs
    <3>1. e \in dirs \X ChildSlots
      OBVIOUS
    <3>2. e[1] \in dirs /\ e[2] \in ChildSlots
      BY <3>1
    <3>. QED BY <2>2, <3>2, ChartedTargets
  <2>. QED BY <2>1, <2>2 DEF Opened
<1>5. ASSUME NEW y \in Below(disk, Opened(H))
      PROVE  y \in Opened(H)
  <2>1. PICK D : D = Opened(H)
    OBVIOUS
  <2>2. PICK d \in D, s \in ChildSlots : disk[d][s].attr = "dir" /\ disk[d][s].cluster = y
    BY <1>5, <2>1, BelowIs
  <2>3. PICK e : e = <<d, s>>
    OBVIOUS
  <2>4. e \in H /\ e[1] = d /\ e[2] = s
    BY <1>2, <2>1, <2>2, <2>3
  <2>. QED BY <2>2, <2>4 DEF Opened
<1>6. Opened(H) = dirs
  <2>1. Opened(H) \in SUBSET dirs /\ Closed(disk, Opened(H))
    BY <1>3, <1>4, <1>5 DEF Closed
  <2>. QED BY <2>1 DEF Charted, Orderly, Tree
<1>. QED BY <1>2, <1>6

LEMMA GuidedFindsEvery == Guided => FindsEvery
<1>. SUFFICES ASSUME Charted, Searched, at = "done" PROVE FindsEvery
  BY DEF Guided, FindsEvery
<1>1. PICK H \in SUBSET (dirs \X ChildSlots) : Walked(H) /\ Noted(H)
  BY DEF Searched
<1>2. H = dirs \X ChildSlots
  BY <1>1, AllOpened DEF Searched
<1>3. \A x : Matches(x) => x.name # NoName
  <2>1. sought \in Sought
    BY DEF Searched
  <2>2. sought[1] # NoName /\ \A y : <<sought[1], y>> \in Longer => y # NoName
    BY <2>1, SoughtAssumption, NameAssumption
  <2>. QED BY <2>2 DEF Matches
<1>4. Reported = {e \in Entries : Matches(disk[e[1]][e[2]])}
  BY <1>1, <1>2, <1>3 DEF Noted, Entries
<1>5. Reported = {found[i].entry : i \in DOMAIN found}
  BY <1>1, LenProperties DEF Noted, Reported
<1>. QED BY <1>1, <1>4, <1>5 DEF FindsEvery, Noted

\* As long as no content looks like a directory's entry, a search of whereis that
\* has ended has reported every entry of every live directory that matches, and
\* each once.  Of volumes with such a content it says nothing.
THEOREM WhereisFindsEvery ==
  ASSUME Misuse \subseteq CarefulKinds
  PROVE  WhereisSpec => []FindsEvery
<1>1. CASE NoFolderInData
  BY <1>1, AlwaysGuided, GuidedFindsEvery, PTL
<1>2. CASE ~ NoFolderInData
  <2>1. FindsEvery
    BY <1>2 DEF FindsEvery
  <2>. QED BY <2>1, PTL
<1>. QED BY <1>1, <1>2

(***************************************************************************)
(* The paths of the lines.                                                 *)
(***************************************************************************)
LEMMA LedToPaced ==
  ASSUME NEW path, Len(path) \in Nat
  PROVE  Paced(disk, RootCluster, path, LedTo(path), Len(path))
<1>1. PICK w : w = CHOOSE g : Paced(disk, RootCluster, path, g, Len(path))
  OBVIOUS
<1>2. LedTo(path) = w
  BY <1>1 DEF LedTo, Paced, Onward
<1>. QED BY <1>1, <1>2, PacedExists

LEMMA BareBelow ==
  ASSUME NEW i \in Int, NEW k \in Int, i <= k, Bare(k)
  PROVE  Bare(i)
<1>1. ASSUME NEW x \in 1 .. Len(frames), x <= i
      PROVE  x <= k
  <2>1. x \in Int
    OBVIOUS
  <2>. QED BY <1>1, <2>1
<1>. QED BY <1>1 DEF Bare

\* Where nothing has been found yet the path of a call is the trail to its
\* directory; so that of a match leads to the match.
LEMMA FirstLineRight ==
  ASSUME Charted, Searched, Retraced, at = "search", clean, Top.slot \in Slots,
         Matches(Here), Bare(Len(frames))
  PROVE  Right(Line)
<1>1. PICK n \in Nat \ {0}, top \in FrameSet, s \in ChildSlots :
        n = Len(frames) /\ top = Top /\ s = Top.slot
  BY TopIs
<1>2. top = frames[n] /\ Here = disk[top.dir][s] /\ n \in 1 .. n
  BY <1>1, TopIs
<1>3. Bare(n) /\ Bare(n - 1)
  BY <1>1, BareBelow
<1>4. /\ top.zeros /\ top.path = top.savedPath
      /\ Trail(disk, dirs, RootCluster, top.savedPath, top.dir)
  BY <1>1, <1>2, <1>3 DEF Retraced
<1>5. PICK path \in Seq(Component) : path = top.path
  BY DEF FrameSet
<1>6. PICK key \in Component : key = KeyOf(Here)
  BY <1>1, TopIs
<1>7. PICK k \in Nat : k = Len(path)
  BY LenProperties
<1>8. PICK p : p = PathHere
  OBVIOUS
<1>9. p = Append(path, key)
  BY <1>1, <1>4, <1>5, <1>6, <1>8 DEF PathHere
<1>10. Len(p) = k + 1 /\ p[k + 1] = key /\ \A i \in 1 .. k : p[i] = path[i]
  BY <1>7, <1>9, AppendProperties
<1>11. PICK w : w = LedTo(p)
  OBVIOUS
<1>12. Paced(disk, RootCluster, p, w, k + 1)
  BY <1>10, <1>11, LedToPaced
<1>13. top.dir \in w[k]
  <2>1. k + 1 \in Nat /\ k <= k + 1
    OBVIOUS
  <2>2. Trail(disk, dirs, RootCluster, path, top.dir)
    BY <1>4, <1>5
  <2>. QED BY <1>7, <1>10, <1>12, <2>1, <2>2, TrailPaced
<1>14. PICK line : line = Line
  OBVIOUS
<1>15. line.path = p /\ line.entry[1] = top.dir /\ line.entry[2] = s
  BY <1>1, <1>8, <1>14 DEF Line
<1>16. (k + 1) - 1 = k
  OBVIOUS
<1>17. Right(line)
  BY <1>2, <1>6, <1>10, <1>11, <1>13, <1>15, <1>16 DEF Right
<1>. QED BY <1>14, <1>17

\* The lines that are there stay, and one is added.
LEMMA LinesRight ==
  ASSUME Charted, Searched, Retraced, at = "search", clean, Top.slot \in Slots,
         Report, UNCHANGED disk
  PROVE  /\ \A j \in 1 .. Len(found') : RightLine(j)'
         /\ Len(found) \in Nat /\ Len(found) <= Len(found')
         /\ \A j \in 1 .. Len(found) : found'[j] = found[j]
         /\ ~ Matches(Here) => found' = found
         /\ Matches(Here) => \E j \in 1 .. Len(found') : found'[j].entry[1] = Top.dir
<1>1. found \in Seq(LineSet) /\ frames \in Seq(FrameSet)
  BY DEF Searched, Noted, Stacked
<1>2. PICK m \in Nat : m = Len(found)
  BY <1>1, LenProperties
<1>3. \A j \in 1 .. m : RightLine(j)
  BY <1>2 DEF Retraced
<1>4. \A x : Right(x) <=> Right(x)'
  BY DEF Right, LedTo
<1>5. CASE ~ Matches(Here)
  <2>1. found' = found
    BY <1>5 DEF Report
  <2>. QED BY <1>2, <1>3, <1>4, <1>5, <2>1 DEF RightLine
<1>6. CASE Matches(Here)
  <2>1. PICK l : l = Line
    OBVIOUS
  <2>2. found' = Append(found, l)
    BY <1>6, <2>1 DEF Report
  <2>3. /\ Len(found') = m + 1 /\ found'[m + 1] = l
        /\ \A i \in 1 .. m : found'[i] = found[i]
    <3>1. l \in {l}
      OBVIOUS
    <3>2. found \in Seq(LineSet \cup {l})
      BY <1>1, SeqMonotonic
    <3>. QED BY <1>2, <2>2, <3>2, AppendProperties
  <2>4. l.entry[1] = Top.dir /\ l.above = {frames[i].dir : i \in DOMAIN frames}
    BY <2>1 DEF Line
  <2>5. /\ m + 1 \in 1 .. m + 1 /\ m <= m + 1
        /\ \A j \in 1 .. m + 1 : j = m + 1 \/ j \in 1 .. m
        /\ \A j \in 1 .. m + 1 : \A i \in 1 .. j - 1 : i \in 1 .. m
        /\ \A i \in 1 .. m : i \in 1 .. (m + 1) - 1
    BY <1>2
  <2>6. ASSUME NEW j \in 1 .. m
        PROVE  RightLine(j)'
    <3>1. \A i \in 1 .. j - 1 : i \in 1 .. m
      BY <1>2
    <3>2. RightLine(j) /\ found'[j] = found[j] /\ \A i \in 1 .. j - 1 : found'[i] = found[i]
      BY <1>3, <2>3, <3>1
    <3>. QED BY <1>4, <3>2 DEF RightLine
  <2>7. RightLine(m + 1)'
    <3>1. SUFFICES ASSUME \A i \in 1 .. m : found[i].entry[1] \notin l.above
                   PROVE  Right(l)
      BY <1>4, <2>3, <2>5 DEF RightLine
    <3>2. Bare(Len(frames))
      <4>1. DOMAIN frames = 1 .. Len(frames)
        BY <1>1, LenProperties
      <4>. QED BY <1>2, <2>4, <3>1, <4>1 DEF Bare
    <3>. QED BY <1>6, <2>1, <3>2, FirstLineRight
  <2>8. \A j \in 1 .. Len(found') : RightLine(j)'
    BY <2>3, <2>5, <2>6, <2>7
  <2>. QED BY <1>2, <1>6, <2>3, <2>4, <2>5, <2>8
<1>. QED BY <1>5, <1>6

\* When an entry is gone through the calls keep their trails, and the one in
\* progress its path as long as it finds nothing.
LEMMA FramesRetraced ==
  ASSUME Charted, Searched, Retraced, at = "search", clean, Top.slot \in Slots,
         Report, UNCHANGED <<disk, dirs>>,
         NEW n \in Nat \ {0}, n = Len(frames), NEW q, q = frames',
         Len(q) \in Nat, n <= Len(q), \A i \in 1 .. n - 1 : q[i] = frames[i],
         q[n].dir = Top.dir, q[n].path = PathHere,
         q[n].savedPath = Top.savedPath, q[n].zeros = Top.zeros
  PROVE  /\ \A i \in 1 .. n :
              /\ q[i].zeros
              /\ Bare(i - 1)' => Trail(disk, dirs, RootCluster, q[i].savedPath, q[i].dir)
              /\ Bare(i)' => q[i].path = q[i].savedPath
         /\ Bare(n)' => /\ ~ Matches(Here) /\ Bare(n)
<1>1. PICK top : top = Top
  OBVIOUS
<1>2. top = frames[n] /\ n \in 1 .. n /\ \A i \in 1 .. n : i = n \/ i \in 1 .. n - 1
  BY <1>1, TopIs
<1>3. \A i \in 1 .. n : q[i].dir = frames[i].dir
  BY <1>1, <1>2
<1>4. ASSUME NEW i \in Int, i <= n, Bare(i)'
      PROVE  Bare(i)
  <2>1. /\ Len(found) \in Nat /\ Len(found') \in Int /\ Len(found) <= Len(found')
        /\ \A j \in 1 .. Len(found) : found'[j] = found[j]
    <3>1. /\ Len(found) \in Nat /\ Len(found) <= Len(found')
          /\ \A j \in 1 .. Len(found) : found'[j] = found[j]
      BY LinesRight
    <3>2. Len(found') \in Int
      <4>1. found \in Seq(LineSet)
        BY DEF Searched, Noted
      <4>2. PICK l : l = Line
        OBVIOUS
      <4>3. found \in Seq(LineSet \cup {l}) /\ l \in LineSet \cup {l}
        BY <4>1, SeqMonotonic
      <4>4. found' \in Seq(LineSet \cup {l})
        BY <4>2, <4>3, AppendProperties DEF Report
      <4>. QED BY <4>4, LenProperties
    <3>. QED BY <3>1, <3>2
  <2>2. \A j \in 1 .. Len(found) : j \in 1 .. Len(found')
    BY <2>1
  <2>3. \A k \in 1 .. n : k \in 1 .. Len(q)
    OBVIOUS
  <2>. QED BY <1>3, <1>4, <2>1, <2>2, <2>3 DEF Bare
<1>5. ASSUME Bare(n)'
      PROVE  ~ Matches(Here) /\ Bare(n)
  <2>1. Bare(n)
    BY <1>4, <1>5
  <2>2. n \in 1 .. Len(q) /\ n <= n
    OBVIOUS
  <2>3. \A j \in 1 .. Len(found') : found'[j].entry[1] # q[n].dir
    BY <1>5, <2>2 DEF Bare
  <2>4. ~ Matches(Here)
    BY <2>3, LinesRight
  <2>. QED BY <2>1, <2>4
<1>6. ASSUME NEW i \in 1 .. n
      PROVE  /\ q[i].zeros
             /\ Bare(i - 1)' => Trail(disk, dirs, RootCluster, q[i].savedPath, q[i].dir)
             /\ Bare(i)' => q[i].path = q[i].savedPath
  <2>1. /\ frames[i].zeros
        /\ Bare(i - 1) => Trail(disk, dirs, RootCluster, frames[i].savedPath, frames[i].dir)
        /\ Bare(i) => frames[i].path = frames[i].savedPath
    BY DEF Retraced
  <2>2. (Bare(i)' => Bare(i)) /\ (Bare(i - 1)' => Bare(i - 1))
    BY <1>4
  <2>3. CASE i = n
    <3>1. q[n].savedPath = frames[n].savedPath /\ q[n].zeros = frames[n].zeros
      BY <1>1, <1>2
    <3>2. Bare(n)' => q[n].path = frames[n].path
      BY <1>1, <1>2, <1>5 DEF PathHere
    <3>. QED BY <1>3, <2>1, <2>2, <2>3, <3>1, <3>2
  <2>4. CASE i \in 1 .. n - 1
    BY <2>1, <2>2, <2>4
  <2>. QED BY <1>2, <2>3, <2>4
<1>. QED BY <1>5, <1>6

LEMMA PassedRetraced ==
  ASSUME Charted, Searched, Retraced, at = "search", Top.slot \in Slots, Report,
         UNCHANGED <<disk, dirs, at, clean>>,
         frames' = Advance([Top EXCEPT !.path = PathHere])
  PROVE  Retraced'
<1>. SUFFICES ASSUME clean PROVE Retraced'
  BY DEF Retraced
<1>1. PICK n \in Nat \ {0}, top \in FrameSet, s \in ChildSlots :
        n = Len(frames) /\ top = Top /\ s = Top.slot
  BY TopIs
<1>2. /\ frames \in Seq(FrameSet) /\ s + 1 \in 1 .. SlotCount /\ top.slot = s
      /\ PathHere \in Seq(Component)
  BY <1>1, TopIs
<1>3. PICK x : x = [[top EXCEPT !.path = PathHere] EXCEPT !.slot = @ + 1]
  OBVIOUS
<1>4. /\ x \in FrameSet /\ x.dir = top.dir /\ x.path = PathHere
      /\ x.savedPath = top.savedPath /\ x.zeros = top.zeros
  BY <1>2, <1>3 DEF FrameSet
<1>5. PICK q : q = frames'
  OBVIOUS
<1>6. q = SubSeq(frames, 1, n - 1) \o <<x>>
  BY <1>1, <1>3, <1>5 DEF Advance, Callers
<1>7. /\ q \in Seq(FrameSet) /\ Len(q) = n /\ q[n] = x
      /\ \A i \in 1 .. n - 1 : q[i] = frames[i]
  BY <1>1, <1>2, <1>4, <1>6, LastReplaced
<1>8. /\ q[n].dir = Top.dir /\ q[n].path = PathHere
      /\ q[n].savedPath = Top.savedPath /\ q[n].zeros = Top.zeros
      /\ Len(q) \in Nat /\ n <= Len(q) /\ n = Len(frames)
  BY <1>1, <1>4, <1>7
<1>9. \A i \in 1 .. n :
        /\ q[i].zeros
        /\ Bare(i - 1)' => Trail(disk, dirs, RootCluster, q[i].savedPath, q[i].dir)
        /\ Bare(i)' => q[i].path = q[i].savedPath
  BY <1>5, <1>7, <1>8, FramesRetraced
<1>10. \A j \in 1 .. Len(found') : RightLine(j)'
  BY LinesRight
<1>. QED BY <1>5, <1>7, <1>9, <1>10 DEF Retraced

\* A directory is found under the key of the entry that leads to it, for no
\* other entry has that key.
LEMMA LeadingHere ==
  ASSUME Charted, NEW d \in dirs, NEW s \in ChildSlots, disk[d][s].attr = "dir",
         NEW key, key = KeyOf(disk[d][s])
  PROVE  Leading(disk, d, key, disk[d][s].cluster)
<1>1. key[1] = disk[d][s].name /\ key[2] = disk[d][s].ext /\ s \in Slots
  BY SlotNumbers DEF KeyOf
<1>2. disk[d][s].name # NoName
  BY ChartedTargets
<1>3. KeyedSlots(disk[d], key[1], key[2]) = {s}
  BY <1>1, <1>2 DEF Charted, Distinct, KeyedSlots
<1>4. s \in Nat
  BY <1>1, SlotAssumption DEF Slots
<1>5. s \in dir_table_search(disk[d], key[1], key[2])
  BY <1>3, <1>4 DEF dir_table_search, First
<1>. QED BY <1>5 DEF Leading

LEMMA DescendRetraced ==
  ASSUME NoFolderInData, Charted, Searched, Retraced, Descend
  PROVE  Retraced'
<1>. SUFFICES ASSUME clean PROVE Retraced'
  BY DEF Retraced, Descend
<1>0. /\ at = "search" /\ Top.slot \in Slots /\ Leads(Here) /\ Ask /\ ret' = 0 /\ Report
      /\ UNCHANGED <<at, sought, clean, disk, dirs>>
  BY DEF Descend, Ask, ReadDirectory
<1>1. PICK n \in Nat \ {0}, top \in FrameSet, s \in ChildSlots :
        n = Len(frames) /\ top = Top /\ s = Top.slot
  BY <1>0, TopIs
<1>2. /\ frames \in Seq(FrameSet) /\ top = frames[n] /\ top.slot = s
      /\ top.dir \in dirs /\ Here = disk[top.dir][s]
      /\ PathHere \in Seq(Component) /\ KeyOf(Here) \in Component
  BY <1>0, <1>1, TopIs
<1>3. PICK c : c = Here.cluster
  OBVIOUS
<1>4. /\ disk[top.dir][s].attr = "dir" /\ disk[top.dir][s].cluster = c
      /\ c \in dirs /\ c \in Clusters /\ disk[c] \in Table
  BY <1>0, <1>2, <1>3, DescendIs, ChartedTargets DEF Charted, Orderly, Sound, TypeOK
<1>5. PICK x, y : x = [top EXCEPT !.path = PathHere] /\ y = Frame(c, disk[c], PathOf(Here), TRUE)
  OBVIOUS
<1>6. PICK key \in Component : key = KeyOf(Here)
  BY <1>2
<1>7. /\ x \in FrameSet /\ x.dir = top.dir /\ x.path = PathHere
      /\ x.savedPath = top.savedPath /\ x.zeros = top.zeros
      /\ y \in FrameSet /\ y.dir = c /\ y.path = y.savedPath /\ y.zeros
      /\ y.savedPath = Append(PathHere, key)
  <2>1. PathOf(Here) \in Seq(Component) /\ PathOf(Here) = Append(PathHere, key)
    BY <1>2, <1>6, AppendProperties DEF PathOf
  <2>2. 1 \in 1 .. SlotCount
    BY SlotAssumption
  <2>. QED BY <1>2, <1>4, <1>5, <2>1, <2>2 DEF FrameSet, Frame
<1>8. PICK q : q = frames'
  OBVIOUS
<1>9. PICK b, z : b = SubSeq(frames, 1, n - 1) /\ z = <<x, y>> /\ q = b \o z
  <2>1. \A r \in dir_table_search(disk[Here.cluster], Here.name, Here.ext) :
          disk[Here.cluster][r].cluster = c
    BY <1>0, <1>3, DescendIs
  <2>. QED BY <1>1, <1>5, <1>8, <2>1 DEF Descend, Callers
<1>10. /\ q \in Seq(FrameSet) /\ Len(q) = n + 1 /\ q[n] = x /\ q[n + 1] = y
       /\ \A i \in 1 .. n - 1 : q[i] = frames[i]
  <2>1. /\ frames \in Seq(FrameSet) /\ n \in Nat \ {0} /\ n = Len(frames)
        /\ x \in FrameSet /\ y \in FrameSet
    BY <1>1, <1>2, <1>7
  <2>2. b = SubSeq(frames, 1, n - 1) /\ z = <<x, y>> /\ q = b \o z
    BY <1>9
  <2>3. q \in Seq(FrameSet) /\ Len(q) = n + 1
    BY <2>1, <2>2, LastFollowed
  <2>4. q[n] = x
    BY <2>1, <2>2, LastFollowed
  <2>5. q[Len(q)] = y
    BY <2>1, <2>2, LastFollowed
  <2>6. \A i \in 1 .. n - 1 : q[i] = frames[i]
    BY <2>1, <2>2, LastFollowed
  <2>. QED BY <2>3, <2>4, <2>5, <2>6
<1>11. /\ q[n].dir = Top.dir /\ q[n].path = PathHere
       /\ q[n].savedPath = Top.savedPath /\ q[n].zeros = Top.zeros
       /\ Len(q) \in Nat /\ n <= Len(q) /\ n = Len(frames)
  BY <1>1, <1>7, <1>10
<1>12. /\ \A i \in 1 .. n :
            /\ q[i].zeros
            /\ Bare(i - 1)' => Trail(disk, dirs, RootCluster, q[i].savedPath, q[i].dir)
            /\ Bare(i)' => q[i].path = q[i].savedPath
       /\ Bare(n)' => ~ Matches(Here) /\ Bare(n)
  BY <1>0, <1>8, <1>10, <1>11, FramesRetraced
\* The new call's trail is that of its caller and one step more.
<1>13. ASSUME Bare(n)'
       PROVE  Trail(disk, dirs, RootCluster, q[n + 1].savedPath, q[n + 1].dir)
  <2>1. ~ Matches(Here) /\ Bare(n) /\ Bare(n - 1)
    BY <1>12, <1>13, BareBelow
  <2>2. /\ Trail(disk, dirs, RootCluster, top.savedPath, top.dir)
        /\ top.path = top.savedPath
    <3>1. n \in 1 .. n
      OBVIOUS
    <3>. QED BY <1>0, <1>1, <1>2, <2>1, <3>1 DEF Retraced
  <2>3. PICK path \in Seq(Component) : path = top.savedPath
    BY DEF FrameSet
  <2>4. PathHere = path
    BY <1>1, <2>1, <2>2, <2>3 DEF PathHere
  <2>5. Leading(disk, top.dir, key, c)
    BY <1>2, <1>4, <1>6, LeadingHere
  <2>6. Trail(disk, dirs, RootCluster, path, top.dir)
    BY <2>2, <2>3
  <2>7. Trail(disk, dirs, RootCluster, Append(path, key), c)
    BY <1>4, <2>5, <2>6, TrailOn
  <2>. QED BY <1>7, <1>10, <2>4, <2>7
<1>14. \A i \in 1 .. n + 1 : i = n + 1 \/ i \in 1 .. n
  OBVIOUS
<1>15. (n + 1) - 1 = n
  OBVIOUS
<1>16. ASSUME NEW i \in 1 .. n + 1
       PROVE  /\ q[i].zeros
              /\ Bare(i - 1)' => Trail(disk, dirs, RootCluster, q[i].savedPath, q[i].dir)
              /\ Bare(i)' => q[i].path = q[i].savedPath
  <2>1. CASE i = n + 1
    BY <1>7, <1>10, <1>13, <1>15, <2>1
  <2>2. CASE i \in 1 .. n
    BY <1>12, <2>2
  <2>. QED BY <1>14, <2>1, <2>2
<1>17. \A j \in 1 .. Len(found') : RightLine(j)'
  BY <1>0, LinesRight
<1>. QED BY <1>0, <1>8, <1>10, <1>16, <1>17 DEF Retraced

\* The caller's path is what it was when the call began.
LEMMA ReturnRetraced ==
  ASSUME Charted, Searched, Retraced, Return
  PROVE  Retraced'
<1>. SUFFICES ASSUME clean PROVE Retraced'
  BY DEF Retraced, Return
<1>0. at = "search" /\ UNCHANGED <<disk, dirs, sought, found, clean>>
  BY DEF Return, vars
<1>1. PICK n \in Nat \ {0} : n = Len(frames)
  BY <1>0, TopIs
<1>2. frames \in Seq(FrameSet)
  BY <1>0, TopIs
<1>3. PICK b : b = Callers
  OBVIOUS
<1>4. b \in Seq(FrameSet) /\ Len(b) = n - 1 /\ \A i \in 1 .. n - 1 : b[i] = frames[i]
  BY <1>1, <1>2, <1>3, ButLast DEF Callers
<1>5. \A j \in 1 .. Len(found') : RightLine(j)'
  <2>1. \A x : Right(x)' <=> Right(x)
    BY <1>0 DEF Right, LedTo
  <2>2. \A j \in 1 .. Len(found) : RightLine(j)
    BY <1>0 DEF Retraced
  <2>. QED BY <1>0, <2>1, <2>2 DEF RightLine
<1>6. CASE b = <<>>
  <2>1. PICK q : q = frames'
    OBVIOUS
  <2>2. q = <<>>
    BY <1>3, <1>6, <2>1 DEF Return
  <2>3. Len(q) = 0 /\ \A i \in 1 .. 0 : FALSE
    BY <2>2, EmptySeq
  <2>. QED BY <1>5, <2>1, <2>3 DEF Retraced
<1>7. CASE b # <<>>
  <2>1. n - 1 \in Nat \ {0}
    BY <1>1, <1>4, <1>7, EmptySeq
  <2>2. PICK m \in Nat \ {0} : m = n - 1
    BY <2>1
  <2>3. PICK q : q = frames'
    OBVIOUS
  <2>4. PICK caller \in FrameSet : caller = frames[m]
    <3>1. m \in 1 .. Len(frames)
      BY <1>1, <2>2
    <3>. QED BY <1>2, <3>1, ElementOfSeq
  <2>5. b[m] = caller /\ Len(b) = m /\ m \in 1 .. m
    BY <1>4, <2>2, <2>4
  <2>6. PICK x : x = Resume(caller)
    OBVIOUS
  <2>7. /\ x.dir = caller.dir /\ x.path = caller.savedPath
        /\ x.savedPath = caller.savedPath /\ x.zeros
    BY <2>4, <2>6 DEF Resume, FrameSet
  <2>8. q = [b EXCEPT ![m] = x]
    BY <1>3, <1>4, <1>7, <2>2, <2>3, <2>5, <2>6 DEF Return
  <2>9. Len(q) = m /\ q[m] = x /\ \A i \in 1 .. m - 1 : q[i] = frames[i]
    <3>1. x \in FrameSet \cup {x} /\ b \in Seq(FrameSet \cup {x})
      BY <1>4, SeqMonotonic
    <3>2. Len(q) = Len(b)
      BY <2>5, <2>8, <3>1, ExceptSeq
    <3>3. DOMAIN b = 1 .. m
      BY <1>4, <2>5, LenProperties
    <3>4. \A i \in 1 .. m - 1 : i \in 1 .. m /\ i # m /\ i \in 1 .. n - 1
      BY <2>2
    <3>. QED BY <1>4, <2>5, <2>8, <3>2, <3>3, <3>4
  <2>10. /\ \A i \in 1 .. m : i = m \/ i \in 1 .. m - 1
         /\ \A i \in 1 .. m : i \in 1 .. n
    BY <2>2
  <2>11. \A i \in 1 .. m : q[i].dir = frames[i].dir /\ q[i].savedPath = frames[i].savedPath
    BY <2>4, <2>7, <2>9, <2>10
  <2>12. ASSUME NEW i \in Int, Bare(i)', i <= m
         PROVE  Bare(i)
    <3>1. ASSUME NEW k \in 1 .. n, k <= i
          PROVE  k \in 1 .. m
      BY <2>12, <3>1
    <3>. QED BY <1>0, <1>1, <2>3, <2>9, <2>11, <2>12, <3>1 DEF Bare
  <2>13. ASSUME NEW i \in 1 .. m
         PROVE  /\ q[i].zeros
                /\ Bare(i - 1)' => Trail(disk, dirs, RootCluster, q[i].savedPath, q[i].dir)
                /\ Bare(i)' => q[i].path = q[i].savedPath
    <3>1. /\ frames[i].zeros
          /\ Bare(i - 1) => Trail(disk, dirs, RootCluster, frames[i].savedPath, frames[i].dir)
          /\ Bare(i) => frames[i].path = frames[i].savedPath
      BY <1>0, <1>1, <2>10 DEF Retraced
    <3>2. (Bare(i)' => Bare(i)) /\ (Bare(i - 1)' => Bare(i - 1))
      BY <2>12
    <3>3. CASE i = m
      BY <2>7, <2>9, <2>11, <3>1, <3>2, <3>3
    <3>4. CASE i \in 1 .. m - 1
      BY <2>9, <3>1, <3>2, <3>4
    <3>. QED BY <2>10, <3>3, <3>4
  <2>. QED BY <1>0, <1>5, <2>3, <2>9, <2>13 DEF Retraced
<1>. QED BY <1>6, <1>7

LEMMA BeginRetraced ==
  ASSUME Charted, Begin
  PROVE  Retraced'
<1>1. PICK x : x = Frame(RootCluster, disk[RootCluster], <<>>, clean')
  OBVIOUS
<1>2. /\ x.dir = RootCluster /\ x.path = <<>> /\ x.savedPath = <<>> /\ x.zeros = clean'
  BY <1>1 DEF Frame
<1>3. PICK q : q = frames'
  OBVIOUS
<1>4. q = <<x>> /\ Len(q) = 1 /\ q[1] = x
  BY <1>1, <1>3 DEF Begin
<1>5. UNCHANGED <<disk, dirs>> /\ found' = <<>> /\ Len(found') = 0
  BY EmptySeq DEF Begin, vars
<1>6. \A i \in 1 .. 1 : i = 1
  OBVIOUS
<1>7. \A i \in 1 .. 0 : FALSE
  OBVIOUS
<1>8. Trail(disk, dirs, RootCluster, <<>>, RootCluster)
  <2>1. RootCluster \in dirs
    BY DEF Charted, Orderly, Sound, DirsAreEnds
  <2>. QED BY <2>1, TrailEmpty
<1>. QED BY <1>2, <1>3, <1>4, <1>5, <1>6, <1>7, <1>8 DEF Retraced

LEMMA InitRetraced == WhereisInit => Retraced
BY DEF WhereisInit, Retraced

LEMMA RetracedStep ==
  ASSUME Misuse \subseteq CarefulKinds, NoFolderInData
  PROVE  Guided /\ Retraced /\ [WhereisNext]_allVars => Retraced'
<1>. SUFFICES ASSUME Charted, Searched, Retraced, [WhereisNext]_allVars
              PROVE  Retraced'
  BY DEF Guided
<1>1. CASE Change
  BY <1>1 DEF Change, searchVars, Retraced
<1>2. CASE Begin
  BY <1>2, BeginRetraced
<1>3. CASE Pass
  <2>1. /\ at = "search" /\ Top.slot \in Slots /\ Report
        /\ frames' = Advance([Top EXCEPT !.path = PathHere])
        /\ UNCHANGED <<disk, dirs, at, clean>>
    BY <1>3 DEF Pass, vars
  <2>. QED BY <2>1, PassedRetraced
<1>4. CASE Descend
  BY <1>4, DescendRetraced
<1>5. CASE Skip
  <2>1. /\ at = "search" /\ Top.slot \in Slots /\ Report
        /\ frames' = Advance([Top EXCEPT !.path = PathHere])
        /\ UNCHANGED <<disk, dirs, at, clean>>
    BY <1>5 DEF Skip, Ask, ReadDirectory
  <2>. QED BY <2>1, PassedRetraced
<1>6. CASE Return
  BY <1>6, ReturnRetraced
<1>7. CASE PrintFound
  BY <1>7 DEF PrintFound, Retraced
<1>8. CASE UNCHANGED allVars
  <2>1. UNCHANGED <<disk, dirs, at, frames, found, clean>>
    BY <1>8 DEF allVars, vars, searchVars
  <2>2. /\ \A i : Bare(i)' <=> Bare(i)
        /\ \A j : RightLine(j)' <=> RightLine(j)
    BY <2>1 DEF Bare, RightLine, Right, LedTo
  <2>. QED BY <2>1, <2>2 DEF Retraced
<1>. QED BY <1>1, <1>2, <1>3, <1>4, <1>5, <1>6, <1>7, <1>8 DEF WhereisNext

LEMMA GuidedLonePath == Guided /\ Retraced => LonePathIsRight
<1>. SUFFICES ASSUME Charted, Searched, Retraced, at = "done", clean
              PROVE  \A j \in DOMAIN found : RightLine(j)
  BY DEF Guided, LonePathIsRight, RightLine
<1>1. found \in Seq(LineSet)
  BY DEF Searched, Noted
<1>2. DOMAIN found = 1 .. Len(found)
  BY <1>1, LenProperties
<1>. QED BY <1>2 DEF Retraced

\* The path of a line before which nothing was found in its directory or in one
\* above leads to what was found: the search keeps its path through every
\* descent and return.  Again no content may look like a directory's entry.
THEOREM WhereisLonePathIsRight ==
  ASSUME Misuse \subseteq CarefulKinds
  PROVE  WhereisSpec => []LonePathIsRight
<1>1. CASE NoFolderInData
  <2>1. WhereisInit => Guided /\ Retraced
    BY InitGuided, InitRetraced
  <2>2. Guided /\ Retraced /\ [WhereisNext]_allVars => Guided' /\ Retraced'
    BY <1>1, GuidedStep, RetracedStep
  <2>. QED BY <2>1, <2>2, GuidedLonePath, PTL DEF WhereisSpec
<1>2. CASE ~ NoFolderInData
  <2>1. LonePathIsRight
    BY <1>2 DEF LonePathIsRight
  <2>. QED BY <2>1, PTL
<1>. QED BY <1>1, <1>2

\* The changes between searches leave the volume rooted and its files whole, and
\* the searches' questions, which ask clusters of data too, change nothing,
\* whatever those clusters hold.
THEOREM WhereisVolume ==
  ASSUME Misuse \subseteq CarefulKinds
  PROVE  WhereisSpec => [](Rooted /\ FilesWhole)
<1>1. Charted => Rooted /\ FilesWhole
  BY OrderlyRooted DEF Charted, Orderly
<1>2. WhereisInit => Charted
  BY InitCharted DEF WhereisInit
<1>. QED BY <1>1, <1>2, ChartedStep, PTL DEF WhereisSpec
=============================================================================
