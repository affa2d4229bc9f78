------------------------------ MODULE ShellProofs ------------------------------
(***************************************************************************)
(* What the shell's commands keep to, for every size of the volume, all    *)
(* names, paths of every length and any number of command lines: none of   *)
(* them calls the driver in a way that breaks the volume, takes the        *)
(* current directory away, or parts it from the path in the prompt.        *)
(***************************************************************************)
EXTENDS Shell, Fat32RootProofs

(***************************************************************************)
(* The volume the shell works on.  It may have lost directories from its   *)
(* tree, for rm takes one away whose first entry is free and another is    *)
(* not; what is lost leads to nothing that is not.                         *)
(***************************************************************************)
\* No set of directories is one whose members all lie in others of it.
Grounded(dk, ds) == \A D \in SUBSET ds : D \subseteq Below(dk, D) => D = {}

\* The key in a directory's own entry.
OwnKeys(dk, ds) ==
  /\ dk[RootCluster][SelfSlot].name = RootName
  /\ \A d \in ds : dk[d][SelfSlot].ext = NoExt

Shape(dk, ds) ==
  /\ ds \subseteq Parents \ {BOOT_SECTOR} /\ Tables(dk, ds) /\ Closed(dk, ds)
  /\ Grounded(dk, ds) /\ Blanks(dk, ds) /\ OwnKeys(dk, ds)

Settled == Sound /\ FilesWhole /\ Shape(disk, dirs)

\* An entry is made in a free slot, and a directory perhaps for it to lead to.
Entered(dk, dk2, ds, ds2, p, s) ==
  /\ p \in ds /\ s \in ChildSlots /\ dk[p][s].name = NoName
  /\ KeyedSlots(dk[p], dk2[p][s].name, dk2[p][s].ext) = {}
  /\ dk2[p][s].name # NoName /\ dk2[p][s].attr \in {"file", "dir"}
  /\ dk2[p][s].attr = "dir" => dk2[p][s].cluster \in ds2 \ ds
  /\ \A d \in ds, r \in Slots : ~ (d = p /\ r = s) => Same(dk2[d][r], dk[d][r])
  /\ ds \subseteq ds2 /\ ds2 \ ds \subseteq Parents \ {BOOT_SECTOR}
  /\ \A n \in ds2 \ ds :
       /\ dk2[n][SelfSlot].name # NoName /\ dk2[n][SelfSlot].ext = NoExt
       /\ dk2[n][SelfSlot].attr = "dir" /\ dk2[n][SelfSlot].cluster = n
       /\ \A r \in ChildSlots : dk2[n][r] = BlankEntry

\* An entry is taken away, with the directory it leads to if it leads to one.
Removed(dk, dk2, ds, ds2, p, s) ==
  /\ p \in ds /\ s \in ChildSlots
  /\ ds2 = ds \ {dk[p][s].cluster} /\ dk[p][s].cluster # RootCluster
  /\ dk[p][s].cluster \in ds => dk[p][s].attr = "dir"
  /\ \A d \in ds, r \in ChildSlots :
       dk[d][r].attr = "dir" /\ dk[d][r].cluster = dk[p][s].cluster => d = p /\ r = s
  /\ dk2[p][s] = BlankEntry
  /\ \A d \in ds, r \in Slots : ~ (d = p /\ r = s) => dk2[d][r] = dk[d][r]

LEMMA EnteredShape ==
  ASSUME NEW dk, NEW dk2, NEW ds, NEW ds2, NEW p, NEW s,
         Shape(dk, ds), Entered(dk, dk2, ds, ds2, p, s)
  PROVE  Shape(dk2, ds2)
<1>. USE SlotNumbers, BlankFields
<1>1. \A d \in ds : Same(dk2[d][SelfSlot], dk[d][SelfSlot])
  BY DEF Entered
<1>2. Tables(dk2, ds2)
  <2>1. ASSUME NEW d \in ds
        PROVE  /\ dk2[d][SelfSlot].name # NoName
               /\ dk2[d][SelfSlot].cluster = d
               /\ dk2[d][SelfSlot].attr = "dir"
    BY <1>1 DEF Same, Shape, Tables
  <2>2. ASSUME NEW d \in ds, NEW r \in ChildSlots
        PROVE  IF dk2[d][r].name = NoName THEN dk2[d][r].attr = "none"
                                          ELSE dk2[d][r].attr \in {"file", "dir"}
    <3>1. CASE d = p /\ r = s
      BY <3>1 DEF Entered
    <3>2. CASE ~ (d = p /\ r = s)
      <4>1. Same(dk2[d][r], dk[d][r])
        BY <3>2 DEF Entered
      <4>. QED BY <4>1 DEF Same, Shape, Tables
    <3>. QED BY <3>1, <3>2
  <2>. QED BY <2>1, <2>2 DEF Entered, Tables
<1>3. OwnKeys(dk2, ds2)
  BY <1>1 DEF Same, Shape, OwnKeys, Entered, Closed
<1>4. Blanks(dk2, ds2)
  <2>1. ASSUME NEW d \in ds, NEW r \in ChildSlots, dk2[d][r].name = NoName
        PROVE  dk2[d][r].cluster = 0
    <3>1. ~ (d = p /\ r = s)
      BY <2>1 DEF Entered
    <3>2. Same(dk2[d][r], dk[d][r])
      BY <3>1 DEF Entered
    <3>. QED BY <2>1, <3>2 DEF Same, Shape, Blanks
  <2>. QED BY <2>1 DEF Entered, Blanks
\* An entry that leads to a directory is an old one, or leads to the new one.
<1>5. ASSUME NEW D \in SUBSET ds2, NEW y \in Below(dk2, D)
      PROVE  y \in ds2 \ ds \/ y \in Below(dk, D \cap ds)
  <2>1. PICK d \in D, r \in ChildSlots : dk2[d][r].attr = "dir" /\ dk2[d][r].cluster = y
    BY BelowIs
  <2>2. d \in ds
    BY <2>1 DEF Entered
  <2>3. CASE d = p /\ r = s
    BY <2>1, <2>3 DEF Entered
  <2>4. CASE ~ (d = p /\ r = s)
    <3>1. Same(dk2[d][r], dk[d][r])
      BY <2>2, <2>4 DEF Entered
    <3>2. dk[d][r].attr = "dir" /\ dk[d][r].cluster = y /\ d \in D \cap ds
      BY <2>1, <2>2, <3>1 DEF Same
    <3>. QED BY <3>2, BelowIs
  <2>. QED BY <2>3, <2>4
<1>6. Closed(dk2, ds2)
  <2>1. ds2 \cap ds = ds
    BY DEF Entered
  <2>2. \A y \in Below(dk2, ds2) : y \in ds2 \ ds \/ y \in Below(dk, ds)
    BY <1>5, <2>1
  <2>. QED BY <2>1, <2>2 DEF Closed, Shape
<1>7. Grounded(dk2, ds2)
  <2>. SUFFICES ASSUME NEW D \in SUBSET ds2, D \subseteq Below(dk2, D)
                PROVE  D = {}
    BY DEF Grounded
  <2>1. D \cap ds \subseteq Below(dk, D \cap ds)
    BY <1>5
  <2>2. D \cap ds = {}
    BY <2>1 DEF Grounded, Shape
  <2>3. Below(dk2, D) = {}
    <3>. SUFFICES ASSUME NEW y \in Below(dk2, D) PROVE FALSE
      OBVIOUS
    <3>1. PICK d \in D, r \in ChildSlots : dk2[d][r].attr = "dir"
      BY BelowIs
    <3>. QED BY <2>2, <3>1 DEF Entered
  <2>. QED BY <2>3
<1>8. ds2 \subseteq Parents \ {BOOT_SECTOR}
  BY DEF Shape, Entered
<1>. QED BY <1>2, <1>3, <1>4, <1>6, <1>7, <1>8 DEF Shape

\* The search for a key that is there finds what it found.
LEMMA EnteredFinds ==
  ASSUME NEW dk, NEW dk2, NEW ds, NEW ds2, NEW p, NEW s,
         Shape(dk, ds), Entered(dk, dk2, ds, ds2, p, s),
         NEW d \in ds, NEW key,
         NEW r \in dir_table_search(dk[d], key[1], key[2]), dk[d][r].attr # "none"
  PROVE  r \in dir_table_search(dk2[d], key[1], key[2]) /\ Same(dk2[d][r], dk[d][r])
<1>. USE SlotNumbers
<1>1. r \in KeyedSlots(dk[d], key[1], key[2]) /\ r \in Slots /\ dk[d][r].name = key[1]
  BY DEF dir_table_search, First, KeyedSlots
<1>2. key[1] # NoName
  BY <1>1 DEF Shape, Tables, ChildSlots
<1>3. \A x \in Slots : ~ (d = p /\ x = s) => Same(dk2[d][x], dk[d][x])
  BY DEF Entered
<1>4. ASSUME d = p
      PROVE  /\ ~ (dk2[p][s].name = key[1] /\ dk2[p][s].ext = key[2])
             /\ ~ (dk[p][s].name = key[1] /\ dk[p][s].ext = key[2])
  BY <1>1, <1>2, <1>4 DEF Entered
<1>5. KeyedSlots(dk2[d], key[1], key[2]) = KeyedSlots(dk[d], key[1], key[2])
  BY <1>3, <1>4 DEF KeyedSlots, Same
<1>6. ~ (d = p /\ r = s)
  BY <1>1, <1>2 DEF Entered
<1>. QED BY <1>1, <1>3, <1>5, <1>6 DEF dir_table_search

LEMMA EnteredSpares ==
  ASSUME NEW dk, NEW dk2, NEW ds, NEW ds2, NEW p, NEW s,
         Shape(dk, ds), Entered(dk, dk2, ds, ds2, p, s),
         NEW d \in ds, NEW key, NEW y, Leading(dk, d, key, y)
  PROVE  Leading(dk2, d, key, y)
<1>1. PICK r \in dir_table_search(dk[d], key[1], key[2]) :
        dk[d][r].attr = "dir" /\ dk[d][r].cluster = y
  BY DEF Leading
<1>2. r \in dir_table_search(dk2[d], key[1], key[2]) /\ Same(dk2[d][r], dk[d][r])
  BY <1>1, EnteredFinds
<1>. QED BY <1>1, <1>2 DEF Leading, Same

LEMMA RemovedShape ==
  ASSUME NEW dk, NEW dk2, NEW ds, NEW ds2, NEW p, NEW s,
         Shape(dk, ds), Removed(dk, dk2, ds, ds2, p, s)
  PROVE  Shape(dk2, ds2)
<1>. USE SlotNumbers, BlankFields
<1>1. /\ \A d \in ds : dk2[d][SelfSlot] = dk[d][SelfSlot]
      /\ \A d \in ds, r \in ChildSlots : dk2[d][r] = dk[d][r] \/ dk2[d][r] = BlankEntry
      /\ ds2 \subseteq ds
  BY DEF Removed
<1>2. Tables(dk2, ds2)
  BY <1>1 DEF Shape, Tables
<1>3. Blanks(dk2, ds2)
  BY <1>1 DEF Shape, Blanks
<1>4. OwnKeys(dk2, ds2)
  BY <1>1 DEF Shape, OwnKeys, Closed
<1>5. ASSUME NEW D \in SUBSET ds2, NEW y \in Below(dk2, D)
      PROVE  y \in Below(dk, D) /\ y # dk[p][s].cluster
  <2>1. PICK d \in D, r \in ChildSlots : dk2[d][r].attr = "dir" /\ dk2[d][r].cluster = y
    BY BelowIs
  <2>2. d \in ds /\ ~ (d = p /\ r = s) /\ dk2[d][r] = dk[d][r]
    BY <1>1, <2>1 DEF Removed
  <2>3. y # dk[p][s].cluster
    BY <2>1, <2>2 DEF Removed
  <2>. QED BY <2>1, <2>2, <2>3, BelowIs
<1>6. Closed(dk2, ds2)
  <2>1. \A y \in Below(dk, ds2) : y \in Below(dk, ds)
    BY <1>1, BelowIs
  <2>. QED BY <1>5, <2>1 DEF Closed, Shape, Removed
<1>7. Grounded(dk2, ds2)
  <2>. SUFFICES ASSUME NEW D \in SUBSET ds2, D \subseteq Below(dk2, D)
                PROVE  D = {}
    BY DEF Grounded
  <2>1. D \subseteq Below(dk, D) /\ D \in SUBSET ds
    BY <1>1, <1>5
  <2>. QED BY <2>1 DEF Grounded, Shape
<1>8. ds2 \subseteq Parents \ {BOOT_SECTOR}
  BY <1>1 DEF Shape
<1>. QED BY <1>2, <1>3, <1>4, <1>6, <1>7, <1>8 DEF Shape

\* What is found behind no entry that is taken away stays.
LEMMA RemovedSpares ==
  ASSUME NEW dk, NEW dk2, NEW ds, NEW ds2, NEW p, NEW s,
         Shape(dk, ds), Removed(dk, dk2, ds, ds2, p, s),
         NEW d \in ds, NEW key, NEW y, Leading(dk, d, key, y), y # dk[p][s].cluster
  PROVE  Leading(dk2, d, key, y)
<1>. USE SlotNumbers, BlankFields
<1>1. PICK r \in dir_table_search(dk[d], key[1], key[2]) :
        dk[d][r].attr = "dir" /\ dk[d][r].cluster = y
  BY DEF Leading
<1>2. /\ r \in Slots /\ dk[d][r].name = key[1] /\ dk[d][r].ext = key[2]
      /\ \A x \in KeyedSlots(dk[d], key[1], key[2]) : r <= x
  BY DEF dir_table_search, First, KeyedSlots
<1>3. key[1] # NoName
  BY <1>1, <1>2 DEF Shape, Tables, ChildSlots
<1>4. ~ (d = p /\ r = s)
  BY <1>1
<1>5. \A x \in Slots : ~ (d = p /\ x = s) => dk2[d][x] = dk[d][x]
  BY DEF Removed
<1>6. KeyedSlots(dk2[d], key[1], key[2]) \subseteq KeyedSlots(dk[d], key[1], key[2])
  <2>1. d = p => dk2[d][s].name # key[1]
    BY <1>3 DEF Removed
  <2>. QED BY <1>5, <2>1 DEF KeyedSlots
<1>7. r \in dir_table_search(dk2[d], key[1], key[2])
  BY <1>2, <1>4, <1>5, <1>6 DEF dir_table_search, First, KeyedSlots
<1>. QED BY <1>1, <1>2, <1>4, <1>5, <1>7 DEF Leading

(***************************************************************************)
(* The calls of the driver on such a volume.                               *)
(***************************************************************************)
LEMMA InitSettled == Init => Settled
<1>. SUFFICES ASSUME Init PROVE Settled
  OBVIOUS
<1>1. Orderly
  BY InitOrderly
<1>2. RootCluster \in Clusters
  BY ClusterMapAssumption DEF Clusters, RootCluster, FirstCluster
<1>3. dirs = {RootCluster} /\ disk[RootCluster] = RootTable
  BY <1>2 DEF Init
<1>4. /\ RootTable[SelfSlot].name = RootName /\ RootTable[SelfSlot].ext = NoExt
      /\ \A s \in ChildSlots : RootTable[s] = BlankEntry
  BY SlotNumbers DEF RootTable, BlankTable, DirEntry, BlankEntry
<1>5. OwnKeys(disk, dirs) /\ Blanks(disk, dirs)
  BY <1>3, <1>4 DEF OwnKeys, Blanks, BlankEntry
<1>6. \A D \in SUBSET dirs : Below(disk, D) = {}
  <2>1. BlankEntry.attr # "dir"
    BY DEF BlankEntry
  <2>2. \A d \in dirs, s \in ChildSlots : disk[d][s].attr # "dir"
    BY <1>3, <1>4, <2>1
  <2>. QED BY <2>2 DEF Below
<1>7. dirs \subseteq Parents \ {BOOT_SECTOR}
  BY <1>3, ClusterMapAssumption DEF Parents, BOOT_SECTOR, RootCluster, FirstCluster
<1>. QED BY <1>1, <1>5, <1>6, <1>7 DEF Settled, Shape, Orderly, Tree, Grounded

LEMMA FolderEntered ==
  ASSUME Settled, NEW p \in dirs, NEW name \in Callable, NEW ext \in Exts,
         WriteFolder(p, name, ext)
  PROVE  \E s : Entered(disk, disk', dirs, dirs', p, s)
<1>1. PICK ch \in Chains(fat, 1), s \in ChildSlots :
        /\ ch[1] \in DataClusters /\ ch[1] \notin dirs
        /\ p \in dirs /\ dirs' = dirs \cup {ch[1]}
        /\ disk[p][s].name = NoName /\ name # NoName
        /\ disk'[ch[1]] = NewTable(name, ch[1])
        /\ disk'[p][s] = DirEntry(name, ext, ch[1])
        /\ \A r \in Slots : r # s => disk'[p][r] = disk[p][r]
        /\ \A c \in Clusters : c # p /\ c # ch[1] => disk'[c] = disk[c]
  BY FolderTables DEF Settled, Shape
<1>2. PICK n : n = ch[1]
  OBVIOUS
<1>3. /\ disk'[n][SelfSlot] = DirEntry(name, NoExt, n)
      /\ \A r \in ChildSlots : disk'[n][r] = BlankEntry
  BY <1>1, <1>2, SlotNumbers DEF NewTable, BlankTable
<1>4. \A d \in dirs, r \in Slots : ~ (d = p /\ r = s) => disk'[d][r] = disk[d][r]
  BY <1>1 DEF Settled, Sound, TypeOK
<1>5. \A c, x, e : /\ DirEntry(x, e, c).name = x
                   /\ DirEntry(x, e, c).ext = e
                   /\ DirEntry(x, e, c).attr = "dir"
                   /\ DirEntry(x, e, c).cluster = c
  BY DEF DirEntry, BlankEntry
<1>6. KeyedSlots(disk[p], name, ext) = {}
  BY SearchFails DEF WriteFolder, WriteCode, Exists
<1>7. n \in Parents \ {BOOT_SECTOR}
  BY <1>1, <1>2, ClusterMapAssumption DEF Parents, BOOT_SECTOR, DataClusters, RootCluster, FirstCluster
<1>8. disk'[n][SelfSlot].name = name /\ disk'[n][SelfSlot].ext = NoExt
  BY <1>3, <1>5
<1>. QED BY <1>1, <1>2, <1>3, <1>4, <1>5, <1>6, <1>7, <1>8 DEF Entered, Same

LEMMA FileEntered ==
  ASSUME Settled, NEW p \in dirs, NEW name \in Callable, NEW ext \in Exts,
         NEW size \in FileSizes, NEW d \in Datas, WriteFile(p, name, ext, size, d)
  PROVE  \E s : Entered(disk, disk', dirs, dirs', p, s)
<1>1. size \in Nat \ {0} /\ Needed(size) = size + 1 /\ p \in dirs /\ UNCHANGED dirs
  BY FileTables DEF Settled, Shape
<1>2. PICK ch \in Chains(fat, Needed(size)), s \in ChildSlots :
        /\ disk[p][s].name = NoName /\ name # NoName
        /\ Same(disk'[p][s], FileEntry(name, ext, ch[1], size))
        /\ \A r \in Slots : r # s => Same(disk'[p][r], disk[p][r])
        /\ \A c \in Clusters :
             c # p /\ (\A i \in 1 .. size : c # ch[i]) => disk'[c] = disk[c]
  BY FileTables DEF Settled, Shape
<1>3. \A i \in 1 .. size : ch[i] \notin dirs
  <2>1. \A i \in 1 .. size : i \in 1 .. Needed(size) /\ Needed(size) \in Nat \ {0}
    BY <1>1
  <2>2. \A i \in 1 .. size : fat[ch[i]] = EMPTY
    BY <2>1, ChainClusters
  <2>. QED BY <2>2 DEF Settled, Sound, DirsAreEnds, EMPTY, EOF
<1>4. ASSUME NEW c \in dirs, NEW r \in Slots, ~ (c = p /\ r = s)
      PROVE  Same(disk'[c][r], disk[c][r])
  <2>1. CASE c = p
    BY <1>2, <1>4, <2>1
  <2>2. CASE c # p
    <3>1. disk'[c] = disk[c]
      BY <1>2, <1>3, <2>2 DEF Settled, Sound, TypeOK
    <3>. QED BY <3>1 DEF Same
  <2>. QED BY <2>1, <2>2
<1>5. disk'[p][s].name = name /\ disk'[p][s].ext = ext /\ disk'[p][s].attr = "file"
  BY <1>2 DEF Same, FileEntry
<1>6. KeyedSlots(disk[p], name, ext) = {}
  BY SearchFails DEF WriteFile, WriteCode, Exists
<1>. QED BY <1>1, <1>2, <1>4, <1>5, <1>6 DEF Entered

LEMMA DeleteRemoved ==
  ASSUME Settled, NEW p \in Parents, NEW name, NEW ext, Aimed(p, name, ext),
         DeleteEntry(p, name, ext)
  PROVE  \E s : Removed(disk, disk', dirs, dirs', p, s)
<1>1. PICK s \in ChildSlots :
        LET x == disk[p][s].cluster
        IN  /\ p \in dirs /\ <<p, s>> \in Entries
            /\ x \in DataClusters
            /\ dirs' = dirs \ {x}
            /\ disk' = [disk EXCEPT ![p] = [disk[p] EXCEPT ![s] = BlankEntry]]
  BY DeleteTables DEF Settled
<1>2. PICK x : x = disk[p][s].cluster
  OBVIOUS
<1>3. /\ p \in dirs /\ <<p, s>> \in Entries /\ x \in DataClusters /\ dirs' = dirs \ {x}
      /\ disk[p][s].name # NoName /\ x # RootCluster
      /\ dirs \subseteq Clusters /\ disk \in [Clusters -> Table] /\ s \in Slots
  BY <1>1, <1>2, SlotNumbers, ClusterMapAssumption
  DEF Settled, Sound, TypeOK, Entries, DataClusters, FirstCluster, RootCluster
<1>4. /\ disk'[p][s] = BlankEntry
      /\ \A d \in dirs, r \in Slots : ~ (d = p /\ r = s) => disk'[d][r] = disk[d][r]
  BY <1>1, <1>3 DEF Table
<1>5. ASSUME NEW d \in dirs, NEW r \in ChildSlots,
             disk[d][r].attr = "dir", disk[d][r].cluster = x
      PROVE  d = p /\ r = s
  <2>1. <<d, r>> \in Entries
    BY <1>5 DEF Settled, Shape, Tables, Entries
  <2>2. Target(<<d, r>>) = x /\ Target(<<p, s>>) = x
    BY <1>2, <1>5 DEF Target
  <2>3. <<d, r>> = <<p, s>>
    BY <1>3, <2>1, <2>2 DEF Settled, Sound, UniqueOwner
  <2>. QED BY <2>3
\* A file's first cluster is linked on; a directory's is not.
<1>6. ASSUME disk[p][s].attr # "dir"
      PROVE  x \notin dirs
  <2>1. disk[p][s].attr = "file"
    BY <1>3, <1>6 DEF Settled, Shape, Tables
  <2>. QED BY <1>1, <1>2, <2>1, FileCluster DEF Settled
<1>. QED BY <1>1, <1>2, <1>3, <1>4, <1>5, <1>6 DEF Removed

(***************************************************************************)
(* The system calls of the shell, from its directories and with keys.      *)
(***************************************************************************)
Key == Callable \X Exts

\* The buffer after a read that gives data begins with a caller's data.
Answered == got.data # <<>> => got.data[1][1] \in Datas

\* What a call leaves of the directories when it removes nothing.
Spared ==
  /\ dirs \subseteq dirs'
  /\ \A d \in dirs : disk'[d][SelfSlot].name = disk[d][SelfSlot].name
  /\ \A d \in dirs : \A key, y : Leading(disk, d, key, y) => Leading(disk', d, key, y)

LEMMA StillSettled ==
  ASSUME Settled, UNCHANGED <<fat, disk, dirs>>, ret' \in -1 .. 3, overrun' \in BOOLEAN
  PROVE  Settled' /\ Spared
<1>1. Settled'
  <2>1. Sound'
    BY DEF Settled, Sound, TypeOK, DirsAreEnds, NoDangling, UniqueOwner, Entries, Target
  <2>2. FilesWhole'
    BY UnchangedWhole DEF Settled
  <2>. QED BY <2>1, <2>2 DEF Settled
<1>2. Spared
  BY DEF Spared
<1>. QED BY <1>1, <1>2

LEMMA CallReadDirectoryKeeps ==
  ASSUME Settled, NEW p, NEW key, CallReadDirectory(p, key)
  PROVE  Settled' /\ Spared /\ Answered' /\ UNCHANGED <<fat, disk, dirs, overrun>>
<1>1. UNCHANGED <<fat, disk, dirs, overrun>> /\ ret' \in {0, 1, 2}
  BY DEF CallReadDirectory, ReadDirectory
<1>2. got'.data = <<>>
  BY DEF CallReadDirectory, ReadDirectory, Nothing, List
<1>. QED BY <1>1, <1>2, StillSettled DEF Answered, Settled, Sound, TypeOK

LEMMA CallReadKeeps ==
  ASSUME Settled, Answered, NEW p \in dirs, NEW key, CallRead(p, key)
  PROVE  Settled' /\ Spared /\ Answered' /\ UNCHANGED <<fat, disk, dirs>>
<1>1. UNCHANGED <<fat, disk, dirs>> /\ ret' \in -1 .. 3 /\ overrun' \in BOOLEAN
  <2>1. \A e : ReadCode(e, 1) \in -1 .. 3
    BY DEF ReadCode
  <2>2. ret \in -1 .. 3 /\ overrun \in BOOLEAN
    BY DEF Settled, Sound, TypeOK
  <2>3. CASE ReadFile(p, key[1], key[2], 1)
    BY <2>2, <2>3 DEF ReadFile
  <2>4. CASE ReadRefused(p, key[1], key[2], 1)
    BY <2>1, <2>2, <2>4 DEF ReadRefused
  <2>5. CASE ReadOverrun(p, key[1], key[2], 1)
    BY <2>2, <2>5 DEF ReadOverrun
  <2>. QED BY <2>3, <2>4, <2>5 DEF CallRead
<1>2. Answered'
  <2>1. CASE ReadFile(p, key[1], key[2], 1)
    <3>1. PICK s \in dir_table_search(disk[p], key[1], key[2]) :
            /\ ReadCode(disk[p][s], 1) = 0
            /\ \E k \in ChainLengths(fat, disk[p][s].cluster) :
                 got' = Data(Content(disk, fat, disk[p][s].cluster, k))
      BY <2>1 DEF ReadFile
    <3>2. PICK c : c = disk[p][s].cluster
      OBVIOUS
    <3>3. PICK k \in ChainLengths(fat, c) : got' = Data(Content(disk, fat, c, k))
      BY <3>1, <3>2
    <3>4. disk[p][s].attr = "file" /\ s \in Slots
      BY <3>1 DEF ReadCode, dir_table_search, First, KeyedSlots
    <3>5. s \in ChildSlots /\ disk[p][s].name # NoName
      BY <3>4 DEF ChildSlots, Settled, Shape, Tables
    <3>6. <<p, s>> \in Entries
      BY <3>5 DEF Entries
    <3>7. PICK n : n = disk[p][s].size
      OBVIOUS
    <3>8. FileAt(fat, disk, c, n)
      BY <3>2, <3>4, <3>6, <3>7, FileCluster DEF Settled
    <3>9. k = n /\ n \in 1 .. ClusterMapSize
      BY <3>3, <3>8, StoredContent
    <3>10. PICK d \in Datas : Content(disk, fat, c, n) = Stored(d, n)
      BY <3>8, StoredContent
    <3>11. Stored(d, n)[1][1] = d
      BY <3>9, ClusterMapAssumption DEF Stored
    <3>12. got'.data = Stored(d, n)
      BY <3>3, <3>9, <3>10 DEF Data, Nothing
    <3>. QED BY <3>11, <3>12 DEF Answered
  <2>2. CASE ReadRefused(p, key[1], key[2], 1)
    BY <2>2 DEF ReadRefused, Answered, Nothing
  <2>3. CASE ReadOverrun(p, key[1], key[2], 1)
    BY <2>3 DEF ReadOverrun, Answered
  <2>. QED BY <2>1, <2>2, <2>3 DEF CallRead
<1>. QED BY <1>1, <1>2, StillSettled

LEMMA CallWriteKeeps ==
  ASSUME Settled, Answered, NEW p \in dirs, NEW key \in Key, NEW size \in {0, 1},
         NEW d \in Datas, CallWrite(p, key, size, d)
  PROVE  Settled' /\ Spared /\ Answered'
<1>1. PICK name \in Callable, ext \in Exts : name = key[1] /\ ext = key[2]
  BY DEF Key
<1>2. p \in Parents /\ size \in FileSizes
  BY ShellAssumption, SizeAssumption DEF Settled, Shape, FileSizes
<1>3. Answered'
  BY DEF CallWrite, WriteRefused, WriteFolder, WriteFile, WriteOverrun, Answered, Nothing
<1>4. Call(p, name, ext)
  BY <1>1, <1>2 DEF Call, CallWrite
<1>5. \/ UNCHANGED <<fat, disk, dirs>>
      \/ WriteFolder(p, name, ext)
      \/ WriteFile(p, name, ext, size, d)
  BY <1>1 DEF CallWrite, WriteRefused, WriteOverrun
<1>6. Sound' /\ FilesWhole'
  <2>1. Harmless(p, name, ext)
    BY <1>2, <1>5 DEF Harmless
  <2>. QED BY <1>2, <1>4, <2>1, HarmlessSound, HarmlessWhole DEF Settled
<1>7. CASE UNCHANGED <<fat, disk, dirs>>
  BY <1>3, <1>6, <1>7, StillSettled DEF Sound, TypeOK
<1>8. CASE WriteFolder(p, name, ext) \/ WriteFile(p, name, ext, size, d)
  <2>1. PICK s : Entered(disk, disk', dirs, dirs', p, s)
    BY <1>2, <1>8, FolderEntered, FileEntered
  <2>2. PICK dk, ds : dk = disk' /\ ds = dirs'
    OBVIOUS
  <2>3. Entered(disk, dk, dirs, ds, p, s) /\ Shape(disk, dirs)
    BY <2>1, <2>2 DEF Settled
  <2>4. Shape(dk, ds)
    BY <2>3, EnteredShape
  <2>5. \A b \in dirs : \A k, y : Leading(disk, b, k, y) => Leading(dk, b, k, y)
    BY <2>3, EnteredSpares
  <2>6. dirs \subseteq ds /\ \A b \in dirs : dk[b][SelfSlot].name = disk[b][SelfSlot].name
    BY <2>3, SlotNumbers DEF Entered, Same
  <2>. QED BY <1>3, <1>6, <2>2, <2>4, <2>5, <2>6 DEF Settled, Spared
<1>. QED BY <1>5, <1>7, <1>8

\* What delete() leaves, asked for what the directory has.
Pruned(p) ==
  \/ UNCHANGED <<fat, disk, dirs>>
  \/ \E s : Removed(disk, disk', dirs, dirs', p, s)

LEMMA CallDeleteKeeps ==
  ASSUME Settled, Answered, NEW p \in dirs, NEW key \in Key,
         Aimed(p, key[1], key[2]), CallDelete(p, key)
  PROVE  Settled' /\ Answered' /\ Pruned(p)
<1>1. PICK name \in Callable, ext \in Exts : name = key[1] /\ ext = key[2]
  BY DEF Key
<1>2. p \in Parents /\ Aimed(p, name, ext)
  BY <1>1 DEF Settled, Shape
<1>3. Answered'
  BY DEF CallDelete, DeleteMissing, DeleteRefused, DeleteEntry, DeleteChain, DeleteOverrun,
         Answered, Nothing
<1>4. Call(p, name, ext)
  BY <1>1 DEF Call, CallDelete
<1>5. UNCHANGED <<fat, disk, dirs>> \/ DeleteEntry(p, name, ext)
  <2>1. ~ DeleteChain(p, name, ext)
    BY <1>2, NoChainDeleted DEF DeleteChain, Settled
  <2>. QED BY <1>1, <2>1 DEF CallDelete, DeleteMissing, DeleteRefused, DeleteOverrun
<1>6. Sound' /\ FilesWhole'
  <2>1. Harmless(p, name, ext)
    BY <1>2, <1>5 DEF Harmless
  <2>. QED BY <1>2, <1>4, <2>1, HarmlessSound, HarmlessWhole DEF Settled
<1>7. CASE UNCHANGED <<fat, disk, dirs>>
  BY <1>3, <1>6, <1>7, StillSettled DEF Sound, TypeOK, Pruned
<1>8. CASE DeleteEntry(p, name, ext)
  <2>1. PICK s : Removed(disk, disk', dirs, dirs', p, s)
    BY <1>2, <1>8, DeleteRemoved
  <2>2. PICK dk, ds : dk = disk' /\ ds = dirs'
    OBVIOUS
  <2>3. Removed(disk, dk, dirs, ds, p, s) /\ Shape(disk, dirs)
    BY <2>1, <2>2 DEF Settled
  <2>4. Shape(dk, ds)
    BY <2>3, RemovedShape
  <2>. QED BY <1>3, <1>6, <2>1, <2>2, <2>4 DEF Settled, Pruned
<1>. QED BY <1>5, <1>7, <1>8

(***************************************************************************)
(* Where a path leads.                                                     *)
(***************************************************************************)
LEMMA LeadsPaced ==
  ASSUME NEW c, NEW path, NEW n \in Nat, n = Len(path)
  PROVE  \E w : Leads(c, path) = w[n] /\ Paced(disk, c, path, w, n)
<1>1. PICK w : w = CHOOSE g : Paced(disk, c, path, g, Len(path))
  OBVIOUS
<1>2. Leads(c, path) = w[n]
  BY <1>1 DEF Leads, Paced, Onward
<1>3. Paced(disk, c, path, w, n)
  BY <1>1, PacedExists
<1>. QED BY <1>2, <1>3

\* An entry that is found under a key leads to a directory.
LEMMA LeadingLive ==
  ASSUME NEW dk, NEW ds, Shape(dk, ds), NEW d \in ds, NEW key, NEW y, Leading(dk, d, key, y)
  PROVE  y \in ds /\ (y = d \/ y \in Below(dk, {d}))
<1>1. PICK s \in dir_table_search(dk[d], key[1], key[2]) :
        dk[d][s].attr = "dir" /\ dk[d][s].cluster = y
  BY DEF Leading
<1>2. CASE s = SelfSlot
  BY <1>1, <1>2 DEF Shape, Tables
<1>3. CASE s # SelfSlot
  <2>1. s \in ChildSlots
    BY <1>1, <1>3 DEF ChildSlots, dir_table_search, First, KeyedSlots
  <2>2. y \in Below(dk, ds) /\ y \in Below(dk, {d})
    BY <1>1, <2>1, BelowIs
  <2>. QED BY <2>2 DEF Shape, Closed
<1>. QED BY <1>2, <1>3

\* A path from a directory leads to directories.
LEMMA LeadsLive ==
  ASSUME Shape(disk, dirs), NEW c \in dirs, NEW path \in Seq(Key)
  PROVE  Leads(c, path) \subseteq dirs
<1>0. PICK len \in Nat : len = Len(path)
  OBVIOUS
<1>1. PICK w : Leads(c, path) = w[len] /\ Paced(disk, c, path, w, len)
  BY <1>0, LeadsPaced
<1>2. w[0] = {c} /\ \A i \in 1 .. len : w[i] = Onward(disk, path[i], w[i - 1])
  BY <1>1, PacedSteps
<1>. DEFINE Bad == {i \in 0 .. len : ~ (w[i] \subseteq dirs)}
<1>3. SUFFICES ASSUME Bad # {} PROVE FALSE
  BY <1>1
<1>4. PICK n \in Bad : \A m \in Bad : n <= m
  <2>1. Bad \subseteq Nat
    OBVIOUS
  <2>. HIDE DEF Bad
  <2>. QED BY <1>3, <2>1, LeastOf
<1>5. n # 0
  BY <1>2, <1>4
<1>6. n \in 1 .. len /\ n - 1 \in 0 .. len /\ ~ (n <= n - 1)
  BY <1>4, <1>5
<1>7. w[n - 1] \subseteq dirs
  BY <1>4, <1>6
<1>8. ASSUME NEW y \in Onward(disk, path[n], w[n - 1])
      PROVE  y \in dirs
  <2>1. PICK key : key = path[n]
    OBVIOUS
  <2>2. PICK d \in w[n - 1] : Leading(disk, d, key, y)
    BY <1>8, <2>1, OnwardIs
  <2>. QED BY <1>7, <2>2, LeadingLive
<1>. QED BY <1>2, <1>4, <1>6, <1>8

\* The tables a name leads to from a directory are those of directories.
LEMMA TablesNamed ==
  ASSUME Shape(disk, dirs), NEW p \in dirs, NEW key, NEW t \in TableNamed(p, key)
  PROVE  \E y \in dirs : t = disk[y] /\ ClusterOf(t) = y /\ Leading(disk, p, key, y)
<1>1. PICK s \in dir_table_search(disk[p], key[1], key[2]) :
        disk[p][s].attr = "dir" /\ t = disk[disk[p][s].cluster]
  BY DEF TableNamed
<1>2. PICK y : y = disk[p][s].cluster
  OBVIOUS
<1>3. Leading(disk, p, key, y)
  BY <1>1, <1>2 DEF Leading
<1>4. y \in dirs
  BY <1>3, LeadingLive
<1>. QED BY <1>1, <1>2, <1>3, <1>4 DEF ClusterOf, Shape, Tables

\* A directory finds itself under its own name.
LEMMA OwnTable ==
  ASSUME Shape(disk, dirs), NEW p \in dirs, NEW name, name = disk[p][SelfSlot].name
  PROVE  TableNamed(p, <<name, NoExt>>) = {disk[p]}
<1>1. /\ SelfSlot \in KeyedSlots(disk[p], name, NoExt)
      /\ \A s \in Slots : SelfSlot <= s
  BY SlotNumbers, SlotAssumption DEF KeyedSlots, Shape, OwnKeys, Slots, SelfSlot
<1>2. dir_table_search(disk[p], name, NoExt) = {SelfSlot}
  BY <1>1, SlotAssumption DEF dir_table_search, First, KeyedSlots, Slots, SelfSlot
<1>3. disk[p][SelfSlot].attr = "dir" /\ disk[p][SelfSlot].cluster = p
  BY DEF Shape, Tables
<1>4. PICK key : key = <<name, NoExt>>
  OBVIOUS
<1>5. key[1] = name /\ key[2] = NoExt
  BY <1>4
<1>6. TableNamed(p, key) = {disk[p]}
  BY <1>2, <1>3, <1>5 DEF TableNamed
<1>. QED BY <1>4, <1>6

(***************************************************************************)
(* The invariant of the shell.  It works in a live directory and with      *)
(* copies of tables of live directories, and what it is about to ask       *)
(* delete() for is in the directory and is not the directory's own name.   *)
(***************************************************************************)
Command ==
  [ name : {"none", "cd", "rm", "cp", "mv"}, cl : Datas,
    src : Key, dst : Key, from : Key,
    table : Table, path : Seq(Key), rest : Seq(Key), due : Nat ]

BootCall == Seq(Key) \X Key \X {0, 1}

\* A table that once was that of directory d, which still has its name.
Copied(dk, ds, t, d) ==
  /\ t \in Table /\ d \in ds
  /\ ClusterOf(t) = d
  /\ t[SelfSlot].name = dk[d][SelfSlot].name

Housed ==
  /\ currenDir \in dirs
  /\ curDirName \in Seq(Key)
  /\ ~ Up => currenDir = RootCluster /\ curDirName = <<>>
  /\ Up => /\ Copied(disk, dirs, curTable, currenDir)
           /\ Copied(disk, dirs, rootTable, RootCluster)

\* A name that may be asked to be removed from the current directory.
Removable(key) == key[1] # NoName /\ key[1] # disk[currenDir][SelfSlot].name

Walks == {"up", "down", "mv_up", "mv_down", "mv_probe", "mv_write"}
Removals == {"mv_up", "mv_down", "mv_probe", "mv_write", "look", "delete"}

Errand ==
  /\ at = "boot" => /\ cmd = [NoCommand EXCEPT !.rest = cmd.rest]
                    /\ cmd.rest \in Seq(BootCall) /\ cmd.rest # <<>>
  /\ at \in {"start", "refresh", "prompt"} => cmd = NoCommand
  /\ Up => cmd \in Command
  /\ at \in Walks => Copied(disk, dirs, cmd.table, ClusterOf(cmd.table))
  /\ at \in Removals \/ (at = "copy" /\ cmd.name = "mv") => Removable(cmd.src)
  /\ at = "delete" =>
       KeyedSlots(disk[currenDir], cmd.src[1], cmd.src[2]) \cap ChildSlots # {}

Homed == Settled /\ Answered /\ Housed /\ Errand

LEMMA NoCommandType == NoCommand \in Command /\ NoCommand.path = <<>>
<1>1. NoKey \in Key
  BY NameAssumption DEF NoKey, Key, Callable
<1>2. Zeros \in Datas
  BY ShellAssumption
<1>. QED BY <1>1, <1>2, BlankTableType DEF NoCommand, Command, NoKey

\* A command that is done leaves no errand.
LEMMA ReturnErrand ==
  ASSUME Return
  PROVE  Errand'
<1>1. at' = "refresh" /\ cmd' = NoCommand
  BY DEF Return
<1>2. cmd' \in Command
  BY <1>1, NoCommandType
<1>. QED BY <1>1, <1>2 DEF Errand, Walks, Removals

\* Copies stay copies as long as nothing is removed.
LEMMA SparedCopies ==
  ASSUME Spared
  PROVE  \A t, d : Copied(disk, dirs, t, d) => Copied(disk', dirs', t, d)
BY DEF Spared, Copied

\* The shell stays where it is.
LEMMA SparedHoused ==
  ASSUME Housed, Spared, SamePlace, Up, Up'
  PROVE  Housed'
<1>1. /\ Copied(disk', dirs', curTable, currenDir)
      /\ Copied(disk', dirs', rootTable, RootCluster)
  BY SparedCopies DEF Housed
<1>2. currenDir \in dirs'
  BY DEF Housed, Spared
<1>. QED BY <1>1, <1>2 DEF Housed, SamePlace

\* The table of a directory is a copy of it.
LEMMA OwnCopy ==
  ASSUME Settled, NEW y \in dirs
  PROVE  Copied(disk, dirs, disk[y], y) /\ ClusterOf(disk[y]) = y
<1>1. y \in Clusters /\ disk[y] \in Table
  BY DEF Settled, Sound, TypeOK
<1>. QED BY <1>1 DEF Copied, ClusterOf, Settled, Shape, Tables

LEMMA NoCallKeeps ==
  ASSUME Settled, Answered, UNCHANGED vars
  PROVE  Settled' /\ Spared /\ Answered' /\ UNCHANGED <<disk, dirs>>
<1>1. UNCHANGED <<fat, disk, dirs>> /\ ret' \in -1 .. 3 /\ overrun' \in BOOLEAN
  BY DEF vars, Settled, Sound, TypeOK
<1>. QED BY <1>1, StillSettled DEF Answered, vars

(***************************************************************************)
(* Boot and the main loop.                                                 *)
(***************************************************************************)
LEMMA InitHomed == ShellInit => Homed
<1>. SUFFICES ASSUME ShellInit PROVE Homed
  OBVIOUS
<1>1. Settled /\ Answered
  BY InitSettled DEF ShellInit, Answered, Init, Nothing
<1>2. ~ Up /\ at = "boot" /\ cmd = [NoCommand EXCEPT !.rest = BootScript]
  BY DEF ShellInit, Up
<1>3. Housed
  BY <1>1, <1>2 DEF Housed, ShellInit, Settled, Shape, Closed
<1>4. BootScript \in Seq(BootCall) /\ BootScript # <<>>
  <2>1. PICK home, nested, deep, file : /\ home = <<ikanaide, NoExt>> /\ nested = <<cicak, NoExt>>
                                        /\ deep = <<cakcok, NoExt>> /\ file = <<filefile, exe>>
    OBVIOUS
  <2>2. home \in Key /\ nested \in Key /\ deep \in Key /\ file \in Key
    BY <2>1, ShellAssumption, NameAssumption DEF Key, Callable
  <2>3. <<>> \in Seq(Key) /\ <<home>> \in Seq(Key) /\ <<home, nested>> \in Seq(Key)
    BY <2>2
  <2>4. /\ <<<<>>, home, 0>> \in BootCall /\ <<<<>>, file, 1>> \in BootCall
        /\ <<<<home>>, file, 1>> \in BootCall /\ <<<<home>>, deep, 0>> \in BootCall
        /\ <<<<home>>, nested, 0>> \in BootCall /\ <<<<home, nested>>, file, 1>> \in BootCall
    BY <2>2, <2>3 DEF BootCall
  <2>5. BootScript = << <<<<>>, home, 0>>, <<<<>>, file, 1>>, <<<<home>>, file, 1>>,
                        <<<<home>>, deep, 0>>, <<<<home>>, nested, 0>>,
                        <<<<home, nested>>, file, 1>> >>
    BY <2>1 DEF BootScript
  <2>6. \A a, b, c, d, e, f \in BootCall : /\ <<a, b, c, d, e, f>> \in Seq(BootCall)
                                           /\ <<a, b, c, d, e, f>> # <<>>
    OBVIOUS
  <2>. QED BY <2>4, <2>5, <2>6
<1>5. Errand
  <2>1. cmd.rest = BootScript
    BY <1>2 DEF NoCommand
  <2>. QED BY <1>2, <1>4, <2>1 DEF Errand, Up, Walks, Removals
<1>. QED BY <1>1, <1>3, <1>5 DEF Homed

LEMMA BootHomed ==
  ASSUME Homed, Boot
  PROVE  Homed' /\ Spared
<1>1. at = "boot" /\ cmd = [NoCommand EXCEPT !.rest = cmd.rest]
      /\ cmd.rest \in Seq(BootCall) /\ cmd.rest # <<>> /\ ~ Up
  BY DEF Homed, Errand, Boot, Point, Up
<1>2. PICK next : next = Head(cmd.rest)
  OBVIOUS
<1>3. next \in BootCall /\ Tail(cmd.rest) \in Seq(BootCall) /\ Len(cmd.rest) \in Nat
      /\ (Len(cmd.rest) = 1 <=> Tail(cmd.rest) = <<>>)
  <2>1. PICK rest \in Seq(BootCall) : rest = cmd.rest /\ rest # <<>>
    BY <1>1
  <2>2. /\ Head(rest) \in BootCall /\ Tail(rest) \in Seq(BootCall)
        /\ Len(Tail(rest)) = Len(rest) - 1 /\ Len(rest) \in Nat
    BY <2>1, HeadTailProperties, LenProperties
  <2>3. Len(rest) = 1 <=> Tail(rest) = <<>>
    <3>1. PICK tail \in Seq(BootCall) : tail = Tail(rest) /\ Len(tail) = Len(rest) - 1
      BY <2>2
    <3>2. tail = <<>> <=> Len(tail) = 0
      BY <3>1, EmptySeq
    <3>. QED BY <2>2, <3>1, <3>2
  <2>. QED BY <1>2, <2>1, <2>2, <2>3
<1>4. next[1] \in Seq(Key) /\ next[2] \in Key /\ next[3] \in {0, 1}
  BY <1>3 DEF BootCall
<1>5. PICK p \in Leads(RootCluster, next[1]) : CallWrite(p, next[2], next[3], Letters)
  BY <1>2 DEF Boot
<1>6. RootCluster \in dirs /\ Shape(disk, dirs)
  BY DEF Homed, Settled, Shape, Closed
<1>7. p \in dirs
  BY <1>4, <1>5, <1>6, LeadsLive
<1>8. Settled' /\ Spared /\ Answered'
  <2>1. PICK key \in Key, size \in {0, 1} : key = next[2] /\ size = next[3]
    BY <1>4
  <2>2. Letters \in Datas
    BY ShellAssumption
  <2>3. CallWrite(p, key, size, Letters)
    BY <1>5, <2>1
  <2>. QED BY <1>7, <2>2, <2>3, CallWriteKeeps DEF Homed
<1>9. at' \in {"boot", "start"} /\ (at' = "start" <=> Len(cmd.rest) = 1)
      /\ cmd' = [cmd EXCEPT !.rest = Tail(@)] /\ SamePlace
  BY <1>1 DEF Boot
<1>10. Housed'
  BY <1>1, <1>8, <1>9 DEF Homed, Housed, SamePlace, Up, Spared
<1>11. Errand'
  <2>1. cmd' = [NoCommand EXCEPT !.rest = Tail(cmd.rest)] /\ cmd'.rest = Tail(cmd.rest)
    BY <1>1, <1>9 DEF NoCommand
  <2>2. Tail(cmd.rest) = <<>> => cmd' = NoCommand
    BY <2>1 DEF NoCommand
  <2>. QED BY <1>3, <1>9, <2>1, <2>2 DEF Errand, Up, Walks, Removals
<1>. QED BY <1>8, <1>10, <1>11 DEF Homed

LEMMA StartHomed ==
  ASSUME Homed, Start
  PROVE  Homed' /\ Spared
<1>1. at = "start" /\ currenDir = RootCluster /\ cmd = NoCommand /\ ~ Up
  BY DEF Homed, Errand, Housed, Start, Point, Up
<1>2. Settled' /\ Spared /\ Answered' /\ UNCHANGED <<fat, disk, dirs>>
  BY CallReadDirectoryKeeps DEF Start, Homed
<1>3. Copied(disk, dirs, disk[RootCluster], RootCluster)
  BY OwnCopy DEF Homed, Settled, Shape, Closed
<1>4. Housed'
  BY <1>1, <1>2, <1>3 DEF Homed, Housed, Start
<1>5. Errand'
  BY <1>1, NoCommandType DEF Start, Errand, Walks, Removals
<1>. QED BY <1>2, <1>4, <1>5 DEF Homed

LEMMA RefreshHomed ==
  ASSUME Homed, Refresh
  PROVE  Homed' /\ Spared /\ rootTable' = disk'[RootCluster]
<1>1. at = "refresh" /\ cmd = NoCommand /\ Up /\ at' = "prompt" /\ Up'
  BY DEF Homed, Errand, Refresh, Point, Up
<1>2. Settled' /\ Spared /\ Answered' /\ UNCHANGED <<fat, disk, dirs>>
  BY CallReadDirectoryKeeps DEF Refresh, Homed
<1>3. rootTable' = disk[RootCluster]
  BY OwnTable DEF Refresh, Homed, Settled, Shape, Closed, OwnKeys
<1>4. Copied(disk, dirs, disk[RootCluster], RootCluster)
  BY OwnCopy DEF Homed, Settled, Shape, Closed
<1>5. Housed'
  BY <1>1, <1>2, <1>3, <1>4 DEF Homed, Housed, Refresh
<1>6. Errand'
  BY <1>1, NoCommandType DEF Refresh, Errand, Walks, Removals
<1>. QED BY <1>2, <1>3, <1>5, <1>6 DEF Homed

(***************************************************************************)
(* cd and ls.                                                              *)
(***************************************************************************)
\* What a line begins with.
LEMMA LineBegins ==
  ASSUME Homed, Line
  PROVE  /\ Up /\ cmd = NoCommand /\ cmd \in Command
         /\ Copied(disk, dirs, curTable, currenDir)
         /\ Copied(disk, dirs, rootTable, RootCluster)
         /\ currenDir \in dirs /\ curDirName \in Seq(Key)
<1>1. Up /\ cmd = NoCommand
  BY DEF Homed, Errand, Line, Up
<1>. QED BY <1>1, NoCommandType DEF Homed, Housed

LEMMA ArgKeysType == ArgKeys \subseteq Key
BY ShellAssumption, NameAssumption DEF ArgKeys, NoKey, Key, Callable, Keys

LEMMA PathsType == \A path \in Paths : path \in Seq(Key)
<1>. SUFFICES ASSUME NEW path \in Paths PROVE path \in Seq(Key)
  OBVIOUS
<1>1. PICK n \in 0 .. MaxTyped : path \in [1 .. n -> Typing]
  BY DEF Paths
<1>2. Typing \subseteq Key /\ n \in Nat
  BY <1>1, ShellAssumption, ArgKeysType DEF ArgKeys
<1>3. path \in [1 .. n -> Key]
  BY <1>1, <1>2
<1>. QED BY <1>2, <1>3, SeqDef

LEMMA EnterChildHomed ==
  ASSUME Homed, NEW key \in Key, EnterChild(key)
  PROVE  Homed' /\ Spared
<1>1. CallReadDirectory(currenDir, key) /\ Return /\ UNCHANGED rootTable
  BY DEF EnterChild
<1>2. Settled' /\ Spared /\ Answered' /\ UNCHANGED <<fat, disk, dirs>>
  BY <1>1, CallReadDirectoryKeeps DEF Homed
<1>3. /\ Up /\ currenDir \in dirs /\ curDirName \in Seq(Key) /\ Up'
      /\ Copied(disk, dirs, curTable, currenDir)
      /\ Copied(disk, dirs, rootTable, RootCluster)
  BY <1>1, LineBegins DEF EnterChild, Return, Up
<1>4. Housed'
  <2>1. CASE UNCHANGED <<currenDir, curTable, curDirName>>
    BY <1>1, <1>2, <1>3, <2>1 DEF Housed
  <2>2. ASSUME NEW t \in TableNamed(currenDir, key),
               curTable' = t, currenDir' = ClusterOf(t),
               curDirName' = IF Alike(key) THEN curDirName
                             ELSE Append(curDirName, <<key[1], NoExt>>)
        PROVE  Housed'
    <3>1. PICK y \in dirs : t = disk[y] /\ ClusterOf(t) = y
      BY <1>3, TablesNamed DEF Homed, Settled
    <3>2. Copied(disk, dirs, t, y)
      BY <3>1, OwnCopy DEF Homed
    <3>3. <<key[1], NoExt>> \in Key
      BY NameAssumption DEF Key
    <3>4. curDirName' \in Seq(Key)
      BY <1>3, <2>2, <3>3
    <3>. QED BY <1>1, <1>2, <1>3, <2>2, <3>1, <3>2, <3>4 DEF Housed
  <2>. QED BY <2>1, <2>2 DEF EnterChild
<1>. QED BY <1>1, <1>2, <1>4, ReturnErrand DEF Homed

\* A step of a walk: it stays among copies of directories, or ends the command.
LEMMA WalkOnHomed ==
  ASSUME Homed, at \in {"up", "down", "mv_up", "mv_down"}, WalkOn
  PROVE  Homed' /\ Spared
<1>1. Up /\ cmd \in Command /\ Copied(disk, dirs, cmd.table, ClusterOf(cmd.table))
  BY DEF Homed, Errand, Up, Walks
<1>2. ClusterOf(cmd.table) \in dirs
  BY <1>1 DEF Copied
<1>3. Settled' /\ Spared /\ Answered' /\ UNCHANGED <<fat, disk, dirs>>
  BY CallReadDirectoryKeeps DEF WalkOn, Homed
<1>4. CASE Return
  <2>1. Up' /\ SamePlace
    BY <1>4 DEF Return, Up, WalkOn
  <2>. QED BY <1>1, <1>3, <1>4, <2>1, SparedHoused, ReturnErrand DEF Homed
<1>5. ASSUME NEW t \in TableNamed(ClusterOf(cmd.table), NextName),
             cmd' = [cmd EXCEPT !.table = t,
                                !.path = Append(@, NextName),
                                !.rest = IF @ = <<>> THEN @ ELSE Tail(@)],
             UNCHANGED at
      PROVE  Homed' /\ Spared
  <2>1. PICK y \in dirs : t = disk[y] /\ ClusterOf(t) = y
    BY <1>2, TablesNamed DEF Homed, Settled
  <2>2. Copied(disk, dirs, t, y)
    BY <2>1, OwnCopy DEF Homed
  <2>3. cmd.path \in Seq(Key) /\ cmd.rest \in Seq(Key)
    BY <1>1 DEF Command
  <2>4. NextName \in Key
    BY <2>3, HeadTailProperties, ArgKeysType DEF NextName, ArgKeys
  <2>5. Append(cmd.path, NextName) \in Seq(Key)
    BY <2>3, <2>4
  <2>6. (IF cmd.rest = <<>> THEN cmd.rest ELSE Tail(cmd.rest)) \in Seq(Key)
    BY <2>3, HeadTailProperties
  <2>7. t \in Table
    BY <2>2 DEF Copied
  <2>8. cmd' \in Command /\ cmd'.table = t /\ cmd'.src = cmd.src /\ cmd'.name = cmd.name
    BY <1>1, <1>5, <2>5, <2>6, <2>7 DEF Command
  <2>9. Up' /\ SamePlace
    BY <1>1, <1>5 DEF Up, WalkOn
  <2>10. Housed'
    BY <1>1, <1>3, <2>9, SparedHoused DEF Homed
  <2>11. Copied(disk', dirs', cmd'.table, ClusterOf(cmd'.table))
    BY <1>3, <2>1, <2>2, <2>8
  <2>12. at \in Removals => Removable(cmd.src)
    BY DEF Homed, Errand
  <2>13. at \in Removals => Removable(cmd.src)'
    BY <1>3, <2>8, <2>9, <2>12 DEF Removable, SamePlace
  <2>14. at' \notin {"boot", "start", "refresh", "prompt", "copy", "delete"} /\ at' = at
    BY <1>5
  <2>15. Errand'
    BY <2>8, <2>11, <2>13, <2>14 DEF Errand
  <2>. QED BY <1>3, <2>10, <2>15 DEF Homed
<1>. QED BY <1>4, <1>5 DEF WalkOn

LEMMA ArriveHomed ==
  ASSUME Homed, at \in {"up", "down"}, NEW path \in Seq(Key), Arrive(path)
  PROVE  Homed' /\ Spared
<1>1. Up /\ Copied(disk, dirs, cmd.table, ClusterOf(cmd.table))
  BY DEF Homed, Errand, Up, Walks
<1>2. Settled' /\ Spared /\ Answered' /\ UNCHANGED <<disk, dirs>>
  BY NoCallKeeps DEF Arrive, Homed
<1>3. Return /\ Up'
  BY DEF Arrive, Return, Up
<1>4. ClusterOf(cmd.table) \in dirs /\ Copied(disk, dirs, rootTable, RootCluster)
  BY <1>1 DEF Copied, Homed, Housed
<1>5. Housed'
  BY <1>1, <1>2, <1>3, <1>4 DEF Arrive, Housed
<1>. QED BY <1>2, <1>3, <1>5, ReturnErrand DEF Homed

\* A command that sets out on a walk.
LEMMA SetOut ==
  ASSUME Homed, Line, UNCHANGED vars, SamePlace,
         NEW start \in {"up", "down", "mv_up", "mv_down"}, at' = start,
         cmd' \in Command,
         cmd'.table \in {curTable, rootTable},
         start \in Removals => Removable(cmd'.src)
  PROVE  Homed' /\ Spared
<1>1. Settled' /\ Spared /\ Answered' /\ UNCHANGED <<disk, dirs>>
  BY NoCallKeeps DEF Homed
<1>2. Up /\ Up'
  BY LineBegins DEF Up
<1>3. Housed'
  BY <1>1, <1>2, SparedHoused DEF Homed
<1>4. Copied(disk', dirs', cmd'.table, ClusterOf(cmd'.table))
  <2>1. /\ Copied(disk, dirs, curTable, ClusterOf(curTable))
        /\ Copied(disk, dirs, rootTable, ClusterOf(rootTable))
    BY LineBegins DEF Copied
  <2>. QED BY <1>1, <2>1
<1>5. start \in Removals => Removable(cmd.src)'
  BY <1>1 DEF Removable, SamePlace
<1>6. Errand'
  BY <1>4, <1>5 DEF Errand
<1>. QED BY <1>1, <1>3, <1>6 DEF Homed

LEMMA ReturnHomed ==
  ASSUME Homed, Up, UNCHANGED vars, SamePlace, Return
  PROVE  Homed' /\ Spared
<1>1. Settled' /\ Spared /\ Answered' /\ Up'
  BY NoCallKeeps DEF Homed, Return, Up
<1>2. Housed'
  BY <1>1, SparedHoused DEF Homed
<1>. QED BY <1>1, <1>2, ReturnErrand DEF Homed

LEMMA GoHomed ==
  ASSUME Homed, GoUp \/ GoDown
  PROVE  Homed' /\ Spared
<1>1. Line /\ SamePlace /\ UNCHANGED vars
  BY DEF GoUp, GoDown
<1>2. /\ cmd \in Command /\ Up /\ curDirName \in Seq(Key)
      /\ rootTable \in Table /\ curTable \in Table
  BY <1>1, LineBegins DEF Copied
<1>3. CASE Return
  BY <1>1, <1>2, <1>3, ReturnHomed
<1>4. CASE GoUp /\ ~ Return
  <2>1. at' = "up" /\ cmd' = Walking("cd", rootTable, curDirName)
    BY <1>4 DEF GoUp
  <2>2. cmd' \in Command /\ cmd'.table = rootTable
    BY <1>2, <2>1 DEF Walking, Command
  <2>. QED BY <1>1, <2>1, <2>2, SetOut DEF Removals
<1>5. CASE GoDown
  <2>1. PICK path \in Paths : cmd' = Walking("cd", curTable, path)
    BY <1>5 DEF GoDown
  <2>2. at' = "down" /\ path \in Seq(Key)
    BY <1>5, PathsType DEF GoDown
  <2>3. cmd' \in Command /\ cmd'.table = curTable
    BY <1>2, <2>1, <2>2 DEF Walking, Command
  <2>. QED BY <1>1, <2>2, <2>3, SetOut DEF Removals
<1>. QED BY <1>3, <1>4, <1>5

LEMMA LsHomed ==
  ASSUME Homed, Ls
  PROVE  Homed' /\ Spared
<1>1. PICK own : own = <<curTable[SelfSlot].name, NoExt>>
  OBVIOUS
<1>2. /\ Line /\ CallReadDirectory(currenDir, own) /\ Return
      /\ curTable' \in TableNamed(currenDir, own) \/ UNCHANGED curTable
      /\ UNCHANGED <<currenDir, rootTable, curDirName>>
  BY <1>1 DEF Ls
<1>3. Settled' /\ Spared /\ Answered' /\ UNCHANGED <<fat, disk, dirs>>
  BY <1>2, CallReadDirectoryKeeps DEF Homed
<1>4. /\ Up' /\ currenDir \in dirs /\ curDirName \in Seq(Key)
      /\ Copied(disk, dirs, curTable, currenDir)
      /\ Copied(disk, dirs, rootTable, RootCluster)
  BY <1>2, LineBegins DEF Return, Up
<1>5. TableNamed(currenDir, own) = {disk[currenDir]}
  BY <1>1, <1>4, OwnTable DEF Copied, Homed, Settled
<1>6. Copied(disk, dirs, disk[currenDir], currenDir)
  BY <1>4, OwnCopy DEF Homed
<1>7. Housed'
  BY <1>2, <1>3, <1>4, <1>5, <1>6 DEF Housed
<1>. QED BY <1>2, <1>3, <1>7, ReturnErrand DEF Homed

(***************************************************************************)
(* cat, mkdir, and the calls of the others.                                *)
(***************************************************************************)
\* A call that removes nothing, with the shell back in its loop.
LEMMA SparedReturn ==
  ASSUME Homed, Settled', Spared, Answered', Up, SamePlace, Return
  PROVE  Homed' /\ Spared
<1>1. Up'
  BY DEF Return, Up
<1>2. Housed'
  BY <1>1, SparedHoused DEF Homed
<1>. QED BY <1>2, ReturnErrand DEF Homed

LEMMA CatHomed ==
  ASSUME Homed, NEW key, Cat(key)
  PROVE  Homed' /\ Spared
<1>1. Line /\ CallRead(currenDir, key) /\ Return /\ SamePlace
  BY DEF Cat
<1>2. Up /\ currenDir \in dirs
  BY <1>1, LineBegins
<1>3. Settled' /\ Spared /\ Answered'
  BY <1>1, <1>2, CallReadKeeps DEF Homed
<1>. QED BY <1>1, <1>2, <1>3, SparedReturn

LEMMA MkdirHomed ==
  ASSUME Homed, NEW key \in Key, Mkdir(key)
  PROVE  Homed' /\ Spared
<1>1. Line /\ Return /\ SamePlace
  BY DEF Mkdir
<1>2. Up /\ currenDir \in dirs
  BY <1>1, LineBegins
<1>3. CASE UNCHANGED vars
  BY <1>1, <1>2, <1>3, ReturnHomed
<1>4. CASE CallWrite(currenDir, <<key[1], NoExt>>, 0, Zeros)
  <2>1. PICK folder \in Key : folder = <<key[1], NoExt>>
    BY NameAssumption DEF Key
  <2>2. CallWrite(currenDir, folder, 0, Zeros) /\ 0 \in {0, 1} /\ Zeros \in Datas
    BY <1>4, <2>1, ShellAssumption
  <2>3. Settled' /\ Spared /\ Answered'
    BY <1>2, <2>2, CallWriteKeeps DEF Homed
  <2>. QED BY <1>1, <1>2, <2>3, SparedReturn
<1>. QED BY <1>3, <1>4 DEF Mkdir

\* The way to delete(): the name has been found, or the command is over.
LEMMA LookHomed ==
  ASSUME Homed, Up, NEW key \in Key, Removable(key),
         NEW command \in Command, command.src = key, Look(key, command)
  PROVE  Homed' /\ Spared
<1>1. CallReadDirectory(currenDir, key) /\ SamePlace
  BY DEF Look
<1>2. Settled' /\ Spared /\ Answered' /\ UNCHANGED <<fat, disk, dirs>>
  BY <1>1, CallReadDirectoryKeeps DEF Homed
<1>3. CASE Return
  BY <1>1, <1>2, <1>3, SparedReturn
<1>4. CASE /\ at' = "delete" /\ cmd' = command
           /\ ret' = 1 \/ TableNamed(currenDir, key) # {}
  <2>1. currenDir \in dirs /\ disk[currenDir][SelfSlot].attr = "dir"
    BY DEF Homed, Housed, Settled, Shape, Tables
  <2>2. PICK s \in dir_table_search(disk[currenDir], key[1], key[2]) : s # SelfSlot
    <3>1. CASE ret' = 1
      <4>1. \E s \in dir_table_search(disk[currenDir], key[1], key[2]) :
              disk[currenDir][s].attr # "dir"
        BY <1>1, <3>1 DEF CallReadDirectory, ReadDirectory
      <4>. QED BY <2>1, <4>1
    <3>2. CASE TableNamed(currenDir, key) # {}
      BY <3>2 DEF TableNamed, Removable, dir_table_search, First, KeyedSlots
    <3>. QED BY <1>4, <3>1, <3>2
  <2>3. s \in KeyedSlots(disk[currenDir], key[1], key[2]) \cap ChildSlots
    BY <2>2 DEF dir_table_search, First, KeyedSlots, ChildSlots
  <2>4. Up'
    BY <1>4 DEF Up
  <2>5. Housed'
    BY <1>1, <1>2, <2>4, SparedHoused DEF Homed
  <2>6. currenDir' = currenDir /\ disk' = disk
    BY <1>1, <1>2 DEF SamePlace
  <2>7. Removable(cmd.src)'
    BY <1>4, <2>6 DEF Removable
  <2>8. Errand'
    BY <1>4, <2>3, <2>6, <2>7 DEF Errand, Walks
  <2>. QED BY <1>2, <2>5, <2>8 DEF Homed
<1>. QED BY <1>3, <1>4 DEF Look

LEMMA RemovableTyped ==
  ASSUME Homed, Line, Slips \subseteq {"enter_alike"}, NEW key, MayRemove(key)
  PROVE  Removable(key)
<1>1. curTable[SelfSlot].name = disk[currenDir][SelfSlot].name
  BY LineBegins DEF Copied
<1>. QED BY <1>1 DEF MayRemove, Removable

LEMMA RmHomed ==
  ASSUME Homed, Slips \subseteq {"enter_alike"}, NEW key \in Key, Rm(key)
  PROVE  Homed' /\ Spared
<1>1. PICK command : command = [cmd EXCEPT !.name = "rm", !.src = key]
  OBVIOUS
<1>2. Line /\ MayRemove(key) /\ Look(key, command)
  BY <1>1 DEF Rm
<1>3. Up /\ cmd \in Command
  BY <1>2, LineBegins
<1>4. command \in Command /\ command.src = key
  BY <1>1, <1>3 DEF Command
<1>. QED BY <1>2, <1>3, <1>4, RemovableTyped, LookHomed

LEMMA MvLookHomed ==
  ASSUME Homed, MvLook
  PROVE  Homed' /\ Spared
<1>1. at = "look" /\ Up /\ Look(cmd.src, cmd)
  BY DEF MvLook, Point, Up
<1>2. cmd \in Command /\ Removable(cmd.src)
  BY <1>1 DEF Homed, Errand, Removals
<1>3. cmd.src \in Key
  BY <1>2 DEF Command
<1>. QED BY <1>1, <1>2, <1>3, LookHomed

\* A directory is not among its own entries.
LEMMA NotItsOwn ==
  ASSUME NEW dk, NEW ds, Shape(dk, ds), NEW d \in ds, NEW s \in ChildSlots,
         dk[d][s].attr = "dir"
  PROVE  dk[d][s].cluster # d
<1>. SUFFICES ASSUME dk[d][s].cluster = d PROVE FALSE
  OBVIOUS
<1>1. d \in Below(dk, {d})
  BY BelowIs
<1>2. {d} \subseteq Below(dk, {d}) /\ {d} \in SUBSET ds
  BY <1>1
<1>. QED BY <1>2 DEF Shape, Grounded

LEMMA DeleteHomed ==
  ASSUME Homed, Delete
  PROVE  Homed'
<1>1. at = "delete" /\ Up /\ CallDelete(currenDir, cmd.src) /\ Return /\ SamePlace
  BY DEF Delete, Point, Up
<1>2. cmd \in Command /\ Removable(cmd.src) /\ currenDir \in dirs
      /\ KeyedSlots(disk[currenDir], cmd.src[1], cmd.src[2]) \cap ChildSlots # {}
  BY <1>1 DEF Homed, Housed, Errand, Removals
<1>3. PICK key \in Key : key = cmd.src
  BY <1>2 DEF Command
<1>4. Aimed(currenDir, key[1], key[2])
  BY <1>2, <1>3 DEF Aimed, Removable
<1>5. Settled' /\ Answered' /\ Pruned(currenDir)
  BY <1>1, <1>2, <1>3, <1>4, CallDeleteKeeps DEF Homed
<1>6. /\ Copied(disk, dirs, curTable, currenDir)
      /\ Copied(disk, dirs, rootTable, RootCluster)
      /\ curDirName \in Seq(Key)
  BY <1>1 DEF Homed, Housed
<1>7. /\ currenDir \in dirs' /\ RootCluster \in dirs'
      /\ \A d \in dirs : disk'[d][SelfSlot].name = disk[d][SelfSlot].name
  <2>1. CASE UNCHANGED <<fat, disk, dirs>>
    BY <1>2, <1>6, <2>1 DEF Copied
  <2>2. CASE \E s : Removed(disk, disk', dirs, dirs', currenDir, s)
    <3>1. PICK s : Removed(disk, disk', dirs, dirs', currenDir, s)
      BY <2>2
    <3>2. disk[currenDir][s].cluster # currenDir
      BY <1>2, <3>1, NotItsOwn DEF Removed, Homed, Settled
    <3>. QED BY <1>2, <1>6, <3>1, <3>2, SlotNumbers DEF Removed, Copied
  <2>. QED BY <1>5, <2>1, <2>2 DEF Pruned
<1>8. Up'
  BY <1>1 DEF Return, Up
<1>9. Housed'
  BY <1>1, <1>6, <1>7, <1>8 DEF Housed, SamePlace, Copied
<1>. QED BY <1>1, <1>5, <1>9, ReturnErrand DEF Homed

(***************************************************************************)
(* cp and mv.                                                              *)
(***************************************************************************)
\* A call that removes nothing, and a command that goes on.
LEMMA GoOn ==
  ASSUME Homed, Up, Settled', Spared, Answered', SamePlace,
         NEW point \in {"copy", "look", "mv_probe", "mv_write"}, at' = point,
         cmd' \in Command,
         point \in Removals \/ (point = "copy" /\ cmd'.name = "mv") => Removable(cmd'.src),
         point \in Walks => at \in Walks /\ cmd'.table = cmd.table
  PROVE  Homed' /\ Spared
<1>1. Up'
  BY DEF Up
<1>2. Housed'
  BY <1>1, SparedHoused DEF Homed
<1>3. point \in Removals \/ (point = "copy" /\ cmd'.name = "mv") => Removable(cmd.src)'
  BY DEF Removable, SamePlace, Spared, Homed, Housed
<1>4. point \in Walks => Copied(disk', dirs', cmd'.table, ClusterOf(cmd'.table))
  <2>1. point \in Walks => Copied(disk, dirs, cmd.table, ClusterOf(cmd.table))
    BY DEF Homed, Errand, Walks
  <2>. QED BY <2>1, SparedCopies
<1>5. Errand'
  BY <1>3, <1>4 DEF Errand
<1>. QED BY <1>2, <1>5 DEF Homed

LEMMA BufferType ==
  ASSUME Answered'
  PROVE  Buffer \in Datas
BY ShellAssumption DEF Buffer, Answered

LEMMA CopyReadHomed ==
  ASSUME Homed, Up, NEW command \in Command, command.name \in {"cp", "mv"},
         command.name = "mv" => Removable(command.src),
         CopyRead(command)
  PROVE  Homed' /\ Spared
<1>1. /\ currenDir \in dirs /\ SamePlace
      /\ CallRead(currenDir, command.from) \/ CallReadDirectory(currenDir, command.from)
  BY DEF Homed, Housed, CopyRead
<1>2. Settled' /\ Spared /\ Answered' /\ UNCHANGED <<fat, disk, dirs>>
  BY <1>1, CallReadKeeps, CallReadDirectoryKeeps DEF Homed
<1>3. CASE Return
  BY <1>1, <1>2, <1>3, SparedReturn
<1>4. CASE at' = "look" /\ cmd' = command /\ command.name = "mv"
  BY <1>1, <1>2, <1>4, GoOn DEF Walks
<1>5. CASE at' = "copy" /\ cmd' = [command EXCEPT !.cl = Buffer]
  <2>1. Buffer \in Datas
    BY <1>2, BufferType
  <2>2. cmd' \in Command /\ cmd'.name = command.name /\ cmd'.src = command.src
    BY <1>5, <2>1 DEF Command
  <2>. QED BY <1>1, <1>2, <1>5, <2>2, GoOn DEF Walks, Removals
<1>. QED BY <1>3, <1>4, <1>5 DEF CopyRead, AfterCopy

LEMMA HeardType == \A key : Heard(key) \subseteq Key
BY DEF Heard, Keys, Key, Callable

LEMMA CpHomed ==
  ASSUME Homed, NEW src, NEW dst, Cp(src, dst)
  PROVE  Homed' /\ Spared
<1>1. Line
  BY DEF Cp
<1>2. Up /\ cmd \in Command
  BY <1>1, LineBegins
<1>3. PICK from \in Heard(src), to \in Heard(dst) :
        CopyRead([cmd EXCEPT !.name = "cp", !.from = from, !.dst = to])
  BY DEF Cp
<1>4. PICK command : command = [cmd EXCEPT !.name = "cp", !.from = from, !.dst = to]
  OBVIOUS
<1>5. command \in Command /\ command.name = "cp"
  BY <1>2, <1>4, HeardType DEF Command
<1>. QED BY <1>2, <1>3, <1>4, <1>5, CopyReadHomed

LEMMA CopyWriteHomed ==
  ASSUME Homed, CopyWrite
  PROVE  Homed' /\ Spared
<1>1. /\ at = "copy" /\ Up /\ AfterCopy(cmd) /\ SamePlace
      /\ CallWrite(currenDir, cmd.dst, SizeFor(cmd.from), cmd.cl)
  BY DEF CopyWrite, Point, Up
<1>2. /\ cmd \in Command /\ currenDir \in dirs
      /\ cmd.name = "mv" => Removable(cmd.src)
  BY <1>1 DEF Homed, Housed, Errand
<1>3. PICK dst \in Key, size \in {0, 1}, d \in Datas :
        dst = cmd.dst /\ size = SizeFor(cmd.from) /\ d = cmd.cl
  BY <1>2 DEF Command, SizeFor
<1>4. Settled' /\ Spared /\ Answered'
  BY <1>1, <1>2, <1>3, CallWriteKeeps DEF Homed
<1>5. CASE Return
  BY <1>1, <1>4, <1>5, SparedReturn
<1>6. CASE cmd.name = "mv" /\ at' = "look" /\ cmd' = cmd
  BY <1>1, <1>2, <1>4, <1>6, GoOn DEF Walks
<1>. QED BY <1>1, <1>5, <1>6 DEF AfterCopy

\* The command of mv, on its way.
LEMMA MoveType ==
  ASSUME cmd \in Command, NEW src \in Key, NEW dst \in Key, NEW H, Due(src, H, dst) \in Nat
  PROVE  /\ Move(src, dst, H) \in Command
         /\ Move(src, dst, H).name = "mv" /\ Move(src, dst, H).src = src
<1>1. PICK due \in Nat : due = Due(src, H, dst)
  OBVIOUS
<1>2. Move(src, dst, H) = [cmd EXCEPT !.name = "mv", !.src = src, !.dst = dst, !.due = due]
  BY <1>1 DEF Move
<1>. QED BY <1>2 DEF Command

LEMMA DueType ==
  ASSUME NEW src, NEW dst, NEW H, H \subseteq Nat
  PROVE  Due(src, H, dst) \in Nat
BY DEF Due

LEMMA DirNumbers == Settled => dirs \subseteq Nat
BY ClusterMapAssumption DEF Settled, Sound, TypeOK, Clusters

LEMMA MvHereHomed ==
  ASSUME Homed, Slips \subseteq {"enter_alike"}, NEW src \in Key, NEW dst, MvHere(src, dst)
  PROVE  Homed' /\ Spared
<1>1. Line /\ MayRemove(src)
  BY DEF MvHere
<1>2. Up /\ cmd \in Command /\ Removable(src) /\ currenDir \in dirs
  BY <1>1, LineBegins, RemovableTyped
<1>3. PICK from \in Heard(src), to \in Heard(dst) :
        CopyRead([Move(src, to, {currenDir}) EXCEPT !.from = from])
  BY DEF MvHere
<1>4. PICK command : command = [Move(src, to, {currenDir}) EXCEPT !.from = from]
  OBVIOUS
<1>5. from \in Key /\ to \in Key /\ Due(src, {currenDir}, to) \in Nat
  BY <1>2, HeardType, DirNumbers, DueType DEF Homed
<1>6. command \in Command /\ command.name = "mv" /\ command.src = src
  <2>1. PICK move \in Command : /\ move = Move(src, to, {currenDir})
                                /\ move.name = "mv" /\ move.src = src
    BY <1>2, <1>5, MoveType
  <2>. QED BY <1>4, <1>5, <2>1 DEF Command
<1>. QED BY <1>2, <1>3, <1>4, <1>6, CopyReadHomed

LEMMA MvUpHomed ==
  ASSUME Homed, Slips \subseteq {"enter_alike"},
         NEW src \in Key, NEW dst \in Key, NEW slashes \in {0, 1}, MvUp(src, dst, slashes)
  PROVE  Homed' /\ Spared
<1>1. Line /\ MayRemove(src) /\ SamePlace /\ UNCHANGED vars
  BY DEF MvUp
<1>2. /\ Up /\ cmd \in Command /\ Removable(src) /\ curDirName \in Seq(Key)
      /\ rootTable \in Table
  BY <1>1, LineBegins, RemovableTyped DEF Copied
<1>3. CASE Return
  BY <1>1, <1>2, <1>3, ReturnHomed
<1>4. CASE ~ Return
  <2>1. PICK H, rest :
          /\ H = IF Len(curDirName) <= slashes + 1 THEN ParentDirs ELSE {}
          /\ rest = [i \in 1 .. slashes |->
                       IF i <= Len(curDirName) THEN curDirName[i] ELSE NoKey]
    OBVIOUS
  <2>2. at' = "mv_up" /\ cmd' = [Move(src, dst, H) EXCEPT !.table = rootTable, !.rest = rest]
    BY <1>4, <2>1 DEF MvUp
  <2>3. Due(src, H, dst) \in Nat
    BY <2>1, DirNumbers DEF ParentDirs, Homed, Due
  <2>4. rest \in Seq(Key)
    <3>1. NoKey \in Key
      BY ArgKeysType DEF ArgKeys
    <3>2. \A i \in 1 .. slashes : i <= Len(curDirName) => curDirName[i] \in Key
      BY <1>2
    <3>3. rest \in [1 .. slashes -> Key]
      BY <2>1, <3>1, <3>2
    <3>4. slashes \in Nat
      OBVIOUS
    <3>. QED BY <3>3, <3>4, SeqDef
  <2>5. cmd' \in Command /\ cmd'.src = src /\ cmd'.table = rootTable
    <3>1. cmd \in Command
      BY <1>2
    <3>2. PICK move \in Command : move = Move(src, dst, H) /\ move.src = src
      BY <2>3, <3>1, MoveType
    <3>3. cmd' = [move EXCEPT !.table = rootTable, !.rest = rest]
      BY <2>2, <3>2
    <3>. QED BY <1>2, <2>4, <3>2, <3>3 DEF Command
  <2>. QED BY <1>1, <1>2, <2>2, <2>5, SetOut
<1>. QED BY <1>3, <1>4

LEMMA MvDownHomed ==
  ASSUME Homed, Slips \subseteq {"enter_alike"},
         NEW src \in Key, NEW dst \in Key, NEW path \in Paths, MvDown(src, dst, path)
  PROVE  Homed' /\ Spared
<1>1. Line /\ MayRemove(src) /\ SamePlace /\ UNCHANGED vars
  BY DEF MvDown
<1>2. /\ Up /\ cmd \in Command /\ Removable(src) /\ currenDir \in dirs
      /\ curTable \in Table /\ path \in Seq(Key)
  BY <1>1, LineBegins, RemovableTyped, PathsType DEF Copied
<1>3. Due(src, Leads(currenDir, path), dst) \in Nat
  BY <1>2, LeadsLive, DirNumbers, DueType DEF Homed, Settled
<1>4. PICK move \in Command : move = Move(src, dst, Leads(currenDir, path)) /\ move.src = src
  BY <1>2, <1>3, MoveType
<1>5. at' = "mv_down" /\ cmd' = [move EXCEPT !.table = curTable, !.rest = path]
  BY <1>4 DEF MvDown
<1>6. cmd' \in Command /\ cmd'.src = src /\ cmd'.table = curTable
  BY <1>2, <1>4, <1>5 DEF Command
<1>. QED BY <1>1, <1>2, <1>5, <1>6, SetOut

LEMMA MvReadHomed ==
  ASSUME Homed, MvRead
  PROVE  Homed' /\ Spared
<1>1. /\ at \in {"mv_up", "mv_down"} /\ Up /\ SamePlace
      /\ CallRead(currenDir, cmd.src)
      /\ at' = "mv_probe" /\ cmd' = [cmd EXCEPT !.cl = Buffer]
  BY DEF MvRead, WalkDone, Up
<1>2. cmd \in Command /\ currenDir \in dirs /\ Removable(cmd.src) /\ at \in Walks
  BY <1>1 DEF Homed, Housed, Errand, Removals, Walks
<1>3. Settled' /\ Spared /\ Answered'
  BY <1>1, <1>2, CallReadKeeps DEF Homed
<1>4. cmd' \in Command /\ cmd'.src = cmd.src /\ cmd'.table = cmd.table
  BY <1>1, <1>2, <1>3, BufferType DEF Command
<1>. QED BY <1>1, <1>2, <1>3, <1>4, GoOn

LEMMA MvProbeHomed ==
  ASSUME Homed, MvProbe
  PROVE  Homed' /\ Spared
<1>1. /\ at = "mv_probe" /\ Up /\ SamePlace
      /\ CallReadDirectory(ClusterOf(cmd.table), cmd.dst)
      /\ at' = "mv_write" /\ cmd' = cmd
  BY DEF MvProbe, Point, Up
<1>2. cmd \in Command /\ Removable(cmd.src) /\ at \in Walks
  BY <1>1 DEF Homed, Errand, Removals, Walks
<1>3. Settled' /\ Spared /\ Answered'
  BY <1>1, CallReadDirectoryKeeps DEF Homed
<1>. QED BY <1>1, <1>2, <1>3, GoOn

LEMMA MvWriteHomed ==
  ASSUME Homed, MvWrite
  PROVE  Homed' /\ Spared
<1>1. /\ at = "mv_write" /\ Up /\ SamePlace
      /\ CallWrite(ClusterOf(cmd.table), cmd.dst, SizeFor(cmd.src), cmd.cl)
      /\ at' = "look" /\ cmd' = cmd
  BY DEF MvWrite, Point, Up
<1>2. cmd \in Command /\ Removable(cmd.src) /\ ClusterOf(cmd.table) \in dirs
  BY <1>1 DEF Homed, Errand, Removals, Walks, Copied
<1>3. PICK dst \in Key, size \in {0, 1}, d \in Datas :
        dst = cmd.dst /\ size = SizeFor(cmd.src) /\ d = cmd.cl
  BY <1>2 DEF Command, SizeFor
<1>4. PICK p \in dirs : p = ClusterOf(cmd.table)
  BY <1>2
<1>5. Settled' /\ Spared /\ Answered'
  BY <1>1, <1>3, <1>4, CallWriteKeeps DEF Homed
<1>. QED BY <1>1, <1>2, <1>5, GoOn DEF Walks

(***************************************************************************)
(* Every step of the shell.                                                *)
(***************************************************************************)
LEMMA WalkHomed ==
  ASSUME Homed, WalkUp \/ ArriveUp \/ WalkDown \/ ArriveDown \/ MvWalk
  PROVE  Homed' /\ Spared
<1>1. ASSUME Up
      PROVE  curDirName \in Seq(Key) /\ cmd.path \in Seq(Key)
  BY <1>1 DEF Homed, Housed, Errand, Command
<1>2. CASE WalkUp \/ WalkDown \/ MvWalk
  BY <1>2, WalkOnHomed DEF WalkUp, WalkDown, MvWalk, Point
<1>3. CASE ArriveUp
  <2>1. at = "up" /\ Arrive(cmd.path)
    BY <1>3 DEF ArriveUp, Point
  <2>. QED BY <1>1, <2>1, ArriveHomed DEF Up
<1>4. CASE ArriveDown
  <2>1. at = "down" /\ Arrive(curDirName \o cmd.path)
    BY <1>4 DEF ArriveDown, Point
  <2>2. curDirName \o cmd.path \in Seq(Key)
    BY <1>1, <2>1, ConcatProperties DEF Up
  <2>. QED BY <2>1, <2>2, ArriveHomed
<1>. QED BY <1>2, <1>3, <1>4

LEMMA TypedHomed ==
  ASSUME Homed, Slips \subseteq {"enter_alike"}, Typed
  PROVE  Homed' /\ Spared
<1>1. Typing \subseteq Key /\ NoKey \in Key
  BY ArgKeysType DEF ArgKeys
<1>2. CASE GoUp \/ GoDown
  BY <1>2, GoHomed
<1>3. CASE Ls
  BY <1>3, LsHomed
<1>4. ASSUME NEW key \in ArgKeys, EnterChild(key) \/ Cat(key) \/ Mkdir(key) \/ Rm(key)
      PROVE  Homed' /\ Spared
  <2>1. key \in Key
    BY ArgKeysType
  <2>2. CASE EnterChild(key)
    BY <2>1, <2>2, EnterChildHomed
  <2>3. CASE Cat(key)
    BY <2>3, CatHomed
  <2>4. CASE Mkdir(key)
    BY <2>1, <2>4, MkdirHomed
  <2>5. CASE Rm(key)
    BY <2>1, <2>5, RmHomed
  <2>. QED BY <1>4, <2>2, <2>3, <2>4, <2>5
<1>5. ASSUME NEW src \in ArgKeys, MvUp(src, NoKey, 0)
      PROVE  Homed' /\ Spared
  <2>1. src \in Key /\ 0 \in {0, 1}
    BY ArgKeysType
  <2>. QED BY <1>1, <1>5, <2>1, MvUpHomed
<1>6. ASSUME NEW src \in Typing, NEW dst \in Typing,
             \/ Cp(src, dst) \/ MvHere(src, dst) \/ MvUp(src, dst, 1)
             \/ \E path \in Paths : MvDown(src, dst, path)
      PROVE  Homed' /\ Spared
  <2>1. src \in Key /\ dst \in Key /\ 1 \in {0, 1}
    BY <1>1
  <2>2. CASE Cp(src, dst)
    BY <2>2, CpHomed
  <2>3. CASE MvHere(src, dst)
    BY <2>1, <2>3, MvHereHomed
  <2>4. CASE MvUp(src, dst, 1)
    BY <2>1, <2>4, MvUpHomed
  <2>5. CASE \E path \in Paths : MvDown(src, dst, path)
    BY <2>1, <2>5, MvDownHomed
  <2>. QED BY <1>6, <2>2, <2>3, <2>4, <2>5
<1>. QED BY <1>2, <1>3, <1>4, <1>5, <1>6 DEF Typed

LEMMA IdleHomed ==
  ASSUME Homed, UNCHANGED allVars
  PROVE  Homed' /\ Spared
<1>1. UNCHANGED vars /\ UNCHANGED shellVars
  BY DEF allVars
<1>2. Settled' /\ Spared /\ Answered' /\ UNCHANGED <<disk, dirs>>
  BY <1>1, NoCallKeeps DEF Homed
<1>3. Housed'
  BY <1>1, <1>2 DEF Homed, Housed, shellVars, Up
<1>4. Errand'
  BY <1>1, <1>2 DEF Homed, Errand, shellVars, Up, Removable
<1>. QED BY <1>2, <1>3, <1>4 DEF Homed

LEMMA HomedStep ==
  ASSUME Slips \subseteq {"enter_alike"}, Homed, [ShellNext]_allVars
  PROVE  Homed' /\ (Spared \/ Delete)
<1>1. CASE Boot
  BY <1>1, BootHomed
<1>2. CASE Start
  BY <1>2, StartHomed
<1>3. CASE Refresh
  BY <1>3, RefreshHomed
<1>4. CASE Typed
  BY <1>4, TypedHomed
<1>5. CASE WalkUp \/ ArriveUp \/ WalkDown \/ ArriveDown \/ MvWalk
  BY <1>5, WalkHomed
<1>6. CASE Delete
  BY <1>6, DeleteHomed
<1>7. CASE CopyWrite
  BY <1>7, CopyWriteHomed
<1>8. CASE MvRead
  BY <1>8, MvReadHomed
<1>9. CASE MvProbe
  BY <1>9, MvProbeHomed
<1>10. CASE MvWrite
  BY <1>10, MvWriteHomed
<1>11. CASE MvLook
  BY <1>11, MvLookHomed
<1>12. CASE UNCHANGED allVars
  BY <1>12, IdleHomed
<1>. QED BY <1>1, <1>2, <1>3, <1>4, <1>5, <1>6, <1>7, <1>8, <1>9, <1>10, <1>11, <1>12
     DEF ShellNext, Running

\* As long as nobody types a removal of nothing or of the directory the shell is in,
\* every step of the shell, boot included, keeps the volume sound and the shell at
\* home in it; cd by an extension or by the path's beginning does no harm here.
THEOREM AlwaysHomed ==
  ASSUME Slips \subseteq {"enter_alike"}
  PROVE  ShellSpec => []Homed
<1>1. Homed /\ [ShellNext]_allVars => Homed'
  BY HomedStep
<1>. QED BY <1>1, InitHomed, PTL DEF ShellSpec

(***************************************************************************)
(* What holds of the running system.                                       *)
(***************************************************************************)
\* A call for an object of the directory is no harmful one, whatever else is wrong
\* with it.
LEMMA DeleteIsBenign ==
  ASSUME ~ overrun, NEW p \in dirs, p # BOOT_SECTOR, NEW name, NEW ext,
         Aimed(p, name, ext)
  PROVE  Driver!MayDelete(p, name, ext)
BY DEF Driver!MayDelete, Aimed, BenignKinds, Driver!KeyedSlots, KeyedSlots,
       Driver!ChildSlots, ChildSlots, Driver!Slots, Slots, Driver!SelfSlot, SelfSlot,
       Driver!BOOT_SECTOR, BOOT_SECTOR

LEMMA WriteIsBenign ==
  ASSUME ~ overrun, NEW p \in dirs
  PROVE  \A name, ext, size : Driver!MayWrite(p, name, ext, size)
BY DEF Driver!MayWrite, BenignKinds

LEMMA HomedIsBenign == Homed => ShellIsBenign
<1>. SUFFICES ASSUME Homed, ~ overrun PROVE ShellIsBenign
  BY DEF ShellIsBenign
<1>1. currenDir \in dirs /\ currenDir # BOOT_SECTOR
  BY DEF Homed, Housed, Settled, Shape
<1>2. ASSUME at = "delete"
      PROVE  Driver!MayDelete(currenDir, cmd.src[1], cmd.src[2])
  <2>1. Aimed(currenDir, cmd.src[1], cmd.src[2])
    BY <1>1, <1>2 DEF Homed, Errand, Removals, Removable, Aimed
  <2>. QED BY <1>1, <2>1, DeleteIsBenign
<1>3. ASSUME at = "mv_write"
      PROVE  ClusterOf(cmd.table) \in dirs
  BY <1>3 DEF Homed, Errand, Walks, Copied
<1>. QED BY <1>1, <1>2, <1>3, WriteIsBenign DEF ShellIsBenign

\* Whatever is typed, short of removing nothing or the directory one is in, the
\* shell never calls write() for a directory that is not there, nor delete() for
\* what is not in the directory or for its own name; no assumption is made here of
\* the calls the driver can stand.
THEOREM ShellMakesBenignCalls ==
  ASSUME Slips \subseteq {"enter_alike"}
  PROVE  ShellSpec => []ShellIsBenign
BY AlwaysHomed, HomedIsBenign, PTL

\* Short of those removals, the current directory is never taken away by a command,
\* and the copy of its table that cd and mv begin from is a table of it.
THEOREM ShellStaysInALiveDirectory ==
  ASSUME Slips \subseteq {"enter_alike"}
  PROVE  ShellSpec => []HomeIsLive
<1>1. Homed => HomeIsLive
  BY DEF Homed, Housed, HomeIsLive, Copied, Settled, Sound, DirsAreEnds
<1>. QED BY <1>1, AlwaysHomed, PTL

\* Whatever is typed, short of those removals, no cluster of the running system has
\* two owners: not two entries, two links, nor an entry and a link.
THEOREM ShellUniqueOwner ==
  ASSUME Slips \subseteq {"enter_alike"}
  PROVE  ShellSpec => []UniqueOwner
<1>1. Homed => UniqueOwner
  BY DEF Homed, Settled, Sound
<1>. QED BY <1>1, AlwaysHomed, PTL

\* Whatever is typed, short of those removals, no entry and no link of the running
\* system leads to a cluster that write() may take.
THEOREM ShellNoDangling ==
  ASSUME Slips \subseteq {"enter_alike"}
  PROVE  ShellSpec => []NoDangling
<1>1. Homed => NoDangling
  BY DEF Homed, Settled, Sound
<1>. QED BY <1>1, AlwaysHomed, PTL

\* Whatever is typed, short of those removals, every file that a directory of the
\* running system lists has the length and the content it was written with.
THEOREM ShellFilesWhole ==
  ASSUME Slips \subseteq {"enter_alike"}
  PROVE  ShellSpec => []FilesWhole
<1>1. Homed => FilesWhole
  BY DEF Homed, Settled
<1>. QED BY <1>1, AlwaysHomed, PTL

(***************************************************************************)
(* The path in the prompt.  There is a trail along it from the root to the *)
(* current directory.                                                      *)
(***************************************************************************)
\* A trail that is not empty begins with a step.
LEMMA TrailOff ==
  ASSUME NEW dk, NEW ds, NEW c, NEW y, NEW path \in Seq(Key), path # <<>>,
         Trail(dk, ds, c, path, y)
  PROVE  \E z \in ds : Leading(dk, c, Head(path), z) /\ Trail(dk, ds, z, Tail(path), y)
<1>1. PICK n \in Nat \ {0}, rest \in Seq(Key) : n = Len(path) /\ rest = Tail(path)
  BY EmptySeq, HeadTailProperties
<1>2. Len(rest) = n - 1 /\ Head(path) = path[1] /\ \A i \in 1 .. n - 1 : rest[i] = path[i + 1]
  BY <1>1, HeadTailProperties
<1>3. PICK q \in [0 .. n -> ds] :
        /\ q[0] = c /\ q[n] = y
        /\ \A i \in 1 .. n : Leading(dk, q[i - 1], path[i], q[i])
  BY <1>1 DEF Trail
<1>4. PICK r : r = [i \in 0 .. n - 1 |-> q[i + 1]]
  OBVIOUS
<1>5. r \in [0 .. n - 1 -> ds] /\ r[0] = q[1] /\ r[n - 1] = y
  BY <1>1, <1>3, <1>4
<1>6. ASSUME NEW i \in 1 .. n - 1
      PROVE  Leading(dk, r[i - 1], rest[i], r[i])
  <2>1. i + 1 \in 1 .. n /\ (i + 1) - 1 = i
    BY <1>1
  <2>2. r[i - 1] = q[i] /\ rest[i] = path[i + 1] /\ r[i] = q[i + 1]
    BY <1>1, <1>2, <1>4
  <2>3. Leading(dk, q[(i + 1) - 1], path[i + 1], q[i + 1])
    BY <1>3, <2>1
  <2>. QED BY <2>1, <2>2, <2>3
<1>7. Trail(dk, ds, q[1], rest, y)
  BY <1>2, <1>5, <1>6 DEF Trail
<1>8. q[1] \in ds /\ Leading(dk, c, path[1], q[1])
  <2>1. 1 \in 1 .. n /\ 1 - 1 = 0
    BY <1>1
  <2>2. Leading(dk, q[1 - 1], path[1], q[1])
    BY <1>3, <2>1
  <2>. QED BY <1>3, <2>1, <2>2
<1>. QED BY <1>1, <1>2, <1>7, <1>8

\* Where there is a trail the path leads.
LEMMA TrailLeads ==
  ASSUME NEW c, NEW y, NEW path \in Seq(Key), Trail(disk, dirs, c, path, y)
  PROVE  y \in Leads(c, path)
<1>1. PICK n \in Nat : n = Len(path)
  BY LenProperties
<1>2. PICK w : Leads(c, path) = w[n] /\ Paced(disk, c, path, w, n)
  BY <1>1, LeadsPaced
<1>. QED BY <1>1, <1>2, TrailPaced

\* A name finds one directory at most, and with it its table.
LEMMA LeadingTable ==
  ASSUME NEW p, NEW key, NEW y, Leading(disk, p, key, y)
  PROVE  TableNamed(p, key) = {disk[y]}
<1>1. PICK s \in dir_table_search(disk[p], key[1], key[2]) :
        disk[p][s].attr = "dir" /\ disk[p][s].cluster = y
  BY DEF Leading
<1>2. \A r \in dir_table_search(disk[p], key[1], key[2]) : r = s
  <2>1. KeyedSlots(disk[p], key[1], key[2]) \subseteq Nat
    BY SlotAssumption DEF KeyedSlots, Slots
  <2>. QED BY <2>1 DEF dir_table_search, First
<1>. QED BY <1>1, <1>2 DEF TableNamed

\* A trail stays as long as nothing is removed.
LEMMA TrailSpared ==
  ASSUME Spared, NEW c, NEW path \in Seq(Key), NEW y, Trail(disk, dirs, c, path, y)
  PROVE  Trail(disk', dirs', c, path, y)
<1>1. PICK n \in Nat : n = Len(path)
  BY LenProperties
<1>2. PICK q \in [0 .. n -> dirs] :
        /\ q[0] = c /\ q[n] = y
        /\ \A i \in 1 .. n : Leading(disk, q[i - 1], path[i], q[i])
  BY <1>1 DEF Trail
<1>3. PICK dk, ds : dk = disk' /\ ds = dirs'
  OBVIOUS
<1>4. /\ dirs \subseteq ds
      /\ \A d \in dirs : \A key, z : Leading(disk, d, key, z) => Leading(dk, d, key, z)
  BY <1>3 DEF Spared
<1>5. \A i \in 1 .. n : i - 1 \in 0 .. n
  OBVIOUS
<1>6. q \in [0 .. n -> ds] /\ \A i \in 1 .. n : Leading(dk, q[i - 1], path[i], q[i])
  BY <1>2, <1>4, <1>5
<1>7. Trail(dk, ds, c, path, y)
  BY <1>1, <1>2, <1>6 DEF Trail
<1>. QED BY <1>3, <1>7

\* And when what is removed lies in the directory it ends in: that directory
\* would otherwise lie below itself.
LEMMA TrailRemoved ==
  ASSUME NEW dk, NEW dk2, NEW ds, NEW ds2, NEW p, NEW s,
         Shape(dk, ds), Removed(dk, dk2, ds, ds2, p, s),
         NEW c, NEW path \in Seq(Key), Trail(dk, ds, c, path, p)
  PROVE  Trail(dk2, ds2, c, path, p)
<1>1. PICK n \in Nat : n = Len(path)
  BY LenProperties
<1>2. PICK q \in [0 .. n -> ds] :
        /\ q[0] = c /\ q[n] = p
        /\ \A i \in 1 .. n : Leading(dk, q[i - 1], path[i], q[i])
  BY <1>1 DEF Trail
<1>3. PICK x : x = dk[p][s].cluster
  OBVIOUS
<1>4. ASSUME NEW m \in 0 .. n, q[m] = x
      PROVE  FALSE
  <2>. DEFINE D == {q[i] : i \in m .. n}
  <2>1. D \subseteq ds /\ x \in D /\ p \in D
    BY <1>2, <1>4
  <2>2. x \in Below(dk, D)
    <3>1. dk[p][s].attr = "dir" /\ s \in ChildSlots
      BY <1>3, <2>1 DEF Removed
    <3>. HIDE DEF D
    <3>. QED BY <1>3, <2>1, <3>1, BelowIs
  <2>3. ASSUME NEW y \in D, y # x
        PROVE  y \in Below(dk, D)
    <3>. DEFINE At == {i \in m .. n : q[i] = y}
    <3>1. PICK i \in At : \A j \in At : i <= j
      <4>1. At \subseteq Nat /\ At # {}
        OBVIOUS
      <4>. HIDE DEF At
      <4>. QED BY <4>1, LeastOf
    <3>2. i # m
      BY <1>4, <2>3, <3>1
    <3>3. i \in 1 .. n /\ i - 1 \in m .. n /\ i - 1 \in 0 .. n /\ ~ (i <= i - 1)
      BY <3>1, <3>2
    <3>4. q[i] = y /\ q[i - 1] # y /\ q[i - 1] \in D /\ q[i - 1] \in ds
      BY <1>2, <3>1, <3>3
    <3>5. PICK d, key : d = q[i - 1] /\ key = path[i]
      OBVIOUS
    <3>6. Leading(dk, d, key, y)
      BY <1>2, <3>3, <3>4, <3>5
    <3>7. y \in Below(dk, {d})
      BY <3>4, <3>5, <3>6, LeadingLive
    <3>8. d \in D
      BY <3>4, <3>5
    <3>. HIDE DEF D
    <3>. QED BY <3>7, <3>8, BelowIs
  <2>4. D = {}
    <3>1. D \subseteq Below(dk, D)
      BY <2>2, <2>3
    <3>. HIDE DEF D
    <3>. QED BY <2>1, <3>1 DEF Shape, Grounded
  <2>. QED BY <2>1, <2>4
<1>5. q \in [0 .. n -> ds2]
  BY <1>2, <1>3, <1>4 DEF Removed
<1>6. ASSUME NEW i \in 1 .. n
      PROVE  Leading(dk2, q[i - 1], path[i], q[i])
  <2>1. i - 1 \in 0 .. n /\ i \in 0 .. n
    OBVIOUS
  <2>2. q[i - 1] \in ds /\ q[i] # x /\ Leading(dk, q[i - 1], path[i], q[i])
    BY <1>2, <1>4, <2>1
  <2>. QED BY <1>3, <2>2, RemovedSpares
<1>. QED BY <1>1, <1>2, <1>5, <1>6 DEF Trail

\* The path leads from the root to the current directory; so does what cd has
\* walked down, to the directory it has come to.  On the way up there is besides a
\* trail ahead, and it cannot end without passing an entry for the directory left.
Climbing ==
  LET d == ClusterOf(cmd.table)
  IN  /\ d \in dirs /\ d # currenDir /\ cmd.table = disk[d]
      /\ Trail(disk, dirs, RootCluster, cmd.path, d)
      /\ Trail(disk, dirs, d, cmd.rest, currenDir)

Pathed ==
  /\ Up => Trail(disk, dirs, RootCluster, curDirName, currenDir)
  /\ at = "prompt" => rootTable = disk[RootCluster]
  /\ at = "down" =>
       Trail(disk, dirs, RootCluster, curDirName \o cmd.path, ClusterOf(cmd.table))
  /\ at = "up" => Climbing

\* A step after which the shell is where it was.
LEMMA StayPathed ==
  ASSUME Homed, Pathed, Up, Spared, UNCHANGED <<currenDir, curDirName>>,
         at' \notin {"prompt", "up", "down"}
  PROVE  Pathed'
<1>1. curDirName \in Seq(Key)
  BY DEF Homed, Housed
<1>2. Trail(disk', dirs', RootCluster, curDirName, currenDir)
  BY <1>1, TrailSpared DEF Pathed
<1>. QED BY <1>2 DEF Pathed

LEMMA EnterChildPathed ==
  ASSUME Slips = {}, Homed, Pathed, NEW key \in Key, EnterChild(key)
  PROVE  Pathed'
<1>1. /\ Line /\ CallReadDirectory(currenDir, key) /\ Return
      /\ ~ Alike(key) /\ key[2] = NoExt
  BY DEF EnterChild
<1>2. /\ UNCHANGED <<fat, disk, dirs>> /\ Spared /\ Up /\ currenDir \in dirs
      /\ curDirName \in Seq(Key) /\ at' = "refresh"
  BY <1>1, CallReadDirectoryKeeps, LineBegins DEF Homed, Return
<1>3. CASE UNCHANGED <<currenDir, curDirName>>
  BY <1>2, <1>3, StayPathed
<1>4. ASSUME NEW t \in TableNamed(currenDir, key), currenDir' = ClusterOf(t),
             curDirName' = Append(curDirName, <<key[1], NoExt>>)
      PROVE  Pathed'
  <2>1. <<key[1], NoExt>> = key
    BY <1>1 DEF Key
  <2>2. PICK y \in dirs : ClusterOf(t) = y /\ Leading(disk, currenDir, key, y)
    BY <1>2, TablesNamed DEF Homed, Settled
  <2>3. Trail(disk, dirs, RootCluster, curDirName, currenDir)
    BY <1>2 DEF Pathed
  <2>4. Trail(disk, dirs, RootCluster, Append(curDirName, key), y)
    BY <1>2, <2>2, <2>3, TrailOn
  <2>. QED BY <1>2, <1>4, <2>1, <2>2, <2>4 DEF Pathed
<1>. QED BY <1>1, <1>3, <1>4 DEF EnterChild

LEMMA GoPathed ==
  ASSUME Homed, Pathed, GoUp \/ GoDown
  PROVE  Pathed'
<1>1. /\ Line /\ UNCHANGED vars /\ UNCHANGED <<currenDir, curDirName>> /\ at = "prompt"
      /\ Up /\ cmd \in Command /\ cmd.path = <<>>
      /\ ClusterOf(curTable) = currenDir /\ curDirName \in Seq(Key)
  BY LineBegins, NoCommandType DEF GoUp, GoDown, SamePlace, Line, Copied
<1>2. /\ UNCHANGED <<disk, dirs>> /\ Spared
      /\ Trail(disk, dirs, RootCluster, curDirName, currenDir)
  BY <1>1, NoCallKeeps DEF Homed, Pathed
<1>3. CASE Return
  <2>1. at' = "refresh"
    BY <1>3 DEF Return
  <2>. QED BY <1>1, <1>2, <2>1, StayPathed
<1>4. CASE GoUp /\ ~ Return
  <2>1. /\ currenDir # RootCluster /\ at' = "up"
        /\ cmd' = Walking("cd", rootTable, curDirName)
    BY <1>4 DEF GoUp
  <2>2. cmd'.table = rootTable /\ cmd'.rest = curDirName /\ cmd'.path = <<>>
    BY <1>1, <2>1 DEF Walking, Command
  <2>3. rootTable = disk[RootCluster] /\ RootCluster \in dirs /\ ClusterOf(rootTable) = RootCluster
    BY <1>1, LineBegins DEF Pathed, Copied
  <2>4. Trail(disk, dirs, RootCluster, <<>>, RootCluster)
    BY <2>3, TrailEmpty
  <2>5. Climbing'
    BY <1>1, <1>2, <2>1, <2>2, <2>3, <2>4 DEF Climbing
  <2>. QED BY <1>1, <1>2, <2>1, <2>5 DEF Pathed
<1>5. CASE GoDown
  <2>1. PICK path \in Paths : cmd' = Walking("cd", curTable, path)
    BY <1>5 DEF GoDown
  <2>2. at' = "down" /\ cmd'.table = curTable /\ cmd'.path = <<>>
    BY <1>1, <1>5, <2>1 DEF GoDown, Walking, Command
  <2>3. curDirName \o <<>> = curDirName
    BY <1>1, ConcatEmptySeq
  <2>. QED BY <1>1, <1>2, <2>2, <2>3 DEF Pathed
<1>. QED BY <1>3, <1>4, <1>5

LEMMA WalkDownPathed ==
  ASSUME Homed, Pathed, WalkDown
  PROVE  Pathed'
<1>1. /\ at = "down" /\ Up /\ WalkOn /\ UNCHANGED <<currenDir, curDirName>>
      /\ cmd \in Command /\ curDirName \in Seq(Key) /\ ClusterOf(cmd.table) \in dirs
  BY DEF WalkDown, Point, Up, WalkOn, SamePlace, Homed, Housed, Errand, Walks, Copied
<1>2. UNCHANGED <<disk, dirs>> /\ Spared
  BY <1>1, CallReadDirectoryKeeps DEF WalkOn, Homed
<1>3. CASE Return
  <2>1. at' = "refresh"
    BY <1>3 DEF Return
  <2>. QED BY <1>1, <1>2, <2>1, StayPathed
<1>4. ASSUME NEW t \in TableNamed(ClusterOf(cmd.table), NextName),
             cmd' = [cmd EXCEPT !.table = t,
                                !.path = Append(@, NextName),
                                !.rest = IF @ = <<>> THEN @ ELSE Tail(@)],
             UNCHANGED at
      PROVE  Pathed'
  <2>1. PICK d, key, sofar : d = ClusterOf(cmd.table) /\ key = NextName /\ sofar = cmd.path
    OBVIOUS
  <2>2. key \in Key /\ sofar \in Seq(Key)
    <3>1. cmd.rest \in Seq(Key) /\ cmd.path \in Seq(Key)
      BY <1>1 DEF Command
    <3>. QED BY <2>1, <3>1, HeadTailProperties, ArgKeysType DEF NextName, ArgKeys
  <2>3. cmd'.table = t /\ cmd'.path = Append(sofar, key)
    BY <1>1, <1>4, <2>1 DEF Command
  <2>4. PICK y \in dirs : ClusterOf(t) = y /\ Leading(disk, d, key, y)
    BY <1>1, <1>4, <2>1, TablesNamed DEF Homed, Settled
  <2>5. PICK path \in Seq(Key) : path = curDirName \o sofar
    BY <1>1, <2>2, ConcatProperties
  <2>6. Trail(disk, dirs, RootCluster, path, d)
    BY <1>1, <2>1, <2>5 DEF Pathed
  <2>7. Trail(disk, dirs, RootCluster, Append(path, key), y)
    BY <2>2, <2>4, <2>6, TrailOn
  <2>8. Append(path, key) = curDirName \o Append(sofar, key)
    <3>1. <<key>> \in Seq(Key)
      BY <2>2
    <3>2. Append(path, key) = path \o <<key>> /\ Append(sofar, key) = sofar \o <<key>>
      BY <2>2, <2>5, AppendIsConcat
    <3>. QED BY <1>1, <2>2, <2>5, <3>1, <3>2, ConcatAssociative
  <2>. QED BY <1>1, <1>2, <1>4, <2>3, <2>4, <2>7, <2>8 DEF Pathed
<1>. QED BY <1>1, <1>3, <1>4 DEF WalkOn

\* A step up finds the next directory, and it is not the one to be left: the table
\* it comes from has no entry for that.
LEMMA WalkUpPathed ==
  ASSUME Homed, Pathed, WalkUp
  PROVE  Pathed' /\ at' = "up"
<1>0. PICK d : d = ClusterOf(cmd.table)
  OBVIOUS
<1>1. /\ at = "up" /\ Up /\ WalkOn /\ UNCHANGED <<currenDir, curDirName>>
      /\ cmd \in Command /\ curDirName \in Seq(Key)
      /\ ~ clusterExist(cmd.table, currenDir)
  BY DEF WalkUp, Point, Up, WalkOn, SamePlace, Homed, Housed, Errand
<1>2. UNCHANGED <<disk, dirs>> /\ Shape(disk, dirs)
  BY <1>1, CallReadDirectoryKeeps DEF WalkOn, Homed, Settled
<1>3. PICK sofar \in Seq(Key), rest \in Seq(Key) : sofar = cmd.path /\ rest = cmd.rest
  BY <1>1 DEF Command
<1>4. /\ d \in dirs /\ d # currenDir /\ cmd.table = disk[d]
      /\ Trail(disk, dirs, RootCluster, sofar, d)
      /\ Trail(disk, dirs, d, rest, currenDir)
  BY <1>0, <1>1, <1>3 DEF Pathed, Climbing
<1>5. rest # <<>>
  BY <1>4, TrailEmpty
<1>6. PICK key \in Key, y \in dirs :
        key = Head(rest) /\ Leading(disk, d, key, y) /\ Trail(disk, dirs, y, Tail(rest), currenDir)
  BY <1>4, <1>5, TrailOff, HeadTailProperties
<1>7. NextName = key /\ TableNamed(d, key) = {disk[y]}
  BY <1>3, <1>5, <1>6, LeadingTable DEF NextName
<1>8. /\ at' = "up" /\ cmd'.table = disk[y]
      /\ cmd'.path = Append(sofar, key) /\ cmd'.rest = Tail(rest)
  BY <1>0, <1>1, <1>3, <1>5, <1>7 DEF WalkOn, Command
<1>9. y # currenDir
  <2>1. PICK s \in dir_table_search(disk[d], key[1], key[2]) : disk[d][s].cluster = y
    BY <1>6 DEF Leading
  <2>2. s \in Slots
    BY <2>1 DEF dir_table_search, First, KeyedSlots
  <2>3. CASE s = SelfSlot
    BY <1>2, <1>4, <2>1, <2>3 DEF Shape, Tables
  <2>4. CASE s # SelfSlot
    BY <1>1, <1>4, <2>1, <2>2, <2>4 DEF clusterExist, ChildSlots
  <2>. QED BY <2>3, <2>4
<1>10. ClusterOf(disk[y]) = y
  BY <1>6, OwnCopy DEF Homed
<1>11. Trail(disk, dirs, RootCluster, Append(sofar, key), y)
  BY <1>4, <1>6, TrailOn
<1>12. Climbing'
  BY <1>1, <1>2, <1>6, <1>8, <1>9, <1>10, <1>11 DEF Climbing
<1>13. Trail(disk, dirs, RootCluster, curDirName, currenDir)
  BY <1>1 DEF Pathed
<1>. QED BY <1>1, <1>2, <1>8, <1>12, <1>13 DEF Pathed

LEMMA ArrivePathed ==
  ASSUME Homed, Pathed, ArriveUp \/ ArriveDown
  PROVE  Pathed'
<1>1. Up /\ UNCHANGED vars
  BY DEF ArriveUp, ArriveDown, Point, Arrive, Up
<1>2. UNCHANGED <<disk, dirs>>
  BY <1>1, NoCallKeeps DEF Homed
<1>3. CASE ArriveUp
  <2>1. at = "up" /\ Arrive(cmd.path)
    BY <1>3 DEF ArriveUp, Point
  <2>2. Trail(disk, dirs, RootCluster, cmd.path, ClusterOf(cmd.table))
    BY <2>1 DEF Pathed, Climbing
  <2>. QED BY <1>2, <2>1, <2>2 DEF Arrive, Return, Pathed
<1>4. CASE ArriveDown
  <2>1. at = "down" /\ Arrive(curDirName \o cmd.path)
    BY <1>4 DEF ArriveDown, Point
  <2>2. Trail(disk, dirs, RootCluster, curDirName \o cmd.path, ClusterOf(cmd.table))
    BY <2>1 DEF Pathed
  <2>. QED BY <1>2, <2>1, <2>2 DEF Arrive, Return, Pathed
<1>. QED BY <1>3, <1>4

LEMMA DeletePathed ==
  ASSUME Homed, Pathed, Delete
  PROVE  Pathed'
<1>1. /\ at = "delete" /\ Up /\ CallDelete(currenDir, cmd.src) /\ at' = "refresh"
      /\ UNCHANGED <<currenDir, curDirName>>
  BY DEF Delete, Point, Up, Return, SamePlace
<1>2. /\ cmd \in Command /\ Removable(cmd.src) /\ currenDir \in dirs
      /\ curDirName \in Seq(Key) /\ Shape(disk, dirs)
      /\ KeyedSlots(disk[currenDir], cmd.src[1], cmd.src[2]) \cap ChildSlots # {}
  BY <1>1 DEF Homed, Housed, Errand, Removals, Settled
<1>3. PICK key \in Key : key = cmd.src
  BY <1>2 DEF Command
<1>4. Aimed(currenDir, key[1], key[2])
  BY <1>2, <1>3 DEF Aimed, Removable
<1>5. Pruned(currenDir)
  BY <1>1, <1>2, <1>3, <1>4, CallDeleteKeeps DEF Homed
<1>6. Trail(disk, dirs, RootCluster, curDirName, currenDir)
  BY <1>1 DEF Pathed
<1>7. Trail(disk', dirs', RootCluster, curDirName, currenDir)
  BY <1>2, <1>5, <1>6, TrailRemoved DEF Pruned
<1>. QED BY <1>1, <1>7 DEF Pathed

\* The commands that leave the shell in its place.
LEMMA PlaceKept ==
  ASSUME Up,
         \/ Ls
         \/ \E key : Cat(key) \/ Mkdir(key) \/ Rm(key)
         \/ \E src, dst : Cp(src, dst) \/ MvHere(src, dst)
         \/ \E src, dst, slashes : MvUp(src, dst, slashes)
         \/ \E src, dst, path : MvDown(src, dst, path)
         \/ CopyWrite \/ MvWalk \/ MvRead \/ MvProbe \/ MvWrite \/ MvLook
  PROVE  UNCHANGED <<currenDir, curDirName>> /\ at' \notin {"prompt", "up", "down"}
<1>1. CASE Ls
  BY <1>1 DEF Ls, Return
<1>2. CASE \E key : Cat(key) \/ Mkdir(key) \/ Rm(key)
  BY <1>2 DEF Cat, Mkdir, Rm, Look, Return, SamePlace
<1>3. CASE \E src, dst : Cp(src, dst) \/ MvHere(src, dst)
  <2>1. ASSUME NEW command, CopyRead(command)
        PROVE  UNCHANGED <<currenDir, curDirName>> /\ at' \in {"look", "copy", "refresh"}
    BY <2>1 DEF CopyRead, AfterCopy, Return, SamePlace
  <2>2. \E command : CopyRead(command)
    BY <1>3 DEF Cp, MvHere
  <2>. QED BY <2>1, <2>2
<1>4. CASE \E src, dst, slashes : MvUp(src, dst, slashes)
  BY <1>4 DEF MvUp, Return, SamePlace
<1>5. CASE \E src, dst, path : MvDown(src, dst, path)
  BY <1>5 DEF MvDown, SamePlace
<1>6. CASE CopyWrite
  BY <1>6 DEF CopyWrite, AfterCopy, Return, SamePlace
<1>7. CASE MvWalk
  BY <1>7 DEF MvWalk, WalkOn, Return, SamePlace
<1>8. CASE MvRead \/ MvProbe \/ MvWrite \/ MvLook
  BY <1>8 DEF MvRead, MvProbe, MvWrite, MvLook, Look, Return, SamePlace
<1>. QED BY <1>1, <1>2, <1>3, <1>4, <1>5, <1>6, <1>7, <1>8

LEMMA InitPathed == ShellInit => Pathed
BY DEF ShellInit, Pathed, Up

LEMMA TypedPathed ==
  ASSUME Slips = {}, Homed, Pathed, Typed
  PROVE  Pathed'
<1>1. Spared /\ Up
  BY TypedHomed, LineBegins
  DEF Typed, GoUp, GoDown, Ls, EnterChild, Cat, Mkdir, Rm, Cp, MvHere, MvUp, MvDown
<1>2. CASE GoUp \/ GoDown
  BY <1>2, GoPathed
<1>3. ASSUME NEW key \in ArgKeys, EnterChild(key)
      PROVE  Pathed'
  BY <1>3, ArgKeysType, EnterChildPathed
<1>4. CASE \/ Ls
           \/ \E key \in ArgKeys : Cat(key) \/ Mkdir(key) \/ Rm(key)
           \/ \E src \in ArgKeys : MvUp(src, NoKey, 0)
           \/ \E src, dst \in Typing :
                \/ Cp(src, dst) \/ MvHere(src, dst) \/ MvUp(src, dst, 1)
                \/ \E path \in Paths : MvDown(src, dst, path)
  <2>1. UNCHANGED <<currenDir, curDirName>> /\ at' \notin {"prompt", "up", "down"}
    BY <1>1, <1>4, PlaceKept
  <2>. QED BY <1>1, <2>1, StayPathed
<1>. QED BY <1>2, <1>3, <1>4 DEF Typed

LEMMA PathedStep ==
  ASSUME Slips = {}, Homed, Pathed, [ShellNext]_allVars
  PROVE  Pathed'
<1>0. Homed' /\ (Spared \/ Delete)
  BY HomedStep
<1>1. CASE Boot
  BY <1>1 DEF Boot, Point, Pathed, Up
<1>2. CASE Start
  <2>1. /\ currenDir = RootCluster /\ curDirName = <<>> /\ at' = "refresh"
        /\ UNCHANGED <<currenDir, curDirName>>
    BY <1>2 DEF Start, Point, Homed, Housed, Up
  <2>2. RootCluster \in dirs'
    BY <1>0, <2>1 DEF Homed, Housed
  <2>. QED BY <2>1, <2>2, TrailEmpty DEF Pathed
<1>3. CASE Refresh
  <2>1. /\ Up /\ UNCHANGED <<currenDir, curDirName>> /\ at' = "prompt"
        /\ Spared /\ rootTable' = disk'[RootCluster] /\ curDirName \in Seq(Key)
    BY <1>3, RefreshHomed DEF Refresh, Point, Up, Homed, Housed
  <2>2. Trail(disk', dirs', RootCluster, curDirName, currenDir)
    BY <2>1, TrailSpared DEF Pathed
  <2>. QED BY <2>1, <2>2 DEF Pathed
<1>4. CASE Typed
  BY <1>4, TypedPathed
<1>5. CASE WalkUp \/ WalkDown
  BY <1>5, WalkUpPathed, WalkDownPathed
<1>6. CASE ArriveUp \/ ArriveDown
  BY <1>6, ArrivePathed
<1>7. CASE Delete
  BY <1>7, DeletePathed
<1>8. CASE CopyWrite \/ MvWalk \/ MvRead \/ MvProbe \/ MvWrite \/ MvLook
  <2>1. Up /\ at # "delete"
    BY <1>8 DEF CopyWrite, MvWalk, MvRead, MvProbe, MvWrite, MvLook, WalkDone, Point, Up
  <2>2. Spared
    BY <1>0, <2>1 DEF Delete, Point
  <2>3. UNCHANGED <<currenDir, curDirName>> /\ at' \notin {"prompt", "up", "down"}
    BY <1>8, <2>1, PlaceKept
  <2>. QED BY <2>1, <2>2, <2>3, StayPathed
<1>9. CASE UNCHANGED allVars
  <2>1. UNCHANGED <<disk, dirs, shellVars>>
    BY <1>9, NoCallKeeps DEF allVars, Homed
  <2>. QED BY <2>1 DEF Pathed, Climbing, Up, shellVars
<1>. QED BY <1>1, <1>2, <1>3, <1>4, <1>5, <1>6, <1>7, <1>8, <1>9 DEF ShellNext, Running

\* Without slips the shell's path follows its directory as well.
THEOREM AlwaysPathed ==
  ASSUME Slips = {}
  PROVE  ShellSpec => [](Homed /\ Pathed)
<1>1. Slips \subseteq {"enter_alike"}
  OBVIOUS
<1>2. Homed /\ Pathed /\ [ShellNext]_allVars => Homed' /\ Pathed'
  BY <1>1, HomedStep, PathedStep
<1>. QED BY <1>2, InitHomed, InitPathed, PTL DEF ShellSpec

\* As long as nothing is typed that the shell is known not to stand, the path in the
\* prompt, read from the root, leads to the current directory, however deep, and
\* whatever mkdir, cp, mv and rm have done around it.
THEOREM ShellPathLeadsHome ==
  ASSUME Slips = {}
  PROVE  ShellSpec => []PathLeadsHome
<1>1. Homed /\ Pathed => PathLeadsHome
  BY TrailLeads DEF Homed, Housed, Pathed, PathLeadsHome
<1>. QED BY <1>1, AlwaysPathed, PTL

\* The directory that has an entry for the current one, and the only one.
LEMMA ParentEntry ==
  ASSUME Homed, NEW d \in dirs, clusterExist(disk[d], currenDir)
  PROVE  d \in ParentDirs /\ \A e \in ParentDirs : e = d
<1>1. PICK s \in ChildSlots : disk[d][s].cluster = currenDir
  BY DEF clusterExist
<1>2. currenDir \in dirs /\ Settled
  BY DEF Homed, Housed
<1>3. disk[d][s].name # NoName
  <2>1. currenDir # 0
    BY <1>2, ClusterMapAssumption DEF Settled, Shape, BOOT_SECTOR
  <2>. QED BY <1>1, <1>2, <2>1 DEF Settled, Shape, Blanks
<1>4. <<d, s>> \in Entries /\ disk[d][s].attr = "dir"
  <2>1. <<d, s>> \in Entries /\ disk[d][s].attr \in {"file", "dir"}
    BY <1>2, <1>3 DEF Entries, Settled, Shape, Tables
  <2>2. disk[d][s].attr # "file"
    BY <1>1, <1>2, <2>1, FileCluster DEF Settled
  <2>. QED BY <2>1, <2>2
<1>5. ASSUME NEW e \in ParentDirs
      PROVE  e = d
  <2>1. PICK r \in ChildSlots : disk[e][r].cluster = currenDir /\ disk[e][r].attr = "dir"
    BY DEF ParentDirs
  <2>2. e \in dirs /\ disk[e][r].name # NoName
    BY <1>2, <2>1 DEF ParentDirs, Settled, Shape, Tables
  <2>3. PICK here, there : here = <<d, s>> /\ there = <<e, r>>
    OBVIOUS
  <2>4. here \in Entries /\ there \in Entries /\ Target(here) = Target(there)
    BY <1>1, <1>4, <2>1, <2>2, <2>3 DEF Entries, Target
  <2>5. here = there
    BY <1>2, <2>4 DEF Settled, Sound, UniqueOwner
  <2>. QED BY <2>3, <2>5
<1>. QED BY <1>1, <1>4, <1>5 DEF ParentDirs

LEMMA UpStep ==
  ASSUME Homed, Pathed, ShellNext, at = "up", at' = "refresh"
  PROVE  currenDir' \in ParentDirs
<1>1. WalkUp \/ ArriveUp
  BY DEF ShellNext, Boot, Start, Refresh, Point, Typed, GoUp, GoDown, Ls, EnterChild, Cat,
         Mkdir, Rm, Cp, MvHere, MvUp, MvDown, Line, Running, WalkDown, ArriveDown, Delete,
         CopyWrite, MvWalk, MvRead, WalkDone, MvProbe, MvWrite, MvLook
<1>2. ArriveUp
  BY <1>1, WalkUpPathed
<1>3. PICK d \in dirs : d = ClusterOf(cmd.table) /\ cmd.table = disk[d]
  BY DEF Pathed, Climbing
<1>4. currenDir' = d /\ clusterExist(disk[d], currenDir)
  BY <1>2, <1>3 DEF ArriveUp, Arrive
<1>. QED BY <1>4, ParentEntry

\* Without slips cd .. from below the root never gives up half-way: the walk down
\* from the root comes to a directory that has an entry for the one it left.
THEOREM ShellUpSucceeds ==
  ASSUME Slips = {}
  PROVE  ShellSpec => UpSucceeds
<1>1. Homed /\ Pathed /\ [ShellNext]_allVars
        => [at = "up" /\ at' = "refresh" => currenDir' \in ParentDirs]_allVars
  BY UpStep
<1>. QED BY <1>1, AlwaysPathed, PTL DEF ShellSpec, UpSucceeds

(***************************************************************************)
(* mv.  A file of one cluster is found under its key, and its content is   *)
(* what its cluster holds.                                                 *)
(***************************************************************************)
Holds(dk, d, key, c) ==
  \E s \in dir_table_search(dk[d], key[1], key[2]) :
    /\ dk[d][s].attr = "file" /\ dk[d][s].size = 1
    /\ dk[dk[d][s].cluster][SelfSlot].unread = <<c, 1>>

LEMMA OneCluster ==
  ASSUME NEW dk, NEW f, NEW x
  PROVE  Content(dk, f, x, 1) = [j \in 1 .. 1 |-> dk[x][SelfSlot].unread]
<1>1. ASSUME NEW j \in 1 .. 1
      PROVE  Walk(f, x)[j - 1] = x
  <2>1. j - 1 = 0
    OBVIOUS
  <2>. QED BY <2>1, WalkLinks
<1>2. PICK w : w = Walk(f, x)
  OBVIOUS
<1>3. \A j \in 1 .. 1 : w[j - 1] = x
  BY <1>1, <1>2
<1>4. Content(dk, f, x, 1) = [j \in 1 .. 1 |-> dk[w[j - 1]][SelfSlot].unread]
  BY <1>2 DEF Content
<1>. QED BY <1>3, <1>4

\* What is held is the content, and nothing else is.
LEMMA HeldContents ==
  ASSUME NEW d, NEW key, NEW c, Holds(disk, d, key, c)
  PROVE  FileContents(d, key) = {[j \in 1 .. 1 |-> <<c, 1>>]}
<1>1. PICK s \in dir_table_search(disk[d], key[1], key[2]) :
        /\ disk[d][s].attr = "file" /\ disk[d][s].size = 1
        /\ disk[disk[d][s].cluster][SelfSlot].unread = <<c, 1>>
  BY DEF Holds
<1>2. {r \in dir_table_search(disk[d], key[1], key[2]) : disk[d][r].attr = "file"} = {s}
  BY <1>1, SearchStops
<1>3. FileContents(d, key) = {Content(disk, fat, disk[d][s].cluster, disk[d][s].size)}
  BY <1>2 DEF FileContents
<1>4. PICK x : x = disk[d][s].cluster
  OBVIOUS
<1>5. Content(disk, fat, x, 1) = [j \in 1 .. 1 |-> disk[x][SelfSlot].unread]
  BY OneCluster
<1>6. [j \in 1 .. 1 |-> disk[x][SelfSlot].unread] = [j \in 1 .. 1 |-> <<c, 1>>]
  BY <1>1, <1>4
<1>. QED BY <1>1, <1>3, <1>4, <1>5, <1>6

\* A live file, and what its entry says of its first cluster.
LEMMA FoundFile ==
  ASSUME Settled, NEW p \in dirs, NEW key,
         NEW s \in dir_table_search(disk[p], key[1], key[2]), disk[p][s].attr = "file"
  PROVE  LET x == disk[p][s].cluster
         IN  /\ <<p, s>> \in Entries
             /\ x \in DataClusters /\ x \notin dirs /\ fat[x] # EMPTY
             /\ FileAt(fat, disk, x, disk[p][s].size)
<1>1. s \in ChildSlots /\ disk[p][s].name # NoName
  BY DEF ChildSlots, Settled, Shape, Tables, dir_table_search, First, KeyedSlots
<1>2. PICK e : e = <<p, s>>
  OBVIOUS
<1>3. e \in Entries /\ Target(e) = disk[p][s].cluster
  BY <1>1, <1>2 DEF Entries, Target
<1>4. Target(e) \in DataClusters /\ fat[Target(e)] # EMPTY
  BY <1>3 DEF Settled, Sound, NoDangling
<1>. QED BY <1>2, <1>3, <1>4, FileCluster DEF Settled

\* The buffer of a read that nothing stands in the way of is what the file holds.
LEMMA ReadGives ==
  ASSUME Settled, NEW p \in dirs, NEW key, CallRead(p, key),
         \E s \in dir_table_search(disk[p], key[1], key[2]) :
           disk[p][s].attr = "file" /\ disk[p][s].size = 1
  PROVE  ret' = 0 /\ Holds(disk, p, key, Buffer)
<1>1. PICK s \in dir_table_search(disk[p], key[1], key[2]) :
        disk[p][s].attr = "file" /\ disk[p][s].size = 1
  OBVIOUS
<1>2. PICK x : x = disk[p][s].cluster
  OBVIOUS
<1>3. x \in DataClusters /\ FileAt(fat, disk, x, 1)
  BY <1>1, <1>2, FoundFile
<1>4. ChainLengths(fat, x) = {1}
  BY <1>3 DEF FileAt
<1>5. ReadCode(disk[p][s], 1) = 0
  <2>1. x # 0
    BY <1>3, ClusterMapAssumption DEF DataClusters, FirstCluster
  <2>. QED BY <1>1, <1>2, <2>1 DEF ReadCode
<1>6. \A r \in dir_table_search(disk[p], key[1], key[2]) : r = s
  BY SearchStops
<1>7. ~ ReadRefused(p, key[1], key[2], 1)
  BY <1>1, <1>5, <1>6 DEF ReadRefused, Exists
<1>8. ~ ReadOverrun(p, key[1], key[2], 1)
  BY <1>2, <1>4, <1>6 DEF ReadOverrun
<1>9. ret' = 0 /\ got' = Data(Content(disk, fat, x, 1))
  BY <1>2, <1>4, <1>6, <1>7, <1>8 DEF CallRead, ReadFile
<1>10. PICK d \in Datas : Content(disk, fat, x, 1) = [i \in 1 .. 1 |-> <<d, i>>]
  BY <1>3 DEF FileAt
<1>11. disk[x][SelfSlot].unread = <<d, 1>>
  <2>1. [j \in 1 .. 1 |-> disk[x][SelfSlot].unread][1] = [i \in 1 .. 1 |-> <<d, i>>][1]
    BY <1>10, OneCluster
  <2>. QED BY <2>1
<1>12. Buffer = d
  <2>1. got'.data = [i \in 1 .. 1 |-> <<d, i>>]
    BY <1>9, <1>10 DEF Data, Nothing
  <2>2. got'.data[1] = <<d, 1>> /\ got'.data # <<>>
    BY <2>1
  <2>. QED BY <1>9, <2>2 DEF Buffer
<1>. QED BY <1>1, <1>2, <1>9, <1>11, <1>12 DEF Holds

\* A write that nothing stands in the way of gives a file that holds its data, and
\* leaves what the others hold.
LEMMA WriteGives ==
  ASSUME Settled, NEW p \in dirs, NEW key \in Key, NEW d \in Datas,
         CallWrite(p, key, 1, d),
         key[1] # NoName, ~ Exists(p, key[1], key[2]), FreeSlots(disk[p]) # {},
         Cardinality(FreeClusters(fat)) >= Needed(1)
  PROVE  /\ Holds(disk', p, key, d)
         /\ \A q \in dirs : \A other, c :
              Holds(disk, q, other, c) => Holds(disk', q, other, c)
<1>. USE SlotNumbers
<1>1. PICK name \in Callable, ext \in Exts : name = key[1] /\ ext = key[2]
  BY DEF Key
<1>2. WriteCode(p, name, ext, 1) = 0
  <2>1. \A s \in find_empty_entry(disk[p]) : disk[p][s].attr # "dir"
    <3>1. \A s \in find_empty_entry(disk[p]) : s \in Slots /\ disk[p][s].name = NoName
      BY DEF find_empty_entry, First, FreeSlots
    <3>. QED BY <3>1 DEF Settled, Shape, Tables, ChildSlots
  <2>2. FreeClusters(fat) # {}
    <3>1. Cardinality({}) = 0
      BY FS_EmptySet
    <3>2. ~ (0 >= Needed(1))
      BY DEF Needed
    <3>3. Cardinality(FreeClusters(fat)) >= Needed(1)
      OBVIOUS
    <3>. QED BY <3>1, <3>2, <3>3
  <2>. QED BY <1>1, <2>1, <2>2 DEF WriteCode
<1>3. WriteFile(p, name, ext, 1, d) /\ 1 \in FileSizes
  <2>1. Cardinality(FreeClusters(fat)) \in Nat
    <3>1. IsFiniteSet(DataClusters)
      BY FS_Interval, ClusterMapAssumption DEF DataClusters, FirstCluster
    <3>2. FreeClusters(fat) \subseteq DataClusters
      BY DEF FreeClusters
    <3>. QED BY <3>1, <3>2, FS_Subset, FS_CardinalityType
  <2>2. ~ WriteRefused(p, name, ext, 1)
    BY <1>2 DEF WriteRefused
  <2>3. ~ WriteOverrun(p, name, ext, 1)
    BY <2>1 DEF WriteOverrun, Needed
  <2>. QED BY <1>1, <2>2, <2>3, ShellAssumption, SizeAssumption DEF CallWrite, FileSizes
<1>4. PICK ch \in Chains(fat, Needed(1)), s \in ChildSlots :
        /\ disk[p][s].name = NoName /\ name # NoName
        /\ disk'[p][s] = FileEntry(name, ext, ch[1], 1)
        /\ \A r \in Slots : r # s => Same(disk'[p][r], disk[p][r])
        /\ \A i \in 1 .. 1 : disk'[ch[i]] = DataTable(d, i)
        /\ \A c \in Clusters :
             c # p /\ (\A i \in 1 .. 1 : c # ch[i]) => disk'[c] = disk[c]
  BY <1>3, FileTables DEF Settled, Shape
<1>5. Needed(1) \in Nat \ {0} /\ 1 \in 1 .. Needed(1) /\ 1 \in 1 .. 1
  BY DEF Needed
<1>6. fat[ch[1]] = EMPTY
  BY <1>5, ChainClusters
<1>7. Holds(disk', p, key, d)
  <2>1. disk'[p][s].name = name /\ disk'[p][s].ext = ext /\ disk'[p][s].attr = "file"
        /\ disk'[p][s].size = 1 /\ disk'[p][s].cluster = ch[1]
    BY <1>4 DEF FileEntry
  <2>2. KeyedSlots(disk[p], name, ext) = {}
    BY <1>1, SearchFails DEF Exists
  <2>3. KeyedSlots(disk'[p], name, ext) = {s}
    BY <1>4, <2>1, <2>2 DEF KeyedSlots, Same
  <2>4. dir_table_search(disk'[p], name, ext) = {s}
    BY <2>3, SlotAssumption DEF dir_table_search, First, Slots
  <2>5. disk'[ch[1]][SelfSlot].unread = <<d, 1>>
    <3>1. disk'[ch[1]] = DataTable(d, 1)
      BY <1>4, <1>5
    <3>2. 1 \in 1 .. MaxFileClusters
      BY ShellAssumption, SizeAssumption
    <3>3. <<d, 1>> \in Pieces /\ Reading[<<d, 1>>] \in Table
      BY <3>2, ReadingAssumption DEF Pieces
    <3>4. DataTable(d, 1)[SelfSlot].unread = <<d, 1>>
      BY <3>3 DEF DataTable, Table, Entry, SelfSlot
    <3>. QED BY <3>1, <3>4
  <2>. QED BY <1>1, <2>1, <2>4, <2>5 DEF Holds
<1>8. ASSUME NEW q \in dirs, NEW other, NEW c, Holds(disk, q, other, c)
      PROVE  Holds(disk', q, other, c)
  <2>1. PICK r \in dir_table_search(disk[q], other[1], other[2]) :
          /\ disk[q][r].attr = "file" /\ disk[q][r].size = 1
          /\ disk[disk[q][r].cluster][SelfSlot].unread = <<c, 1>>
    BY <1>8 DEF Holds
  <2>2. PICK x : x = disk[q][r].cluster
    OBVIOUS
  <2>3. x \in DataClusters /\ x \notin dirs /\ fat[x] # EMPTY
    BY <2>1, <2>2, FoundFile
  <2>4. disk'[x] = disk[x]
    <3>1. x \in Clusters /\ x # p /\ \A i \in 1 .. 1 : x # ch[i]
      BY <1>6, <2>3, ClusterMapAssumption DEF DataClusters, Clusters, FirstCluster
    <3>. QED BY <1>4, <3>1
  <2>5. PICK b : Entered(disk, disk', dirs, dirs', p, b)
    BY <1>3, FileEntered
  <2>6. PICK dk, ds : dk = disk' /\ ds = dirs'
    OBVIOUS
  <2>7. Entered(disk, dk, dirs, ds, p, b) /\ Shape(disk, dirs)
    BY <2>5, <2>6 DEF Settled
  <2>8. r \in dir_table_search(dk[q], other[1], other[2]) /\ Same(dk[q][r], disk[q][r])
    BY <2>1, <2>7, EnteredFinds
  <2>9. dk[q][r].attr = "file" /\ dk[q][r].size = 1 /\ dk[q][r].cluster = x
    BY <2>1, <2>2, <2>8 DEF Same
  <2>. QED BY <2>1, <2>2, <2>4, <2>6, <2>8, <2>9 DEF Holds
<1>. QED BY <1>7, <1>8

\* Where the path leads there is a trail.
LEMMA LeadsTrail ==
  ASSUME Shape(disk, dirs), NEW c \in dirs, NEW path \in Seq(Key), NEW y \in Leads(c, path)
  PROVE  Trail(disk, dirs, c, path, y)
<1>1. PICK n \in Nat : n = Len(path)
  BY LenProperties
<1>2. PICK w : Leads(c, path) = w[n] /\ Paced(disk, c, path, w, n)
  BY <1>1, LeadsPaced
<1>3. w[0] = {c} /\ \A i \in 1 .. n : w[i] = Onward(disk, path[i], w[i - 1])
  BY <1>2, PacedSteps
<1>. DEFINE Upto(i, z) == \E q \in [0 .. i -> dirs] :
                            /\ q[0] = c /\ q[i] = z
                            /\ \A j \in 1 .. i : Leading(disk, q[j - 1], path[j], q[j])
            Bad == {i \in 0 .. n : \E z \in w[i] : ~ Upto(i, z)}
<1>4. SUFFICES ASSUME Bad # {} PROVE FALSE
  BY <1>1, <1>2 DEF Trail
<1>5. PICK k \in Bad : \A m \in Bad : k <= m
  <2>1. Bad \subseteq Nat
    OBVIOUS
  <2>. HIDE DEF Bad
  <2>. QED BY <1>4, <2>1, LeastOf
<1>6. PICK z \in w[k] : ~ Upto(k, z)
  BY <1>5
<1>7. k # 0
  <2>. SUFFICES ASSUME k = 0 PROVE FALSE
    OBVIOUS
  <2>1. z = c
    BY <1>3, <1>6
  <2>2. PICK q : q = [i \in 0 .. 0 |-> c]
    OBVIOUS
  <2>3. q \in [0 .. 0 -> dirs] /\ q[0] = c /\ \A j \in 1 .. 0 : FALSE
    BY <2>2
  <2>4. Upto(0, c)
    BY <2>3
  <2>. QED BY <1>6, <2>1, <2>4
<1>8. k \in 1 .. n /\ k - 1 \in 0 .. n /\ k - 1 \in Nat /\ ~ (k <= k - 1)
  BY <1>5, <1>7
<1>9. PICK key : key = path[k]
  OBVIOUS
<1>10. PICK x \in w[k - 1] : Leading(disk, x, key, z)
  <2>1. z \in Onward(disk, key, w[k - 1])
    BY <1>3, <1>6, <1>8, <1>9
  <2>. QED BY <2>1, OnwardIs
<1>11. Upto(k - 1, x)
  BY <1>5, <1>8, <1>10
<1>12. PICK q \in [0 .. k - 1 -> dirs] :
         /\ q[0] = c /\ q[k - 1] = x
         /\ \A j \in 1 .. k - 1 : Leading(disk, q[j - 1], path[j], q[j])
  BY <1>11
<1>13. z \in dirs
  <2>1. x \in dirs
    BY <1>8, <1>12
  <2>. QED BY <1>10, <2>1, LeadingLive
<1>14. PICK r : r = [i \in 0 .. k |-> IF i <= k - 1 THEN q[i] ELSE z]
  OBVIOUS
<1>15. r \in [0 .. k -> dirs] /\ r[0] = c /\ r[k] = z
  BY <1>8, <1>12, <1>13, <1>14
<1>16. ASSUME NEW j \in 1 .. k
       PROVE  Leading(disk, r[j - 1], path[j], r[j])
  <2>1. CASE j = k
    <3>1. r[j - 1] = x /\ path[j] = key /\ r[j] = z
      BY <1>8, <1>9, <1>12, <1>14, <2>1
    <3>. QED BY <1>10, <3>1
  <2>2. CASE j # k
    <3>1. j \in 1 .. k - 1
      BY <1>8, <2>2
    <3>2. r[j - 1] = q[j - 1] /\ r[j] = q[j]
      BY <1>8, <1>14, <3>1
    <3>. QED BY <1>12, <3>1, <3>2
  <2>. QED BY <2>1, <2>2
<1>17. Upto(k, z)
  BY <1>15, <1>16
<1>. QED BY <1>6, <1>17

\* A trail ahead that ends in y, or one component further.
Rise(dk, ds, d, rest, y) ==
  \/ Trail(dk, ds, d, rest, y)
  \/ \E key \in Key : Trail(dk, ds, d, Append(rest, key), y)

LEMMA RiseOn ==
  ASSUME NEW dk, NEW ds, NEW d, NEW y, NEW rest \in Seq(Key), rest # <<>>,
         Rise(dk, ds, d, rest, y)
  PROVE  \E z \in ds : Leading(dk, d, Head(rest), z) /\ Rise(dk, ds, z, Tail(rest), y)
<1>1. CASE Trail(dk, ds, d, rest, y)
  BY <1>1, TrailOff DEF Rise
<1>2. ASSUME NEW key \in Key, Trail(dk, ds, d, Append(rest, key), y)
      PROVE  \E z \in ds : Leading(dk, d, Head(rest), z) /\ Rise(dk, ds, z, Tail(rest), y)
  <2>1. PICK longer \in Seq(Key) : longer = Append(rest, key)
    BY AppendProperties
  <2>2. longer # <<>> /\ Head(longer) = Head(rest) /\ Tail(longer) = Append(Tail(rest), key)
    BY <2>1, HeadTailAppend, AppendProperties
  <2>3. PICK z \in ds : Leading(dk, d, Head(longer), z) /\ Trail(dk, ds, z, Tail(longer), y)
    BY <1>2, <2>1, <2>2, TrailOff
  <2>. QED BY <2>2, <2>3 DEF Rise
<1>. QED BY <1>1, <1>2 DEF Rise

\* At its end the directory has an entry for y.
LEMMA RiseEnd ==
  ASSUME NEW dk, NEW ds, Shape(dk, ds), NEW d \in ds, NEW y, y # d, Rise(dk, ds, d, <<>>, y)
  PROVE  \E s \in ChildSlots : dk[d][s].cluster = y
<1>1. ~ Trail(dk, ds, d, <<>>, y)
  BY TrailEmpty
<1>2. PICK key \in Key : Trail(dk, ds, d, Append(<<>>, key), y)
  BY <1>1 DEF Rise
<1>3. PICK one \in Seq(Key) : one = Append(<<>>, key)
  <2>1. PICK none \in Seq(Key) : none = <<>>
    BY EmptySeq
  <2>2. Append(none, key) \in Seq(Key)
    BY AppendProperties
  <2>. QED BY <2>1, <2>2
<1>4. one # <<>> /\ Head(one) = key /\ Tail(one) = <<>>
  BY <1>3
<1>5. PICK z \in ds : Leading(dk, d, key, z) /\ Trail(dk, ds, z, <<>>, y)
  BY <1>2, <1>3, <1>4, TrailOff
<1>6. z = y
  BY <1>5, TrailEmpty
<1>7. y \in Below(dk, {d})
  BY <1>5, <1>6, LeadingLive
<1>. QED BY <1>7, BelowIs

\* What mv has in hand, if nothing stands in the way of it: the way to the directory
\* it is meant to move to, then the content of the source, then the copy.
Bound == {"mv_up", "mv_down", "copy", "mv_probe", "mv_write"}
Laden == {"copy", "mv_probe", "mv_write", "look", "delete"}

Rising ==
  LET d == ClusterOf(cmd.table)
  IN  /\ d \in dirs /\ d # currenDir /\ cmd.table = disk[d]
      /\ cmd.due \in ParentDirs
      /\ Rise(disk, dirs, d, cmd.rest, currenDir)

Carried ==
  cmd.name = "mv" /\ cmd.due # 0 =>
    /\ at \in Bound => cmd.due \in dirs /\ CanMove(cmd.src, cmd.due, cmd.dst)
    /\ at = "mv_up" => Rising
    /\ at = "mv_down" => Trail(disk, dirs, ClusterOf(cmd.table), cmd.rest, cmd.due)
    /\ at = "copy" => cmd.due = currenDir /\ cmd.from = cmd.src
    /\ at \in {"mv_probe", "mv_write"} => cmd.due = ClusterOf(cmd.table)
    /\ at \in Laden => Holds(disk, currenDir, cmd.src, cmd.cl)
    /\ at \in {"look", "delete"} => Holds(disk, cmd.due, cmd.dst, cmd.cl)

\* A step after which no mv is under way.
LEMMA NoMove ==
  ASSUME at' \notin Bound \cup Laden \/ cmd'.name # "mv"
  PROVE  Carried'
BY DEF Carried, Bound, Laden

LEMMA ReturnCarried ==
  ASSUME Return
  PROVE  Carried'
BY NoMove DEF Return, Bound, Laden

LEMMA DueIs ==
  ASSUME NEW src, NEW dst, NEW H, Due(src, H, dst) # 0
  PROVE  Due(src, H, dst) \in H /\ CanMove(src, Due(src, H, dst), dst)
BY DEF Due

LEMMA CanMoveKept ==
  ASSUME UNCHANGED <<fat, disk, currenDir>>
  PROVE  \A src, h, dst : CanMove(src, h, dst) => CanMove(src, h, dst)'
BY DEF CanMove, Exists

LEMMA FromSource ==
  ASSUME NEW key, IsFileName(key)
  PROVE  \A k \in Heard(key) : k = key
BY DEF IsFileName, Heard

LEMMA MvHereCarried ==
  ASSUME Slips = {}, Homed, NEW src \in Key, NEW dst, MvHere(src, dst)
  PROVE  Carried'
<1>1. PICK from \in Heard(src), to \in Heard(dst) :
        CopyRead([Move(src, to, {currenDir}) EXCEPT !.from = from])
  BY DEF MvHere
<1>2. PICK command : command = [Move(src, to, {currenDir}) EXCEPT !.from = from]
  OBVIOUS
<1>3. cmd \in Command /\ currenDir \in dirs /\ from \in Key /\ to \in Key
  BY LineBegins, HeardType DEF MvHere
<1>4. PICK due \in Nat : due = Due(src, {currenDir}, to)
  BY <1>3, DirNumbers, DueType DEF Homed
<1>5. /\ command \in Command /\ command.name = "mv" /\ command.src = src
      /\ command.dst = to /\ command.from = from /\ command.due = due
  <2>1. Move(src, to, {currenDir})
          = [cmd EXCEPT !.name = "mv", !.src = src, !.dst = to, !.due = due]
    BY <1>4 DEF Move
  <2>. QED BY <1>2, <1>3, <2>1 DEF Command
<1>6. CopyRead(command)
  BY <1>1, <1>2
<1>7. cmd' = command \/ cmd' = [command EXCEPT !.cl = Buffer] \/ Return
  BY <1>6 DEF CopyRead, AfterCopy
<1>8. CASE Return
  BY <1>8, ReturnCarried
<1>9. CASE due = 0 /\ ~ Return
  <2>1. cmd'.due = 0
    BY <1>5, <1>7, <1>9 DEF Command
  <2>. QED BY <2>1 DEF Carried
<1>10. CASE due # 0
  <2>1. due = currenDir /\ CanMove(src, due, to)
    BY <1>4, <1>10, DueIs
  <2>2. IsFileName(src) /\ from = src
    BY <2>1, FromSource DEF CanMove
  <2>3. CallRead(currenDir, src) /\ SamePlace
    BY <1>5, <1>6, <2>2 DEF CopyRead
  <2>4. ret' = 0 /\ Holds(disk, currenDir, src, Buffer)
    BY <1>3, <2>1, <2>3, ReadGives DEF Homed, CanMove
  <2>5. UNCHANGED <<fat, disk, dirs, currenDir>>
    BY <1>3, <2>3, CallReadKeeps DEF Homed, SamePlace
  <2>6. at' = "copy" /\ cmd' = [command EXCEPT !.cl = Buffer]
    BY <1>6, <2>4 DEF CopyRead
  <2>7. /\ cmd'.src = src /\ cmd'.dst = to /\ cmd'.from = from /\ cmd'.due = due
        /\ cmd'.cl = Buffer
    BY <1>5, <2>6 DEF Command
  <2>8. CanMove(src, due, to)'
    BY <2>1, <2>5, CanMoveKept
  <2>. QED BY <1>3, <2>1, <2>2, <2>4, <2>5, <2>6, <2>7, <2>8 DEF Carried, Bound, Laden
<1>. QED BY <1>8, <1>9, <1>10

LEMMA CopyWriteCarried ==
  ASSUME Homed, Carried, CopyWrite
  PROVE  Carried'
<1>1. /\ at = "copy" /\ Up /\ AfterCopy(cmd) /\ SamePlace
      /\ CallWrite(currenDir, cmd.dst, SizeFor(cmd.from), cmd.cl)
  BY DEF CopyWrite, Point, Up
<1>2. CASE Return
  BY <1>2, ReturnCarried
<1>3. CASE cmd.name = "mv" /\ at' = "look" /\ cmd' = cmd
  <2>. SUFFICES ASSUME cmd.due # 0 PROVE Carried'
    BY <1>3 DEF Carried
  <2>1. /\ cmd.due = currenDir /\ cmd.from = cmd.src /\ CanMove(cmd.src, currenDir, cmd.dst)
        /\ Holds(disk, currenDir, cmd.src, cmd.cl)
    BY <1>1, <1>3 DEF Carried, Bound, Laden
  <2>2. cmd \in Command /\ currenDir \in dirs
    BY <1>1 DEF Homed, Housed, Errand
  <2>3. PICK src \in Key, dst \in Key : src = cmd.src /\ dst = cmd.dst
    BY <2>2 DEF Command
  <2>4. PICK d \in Datas : d = cmd.cl
    BY <2>2 DEF Command
  <2>5. CallWrite(currenDir, dst, 1, d)
    BY <1>1, <2>1, <2>3, <2>4 DEF SizeFor, CanMove
  <2>6. /\ dst[1] # NoName /\ ~ Exists(currenDir, dst[1], dst[2])
        /\ FreeSlots(disk[currenDir]) # {} /\ Cardinality(FreeClusters(fat)) >= Needed(1)
    BY <2>1, <2>3 DEF CanMove
  <2>7. /\ Holds(disk', currenDir, dst, d)
        /\ \A other, c : Holds(disk, currenDir, other, c) => Holds(disk', currenDir, other, c)
    BY <2>2, <2>5, <2>6, WriteGives DEF Homed
  <2>8. Holds(disk', currenDir, src, d)
    BY <2>1, <2>3, <2>4, <2>7
  <2>. QED BY <1>1, <1>3, <2>1, <2>3, <2>4, <2>7, <2>8 DEF Carried, Bound, Laden, SamePlace
<1>. QED BY <1>1, <1>2, <1>3 DEF AfterCopy

\* mv to the directory above: the walk will take one step less than the path has
\* components, or as many.
LEMMA MvUpCarried ==
  ASSUME Slips = {}, Homed, Pathed, NEW src \in Key, NEW dst \in Key,
         NEW slashes \in {0, 1}, MvUp(src, dst, slashes)
  PROVE  Carried'
<1>1. Line /\ SamePlace /\ UNCHANGED vars
  BY DEF MvUp
<1>2. /\ cmd \in Command /\ curDirName \in Seq(Key) /\ rootTable = disk[RootCluster]
      /\ ClusterOf(rootTable) = RootCluster /\ RootCluster \in dirs
      /\ Trail(disk, dirs, RootCluster, curDirName, currenDir)
  BY <1>1, LineBegins DEF Pathed, Line, Copied
<1>3. CASE Return
  BY <1>3, ReturnCarried
<1>4. CASE ~ Return
  <2>1. PICK H, rest :
          /\ H = IF Len(curDirName) <= slashes + 1 THEN ParentDirs ELSE {}
          /\ rest = [i \in 1 .. slashes |->
                       IF i <= Len(curDirName) THEN curDirName[i] ELSE NoKey]
    OBVIOUS
  <2>2. /\ currenDir # RootCluster /\ at' = "mv_up"
        /\ cmd' = [Move(src, dst, H) EXCEPT !.table = rootTable, !.rest = rest]
    BY <1>4, <2>1 DEF MvUp
  <2>3. PICK due \in Nat : due = Due(src, H, dst)
    BY <2>1, DirNumbers DEF ParentDirs, Homed, Due
  <2>4. /\ cmd'.name = "mv" /\ cmd'.src = src /\ cmd'.dst = dst /\ cmd'.due = due
        /\ cmd'.table = rootTable /\ cmd'.rest = rest
    <3>1. Move(src, dst, H) = [cmd EXCEPT !.name = "mv", !.src = src, !.dst = dst, !.due = due]
      BY <2>3 DEF Move
    <3>. QED BY <1>2, <2>2, <3>1 DEF Command
  <2>. SUFFICES ASSUME due # 0 PROVE Carried'
    BY <2>4 DEF Carried
  <2>5. /\ due \in ParentDirs /\ CanMove(src, due, dst)
        /\ Len(curDirName) <= slashes + 1
    BY <2>1, <2>3, DueIs
  <2>6. UNCHANGED <<fat, disk, dirs, currenDir>>
    BY <1>1 DEF vars, SamePlace
  <2>7. Rise(disk, dirs, RootCluster, rest, currenDir)
    <3>1. curDirName # <<>>
      BY <1>2, <2>2, TrailEmpty
    <3>2. PICK n \in Nat \ {0} : n = Len(curDirName) /\ n <= slashes + 1
      BY <1>2, <2>5, <3>1, EmptySeq, LenProperties
    <3>3. CASE n = slashes
      <4>1. rest = [i \in 1 .. n |-> curDirName[i]]
        BY <2>1, <3>2, <3>3
      <4>2. rest = curDirName
        BY <1>2, <3>2, <4>1
      <4>. QED BY <1>2, <4>2 DEF Rise
    <3>4. CASE n = slashes + 1
      <4>1. rest = [i \in 1 .. n - 1 |-> curDirName[i]]
        BY <2>1, <3>2, <3>4
      <4>2. PICK key \in Key : key = curDirName[n]
        BY <1>2, <3>2
      <4>3. curDirName = Append(rest, key)
        BY <1>2, <3>2, <4>1, <4>2
      <4>. QED BY <1>2, <4>2, <4>3 DEF Rise
    <3>5. n = slashes \/ n = slashes + 1
      BY <3>2
    <3>. QED BY <3>3, <3>4, <3>5
  <2>8. Rising'
    BY <1>2, <2>2, <2>4, <2>5, <2>6, <2>7 DEF Rising, ParentDirs
  <2>9. CanMove(src, due, dst)'
    BY <2>5, <2>6, CanMoveKept
  <2>. QED BY <2>2, <2>4, <2>5, <2>6, <2>8, <2>9 DEF Carried, Bound, Laden, ParentDirs
<1>. QED BY <1>3, <1>4

LEMMA MvDownCarried ==
  ASSUME Slips = {}, Homed, NEW src \in Key, NEW dst \in Key, NEW path \in Paths,
         MvDown(src, dst, path)
  PROVE  Carried'
<1>1. Line /\ SamePlace /\ UNCHANGED vars /\ at' = "mv_down"
  BY DEF MvDown
<1>2. /\ cmd \in Command /\ currenDir \in dirs /\ ClusterOf(curTable) = currenDir
      /\ path \in Seq(Key)
  BY <1>1, LineBegins, PathsType DEF Copied
<1>3. PICK H : H = Leads(currenDir, path)
  OBVIOUS
<1>4. H \subseteq dirs
  BY <1>2, <1>3, LeadsLive DEF Homed, Settled
<1>5. PICK due \in Nat : due = Due(src, H, dst)
  BY <1>4, DirNumbers DEF Homed, Due
<1>6. /\ cmd'.name = "mv" /\ cmd'.src = src /\ cmd'.dst = dst /\ cmd'.due = due
      /\ cmd'.table = curTable /\ cmd'.rest = path
  <2>1. Move(src, dst, H) = [cmd EXCEPT !.name = "mv", !.src = src, !.dst = dst, !.due = due]
    BY <1>5 DEF Move
  <2>. QED BY <1>2, <1>3, <2>1 DEF MvDown, Command
<1>. SUFFICES ASSUME due # 0 PROVE Carried'
  BY <1>6 DEF Carried
<1>7. due \in H /\ CanMove(src, due, dst)
  BY <1>5, DueIs
<1>8. UNCHANGED <<fat, disk, dirs, currenDir>>
  BY <1>1 DEF vars, SamePlace
<1>9. Trail(disk, dirs, currenDir, path, due)
  BY <1>2, <1>3, <1>7, LeadsTrail DEF Homed, Settled
<1>10. CanMove(src, due, dst)'
  BY <1>7, <1>8, CanMoveKept
<1>. QED BY <1>1, <1>2, <1>4, <1>6, <1>7, <1>8, <1>9, <1>10 DEF Carried, Bound, Laden

\* A step of the walk, to the next directory of the trail.
LEMMA MvWalkCarried ==
  ASSUME Homed, Carried, MvWalk
  PROVE  Carried'
<1>1. /\ at \in {"mv_up", "mv_down"} /\ ~ WalkDone /\ WalkOn /\ SamePlace
      /\ cmd \in Command /\ ClusterOf(cmd.table) \in dirs
  BY DEF MvWalk, WalkOn, Homed, Errand, Up, Walks, Copied
<1>2. UNCHANGED <<fat, disk, dirs, currenDir>> /\ Shape(disk, dirs)
  BY <1>1, CallReadDirectoryKeeps DEF WalkOn, Homed, Settled, SamePlace
<1>3. PICK d, rest : d = ClusterOf(cmd.table) /\ rest = cmd.rest
  OBVIOUS
<1>4. rest \in Seq(Key) /\ rest # <<>> /\ d \in dirs
  BY <1>1, <1>3 DEF Command, WalkDone
<1>5. CASE Return
  BY <1>5, ReturnCarried
<1>6. ASSUME NEW t \in TableNamed(d, NextName),
             cmd' = [cmd EXCEPT !.table = t,
                                !.path = Append(@, NextName),
                                !.rest = IF @ = <<>> THEN @ ELSE Tail(@)],
             UNCHANGED at
      PROVE  Carried'
  <2>1. NextName = Head(rest)
    BY <1>3, <1>4 DEF NextName
  <2>2. /\ cmd'.name = cmd.name /\ cmd'.src = cmd.src /\ cmd'.dst = cmd.dst
        /\ cmd'.due = cmd.due /\ cmd'.table = t /\ cmd'.rest = Tail(rest)
    BY <1>1, <1>3, <1>4, <1>6 DEF Command
  <2>. SUFFICES ASSUME cmd.name = "mv", cmd.due # 0 PROVE Carried'
    BY <2>2 DEF Carried
  <2>3. PICK src, dst, due : src = cmd.src /\ dst = cmd.dst /\ due = cmd.due
    OBVIOUS
  <2>4. due \in dirs /\ CanMove(src, due, dst)
    BY <1>1, <2>3 DEF Carried, Bound
  <2>5. CanMove(src, due, dst)'
    BY <1>2, <2>4, CanMoveKept
  <2>6. ASSUME NEW y \in dirs, Leading(disk, d, Head(rest), y)
        PROVE  t = disk[y] /\ ClusterOf(t) = y
    BY <1>6, <2>1, <2>6, LeadingTable, OwnCopy DEF Homed
  <2>7. CASE at = "mv_down"
    <3>1. Trail(disk, dirs, d, rest, due)
      BY <1>3, <2>3, <2>7 DEF Carried
    <3>2. PICK y \in dirs : /\ Leading(disk, d, Head(rest), y)
                            /\ Trail(disk, dirs, y, Tail(rest), due)
      BY <1>4, <3>1, TrailOff
    <3>3. ClusterOf(t) = y
      BY <2>6, <3>2
    <3>4. Trail(disk, dirs, ClusterOf(cmd.table), cmd.rest, cmd.due)'
      BY <1>2, <2>2, <2>3, <3>2, <3>3
    <3>5. at' = "mv_down"
      BY <1>6, <2>7
    <3>. QED BY <1>2, <2>2, <2>3, <2>4, <2>5, <3>4, <3>5 DEF Carried, Bound, Laden
  <2>8. CASE at = "mv_up"
    <3>1. /\ d # currenDir /\ cmd.table = disk[d] /\ due \in ParentDirs
          /\ Rise(disk, dirs, d, rest, currenDir)
      BY <1>3, <2>3, <2>8 DEF Carried, Rising
    <3>2. PICK key \in Key, y \in dirs :
            /\ key = Head(rest) /\ Leading(disk, d, key, y)
            /\ Rise(disk, dirs, y, Tail(rest), currenDir)
      BY <1>4, <3>1, RiseOn, HeadTailProperties
    <3>3. t = disk[y] /\ ClusterOf(t) = y
      BY <2>6, <3>2
    <3>4. y # currenDir
      <4>1. \A s \in ChildSlots : disk[d][s].cluster # currenDir
        BY <1>1, <2>8, <3>1 DEF WalkDone, clusterExist
      <4>2. y = d \/ y \in Below(disk, {d})
        BY <1>2, <1>4, <3>2, LeadingLive
      <4>. QED BY <3>1, <4>1, <4>2, BelowIs
    <3>5. Rising'
      BY <1>2, <2>2, <2>3, <3>1, <3>2, <3>3, <3>4 DEF Rising, ParentDirs
    <3>. QED BY <1>2, <1>6, <2>2, <2>3, <2>4, <2>5, <2>8, <3>5 DEF Carried, Bound, Laden
  <2>. QED BY <1>1, <2>7, <2>8
<1>. QED BY <1>1, <1>3, <1>5, <1>6 DEF WalkOn

\* Where the walk ends is the directory it was for.
LEMMA WalkArrives ==
  ASSUME Homed, Carried, WalkDone, cmd.name = "mv", cmd.due # 0
  PROVE  ClusterOf(cmd.table) = cmd.due
<1>1. PICK d, due : d = ClusterOf(cmd.table) /\ due = cmd.due
  OBVIOUS
<1>2. d \in dirs /\ Shape(disk, dirs)
  BY <1>1 DEF WalkDone, Homed, Errand, Walks, Copied, Settled
<1>3. CASE at = "mv_down"
  <2>1. Trail(disk, dirs, d, <<>>, due)
    BY <1>1, <1>3 DEF WalkDone, Carried
  <2>. QED BY <1>1, <1>2, <2>1, TrailEmpty
<1>4. CASE at = "mv_up"
  <2>1. /\ d # currenDir /\ cmd.table = disk[d] /\ due \in ParentDirs
        /\ Rise(disk, dirs, d, cmd.rest, currenDir)
    BY <1>1, <1>4 DEF Carried, Rising
  <2>2. clusterExist(disk[d], currenDir)
    <3>1. CASE cmd.rest = <<>>
      BY <1>2, <2>1, <3>1, RiseEnd DEF clusterExist
    <3>. QED BY <1>4, <2>1, <3>1 DEF WalkDone
  <2>. QED BY <1>1, <1>2, <2>1, <2>2, ParentEntry
<1>. QED BY <1>3, <1>4 DEF WalkDone

LEMMA MvReadCarried ==
  ASSUME Homed, Carried, MvRead
  PROVE  Carried'
<1>1. /\ WalkDone /\ at \in {"mv_up", "mv_down"} /\ SamePlace
      /\ CallRead(currenDir, cmd.src)
      /\ at' = "mv_probe" /\ cmd' = [cmd EXCEPT !.cl = Buffer]
  BY DEF MvRead, WalkDone
<1>2. cmd \in Command /\ currenDir \in dirs
  BY <1>1 DEF Homed, Housed, Errand, Up
<1>3. /\ cmd'.name = cmd.name /\ cmd'.src = cmd.src /\ cmd'.dst = cmd.dst
      /\ cmd'.due = cmd.due /\ cmd'.table = cmd.table /\ cmd'.cl = Buffer
  BY <1>1, <1>2 DEF Command
<1>. SUFFICES ASSUME cmd.name = "mv", cmd.due # 0 PROVE Carried'
  BY <1>3 DEF Carried
<1>4. PICK src, dst, due : src = cmd.src /\ dst = cmd.dst /\ due = cmd.due
  OBVIOUS
<1>5. due \in dirs /\ CanMove(src, due, dst)
  BY <1>1, <1>4 DEF Carried, Bound
<1>6. Holds(disk, currenDir, src, Buffer)
  BY <1>1, <1>2, <1>4, <1>5, ReadGives DEF Homed, CanMove
<1>7. UNCHANGED <<fat, disk, dirs, currenDir>>
  BY <1>1, <1>2, CallReadKeeps DEF Homed, SamePlace
<1>8. CanMove(src, due, dst)'
  BY <1>5, <1>7, CanMoveKept
<1>9. ClusterOf(cmd.table) = due
  BY <1>1, <1>4, WalkArrives
<1>. QED BY <1>1, <1>3, <1>4, <1>5, <1>6, <1>7, <1>8, <1>9 DEF Carried, Bound, Laden

LEMMA MvProbeCarried ==
  ASSUME Homed, Carried, MvProbe
  PROVE  Carried'
<1>1. /\ at = "mv_probe" /\ SamePlace /\ CallReadDirectory(ClusterOf(cmd.table), cmd.dst)
      /\ at' = "mv_write" /\ cmd' = cmd
  BY DEF MvProbe, Point
<1>2. UNCHANGED <<fat, disk, dirs, currenDir>>
  BY <1>1, CallReadDirectoryKeeps DEF Homed, SamePlace
<1>3. PICK src, dst, due : src = cmd.src /\ dst = cmd.dst /\ due = cmd.due
  OBVIOUS
<1>. SUFFICES ASSUME cmd.name = "mv", due # 0 PROVE Carried'
  BY <1>1, <1>3 DEF Carried
<1>4. /\ due \in dirs /\ CanMove(src, due, dst) /\ ClusterOf(cmd.table) = due
      /\ Holds(disk, currenDir, src, cmd.cl)
  BY <1>1, <1>3 DEF Carried, Bound, Laden
<1>5. CanMove(src, due, dst)'
  BY <1>2, <1>4, CanMoveKept
<1>. QED BY <1>1, <1>2, <1>3, <1>4, <1>5 DEF Carried, Bound, Laden

LEMMA MvWriteCarried ==
  ASSUME Homed, Carried, MvWrite
  PROVE  Carried'
<1>1. /\ at = "mv_write" /\ SamePlace
      /\ CallWrite(ClusterOf(cmd.table), cmd.dst, SizeFor(cmd.src), cmd.cl)
      /\ at' = "look" /\ cmd' = cmd
  BY DEF MvWrite, Point
<1>2. cmd \in Command /\ currenDir \in dirs
  BY <1>1 DEF Homed, Housed, Errand, Up
<1>3. PICK src \in Key, dst \in Key : src = cmd.src /\ dst = cmd.dst
  BY <1>2 DEF Command
<1>4. PICK d \in Datas : d = cmd.cl
  BY <1>2 DEF Command
<1>. SUFFICES ASSUME cmd.name = "mv", cmd.due # 0 PROVE Carried'
  BY <1>1 DEF Carried
<1>5. /\ cmd.due \in dirs /\ CanMove(src, cmd.due, dst) /\ ClusterOf(cmd.table) = cmd.due
      /\ Holds(disk, currenDir, src, d)
  BY <1>1, <1>3, <1>4 DEF Carried, Bound, Laden
<1>6. PICK p \in dirs : p = cmd.due
  BY <1>5
<1>7. CallWrite(p, dst, 1, d)
  BY <1>1, <1>3, <1>4, <1>5, <1>6 DEF SizeFor, CanMove
<1>8. /\ dst[1] # NoName /\ ~ Exists(p, dst[1], dst[2])
      /\ FreeSlots(disk[p]) # {} /\ Cardinality(FreeClusters(fat)) >= Needed(1)
  BY <1>5, <1>6 DEF CanMove
<1>9. /\ Holds(disk', p, dst, d)
      /\ \A q \in dirs : \A other, c : Holds(disk, q, other, c) => Holds(disk', q, other, c)
  BY <1>7, <1>8, WriteGives DEF Homed
<1>10. Holds(disk', currenDir, src, d)
  BY <1>2, <1>5, <1>9
<1>. QED BY <1>1, <1>3, <1>4, <1>6, <1>9, <1>10 DEF Carried, Bound, Laden, SamePlace

LEMMA MvLookCarried ==
  ASSUME Homed, Carried, MvLook
  PROVE  Carried'
<1>1. /\ at = "look" /\ SamePlace /\ CallReadDirectory(currenDir, cmd.src)
      /\ Return \/ (at' = "delete" /\ cmd' = cmd)
  BY DEF MvLook, Look, Point
<1>2. UNCHANGED <<fat, disk, dirs, currenDir>>
  BY <1>1, CallReadDirectoryKeeps DEF Homed, SamePlace
<1>3. CASE Return
  BY <1>3, ReturnCarried
<1>4. CASE at' = "delete" /\ cmd' = cmd
  BY <1>1, <1>2, <1>4 DEF Carried, Bound, Laden
<1>. QED BY <1>1, <1>3, <1>4

\* The commands that are not mv.
LEMMA OthersCarried ==
  ASSUME Homed,
         \/ Boot \/ Start \/ Refresh \/ GoUp \/ GoDown \/ Ls
         \/ \E key : EnterChild(key) \/ Cat(key) \/ Mkdir(key) \/ Rm(key)
         \/ \E src, dst : Cp(src, dst)
         \/ WalkUp \/ ArriveUp \/ WalkDown \/ ArriveDown \/ Delete
  PROVE  Carried'
<1>1. CASE Boot \/ Start \/ Refresh \/ GoUp \/ GoDown
  BY <1>1, NoMove DEF Boot, Point, Start, Refresh, GoUp, GoDown, Return, Bound, Laden
<1>2. CASE Ls \/ \E key : EnterChild(key) \/ Cat(key) \/ Mkdir(key)
  BY <1>2, ReturnCarried DEF Ls, EnterChild, Cat, Mkdir
<1>3. ASSUME NEW key, Rm(key)
      PROVE  Carried'
  <2>1. cmd \in Command
    BY <1>3, LineBegins DEF Rm
  <2>2. Return \/ cmd' = [cmd EXCEPT !.name = "rm", !.src = key]
    BY <1>3 DEF Rm, Look
  <2>. QED BY <2>1, <2>2, ReturnCarried, NoMove DEF Command
<1>4. ASSUME NEW src, NEW dst, Cp(src, dst)
      PROVE  Carried'
  <2>1. cmd \in Command
    BY <1>4, LineBegins DEF Cp
  <2>2. PICK from, to : CopyRead([cmd EXCEPT !.name = "cp", !.from = from, !.dst = to])
    BY <1>4 DEF Cp
  <2>3. PICK command :
          command = [cmd EXCEPT !.name = "cp", !.from = from, !.dst = to] /\ CopyRead(command)
    BY <2>2
  <2>4. command.name = "cp" /\ [command EXCEPT !.cl = Buffer].name = "cp"
    BY <2>1, <2>3 DEF Command
  <2>5. Return \/ cmd' = [command EXCEPT !.cl = Buffer]
    BY <2>3, <2>4 DEF CopyRead, AfterCopy
  <2>. QED BY <2>4, <2>5, ReturnCarried, NoMove
<1>5. CASE WalkUp \/ ArriveUp \/ WalkDown \/ ArriveDown \/ Delete
  BY <1>5, NoMove
  DEF WalkUp, ArriveUp, WalkDown, ArriveDown, Delete, WalkOn, Arrive, Return, Point, Bound, Laden
<1>. QED BY <1>1, <1>2, <1>3, <1>4, <1>5

LEMMA InitCarried == ShellInit => Carried
BY DEF ShellInit, Carried, Bound, Laden

LEMMA CarriedStep ==
  ASSUME Slips = {}, Homed, Pathed, Carried, [ShellNext]_allVars
  PROVE  Carried'
<1>1. CASE Typed
  <2>1. Typing \subseteq Key /\ NoKey \in Key
    BY ArgKeysType DEF ArgKeys
  <2>2. ASSUME NEW src \in Typing, NEW dst \in Typing,
               \/ MvHere(src, dst) \/ MvUp(src, dst, 1)
               \/ \E path \in Paths : MvDown(src, dst, path)
        PROVE  Carried'
    <3>1. src \in Key /\ dst \in Key /\ 1 \in {0, 1}
      BY <2>1
    <3>. QED BY <2>2, <3>1, MvHereCarried, MvUpCarried, MvDownCarried
  <2>3. ASSUME NEW src \in ArgKeys, MvUp(src, NoKey, 0)
        PROVE  Carried'
    <3>1. src \in Key /\ 0 \in {0, 1}
      BY ArgKeysType
    <3>. QED BY <2>1, <2>3, <3>1, MvUpCarried
  <2>. QED BY <1>1, <2>2, <2>3, OthersCarried DEF Typed
<1>2. CASE Boot \/ Start \/ Refresh
  BY <1>2, OthersCarried
<1>3. CASE WalkUp \/ ArriveUp \/ WalkDown \/ ArriveDown \/ Delete
  BY <1>3, OthersCarried
<1>4. CASE CopyWrite \/ MvWalk
  BY <1>4, CopyWriteCarried, MvWalkCarried
<1>5. CASE MvRead \/ MvProbe \/ MvWrite \/ MvLook
  BY <1>5, MvReadCarried, MvProbeCarried, MvWriteCarried, MvLookCarried
<1>6. CASE UNCHANGED allVars
  BY <1>6 DEF allVars, vars, shellVars, Carried, Rising, ParentDirs, CanMove, Exists
<1>. QED BY <1>1, <1>2, <1>3, <1>4, <1>5, <1>6 DEF ShellNext, Running

\* Without slips, a move that nothing stood in the way of when it was typed asks for
\* the source to be removed only when the target, in whichever directory, has the
\* source's content: every answer in between is the one mv takes for granted.
THEOREM ShellMovesCopiesFirst ==
  ASSUME Slips = {}
  PROVE  ShellSpec => []MoveCopiesFirst
<1>1. Slips \subseteq {"enter_alike"}
  OBVIOUS
<1>2. Homed /\ Pathed /\ Carried /\ [ShellNext]_allVars => Homed' /\ Pathed' /\ Carried'
  BY <1>1, HomedStep, PathedStep, CarriedStep
<1>3. Carried => MoveCopiesFirst
  <2>. SUFFICES ASSUME Carried, at \in {"look", "delete"}, cmd.name = "mv", cmd.due # 0
                PROVE  /\ FileContents(cmd.due, cmd.dst) # {}
                       /\ FileContents(cmd.due, cmd.dst) = FileContents(currenDir, cmd.src)
    BY DEF MoveCopiesFirst
  <2>1. Holds(disk, currenDir, cmd.src, cmd.cl) /\ Holds(disk, cmd.due, cmd.dst, cmd.cl)
    BY DEF Carried, Laden
  <2>2. PICK due, dst, src, c : due = cmd.due /\ dst = cmd.dst /\ src = cmd.src /\ c = cmd.cl
    OBVIOUS
  <2>3. PICK one : one = [j \in 1 .. 1 |-> <<c, 1>>]
    OBVIOUS
  <2>4. FileContents(due, dst) = {one}
    <3>1. Holds(disk, due, dst, c)
      BY <2>1, <2>2
    <3>2. FileContents(due, dst) = {[j \in 1 .. 1 |-> <<c, 1>>]}
      BY <3>1, HeldContents
    <3>. QED BY <3>2, <2>3
  <2>5. FileContents(currenDir, src) = {one}
    <3>1. Holds(disk, currenDir, src, c)
      BY <2>1, <2>2
    <3>2. FileContents(currenDir, src) = {[j \in 1 .. 1 |-> <<c, 1>>]}
      BY <3>1, HeldContents
    <3>. QED BY <3>2, <2>3
  <2>6. FileContents(cmd.due, cmd.dst) = {one} /\ FileContents(currenDir, cmd.src) = {one}
    BY <2>2, <2>4, <2>5
  <2>. QED BY <2>6
<1>. QED BY <1>2, <1>3, InitHomed, InitPathed, InitCarried, PTL DEF ShellSpec
=============================================================================
