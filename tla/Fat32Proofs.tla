---------------------------- MODULE Fat32Proofs ----------------------------
(***************************************************************************)
(* What holds of the driver's calls for every size of the volume and of a  *)
(* directory table, every set of names and every length of file: types,    *)
(* the direction of links and the root directory whatever is called, and,  *)
(* for calls that are at worst benign misuse, that no two things share a   *)
(* cluster and that every file is whole.                                   *)
(***************************************************************************)
EXTENDS Fat32, TLAPS, WellFoundedInduction

(***************************************************************************)
(* The allocation scan.                                                    *)
(***************************************************************************)
\* A chain is made of distinct free clusters, in ascending order.
LEMMA ChainClusters ==
  ASSUME NEW f, NEW length \in Nat \ {0}, NEW ch \in Chains(f, length)
  PROVE  /\ \A i \in 1 .. length : ch[i] \in DataClusters /\ f[ch[i]] = EMPTY
         /\ \A i, j \in 1 .. length : i < j => ch[i] < ch[j]
         /\ \A i, j \in 1 .. length : ch[i] = ch[j] => i = j
<1>1. /\ ch \in [1 .. length -> FreeClusters(f)]
      /\ \A i, j \in 1 .. length : i < j => ch[i] < ch[j]
  BY DEF Chains
<1>2. \A i \in 1 .. length : ch[i] \in DataClusters /\ f[ch[i]] = EMPTY
  BY <1>1 DEF FreeClusters
<1>3. \A i \in 1 .. length : ch[i] \in Int
  BY <1>2, ClusterMapAssumption DEF DataClusters, FirstCluster
<1>4. ASSUME NEW i \in 1 .. length, NEW j \in 1 .. length, ch[i] = ch[j]
      PROVE  i = j
  <2>1. ~(i < j) /\ ~(j < i)
    BY <1>1, <1>3, <1>4
  <2>. QED BY <2>1
<1>. QED BY <1>1, <1>2, <1>4

\* Linking a chain writes the entries of its own clusters and no other.
LEMMA LinkedEntries ==
  ASSUME NEW f, NEW length \in Nat \ {0}, NEW ch \in Chains(f, length)
  PROVE  /\ \A i \in 1 .. length :
              Linked(f, ch, length)[ch[i]] = IF i = length THEN EOF ELSE ch[i + 1]
         /\ \A c \in Clusters :
              (\A i \in 1 .. length : c # ch[i]) => Linked(f, ch, length)[c] = f[c]
<1>1. ASSUME NEW i \in 1 .. length
      PROVE  Linked(f, ch, length)[ch[i]] = IF i = length THEN EOF ELSE ch[i + 1]
  <2>1. ch[i] \in Clusters
    BY ChainClusters, ClusterMapAssumption DEF DataClusters, Clusters, FirstCluster
  <2>2. \A j \in 1 .. length : ch[i] = ch[j] => j = i
    BY ChainClusters
  <2>3. (CHOOSE j \in 1 .. length : ch[i] = ch[j]) = i
    BY <2>2
  <2>. QED BY <2>1, <2>3 DEF Linked
<1>2. ASSUME NEW c \in Clusters, \A i \in 1 .. length : c # ch[i]
      PROVE  Linked(f, ch, length)[c] = f[c]
  BY <1>2 DEF Linked
<1>. QED BY <1>1, <1>2

LEMMA LinkedType ==
  ASSUME NEW f \in [Clusters -> FatEntry], NEW length \in Nat \ {0},
         NEW ch \in Chains(f, length)
  PROVE  Linked(f, ch, length) \in [Clusters -> FatEntry]
<1>1. ASSUME NEW c \in Clusters
      PROVE  Linked(f, ch, length)[c] \in FatEntry
  <2>1. CASE \E i \in 1 .. length : c = ch[i]
    <3>1. PICK i \in 1 .. length : c = ch[i]
      BY <2>1
    <3>2. Linked(f, ch, length)[c] = IF i = length THEN EOF ELSE ch[i + 1]
      BY <3>1, LinkedEntries
    <3>3. i # length => ch[i + 1] \in DataClusters
      BY ChainClusters
    <3>. QED BY <3>2, <3>3 DEF FatEntry
  <2>2. CASE ~ \E i \in 1 .. length : c = ch[i]
    BY <2>2, LinkedEntries
  <2>. QED BY <2>1, <2>2
<1>. QED BY <1>1 DEF Linked

(***************************************************************************)
(* The type invariant.                                                     *)
(***************************************************************************)
LEMMA BlankEntryType == BlankEntry \in Entry
BY NameAssumption DEF BlankEntry, Entry

LEMMA BlankTableType == BlankTable \in Table
BY BlankEntryType DEF BlankTable, Table

\* The entries a caller's name can give rise to.
LEMMA NewEntryTypes ==
  ASSUME NEW name \in Callable \cup {RootName}, NEW ext \in Exts, NEW c \in Nat, NEW size \in Nat
  PROVE  /\ DirEntry(name, ext, c) \in Entry
         /\ FileEntry(name, ext, c, size) \in Entry
<1>1. name \in Names \cup {RootName, OtherName, NoName}
  BY DEF Callable
<1>. QED BY <1>1, BlankEntryType DEF DirEntry, FileEntry, BlankEntry, Entry

LEMMA NewTableType ==
  ASSUME NEW name \in Callable \cup {RootName}, NEW c \in Nat
  PROVE  NewTable(name, c) \in Table
BY NewEntryTypes, BlankTableType, NameAssumption DEF NewTable, Table

LEMMA RootTableType == RootTable \in Table
<1>1. DirEntry(RootName, NoExt, RootCluster) \in Entry
  BY NewEntryTypes, NameAssumption DEF RootCluster
<1>2. [DirEntry(RootName, NoExt, RootCluster) EXCEPT !.notEmpty = TRUE] \in Entry
  BY <1>1 DEF Entry
<1>. QED BY <1>2, BlankTableType DEF RootTable, Table

LEMMA MarkedType ==
  ASSUME NEW t \in Table, NEW p
  PROVE  MarkNotEmpty(t, p) \in Table
<1>1. ASSUME NEW s \in Slots
      PROVE  [t[s] EXCEPT !.notEmpty = TRUE] \in Entry
  BY DEF Table, Entry
<1>. QED BY <1>1 DEF MarkNotEmpty, Table

LEMMA DataTableType ==
  ASSUME NEW d \in Datas, NEW i \in 1 .. MaxFileClusters
  PROVE  DataTable(d, i) \in Table
<1>1. <<d, i>> \in Pieces /\ Reading[<<d, i>>] \in Table
  BY ReadingAssumption DEF Pieces
<1>2. ASSUME NEW s \in Slots
      PROVE  [Reading[<<d, i>>][s] EXCEPT !.unread = <<d, i>>] \in Entry
  BY <1>1 DEF Table, Entry
<1>. QED BY <1>1, <1>2 DEF DataTable, Table

LEMMA InitTypeOK == Init => TypeOK
<1>. SUFFICES ASSUME Init PROVE TypeOK
  OBVIOUS
<1>1. fat \in [Clusters -> FatEntry]
  BY DEF Init, FormattedFat, FatEntry
<1>2. disk \in [Clusters -> Table]
  BY RootTableType, BlankTableType, BootSectorAssumption DEF Init
<1>3. dirs \subseteq Clusters
  BY ClusterMapAssumption DEF Init, Clusters, RootCluster, FirstCluster
<1>4. ret = 0 /\ overrun = FALSE
  BY DEF Init
<1>5. ret \in -1 .. 3
  BY <1>4
<1>. QED BY <1>1, <1>2, <1>3, <1>4, <1>5 DEF TypeOK

\* Every call keeps the types.
LEMMA StepTypeOK == TypeOK /\ [Next]_vars => TypeOK'
<1>. SUFFICES ASSUME TypeOK, [Next]_vars PROVE TypeOK'
  OBVIOUS
<1>. USE DEF TypeOK
<1>0. CASE UNCHANGED vars
  BY <1>0 DEF vars
<1>. SUFFICES ASSUME NEW p \in Parents, NEW name \in Callable, NEW ext \in Exts,
                     Call(p, name, ext)
     PROVE  TypeOK'
  BY <1>0 DEF Next
<1>. p \in Clusters
  BY ClusterMapAssumption DEF Parents, BOOT_SECTOR, FirstCluster, Clusters, RootCluster
<1>1. ASSUME NEW size \in FileSizes, WriteRefused(p, name, ext, size)
      PROVE  TypeOK'
  BY <1>1 DEF WriteRefused, WriteCode
<1>2. CASE WriteFolder(p, name, ext)
  <2>1. PICK ch \in Chains(fat, Needed(0)), s \in find_empty_entry(disk[p]) :
          /\ fat' = Linked(fat, ch, Needed(0))
          /\ disk' = [disk EXCEPT ![p]     = [@ EXCEPT ![s] = DirEntry(name, ext, ch[1])],
                                  ![ch[1]] = NewTable(name, ch[1])]
          /\ dirs' = IF p \in dirs THEN dirs \cup {ch[1]} ELSE dirs
    BY <1>2 DEF WriteFolder
  <2>2. ch[1] \in Clusters /\ ch[1] \in Nat
    BY ChainClusters, ClusterMapAssumption
    DEF Needed, DataClusters, Clusters, FirstCluster
  <2>3. DirEntry(name, ext, ch[1]) \in Entry /\ NewTable(name, ch[1]) \in Table
    BY <2>2, NewEntryTypes, NewTableType
  <2>4. [disk[p] EXCEPT ![s] = DirEntry(name, ext, ch[1])] \in Table
    BY <2>3 DEF Table
  <2>5. disk' \in [Clusters -> Table]
    BY <2>1, <2>3, <2>4
  <2>6. fat' \in [Clusters -> FatEntry]
    BY <2>1, LinkedType DEF Needed
  <2>7. dirs' \subseteq Clusters
    BY <2>1, <2>2
  <2>8. ret' \in -1 .. 3 /\ overrun' \in BOOLEAN
    BY <1>2 DEF WriteFolder
  <2>. QED BY <2>5, <2>6, <2>7, <2>8
<1>3. ASSUME NEW size \in FileSizes, NEW d \in Datas, WriteFile(p, name, ext, size, d)
      PROVE  TypeOK'
  <2>1. PICK ch \in Chains(fat, Needed(size)), s \in find_empty_entry(disk[p]) :
          /\ fat' = Linked(fat, ch, Needed(size))
          /\ disk' = [c \in Clusters |->
               IF c = p
                 THEN MarkNotEmpty([disk[p] EXCEPT ![s] = FileEntry(name, ext, ch[1], size)], p)
               ELSE IF \E i \in 1 .. size : c = ch[i]
                 THEN DataTable(d, CHOOSE i \in 1 .. size : c = ch[i])
               ELSE disk[c]]
    BY <1>3 DEF WriteFile
  <2>2. size \in Nat /\ size <= MaxFileClusters
    BY SizeAssumption DEF FileSizes
  <2>3. ch[1] \in Nat
    BY <2>2, ChainClusters, ClusterMapAssumption DEF Needed, DataClusters, FirstCluster
  <2>4. [disk[p] EXCEPT ![s] = FileEntry(name, ext, ch[1], size)] \in Table
    BY <2>2, <2>3, NewEntryTypes DEF Table
  <2>5. MarkNotEmpty([disk[p] EXCEPT ![s] = FileEntry(name, ext, ch[1], size)], p) \in Table
    BY <2>4, MarkedType
  <2>6. ASSUME NEW c \in Clusters, \E i \in 1 .. size : c = ch[i]
        PROVE  DataTable(d, CHOOSE i \in 1 .. size : c = ch[i]) \in Table
    <3>1. (CHOOSE i \in 1 .. size : c = ch[i]) \in 1 .. size
      BY <2>6, Zenon
    <3>2. (CHOOSE i \in 1 .. size : c = ch[i]) \in 1 .. MaxFileClusters
      BY <2>2, <3>1, SizeAssumption
    <3>. QED BY <3>2, DataTableType
  <2>7. disk' \in [Clusters -> Table]
    BY <2>1, <2>5, <2>6
  <2>8. fat' \in [Clusters -> FatEntry]
    BY <2>1, <2>2, LinkedType DEF Needed
  <2>9. /\ ret' \in -1 .. 3
        /\ dirs' \subseteq Clusters
        /\ overrun' \in BOOLEAN
    BY <1>3 DEF WriteFile
  <2>. QED BY <2>7, <2>8, <2>9
<1>4. ASSUME NEW size \in FileSizes, WriteOverrun(p, name, ext, size)
      PROVE  TypeOK'
  BY <1>4 DEF WriteOverrun
<1>5. ASSUME NEW size \in FileSizes, ReadFile(p, name, ext, size)
      PROVE  TypeOK'
  BY <1>5 DEF ReadFile
<1>6. ASSUME NEW size \in FileSizes, ReadRefused(p, name, ext, size)
      PROVE  TypeOK'
  BY <1>6 DEF ReadRefused, ReadCode
<1>7. ASSUME NEW size \in FileSizes, ReadOverrun(p, name, ext, size)
      PROVE  TypeOK'
  BY <1>7 DEF ReadOverrun
<1>8. CASE ReadDirectory(p, name, ext)
  BY <1>8 DEF ReadDirectory
<1>9. CASE DeleteMissing(p, name, ext)
  BY <1>9 DEF DeleteMissing
<1>10. CASE DeleteRefused(p, name, ext)
  BY <1>10 DEF DeleteRefused
<1>11. CASE DeleteEntry(p, name, ext)
  <2>0. PICK c \in First(Hits(p, name, ext)) :
          \E s \in First(NamedSlots(disk[c], name)) :
            /\ fat' = [fat EXCEPT ![disk[c][s].cluster] = EMPTY]
            /\ disk' = [disk EXCEPT ![c] = [@ EXCEPT ![s] = BlankEntry]]
            /\ dirs' = IF c \in dirs /\ s # SelfSlot
                         THEN dirs \ {disk[c][s].cluster}
                         ELSE dirs
    BY <1>11 DEF DeleteEntry
  <2>1. PICK s \in First(NamedSlots(disk[c], name)) :
          /\ fat' = [fat EXCEPT ![disk[c][s].cluster] = EMPTY]
          /\ disk' = [disk EXCEPT ![c] = [@ EXCEPT ![s] = BlankEntry]]
          /\ dirs' = IF c \in dirs /\ s # SelfSlot
                       THEN dirs \ {disk[c][s].cluster}
                       ELSE dirs
    BY <2>0
  <2>2. c \in Clusters
    BY ClusterMapAssumption DEF First, Hits, Parents, BOOT_SECTOR, FirstCluster, Clusters, RootCluster
  <2>3. [disk[c] EXCEPT ![s] = BlankEntry] \in Table
    BY <2>2, BlankEntryType DEF Table
  <2>4. fat' \in [Clusters -> FatEntry]
    BY <2>1 DEF FatEntry
  <2>5. disk' \in [Clusters -> Table]
    BY <2>1, <2>2, <2>3
  <2>6. dirs' \subseteq Clusters
    BY <2>1
  <2>7. ret' \in -1 .. 3 /\ overrun' \in BOOLEAN
    BY <1>11 DEF DeleteEntry
  <2>. QED BY <2>4, <2>5, <2>6, <2>7
<1>12. CASE DeleteChain(p, name, ext)
  <2>1. PICK c \in First(Hits(p, name, ext)), s \in First(KeyedSlots(disk[p], name, ext)) :
          /\ \E k \in ChainLengths(fat, disk[p][s].cluster) :
               fat' = [x \in Clusters |->
                         IF \E j \in 0 .. k - 1 : x = Walk(fat, disk[p][s].cluster)[j]
                           THEN EMPTY ELSE fat[x]]
          /\ disk' = [disk EXCEPT ![c] = [disk[p] EXCEPT ![s] = BlankEntry]]
    BY <1>12 DEF DeleteChain
  <2>2. [disk[p] EXCEPT ![s] = BlankEntry] \in Table
    BY BlankEntryType DEF Table
  <2>3. fat' \in [Clusters -> FatEntry]
    BY <2>1 DEF FatEntry
  <2>4. disk' \in [Clusters -> Table]
    BY <2>1, <2>2
  <2>5. /\ ret' \in -1 .. 3
        /\ dirs' \subseteq Clusters
        /\ overrun' \in BOOLEAN
    BY <1>12 DEF DeleteChain
  <2>. QED BY <2>3, <2>4, <2>5
<1>13. CASE DeleteOverrun(p, name, ext)
  BY <1>13 DEF DeleteOverrun
<1>. QED BY <1>1, <1>2, <1>3, <1>4, <1>5, <1>6, <1>7, <1>8, <1>9, <1>10, <1>11,
            <1>12, <1>13 DEF Call

\* The state variables keep their types whatever calls are made.
THEOREM SpecTypeOK == Spec => []TypeOK
<1>. QED BY InitTypeOK, StepTypeOK, PTL DEF Spec

(***************************************************************************)
(* The direction of links.                                                 *)
(***************************************************************************)
\* Linking a chain into a table whose links ascend leaves it so.
LEMMA LinkedAscends ==
  ASSUME NEW f \in [Clusters -> FatEntry], NEW length \in Nat \ {0},
         NEW ch \in Chains(f, length),
         \A c \in Clusters : f[c] \in DataClusters => f[c] > c
  PROVE  \A c \in Clusters :
           Linked(f, ch, length)[c] \in DataClusters => Linked(f, ch, length)[c] > c
<1>. SUFFICES ASSUME NEW c \in Clusters, Linked(f, ch, length)[c] \in DataClusters
              PROVE  Linked(f, ch, length)[c] > c
  OBVIOUS
<1>1. CASE \E i \in 1 .. length : c = ch[i]
  <2>1. PICK i \in 1 .. length : c = ch[i]
    BY <1>1
  <2>2. Linked(f, ch, length)[c] = IF i = length THEN EOF ELSE ch[i + 1]
    BY <2>1, LinkedEntries
  <2>3. i # length
    BY <2>2, ClusterMapAssumption DEF EOF, DataClusters, FirstCluster
  <2>4. ch[i + 1] > ch[i] /\ ch[i] \in Int /\ ch[i + 1] \in Int
    BY <2>3, ChainClusters, ClusterMapAssumption DEF DataClusters, FirstCluster
  <2>. QED BY <2>1, <2>2, <2>3, <2>4
<1>2. CASE ~ \E i \in 1 .. length : c = ch[i]
  BY <1>2, LinkedEntries
<1>. QED BY <1>1, <1>2

\* Whatever calls are made, chains of the table cannot loop.
THEOREM SpecLinksAscend == Spec => []LinksAscend
<1>1. Init => LinksAscend
  <2>1. ASSUME NEW c \in Clusters
        PROVE  FormattedFat[c] \notin DataClusters
    BY ClusterMapAssumption
    DEF FormattedFat, DataClusters, FirstCluster, EMPTY, EOF, CLUSTER_0_VALUE
  <2>. QED BY <2>1 DEF Init, LinksAscend
<1>2. TypeOK /\ LinksAscend /\ [Next]_vars => LinksAscend'
  <2>. SUFFICES ASSUME TypeOK, LinksAscend, [Next]_vars PROVE LinksAscend'
    OBVIOUS
  <2>1. CASE UNCHANGED fat
    BY <2>1 DEF LinksAscend
  <2>2. ASSUME NEW length \in Nat \ {0}, NEW ch \in Chains(fat, length),
               fat' = Linked(fat, ch, length)
        PROVE  LinksAscend'
    BY <2>2, LinkedAscends DEF LinksAscend, TypeOK
  <2>3. ASSUME \A c \in Clusters : fat'[c] \in {EMPTY, fat[c]}
        PROVE  LinksAscend'
    BY <2>3, ClusterMapAssumption DEF LinksAscend, EMPTY, DataClusters, FirstCluster
  <2>4. CASE UNCHANGED vars
    BY <2>1, <2>4 DEF vars
  <2>. SUFFICES ASSUME NEW p \in Parents, NEW name \in Callable, NEW ext \in Exts,
                       Call(p, name, ext)
       PROVE  LinksAscend'
    BY <2>4 DEF Next
  <2>5. CASE WriteFolder(p, name, ext)
    <3>1. Needed(0) \in Nat \ {0}
      BY DEF Needed
    <3>. QED BY <2>2, <2>5, <3>1 DEF WriteFolder
  <2>6. ASSUME NEW size \in FileSizes, NEW d \in Datas, WriteFile(p, name, ext, size, d)
        PROVE  LinksAscend'
    <3>1. Needed(size) \in Nat \ {0}
      BY SizeAssumption DEF Needed, FileSizes
    <3>. QED BY <2>2, <2>6, <3>1 DEF WriteFile
  <2>7. CASE DeleteEntry(p, name, ext)
    <3>1. PICK x : fat' = [fat EXCEPT ![x] = EMPTY]
      BY <2>7 DEF DeleteEntry
    <3>. QED BY <2>3, <3>1 DEF TypeOK
  <2>8. CASE DeleteChain(p, name, ext)
    <3>1. \A x \in Clusters : fat'[x] \in {EMPTY, fat[x]}
      BY <2>8 DEF DeleteChain
    <3>. QED BY <2>3, <3>1
  <2>9. CASE \/ \E size \in FileSizes : WriteRefused(p, name, ext, size)
             \/ \E size \in FileSizes : WriteOverrun(p, name, ext, size)
             \/ \E size \in FileSizes : ReadFile(p, name, ext, size)
             \/ \E size \in FileSizes : ReadRefused(p, name, ext, size)
             \/ \E size \in FileSizes : ReadOverrun(p, name, ext, size)
             \/ ReadDirectory(p, name, ext)
             \/ DeleteMissing(p, name, ext)
             \/ DeleteRefused(p, name, ext)
             \/ DeleteOverrun(p, name, ext)
    BY <2>1, <2>9 DEF WriteRefused, WriteOverrun, ReadFile, ReadRefused, ReadOverrun,
                      ReadDirectory, DeleteMissing, DeleteRefused, DeleteOverrun
  <2>. QED BY <2>5, <2>6, <2>7, <2>8, <2>9 DEF Call
<1>. QED BY <1>1, <1>2, SpecTypeOK, PTL DEF Spec

(***************************************************************************)
(* No two things share a cluster.  UniqueOwner is not inductive alone: the *)
(* allocator takes every cluster marked EMPTY, so that a chain is new only *)
(* if nothing leads to such a cluster (NoDangling); and delete() frees in  *)
(* the parent it was given only if that is marked EOF (DirsAreEnds).       *)
(***************************************************************************)
DirsAreEnds ==
  /\ RootCluster \in dirs
  /\ \A d \in dirs : fat[d] = EOF

Sound == TypeOK /\ DirsAreEnds /\ NoDangling /\ UniqueOwner

\* A call that links a new chain and adds at most one entry, which leads to
\* the first cluster of it.
LEMMA AllocationSound ==
  ASSUME Sound,
         NEW length \in Nat \ {0}, NEW ch \in Chains(fat, length),
         fat' = Linked(fat, ch, length),
         NEW new,
         \A e \in Entries' :
           \/ e = new /\ Target(e)' = ch[1]
           \/ e # new /\ e \in Entries /\ Target(e)' = Target(e)
  PROVE  NoDangling' /\ UniqueOwner'
<1>. USE DEF Sound
<1>1. /\ \A i \in 1 .. length : /\ ch[i] \in DataClusters /\ ch[i] \in Clusters
                                /\ fat[ch[i]] = EMPTY
                                /\ fat'[ch[i]] = IF i = length THEN EOF ELSE ch[i + 1]
      /\ \A i, j \in 1 .. length : ch[i] = ch[j] => i = j
  BY ChainClusters, LinkedEntries, ClusterMapAssumption
  DEF DataClusters, Clusters, FirstCluster
<1>2. EMPTY \notin DataClusters /\ EOF \notin DataClusters /\ EOF # EMPTY
  BY ClusterMapAssumption DEF EMPTY, EOF, DataClusters, FirstCluster
<1>3. \A c \in Clusters : fat'[c] = fat[c] \/ \E i \in 1 .. length : c = ch[i]
  BY LinkedEntries
<1>4. \A c \in Clusters : fat[c] # EMPTY => fat'[c] # EMPTY
  BY <1>1, <1>3
<1>5. \A i \in 1 .. length : fat'[ch[i]] # EMPTY
  <2>. TAKE i \in 1 .. length
  <2>1. CASE i = length
    BY <1>1, <1>2, <2>1
  <2>2. CASE i # length
    <3>1. i + 1 \in 1 .. length
      BY <2>2
    <3>. QED BY <1>1, <1>2, <2>2, <3>1
  <2>. QED BY <2>1, <2>2
\* Nothing led to the clusters of the chain.
<1>6. \A i \in 1 .. length : \A c \in Clusters : fat[c] # ch[i]
  BY <1>1 DEF NoDangling
<1>7. \A i \in 1 .. length : \A e \in Entries : Target(e) # ch[i]
  BY <1>1 DEF NoDangling
\* A link is an old one or leads on within the chain.
<1>8. ASSUME NEW c \in Clusters, fat'[c] \in DataClusters
      PROVE  \/ fat'[c] = fat[c]
             \/ \E i \in 1 .. length : /\ i + 1 \in 1 .. length
                                       /\ c = ch[i] /\ fat'[c] = ch[i + 1]
  <2>1. CASE \E i \in 1 .. length : c = ch[i]
    <3>1. PICK i \in 1 .. length : c = ch[i]
      BY <2>1
    <3>2. i # length
      BY <1>1, <1>2, <1>8, <3>1
    <3>3. i + 1 \in 1 .. length
      BY <3>2
    <3>. QED BY <1>1, <3>1, <3>2, <3>3
  <2>. QED BY <1>3, <2>1
<1>9. NoDangling'
  <2>1. ASSUME NEW e \in Entries'
        PROVE  Target(e)' \in DataClusters /\ fat'[Target(e)'] # EMPTY
    <3>1. CASE e = new /\ Target(e)' = ch[1]
      BY <1>1, <1>5, <3>1
    <3>2. CASE e \in Entries /\ Target(e)' = Target(e)
      <4>1. Target(e) \in DataClusters /\ fat[Target(e)] # EMPTY
        BY <3>2 DEF NoDangling
      <4>2. Target(e) \in Clusters
        BY <4>1, ClusterMapAssumption DEF DataClusters, Clusters, FirstCluster
      <4>. QED BY <1>4, <3>2, <4>1, <4>2
    <3>. QED BY <3>1, <3>2
  <2>2. ASSUME NEW c \in Clusters, fat'[c] \in DataClusters
        PROVE  fat'[fat'[c]] # EMPTY
    <3>1. CASE fat'[c] = fat[c]
      <4>1. fat[c] \in Clusters
        BY <2>2, <3>1, ClusterMapAssumption DEF DataClusters, Clusters, FirstCluster
      <4>. QED BY <1>4, <2>2, <3>1, <4>1 DEF NoDangling
    <3>2. CASE \E i \in 1 .. length : i + 1 \in 1 .. length /\ fat'[c] = ch[i + 1]
      BY <1>5, <3>2
    <3>. QED BY <1>8, <2>2, <3>1, <3>2
  <2>. QED BY <2>1, <2>2 DEF NoDangling
<1>10. UniqueOwner'
  <2>1. ASSUME NEW b \in Clusters, NEW c \in Clusters,
               fat'[b] \in DataClusters, fat'[b] = fat'[c]
        PROVE  b = c
    <3>1. CASE fat'[b] = fat[b] /\ fat'[c] = fat[c]
      BY <2>1, <3>1 DEF UniqueOwner
    <3>2. ASSUME NEW i \in 1 .. length, i + 1 \in 1 .. length, b = ch[i], fat'[b] = ch[i + 1]
          PROVE  b = c
      <4>1. fat'[c] # fat[c]
        BY <1>6, <2>1, <3>2
      <4>2. PICK j \in 1 .. length : /\ j + 1 \in 1 .. length
                                     /\ c = ch[j] /\ fat'[c] = ch[j + 1]
        BY <1>8, <2>1, <4>1
      <4>3. i + 1 = j + 1
        BY <1>1, <2>1, <3>2, <4>2
      <4>. QED BY <3>2, <4>2, <4>3
    <3>3. ASSUME NEW i \in 1 .. length, i + 1 \in 1 .. length, c = ch[i], fat'[c] = ch[i + 1]
          PROVE  b = c
      <4>1. fat'[b] # fat[b]
        BY <1>6, <2>1, <3>3
      <4>. QED BY <1>8, <2>1, <3>2, <4>1
    <3>. QED BY <1>8, <2>1, <3>1, <3>2, <3>3
  <2>2. ASSUME NEW e \in Entries', NEW f \in Entries', Target(e)' = Target(f)'
        PROVE  e = f
    BY <1>1, <1>7, <2>2 DEF UniqueOwner
  <2>3. ASSUME NEW e \in Entries', NEW c \in Clusters
        PROVE  fat'[c] # Target(e)'
    <3>. SUFFICES ASSUME fat'[c] = Target(e)' PROVE FALSE
      OBVIOUS
    <3>0. fat'[c] \in DataClusters
      BY <1>9 DEF NoDangling
    <3>1. CASE e = new /\ Target(e)' = ch[1]
      <4>1. fat'[c] # fat[c]
        BY <1>6, <3>1
      <4>2. PICK i \in 1 .. length : i + 1 \in 1 .. length /\ fat'[c] = ch[i + 1]
        BY <1>8, <3>0, <4>1
      <4>3. i + 1 = 1
        BY <1>1, <3>1, <4>2
      <4>. QED BY <4>3
    <3>2. CASE e \in Entries /\ Target(e)' = Target(e)
      <4>1. fat'[c] # fat[c]
        BY <3>2 DEF UniqueOwner
      <4>. QED BY <1>7, <1>8, <3>0, <3>2, <4>1
    <3>. QED BY <3>1, <3>2
  <2>. QED BY <2>1, <2>2, <2>3 DEF UniqueOwner
<1>. QED BY <1>9, <1>10

\* Marking a table as not empty changes nothing else in it.
LEMMA MarkedEntries ==
  ASSUME NEW t \in Table, NEW p, NEW s \in Slots
  PROVE  /\ MarkNotEmpty(t, p)[s].name = t[s].name
         /\ MarkNotEmpty(t, p)[s].ext = t[s].ext
         /\ MarkNotEmpty(t, p)[s].cluster = t[s].cluster
         /\ MarkNotEmpty(t, p)[s].attr = t[s].attr
         /\ MarkNotEmpty(t, p)[s].size = t[s].size
<1>1. t[s] \in Entry
  BY DEF Table
<1>. QED BY <1>1 DEF MarkNotEmpty, Entry

\* A step leaves the entry e as it is, but for its mark.
Kept(e) ==
  /\ e \in Entries
  /\ disk'[e[1]][e[2]].cluster = disk[e[1]][e[2]].cluster
  /\ disk'[e[1]][e[2]].attr = disk[e[1]][e[2]].attr
  /\ disk'[e[1]][e[2]].size = disk[e[1]][e[2]].size

LEMMA KeptTarget ==
  ASSUME NEW e, Kept(e)
  PROVE  e \in Entries /\ Target(e)' = Target(e)
BY DEF Kept, Target

\* What delete() is to be given: a name that the parent has behind its own entry.
Aimed(p, name, ext) ==
  /\ p \in dirs
  /\ name # NoName
  /\ disk[p][SelfSlot].name # name
  /\ KeyedSlots(disk[p], name, ext) \cap ChildSlots # {}

\* A call that does no harm, whoever makes it.
Harmless(p, name, ext) ==
  \/ UNCHANGED <<fat, disk, dirs>>
  \/ /\ p \in dirs
     /\ \/ WriteFolder(p, name, ext)
        \/ \E size \in FileSizes, d \in Datas : WriteFile(p, name, ext, size, d)
  \/ /\ Aimed(p, name, ext)
     /\ DeleteEntry(p, name, ext) \/ DeleteChain(p, name, ext)

\* The calls that are at worst benign do none.
LEMMA BenignCalls ==
  ASSUME Misuse \subseteq BenignKinds, NEW p, NEW name, NEW ext
  PROVE  /\ \A size : MayWrite(p, name, ext, size) => p \in dirs
         /\ WriteFolder(p, name, ext) => p \in dirs
         /\ \A size, d : WriteFile(p, name, ext, size, d) => p \in dirs
         /\ MayDelete(p, name, ext) => Aimed(p, name, ext)
         /\ DeleteEntry(p, name, ext) => Aimed(p, name, ext)
         /\ DeleteChain(p, name, ext) => Aimed(p, name, ext)
<1>1. \A size : MayWrite(p, name, ext, size) => p \in dirs
  BY DEF MayWrite, BenignKinds
<1>2. MayDelete(p, name, ext) => Aimed(p, name, ext)
  BY DEF MayDelete, Aimed, BenignKinds
<1>. QED BY <1>1, <1>2 DEF WriteFolder, WriteFile, DeleteEntry, DeleteChain

LEMMA BenignHarmless ==
  ASSUME Misuse \subseteq BenignKinds, NEW p, NEW name, NEW ext, Call(p, name, ext)
  PROVE  Harmless(p, name, ext)
<1>1. \/ WriteFolder(p, name, ext)
      \/ \E size \in FileSizes, d \in Datas : WriteFile(p, name, ext, size, d)
      \/ DeleteEntry(p, name, ext)
      \/ DeleteChain(p, name, ext)
      \/ UNCHANGED <<fat, disk, dirs>>
  BY DEF Call, WriteRefused, WriteOverrun, ReadFile, ReadRefused, ReadOverrun,
         ReadDirectory, DeleteMissing, DeleteRefused, DeleteOverrun
<1>. QED BY <1>1, BenignCalls DEF Harmless

\* What a new folder changes: a chain of one cluster, one entry, two tables.
LEMMA FolderStep ==
  ASSUME Sound, NEW p \in dirs, NEW name \in Callable, NEW ext \in Exts,
         WriteFolder(p, name, ext)
  PROVE  \E ch \in Chains(fat, 1), s \in Slots :
           /\ fat' = Linked(fat, ch, 1)
           /\ p \in dirs /\ dirs' = dirs \cup {ch[1]}
           /\ \A c \in Clusters : c # p /\ c # ch[1] => disk'[c] = disk[c]
           /\ \A e \in Entries' :
                \/ e = <<p, s>> /\ disk'[p][s] = DirEntry(name, ext, ch[1])
                \/ e # <<p, s>> /\ Kept(e)
<1>. USE DEF Sound
<1>0. Needed(0) = 1 /\ 1 \in Nat \ {0}
  BY DEF Needed
<1>1. PICK ch \in Chains(fat, 1), s \in find_empty_entry(disk[p]) :
        /\ fat' = Linked(fat, ch, 1)
        /\ disk' = [disk EXCEPT ![p]     = [@ EXCEPT ![s] = DirEntry(name, ext, ch[1])],
                                ![ch[1]] = NewTable(name, ch[1])]
        /\ dirs' = IF p \in dirs THEN dirs \cup {ch[1]} ELSE dirs
  BY <1>0 DEF WriteFolder
<1>3. p \in Clusters /\ disk[p] \in Table /\ s \in Slots
  BY DEF TypeOK, find_empty_entry, First, FreeSlots
<1>4. ch[1] \in Clusters /\ fat[ch[1]] = EMPTY /\ ch[1] \in Nat
  BY ChainClusters, ClusterMapAssumption DEF DataClusters, Clusters, FirstCluster
<1>5. p # ch[1]
  BY <1>4 DEF DirsAreEnds, EMPTY, EOF
\* The tables: the new one has no child, the parent's gains one entry.
<1>8. \A r \in ChildSlots : disk'[ch[1]][r].name = NoName
  <2>1. disk'[ch[1]] = NewTable(name, ch[1])
    BY <1>1, <1>4 DEF TypeOK
  <2>. QED BY <2>1 DEF NewTable, BlankTable, BlankEntry, ChildSlots
<1>9. disk'[p] = [disk[p] EXCEPT ![s] = DirEntry(name, ext, ch[1])]
  BY <1>1, <1>3, <1>5 DEF TypeOK
<1>10. disk'[p][s] = DirEntry(name, ext, ch[1])
  BY <1>3, <1>9 DEF Table
<1>12. ASSUME NEW e \in Entries'
       PROVE  \/ e = <<p, s>> /\ disk'[p][s] = DirEntry(name, ext, ch[1])
              \/ e # <<p, s>> /\ Kept(e)
  <2>1. /\ e \in dirs' \X ChildSlots
        /\ disk'[e[1]][e[2]].name # NoName
    BY DEF Entries
  <2>2. e[1] # ch[1]
    BY <1>8, <2>1
  <2>3. e[1] \in dirs /\ e[2] \in ChildSlots /\ e = <<e[1], e[2]>>
    BY <1>1, <2>1, <2>2
  <2>4. CASE e[1] = p /\ e[2] = s
    BY <1>10, <2>3, <2>4
  <2>5. CASE ~(e[1] = p /\ e[2] = s)
    <3>1. disk'[e[1]][e[2]] = disk[e[1]][e[2]]
      <4>1. CASE e[1] = p
        BY <1>3, <1>9, <2>3, <2>5, <4>1 DEF Table, ChildSlots
      <4>2. CASE e[1] # p
        BY <1>1, <2>2, <2>3, <4>2 DEF TypeOK
      <4>. QED BY <4>1, <4>2
    <3>2. e \in dirs \X ChildSlots
      BY <2>3
    <3>3. e # <<p, s>>
      BY <2>5
    <3>. QED BY <2>1, <3>1, <3>2, <3>3 DEF Entries, Kept
  <2>. QED BY <2>4, <2>5
<1>13. \A c \in Clusters : c # p /\ c # ch[1] => disk'[c] = disk[c]
  BY <1>1 DEF TypeOK
<1>. QED BY <1>1, <1>3, <1>12, <1>13

LEMMA FolderSound ==
  ASSUME Sound, NEW p \in dirs, NEW name \in Callable, NEW ext \in Exts,
         WriteFolder(p, name, ext)
  PROVE  DirsAreEnds' /\ NoDangling' /\ UniqueOwner'
<1>1. PICK ch \in Chains(fat, 1), s \in Slots :
        /\ fat' = Linked(fat, ch, 1)
        /\ p \in dirs /\ dirs' = dirs \cup {ch[1]}
        /\ \A e \in Entries' :
             \/ e = <<p, s>> /\ disk'[p][s] = DirEntry(name, ext, ch[1])
             \/ e # <<p, s>> /\ Kept(e)
  BY FolderStep
<1>2. 1 \in Nat \ {0}
  OBVIOUS
<1>3. ch[1] \in Clusters
  BY <1>2, ChainClusters, ClusterMapAssumption DEF DataClusters, Clusters, FirstCluster
<1>4. /\ fat'[ch[1]] = EOF
      /\ \A c \in Clusters : c # ch[1] => fat'[c] = fat[c]
  BY <1>1, <1>2, LinkedEntries
<1>5. DirsAreEnds'
  BY <1>1, <1>3, <1>4 DEF DirsAreEnds, Sound, TypeOK
<1>6. DirEntry(name, ext, ch[1]).cluster = ch[1]
  BY DEF DirEntry, BlankEntry
<1>7. \A e \in Entries' :
        \/ e = <<p, s>> /\ Target(e)' = ch[1]
        \/ e # <<p, s>> /\ e \in Entries /\ Target(e)' = Target(e)
  BY <1>1, <1>6, KeptTarget DEF Target
<1>. QED BY <1>1, <1>2, <1>5, <1>7, AllocationSound

\* What a new file changes: a chain, one entry, and the clusters of its data.
LEMMA FileStep ==
  ASSUME Sound, NEW p \in dirs, NEW name \in Callable, NEW ext \in Exts,
         NEW size \in FileSizes, NEW d \in Datas,
         WriteFile(p, name, ext, size, d)
  PROVE  \E ch \in Chains(fat, Needed(size)), s \in Slots :
           /\ fat' = Linked(fat, ch, Needed(size))
           /\ p \in dirs /\ UNCHANGED dirs
           /\ \A i \in 1 .. size : disk'[ch[i]] = DataTable(d, i)
           /\ \A c \in Clusters :
                c # p /\ (\A i \in 1 .. size : c # ch[i]) => disk'[c] = disk[c]
           /\ \A e \in Entries' :
                \/ /\ e = <<p, s>>
                   /\ disk'[p][s].cluster = ch[1]
                   /\ disk'[p][s].size = size
                \/ e # <<p, s>> /\ Kept(e)
<1>. USE DEF Sound
<1>. DEFINE length == Needed(size)
<1>1. PICK ch \in Chains(fat, length), s \in find_empty_entry(disk[p]) :
        /\ fat' = Linked(fat, ch, length)
        /\ disk' = [c \in Clusters |->
             IF c = p
               THEN MarkNotEmpty([disk[p] EXCEPT ![s] = FileEntry(name, ext, ch[1], size)], p)
             ELSE IF \E i \in 1 .. size : c = ch[i]
               THEN DataTable(d, CHOOSE i \in 1 .. size : c = ch[i])
             ELSE disk[c]]
  BY DEF WriteFile
<1>2. size \in Nat /\ length = size + 1 /\ length \in Nat \ {0} /\ 1 \in 1 .. length
  BY SizeAssumption DEF FileSizes, Needed
<1>3. UNCHANGED dirs
  BY DEF WriteFile
<1>4. p \in Clusters /\ disk[p] \in Table /\ s \in Slots
  BY <1>3 DEF TypeOK, find_empty_entry, First, FreeSlots
<1>. HIDE DEF length
<1>5. \A i \in 1 .. length : ch[i] \in DataClusters /\ ch[i] \in Nat /\ fat[ch[i]] = EMPTY
  BY <1>2, ChainClusters, ClusterMapAssumption DEF DataClusters, FirstCluster
\* No directory lies on the new chain.
<1>6. \A i \in 1 .. length : ch[i] \notin dirs
  BY <1>5 DEF DirsAreEnds, EMPTY, EOF
<1>7. \A i \in 1 .. length : ch[i] \in Clusters
  BY <1>5, ClusterMapAssumption DEF DataClusters, Clusters, FirstCluster
<1>8. ASSUME NEW i \in 1 .. size
      PROVE  disk'[ch[i]] = DataTable(d, i)
  <2>1. i \in 1 .. length
    BY <1>2
  <2>2. ch[i] # p /\ ch[i] \in Clusters
    BY <1>3, <1>6, <1>7, <2>1
  <2>3. \A j \in 1 .. size : ch[i] = ch[j] => i = j
    BY <1>2, <2>1, ChainClusters
  <2>4. (CHOOSE j \in 1 .. size : ch[i] = ch[j]) = i
    BY <2>3
  <2>. QED BY <1>1, <2>2, <2>4
<1>14. \A c \in Clusters :
         c # p /\ (\A i \in 1 .. size : c # ch[i]) => disk'[c] = disk[c]
  BY <1>1
<1>9. \A c \in dirs \ {p} : disk'[c] = disk[c]
  BY <1>2, <1>6, <1>14 DEF TypeOK
<1>. DEFINE t == [disk[p] EXCEPT ![s] = FileEntry(name, ext, ch[1], size)]
<1>10. /\ t \in Table
       /\ t[s].cluster = ch[1] /\ t[s].size = size
       /\ \A r \in Slots : r # s => t[r] = disk[p][r]
  <2>1. FileEntry(name, ext, ch[1], size) \in Entry
    BY <1>2, <1>5, NewEntryTypes
  <2>. QED BY <1>4, <2>1 DEF Table, FileEntry
<1>11. disk'[p] = MarkNotEmpty(t, p)
  BY <1>1, <1>4
<1>. HIDE DEF t
<1>12. \A r \in Slots : /\ disk'[p][r].name = t[r].name
                        /\ disk'[p][r].cluster = t[r].cluster
                        /\ disk'[p][r].attr = t[r].attr
                        /\ disk'[p][r].size = t[r].size
  BY <1>10, <1>11, MarkedEntries
<1>13. ASSUME NEW e \in Entries'
       PROVE  \/ /\ e = <<p, s>>
                 /\ disk'[p][s].cluster = ch[1]
                 /\ disk'[p][s].size = size
              \/ e # <<p, s>> /\ Kept(e)
  <2>1. /\ e[1] \in dirs /\ e[2] \in ChildSlots /\ e = <<e[1], e[2]>>
        /\ e[2] \in Slots
        /\ disk'[e[1]][e[2]].name # NoName
    BY <1>3 DEF Entries, ChildSlots
  <2>2. CASE e[1] = p /\ e[2] = s
    BY <1>4, <1>10, <1>12, <2>1, <2>2
  <2>3. CASE ~(e[1] = p /\ e[2] = s)
    <3>1. /\ disk'[e[1]][e[2]].name = disk[e[1]][e[2]].name
          /\ disk'[e[1]][e[2]].cluster = disk[e[1]][e[2]].cluster
          /\ disk'[e[1]][e[2]].attr = disk[e[1]][e[2]].attr
          /\ disk'[e[1]][e[2]].size = disk[e[1]][e[2]].size
      BY <1>9, <1>10, <1>12, <2>1, <2>3
    <3>2. e \in dirs \X ChildSlots
      BY <2>1
    <3>. QED BY <2>1, <2>3, <3>1, <3>2 DEF Entries, Kept
  <2>. QED BY <2>2, <2>3
<1>. QED BY <1>1, <1>3, <1>4, <1>8, <1>13, <1>14 DEF length

LEMMA FileSound ==
  ASSUME Sound, NEW p \in dirs, NEW name \in Callable, NEW ext \in Exts,
         NEW size \in FileSizes, NEW d \in Datas,
         WriteFile(p, name, ext, size, d)
  PROVE  DirsAreEnds' /\ NoDangling' /\ UniqueOwner'
<1>1. PICK ch \in Chains(fat, Needed(size)), s \in Slots :
        /\ fat' = Linked(fat, ch, Needed(size))
        /\ UNCHANGED dirs
        /\ \A e \in Entries' :
             \/ e = <<p, s>> /\ disk'[p][s].cluster = ch[1]
             \/ e # <<p, s>> /\ Kept(e)
  BY FileStep
<1>2. Needed(size) \in Nat \ {0}
  BY SizeAssumption DEF FileSizes, Needed
<1>3. \A i \in 1 .. Needed(size) : ch[i] \notin dirs
  BY <1>2, ChainClusters DEF Sound, DirsAreEnds, EMPTY, EOF
<1>4. \A c \in dirs : fat'[c] = fat[c]
  BY <1>1, <1>2, <1>3, LinkedEntries DEF Sound, TypeOK
<1>5. DirsAreEnds'
  BY <1>1, <1>4 DEF Sound, DirsAreEnds
<1>6. \A e \in Entries' :
        \/ e = <<p, s>> /\ Target(e)' = ch[1]
        \/ e # <<p, s>> /\ e \in Entries /\ Target(e)' = Target(e)
  BY <1>1, KeptTarget DEF Target
<1>. QED BY <1>1, <1>2, <1>5, <1>6, AllocationSound

\* A delete so called finds the name in the parent itself, behind the parent's
\* own entry.
LEMMA DeletedEntry ==
  ASSUME Sound, NEW p \in Parents, NEW name, NEW ext, Aimed(p, name, ext),
         NEW c \in First(Hits(p, name, ext)),
         NEW s \in First(NamedSlots(disk[c], name))
  PROVE  c = p /\ p \in dirs /\ <<p, s>> \in Entries
<1>. USE DEF Sound
<1>1. p \in dirs
  BY DEF Aimed
<1>2. /\ name # NoName
      /\ disk[p][SelfSlot].name # name
      /\ KeyedSlots(disk[p], name, ext) \cap ChildSlots # {}
  BY DEF Aimed
<1>3. p \in Hits(p, name, ext)
  <2>1. NamedSlots(disk[p], name) # {}
    BY <1>2 DEF NamedSlots, KeyedSlots
  <2>2. p \in p .. ClusterMapSize - 1
    BY ClusterMapAssumption DEF Parents, BOOT_SECTOR, FirstCluster, RootCluster
  <2>. QED BY <1>1, <2>1, <2>2 DEF Hits, DirsAreEnds
<1>4. c = p
  <2>1. c <= p /\ c \in p .. ClusterMapSize - 1
    BY <1>3 DEF First, Hits
  <2>. QED BY <2>1, ClusterMapAssumption DEF Parents, BOOT_SECTOR, FirstCluster, RootCluster
<1>5. s \in Slots /\ disk[p][s].name = name
  BY <1>4 DEF First, NamedSlots
<1>6. s \in ChildSlots
  BY <1>2, <1>5 DEF ChildSlots
<1>. QED BY <1>1, <1>2, <1>4, <1>5, <1>6 DEF Entries

\* What a delete changes: it frees a cluster that nothing but the deleted entry
\* led to, and blanks that entry.
LEMMA DeleteStep ==
  ASSUME Sound, NEW p \in Parents, NEW name, NEW ext, Aimed(p, name, ext),
         DeleteEntry(p, name, ext)
  PROVE  \E x \in DataClusters :
           /\ fat' = [fat EXCEPT ![x] = EMPTY]
           /\ p \in dirs /\ dirs' = dirs \ {x}
           /\ \A b \in Clusters : fat[b] # x
           /\ \A c \in Clusters : c # p => disk'[c] = disk[c]
           /\ \A e \in Entries' : Kept(e) /\ Target(e) # x
<1>. USE DEF Sound
<1>1. PICK c \in First(Hits(p, name, ext)) :
        \E s \in First(NamedSlots(disk[c], name)) :
          /\ fat' = [fat EXCEPT ![disk[c][s].cluster] = EMPTY]
          /\ disk' = [disk EXCEPT ![c] = [@ EXCEPT ![s] = BlankEntry]]
          /\ dirs' = IF c \in dirs /\ s # SelfSlot
                       THEN dirs \ {disk[c][s].cluster}
                       ELSE dirs
  BY DEF DeleteEntry
<1>2. PICK s \in First(NamedSlots(disk[c], name)) :
        /\ fat' = [fat EXCEPT ![disk[c][s].cluster] = EMPTY]
        /\ disk' = [disk EXCEPT ![c] = [@ EXCEPT ![s] = BlankEntry]]
        /\ dirs' = IF c \in dirs /\ s # SelfSlot
                     THEN dirs \ {disk[c][s].cluster}
                     ELSE dirs
  BY <1>1
<1>3. c = p /\ p \in dirs /\ <<p, s>> \in Entries
  BY DeletedEntry
<1>. DEFINE x == Target(<<p, s>>)
<1>4. /\ p \in Clusters /\ disk[p] \in Table /\ s \in ChildSlots /\ s \in Slots
      /\ x = disk[p][s].cluster
  BY <1>3 DEF TypeOK, Entries, Target, ChildSlots
<1>5. s # SelfSlot
  BY <1>4 DEF ChildSlots
<1>6. /\ fat' = [fat EXCEPT ![x] = EMPTY]
      /\ disk' = [disk EXCEPT ![p] = [disk[p] EXCEPT ![s] = BlankEntry]]
      /\ dirs' = dirs \ {x}
  BY <1>2, <1>3, <1>4, <1>5
<1>7. /\ x \in DataClusters
      /\ \A b \in Clusters : fat[b] # x
      /\ \A e \in Entries : Target(e) = x => e = <<p, s>>
  BY <1>3 DEF NoDangling, UniqueOwner
<1>. HIDE DEF x
<1>8. ASSUME NEW e \in Entries'
      PROVE  Kept(e) /\ Target(e) # x
  <2>1. /\ e[1] \in dirs /\ e[2] \in ChildSlots /\ e[2] \in Slots
        /\ e = <<e[1], e[2]>>
        /\ e \in dirs \X ChildSlots
        /\ disk'[e[1]][e[2]].name # NoName
    BY <1>6 DEF Entries, ChildSlots
  <2>2. ~(e[1] = p /\ e[2] = s)
    <3>1. disk'[p][s] = BlankEntry
      BY <1>4, <1>6 DEF TypeOK, Table
    <3>. QED BY <2>1, <3>1 DEF BlankEntry
  <2>3. disk'[e[1]][e[2]] = disk[e[1]][e[2]]
    BY <1>4, <1>6, <2>1, <2>2 DEF TypeOK, Table
  <2>4. Kept(e)
    BY <2>1, <2>3 DEF Entries, Kept
  <2>. QED BY <1>7, <2>1, <2>2, <2>4 DEF Kept
<1>9. \A c1 \in Clusters : c1 # p => disk'[c1] = disk[c1]
  BY <1>6 DEF TypeOK
<1>. QED BY <1>3, <1>6, <1>7, <1>8, <1>9

LEMMA DeleteSound ==
  ASSUME Sound, NEW p \in Parents, NEW name, NEW ext, Aimed(p, name, ext),
         DeleteEntry(p, name, ext)
  PROVE  DirsAreEnds' /\ NoDangling' /\ UniqueOwner'
<1>. USE DEF Sound
<1>1. PICK x \in DataClusters :
        /\ fat' = [fat EXCEPT ![x] = EMPTY]
        /\ p \in dirs /\ dirs' = dirs \ {x}
        /\ \A b \in Clusters : fat[b] # x
        /\ \A e \in Entries' : Kept(e) /\ Target(e) # x
  BY DeleteStep
<1>7. x \in Clusters
  BY ClusterMapAssumption DEF DataClusters, Clusters, FirstCluster
<1>8. /\ fat'[x] = EMPTY
      /\ \A b \in Clusters : b # x => fat'[b] = fat[b]
  BY <1>1, <1>7 DEF TypeOK
<1>9. EMPTY \notin DataClusters /\ RootCluster \notin DataClusters
  BY ClusterMapAssumption DEF EMPTY, RootCluster, DataClusters, FirstCluster
<1>10. DirsAreEnds'
  BY <1>1, <1>7, <1>8, <1>9 DEF DirsAreEnds, TypeOK
<1>11. \A e \in Entries' : e \in Entries /\ Target(e)' = Target(e) /\ Target(e) # x
  BY <1>1, KeptTarget
<1>12. \A c \in Clusters : fat'[c] \in DataClusters => c # x /\ fat'[c] = fat[c]
  BY <1>8, <1>9
<1>13. NoDangling'
  <2>1. ASSUME NEW e \in Entries'
        PROVE  Target(e)' \in DataClusters /\ fat'[Target(e)'] # EMPTY
    <3>1. Target(e) \in DataClusters /\ fat[Target(e)] # EMPTY /\ Target(e) \in Clusters
      BY <1>11, ClusterMapAssumption
      DEF NoDangling, DataClusters, Clusters, FirstCluster
    <3>. QED BY <1>8, <1>11, <3>1
  <2>2. ASSUME NEW b \in Clusters, fat'[b] \in DataClusters
        PROVE  fat'[fat'[b]] # EMPTY
    <3>1. fat'[b] = fat[b] /\ fat[b] # x /\ fat[b] \in Clusters
      BY <1>1, <1>12, <2>2, ClusterMapAssumption
      DEF DataClusters, Clusters, FirstCluster
    <3>. QED BY <1>8, <2>2, <3>1 DEF NoDangling
  <2>. QED BY <2>1, <2>2 DEF NoDangling
<1>14. UniqueOwner'
  <2>1. ASSUME NEW b \in Clusters, NEW b2 \in Clusters,
               fat'[b] \in DataClusters, fat'[b] = fat'[b2]
        PROVE  b = b2
    BY <1>12, <2>1 DEF UniqueOwner
  <2>2. ASSUME NEW e \in Entries', NEW f \in Entries', Target(e)' = Target(f)'
        PROVE  e = f
    BY <1>11, <2>2 DEF UniqueOwner
  <2>3. ASSUME NEW e \in Entries', NEW b \in Clusters
        PROVE  fat'[b] # Target(e)'
    <3>1. Target(e) \in DataClusters
      BY <1>11 DEF NoDangling
    <3>. QED BY <1>11, <1>12, <3>1 DEF UniqueOwner
  <2>. QED BY <2>1, <2>2, <2>3 DEF UniqueOwner
<1>. QED BY <1>10, <1>13, <1>14

\* Such a call never takes the branch that frees a chain.
LEMMA NoChainDeleted ==
  ASSUME Sound, NEW p \in Parents, NEW name, NEW ext, Aimed(p, name, ext),
         NEW c \in First(Hits(p, name, ext))
  PROVE  fat[c] = EOF
<1>1. p \in dirs
  BY DEF Aimed
<1>2. p \in Hits(p, name, ext)
  <2>1. NamedSlots(disk[p], name) # {}
    BY DEF Aimed, NamedSlots, KeyedSlots
  <2>2. p \in p .. ClusterMapSize - 1
    BY ClusterMapAssumption DEF Parents, BOOT_SECTOR, FirstCluster, RootCluster
  <2>. QED BY <1>1, <2>1, <2>2 DEF Hits, Sound, DirsAreEnds
<1>3. c = p
  <2>1. c <= p /\ c \in p .. ClusterMapSize - 1
    BY <1>2 DEF First, Hits
  <2>. QED BY <2>1, ClusterMapAssumption DEF Parents, BOOT_SECTOR, FirstCluster, RootCluster
<1>. QED BY <1>1, <1>3 DEF Sound, DirsAreEnds

\* A formatted volume is sound.
LEMMA InitSound == Init => Sound
<1>. SUFFICES ASSUME Init PROVE Sound
  OBVIOUS
<1>1. TypeOK
  BY InitTypeOK
<1>2. \A c \in Clusters : fat[c] \notin DataClusters
  <2>1. ASSUME NEW c \in Clusters
        PROVE  FormattedFat[c] \notin DataClusters
    BY ClusterMapAssumption
    DEF FormattedFat, DataClusters, FirstCluster, EMPTY, EOF, CLUSTER_0_VALUE
  <2>. QED BY <2>1 DEF Init
<1>3. dirs = {RootCluster} /\ RootCluster \in Clusters /\ fat[RootCluster] = EOF
  <2>1. RootCluster \in Clusters /\ RootCluster # 0
    BY ClusterMapAssumption DEF Clusters, RootCluster, FirstCluster
  <2>2. FormattedFat[RootCluster] = EOF
    BY <2>1 DEF FormattedFat
  <2>. QED BY <2>1, <2>2 DEF Init
<1>4. \A s \in ChildSlots : disk[RootCluster][s].name = NoName
  <2>1. disk[RootCluster] = RootTable
    BY <1>3 DEF Init
  <2>. QED BY <2>1 DEF RootTable, BlankTable, BlankEntry, ChildSlots
<1>5. Entries = {}
  BY <1>3, <1>4 DEF Entries
<1>. QED BY <1>1, <1>2, <1>3, <1>5 DEF Sound, DirsAreEnds, NoDangling, UniqueOwner

\* A call that does no harm keeps it so.
LEMMA HarmlessSound ==
  ASSUME Sound, NEW p \in Parents, NEW name \in Callable, NEW ext \in Exts,
         Call(p, name, ext), Harmless(p, name, ext)
  PROVE  Sound'
<1>0. TypeOK'
  BY StepTypeOK DEF Sound, Next
<1>1. CASE UNCHANGED <<fat, disk, dirs>>
  <2>1. DirsAreEnds'
    BY <1>1 DEF Sound, DirsAreEnds
  <2>2. NoDangling'
    BY <1>1 DEF Sound, NoDangling, Entries, Target
  <2>3. UniqueOwner'
    BY <1>1 DEF Sound, UniqueOwner, Entries, Target
  <2>. QED BY <1>0, <2>1, <2>2, <2>3 DEF Sound
<1>2. ASSUME p \in dirs, WriteFolder(p, name, ext)
      PROVE  Sound'
  BY <1>0, <1>2, FolderSound DEF Sound
<1>3. ASSUME p \in dirs, NEW size \in FileSizes, NEW d \in Datas,
             WriteFile(p, name, ext, size, d)
      PROVE  Sound'
  BY <1>0, <1>3, FileSound DEF Sound
<1>4. ASSUME Aimed(p, name, ext), DeleteEntry(p, name, ext)
      PROVE  Sound'
  BY <1>0, <1>4, DeleteSound DEF Sound
<1>5. ASSUME Aimed(p, name, ext), DeleteChain(p, name, ext)
      PROVE  Sound'
  BY <1>5, NoChainDeleted DEF DeleteChain
<1>. QED BY <1>1, <1>2, <1>3, <1>4, <1>5 DEF Harmless

LEMMA BenignStep ==
  ASSUME Misuse \subseteq BenignKinds
  PROVE  Sound /\ [Next]_vars => Sound'
<1>. SUFFICES ASSUME Sound, [Next]_vars PROVE Sound'
  OBVIOUS
<1>1. CASE UNCHANGED vars
  <2>1. TypeOK'
    BY <1>1, StepTypeOK DEF Sound
  <2>. QED BY <1>1, <2>1
       DEF vars, Sound, DirsAreEnds, NoDangling, UniqueOwner, Entries, Target
<1>2. ASSUME NEW p \in Parents, NEW name \in Callable, NEW ext \in Exts, Call(p, name, ext)
      PROVE  Sound'
  BY <1>2, BenignHarmless, HarmlessSound
<1>. QED BY <1>1, <1>2 DEF Next

\* Sound is an invariant of every use that is at worst benign.
THEOREM BenignSound ==
  ASSUME Misuse \subseteq BenignKinds
  PROVE  Spec => []Sound
<1>. QED BY InitSound, BenignStep, PTL DEF Spec

\* One link or one entry leads to a cluster at most.
THEOREM BenignUniqueOwner ==
  ASSUME Misuse \subseteq BenignKinds
  PROVE  Spec => []UniqueOwner
<1>1. Sound => UniqueOwner
  BY DEF Sound
<1>. QED BY <1>1, BenignSound, PTL

\* Nothing leads to a cluster the allocator may hand out.
THEOREM BenignNoDangling ==
  ASSUME Misuse \subseteq BenignKinds
  PROVE  Spec => []NoDangling
<1>1. Sound => NoDangling
  BY DEF Sound
<1>. QED BY <1>1, BenignSound, PTL
-----------------------------------------------------------------------------
(***************************************************************************)
(* The walk along a chain.  That its recursive definition defines a        *)
(* function is an induction; the library's theorems leave the              *)
(* least-number principle for sets to argue with.                          *)
(***************************************************************************)
LEMMA LeastOf ==
  ASSUME NEW T, T \subseteq Nat, T # {}
  PROVE  \E n \in T : \A m \in T : n <= m
<1>. DEFINE R == OpToRel(<, Nat)
<1>1. IsWellFoundedOn(R, Nat)
  BY NatLessThanWellFounded
<1>2. R = {p \in Nat \X Nat : p[1] < p[2]}
  BY DEF OpToRel
<1>. HIDE DEF R
<1>3. PICK n \in T : \A m \in T : ~ (<<m, n>> \in R)
  BY <1>1, WFMin
<1>4. \A m, n1 \in Nat : m < n1 => <<m, n1>> \in R
  BY <1>2
<1>5. ASSUME NEW m \in T
      PROVE  n <= m
  <2>1. m \in Nat /\ n \in Nat /\ ~ (m < n)
    BY <1>3, <1>4
  <2>. QED BY <2>1
<1>. QED BY <1>5

\* The cluster behind x.
After(f, x) == IF x \in Clusters THEN f[x] ELSE x

\* g is the first n links of the walk from c.
Follows(f, c, g, n) == g = [k \in 0 .. n |-> IF k = 0 THEN c ELSE After(f, g[k - 1])]

LEMMA WalkExists ==
  ASSUME NEW f, NEW c
  PROVE  \A n \in Nat : \E g : Follows(f, c, g, n)
<1>. DEFINE Bad == {n \in Nat : ~ \E g : Follows(f, c, g, n)}
<1>. SUFFICES ASSUME Bad # {} PROVE FALSE
  OBVIOUS
<1>1. PICK n \in Bad : \A m \in Bad : n <= m
  <2>. HIDE DEF Bad
  <2>1. Bad \subseteq Nat
    BY DEF Bad
  <2>. QED BY <2>1, LeastOf
<1>2. CASE n = 0
  <2>. DEFINE g == [k \in 0 .. 0 |-> c]
  <2>1. Follows(f, c, g, 0)
    BY DEF Follows
  <2>. QED BY <1>1, <1>2, <2>1
<1>3. CASE n > 0
  <2>1. n \in Nat /\ n - 1 \in Nat /\ n - 1 \notin Bad
    BY <1>1, <1>3
  <2>2. PICK h : Follows(f, c, h, n - 1)
    BY <2>1
  <2>. DEFINE g == [k \in 0 .. n |-> IF k < n THEN h[k] ELSE After(f, h[n - 1])]
  <2>3. \A k \in 0 .. n - 1 : h[k] = IF k = 0 THEN c ELSE After(f, h[k - 1])
    BY <2>1, <2>2 DEF Follows
  <2>4. ASSUME NEW k \in 0 .. n
        PROVE  g[k] = IF k = 0 THEN c ELSE After(f, g[k - 1])
    <3>1. CASE k = n
      BY <1>3, <2>1, <3>1
    <3>2. CASE k < n
      BY <1>3, <2>1, <2>3, <3>2
    <3>. QED BY <2>1, <3>1, <3>2
  <2>5. Follows(f, c, g, n)
    BY <2>4 DEF Follows
  <2>. QED BY <1>1, <2>5
<1>. QED BY <1>1, <1>2, <1>3

\* The walk begins at its cluster, and each step follows a link.
LEMMA WalkLinks ==
  ASSUME NEW f, NEW c
  PROVE  /\ Walk(f, c)[0] = c
         /\ \A k \in 1 .. ClusterMapSize : Walk(f, c)[k] = After(f, Walk(f, c)[k - 1])
<1>1. Walk(f, c) = CHOOSE g : Follows(f, c, g, ClusterMapSize)
  BY DEF Walk, Follows, After
<1>2. Follows(f, c, Walk(f, c), ClusterMapSize)
  BY <1>1, WalkExists, ClusterMapAssumption
<1>. QED BY <1>2, ClusterMapAssumption DEF Follows

(***************************************************************************)
(* The root directory.  Every entry that carries its number carries the    *)
(* mark that makes delete() refuse, and no link leads to it.               *)
(***************************************************************************)
RootMarked ==
  \A c \in Clusters, s \in Slots :
    disk[c][s].cluster = RootCluster => disk[c][s].notEmpty

\* The root is on no chain that delete() frees.
LEMMA RootOnNoChain ==
  ASSUME NEW f \in [Clusters -> FatEntry], f[RootCluster] = EOF,
         NEW head, NEW k \in ChainLengths(f, head), NEW j \in 0 .. k - 1
  PROVE  Walk(f, head)[j] # RootCluster
<1>1. /\ k \in 1 .. ClusterMapSize
      /\ \A i \in 0 .. k : Walk(f, head)[i] \in Clusters
  <2>1. /\ k \in 1 .. ClusterMapSize
        /\ Walk(f, head)[k] \in Clusters
        /\ \A i \in 0 .. k - 1 : Walk(f, head)[i] \in Clusters
    BY DEF ChainLengths, First
  <2>2. \A i \in 0 .. k : i \in 0 .. k - 1 \/ i = k
    BY <2>1
  <2>. QED BY <2>1, <2>2
<1>2. EOF \notin Clusters
  BY ClusterMapAssumption DEF EOF, Clusters
<1>3. j + 1 \in 1 .. ClusterMapSize /\ j + 1 \in 0 .. k /\ (j + 1) - 1 = j
  BY <1>1, ClusterMapAssumption
<1>4. Walk(f, head)[j + 1] = After(f, Walk(f, head)[j])
  BY <1>3, WalkLinks
<1>5. RootCluster \in Clusters
  BY ClusterMapAssumption DEF RootCluster, Clusters, FirstCluster
<1>. QED BY <1>1, <1>2, <1>3, <1>4, <1>5 DEF After

\* An entry that write() makes for a data cluster says nothing of the root.
LEMMA RootNotEntered ==
  ASSUME NEW c \in DataClusters, NEW name, NEW ext, NEW size, NEW r \in Slots
  PROVE  /\ DirEntry(name, ext, c).cluster # RootCluster
         /\ FileEntry(name, ext, c, size).cluster # RootCluster
         /\ NewTable(name, c)[r].cluster # RootCluster
         /\ BlankEntry.cluster # RootCluster
<1>1. c # RootCluster /\ RootCluster # 0
  BY ClusterMapAssumption DEF DataClusters, FirstCluster, RootCluster
<1>. QED BY <1>1 DEF DirEntry, FileEntry, NewTable, BlankTable, BlankEntry

LEMMA RootNotInData ==
  ASSUME NoRootInData, NEW d \in Datas, NEW i \in 1 .. MaxFileClusters, NEW r \in Slots
  PROVE  DataTable(d, i)[r].cluster # RootCluster
<1>1. DataTable(d, i)[r].cluster = Reading[<<d, i>>][r].cluster
  <2>1. <<d, i>> \in Pieces /\ Reading[<<d, i>>] \in Table
    BY ReadingAssumption DEF Pieces
  <2>. QED BY <2>1 DEF DataTable, Table, Entry
<1>. QED BY <1>1 DEF NoRootInData, Pieces

LEMMA MarkedKeepsMarks ==
  ASSUME NEW t \in Table, NEW p, NEW r \in Slots,
         t[r].cluster = RootCluster => t[r].notEmpty
  PROVE  MarkNotEmpty(t, p)[r].cluster = RootCluster => MarkNotEmpty(t, p)[r].notEmpty
<1>1. t[r] \in Entry
  BY DEF Table
<1>. QED BY <1>1 DEF MarkNotEmpty, Entry

RootKept == fat[RootCluster] = EOF /\ RootCluster \in dirs

\* Whatever is asked of the driver, by whatever parent and name, the root
\* directory keeps its cluster: delete() meets its mark wherever it finds it.
\* So it is as long as no content holds the root's number where an entry would;
\* delete() may take a content that does for a table, and free the root.
THEOREM SpecRootIntact == Spec => []RootIntact
<1>. DEFINE Inv == NoRootInData => RootKept /\ RootMarked
<1>0. RootCluster \in Clusters
  BY ClusterMapAssumption DEF RootCluster, Clusters, FirstCluster
<1>1. Init => Inv
  <2>. SUFFICES ASSUME Init PROVE RootKept /\ RootMarked
    OBVIOUS
  <2>1. FormattedFat[RootCluster] = EOF
    BY <1>0 DEF FormattedFat, RootCluster
  <2>2. \A c \in Clusters, s \in Slots :
          disk[c][s] = RootTable[s] \/ disk[c][s] = BlankEntry \/ disk[c][s] = BootSector[s]
    BY DEF Init, BlankTable
  <2>3. \A s \in Slots : RootTable[s].cluster = RootCluster => RootTable[s].notEmpty
    BY DEF RootTable, DirEntry, BlankTable, BlankEntry, RootCluster
  <2>4. BlankEntry.cluster # RootCluster
    BY DEF BlankEntry, RootCluster
  <2>5. \A s \in Slots : BootSector[s].cluster # RootCluster
    BY BootSectorAssumption
  <2>. QED BY <1>0, <2>1, <2>2, <2>3, <2>4, <2>5 DEF Init, RootKept, RootMarked
<1>2. TypeOK /\ Inv /\ [Next]_vars => Inv'
  <2>. SUFFICES ASSUME NoRootInData, TypeOK, RootKept, RootMarked, [Next]_vars
                PROVE  (RootKept /\ RootMarked)'
    BY DEF NoRootInData
  <2>1. CASE UNCHANGED <<fat, disk, dirs>>
    BY <2>1 DEF RootKept, RootMarked
  <2>2. CASE UNCHANGED vars
    BY <2>1, <2>2 DEF vars
  <2>. SUFFICES ASSUME NEW p \in Parents, NEW name \in Callable, NEW ext \in Exts,
                       Call(p, name, ext)
       PROVE  (RootKept /\ RootMarked)'
    BY <2>2 DEF Next
  <2>. p \in Clusters
    BY ClusterMapAssumption DEF Parents, BOOT_SECTOR, FirstCluster, Clusters, RootCluster
  <2>3. ASSUME NEW length \in Nat \ {0}, NEW ch \in Chains(fat, length),
               fat' = Linked(fat, ch, length), dirs \subseteq dirs'
        PROVE  RootKept'
    <3>1. \A i \in 1 .. length : RootCluster # ch[i]
      BY ChainClusters DEF DataClusters, FirstCluster, RootCluster
    <3>2. fat'[RootCluster] = fat[RootCluster]
      BY <1>0, <2>3, <3>1, LinkedEntries
    <3>. QED BY <2>3, <3>2 DEF RootKept
  <2>4. CASE WriteFolder(p, name, ext)
    <3>0. Needed(0) = 1 /\ 1 \in Nat \ {0}
      BY DEF Needed
    <3>1. PICK ch \in Chains(fat, 1), s \in find_empty_entry(disk[p]) :
            /\ fat' = Linked(fat, ch, 1)
            /\ disk' = [disk EXCEPT ![p]     = [@ EXCEPT ![s] = DirEntry(name, ext, ch[1])],
                                    ![ch[1]] = NewTable(name, ch[1])]
            /\ dirs' = IF p \in dirs THEN dirs \cup {ch[1]} ELSE dirs
      BY <2>4, <3>0 DEF WriteFolder
    <3>2. RootKept'
      BY <2>3, <3>0, <3>1
    <3>3. ch[1] \in DataClusters
      BY <3>0, ChainClusters
    <3>4. ASSUME NEW c \in Clusters, NEW r \in Slots
          PROVE  \/ disk'[c][r] = disk[c][r]
                 \/ disk'[c][r] = DirEntry(name, ext, ch[1])
                 \/ disk'[c][r] = NewTable(name, ch[1])[r]
      BY <3>1 DEF TypeOK, Table
    <3>5. ASSUME NEW c \in Clusters, NEW r \in Slots, disk'[c][r].cluster = RootCluster
          PROVE  disk'[c][r].notEmpty
      <4>1. /\ DirEntry(name, ext, ch[1]).cluster # RootCluster
            /\ NewTable(name, ch[1])[r].cluster # RootCluster
        BY <3>3, RootNotEntered
      <4>2. disk'[c][r] = disk[c][r]
        BY <3>4, <3>5, <4>1
      <4>. QED BY <3>5, <4>2 DEF RootMarked
    <3>. QED BY <3>2, <3>5 DEF RootMarked
  <2>5. ASSUME NEW size \in FileSizes, NEW d \in Datas, WriteFile(p, name, ext, size, d)
        PROVE  (RootKept /\ RootMarked)'
    <3>0. Needed(size) \in Nat \ {0} /\ 1 \in 1 .. Needed(size) /\ size \in Nat
      BY SizeAssumption DEF Needed, FileSizes
    <3>1. PICK ch \in Chains(fat, Needed(size)), s \in find_empty_entry(disk[p]) :
            /\ fat' = Linked(fat, ch, Needed(size))
            /\ disk' = [c \in Clusters |->
                 IF c = p
                   THEN MarkNotEmpty([disk[p] EXCEPT ![s] = FileEntry(name, ext, ch[1], size)], p)
                 ELSE IF \E i \in 1 .. size : c = ch[i]
                   THEN DataTable(d, CHOOSE i \in 1 .. size : c = ch[i])
                 ELSE disk[c]]
      BY <2>5 DEF WriteFile
    <3>2. RootKept'
      BY <2>3, <2>5, <3>0, <3>1 DEF WriteFile
    <3>3. ch[1] \in DataClusters /\ ch[1] \in Nat
      BY <3>0, ChainClusters, ClusterMapAssumption DEF DataClusters, FirstCluster
    <3>. DEFINE t == [disk[p] EXCEPT ![s] = FileEntry(name, ext, ch[1], size)]
    <3>4. t \in Table
      BY <3>0, <3>3, NewEntryTypes DEF TypeOK, Table
    <3>5. \A r \in Slots : t[r].cluster = RootCluster => t[r].notEmpty
      BY <3>3, RootNotEntered DEF TypeOK, Table, RootMarked
    <3>6. disk' = [c \in Clusters |->
                 IF c = p THEN MarkNotEmpty(t, p)
                 ELSE IF \E i \in 1 .. size : c = ch[i]
                   THEN DataTable(d, CHOOSE i \in 1 .. size : c = ch[i])
                 ELSE disk[c]]
      BY <3>1
    <3>. HIDE DEF t
    <3>7. ASSUME NEW c \in Clusters, NEW r \in Slots
          PROVE  disk'[c][r].cluster = RootCluster => disk'[c][r].notEmpty
      <4>1. CASE c = p
        BY <3>4, <3>5, <3>6, <4>1, MarkedKeepsMarks
      <4>2. CASE c # p /\ \E i \in 1 .. size : c = ch[i]
        <5>1. disk'[c] = DataTable(d, CHOOSE i \in 1 .. size : c = ch[i])
          BY <3>6, <4>2
        <5>2. (CHOOSE i \in 1 .. size : c = ch[i]) \in 1 .. MaxFileClusters
          BY <3>0, <4>2, SizeAssumption DEF FileSizes
        <5>. QED BY <5>1, <5>2, RootNotInData
      <4>3. CASE c # p /\ ~ \E i \in 1 .. size : c = ch[i]
        BY <3>6, <4>3 DEF RootMarked
      <4>. QED BY <4>1, <4>2, <4>3
    <3>. QED BY <3>2, <3>7 DEF RootMarked
  <2>6. CASE DeleteEntry(p, name, ext)
    <3>1. PICK c \in First(Hits(p, name, ext)) :
            \E s \in First(NamedSlots(disk[c], name)) :
              /\ ~disk[c][s].notEmpty
              /\ fat' = [fat EXCEPT ![disk[c][s].cluster] = EMPTY]
              /\ disk' = [disk EXCEPT ![c] = [@ EXCEPT ![s] = BlankEntry]]
              /\ dirs' = IF c \in dirs /\ s # SelfSlot
                           THEN dirs \ {disk[c][s].cluster}
                           ELSE dirs
      BY <2>6 DEF DeleteEntry
    <3>2. PICK s \in First(NamedSlots(disk[c], name)) :
            /\ ~disk[c][s].notEmpty
            /\ fat' = [fat EXCEPT ![disk[c][s].cluster] = EMPTY]
            /\ disk' = [disk EXCEPT ![c] = [@ EXCEPT ![s] = BlankEntry]]
            /\ dirs' = IF c \in dirs /\ s # SelfSlot
                         THEN dirs \ {disk[c][s].cluster}
                         ELSE dirs
      BY <3>1
    <3>3. c \in Clusters /\ s \in Slots
      BY ClusterMapAssumption
      DEF First, Hits, NamedSlots, Parents, BOOT_SECTOR, FirstCluster, Clusters, RootCluster
    <3>4. disk[c][s].cluster # RootCluster
      BY <3>2, <3>3 DEF RootMarked
    <3>5. RootKept'
      BY <1>0, <3>2, <3>4 DEF RootKept, TypeOK
    <3>6. \A b \in Clusters, r \in Slots :
            disk'[b][r] = disk[b][r] \/ disk'[b][r] = BlankEntry
      BY <3>2, <3>3 DEF TypeOK, Table
    <3>7. BlankEntry.cluster # RootCluster
      BY DEF BlankEntry, RootCluster
    <3>. QED BY <3>5, <3>6, <3>7 DEF RootMarked
  <2>7. CASE DeleteChain(p, name, ext)
    <3>1. PICK c \in First(Hits(p, name, ext)), s \in First(KeyedSlots(disk[p], name, ext)) :
            /\ \E k \in ChainLengths(fat, disk[p][s].cluster) :
                 fat' = [x \in Clusters |->
                           IF \E j \in 0 .. k - 1 : x = Walk(fat, disk[p][s].cluster)[j]
                             THEN EMPTY ELSE fat[x]]
            /\ disk' = [disk EXCEPT ![c] = [disk[p] EXCEPT ![s] = BlankEntry]]
      BY <2>7 DEF DeleteChain
    <3>2. PICK k \in ChainLengths(fat, disk[p][s].cluster) :
            fat' = [x \in Clusters |->
                      IF \E j \in 0 .. k - 1 : x = Walk(fat, disk[p][s].cluster)[j]
                        THEN EMPTY ELSE fat[x]]
      BY <3>1
    <3>3. \A j \in 0 .. k - 1 : RootCluster # Walk(fat, disk[p][s].cluster)[j]
      BY RootOnNoChain DEF TypeOK, RootKept
    <3>4. fat'[RootCluster] = EOF
      BY <1>0, <3>2, <3>3 DEF RootKept
    <3>5. UNCHANGED dirs
      BY <2>7 DEF DeleteChain
    <3>6. \A b \in Clusters, r \in Slots :
            disk'[b][r] \in {disk[b][r], disk[p][r], BlankEntry}
      BY <3>1 DEF TypeOK, Table
    <3>7. BlankEntry.cluster # RootCluster
      BY DEF BlankEntry, RootCluster
    <3>. QED BY <3>4, <3>5, <3>6, <3>7 DEF RootKept, RootMarked
  <2>8. CASE \/ \E size \in FileSizes : WriteRefused(p, name, ext, size)
             \/ \E size \in FileSizes : WriteOverrun(p, name, ext, size)
             \/ \E size \in FileSizes : ReadFile(p, name, ext, size)
             \/ \E size \in FileSizes : ReadRefused(p, name, ext, size)
             \/ \E size \in FileSizes : ReadOverrun(p, name, ext, size)
             \/ ReadDirectory(p, name, ext)
             \/ DeleteMissing(p, name, ext)
             \/ DeleteRefused(p, name, ext)
             \/ DeleteOverrun(p, name, ext)
    BY <2>1, <2>8 DEF WriteRefused, WriteOverrun, ReadFile, ReadRefused, ReadOverrun,
                      ReadDirectory, DeleteMissing, DeleteRefused, DeleteOverrun
  <2>. QED BY <2>4, <2>5, <2>6, <2>7, <2>8 DEF Call
<1>3. Inv => RootIntact
  BY DEF RootIntact, RootKept
<1>. QED BY <1>1, <1>2, <1>3, SpecTypeOK, PTL DEF Spec

(***************************************************************************)
(* Files.  A file is a chain and the content along it; what a call changes *)
(* lies elsewhere, and what it builds is a file of its own.                *)
(***************************************************************************)
FileAt(f, dk, c, n) ==
  /\ ChainLengths(f, c) = {n}
  /\ \E d \in Datas : Content(dk, f, c, n) = [i \in 1 .. n |-> <<d, i>>]

LEMMA WholeFiles ==
  FilesWhole <=> \A e \in Entries :
                   disk[e[1]][e[2]].attr = "file" =>
                     FileAt(fat, disk, Target(e), disk[e[1]][e[2]].size)
BY DEF FilesWhole, FileAt, Target

\* What the length of a chain says of the walk along it.
LEMMA ChainWalked ==
  ASSUME NEW f, NEW c, NEW k \in ChainLengths(f, c)
  PROVE  /\ k \in 1 .. ClusterMapSize
         /\ \A j \in 0 .. k : Walk(f, c)[j] \in Clusters
         /\ f[Walk(f, c)[k]] = EOF
         /\ \A j \in 1 .. k - 1 : f[Walk(f, c)[j]] # EOF
         /\ \A j \in 0 .. k - 1 : Walk(f, c)[j + 1] = f[Walk(f, c)[j]]
<1>. DEFINE T == {m \in 1 .. ClusterMapSize :
                    /\ Walk(f, c)[m] \in Clusters
                    /\ f[Walk(f, c)[m]] = EOF
                    /\ \A j \in 0 .. m - 1 : Walk(f, c)[j] \in Clusters}
<1>1. k \in T /\ \A m \in T : k <= m
  BY DEF ChainLengths, First
<1>2. k \in 1 .. ClusterMapSize /\ \A j \in 0 .. k - 1 : Walk(f, c)[j] \in Clusters
  BY <1>1
<1>3. \A j \in 0 .. k : j \in 0 .. k - 1 \/ j = k
  BY <1>2
<1>4. \A j \in 0 .. k : Walk(f, c)[j] \in Clusters
  BY <1>1, <1>2, <1>3
<1>5. ASSUME NEW j \in 1 .. k - 1, f[Walk(f, c)[j]] = EOF
      PROVE  FALSE
  <2>1. /\ j \in 1 .. ClusterMapSize /\ j \in 0 .. k
        /\ \A i \in 0 .. j - 1 : i \in 0 .. k
        /\ ~ (k <= j)
    BY <1>2, ClusterMapAssumption
  <2>2. j \in T
    BY <1>4, <1>5, <2>1
  <2>. QED BY <1>1, <2>1, <2>2
<1>6. ASSUME NEW j \in 0 .. k - 1
      PROVE  Walk(f, c)[j + 1] = f[Walk(f, c)[j]]
  <2>1. j + 1 \in 1 .. ClusterMapSize /\ (j + 1) - 1 = j
    BY <1>2, ClusterMapAssumption
  <2>. QED BY <1>2, <2>1, WalkLinks DEF After
<1>. QED BY <1>1, <1>2, <1>4, <1>5, <1>6

LEMMA ChainEnds ==
  ASSUME NEW f, NEW c, NEW k \in 1 .. ClusterMapSize,
         \A j \in 0 .. k : Walk(f, c)[j] \in Clusters,
         f[Walk(f, c)[k]] = EOF,
         \A j \in 1 .. k - 1 : f[Walk(f, c)[j]] # EOF
  PROVE  ChainLengths(f, c) = {k}
<1>. DEFINE T == {m \in 1 .. ClusterMapSize :
                    /\ Walk(f, c)[m] \in Clusters
                    /\ f[Walk(f, c)[m]] = EOF
                    /\ \A j \in 0 .. m - 1 : Walk(f, c)[j] \in Clusters}
<1>1. k \in 0 .. k /\ \A j \in 0 .. k - 1 : j \in 0 .. k
  BY ClusterMapAssumption
<1>2. k \in T
  BY <1>1
<1>3. ASSUME NEW m \in T
      PROVE  k <= m
  <2>1. m \in 1 .. k - 1 \/ k <= m
    BY ClusterMapAssumption
  <2>. QED BY <2>1
<1>4. \A m \in T : m \in Int
  BY ClusterMapAssumption
<1>5. ChainLengths(f, c) = First(T)
  BY DEF ChainLengths
<1>. HIDE DEF T
<1>6. ASSUME NEW m \in First(T)
      PROVE  m = k
  <2>1. m \in T /\ m <= k
    BY <1>2 DEF First
  <2>. QED BY <1>3, <1>4, <2>1, ClusterMapAssumption
<1>7. k \in First(T)
  BY <1>2, <1>3 DEF First
<1>. QED BY <1>5, <1>6, <1>7

\* A table that agrees with another along a chain has the chain too.
LEMMA ChainKept ==
  ASSUME NEW f, NEW g, NEW c, NEW k \in ChainLengths(f, c),
         \A j \in 0 .. k : g[Walk(f, c)[j]] = f[Walk(f, c)[j]]
  PROVE  /\ \A j \in 0 .. k : Walk(g, c)[j] = Walk(f, c)[j]
         /\ ChainLengths(g, c) = {k}
<1>1. /\ k \in 1 .. ClusterMapSize
      /\ \A j \in 0 .. k : Walk(f, c)[j] \in Clusters
      /\ f[Walk(f, c)[k]] = EOF
      /\ \A j \in 1 .. k - 1 : f[Walk(f, c)[j]] # EOF
      /\ \A j \in 0 .. k - 1 : Walk(f, c)[j + 1] = f[Walk(f, c)[j]]
  BY ChainWalked
<1>2. \A j \in 0 .. k : Walk(g, c)[j] = Walk(f, c)[j]
  <2>. DEFINE Bad == {j \in 0 .. k : Walk(g, c)[j] # Walk(f, c)[j]}
  <2>. SUFFICES ASSUME Bad # {} PROVE FALSE
    OBVIOUS
  <2>0. Bad \subseteq Nat
    BY <1>1, ClusterMapAssumption
  <2>1. PICK n \in Bad : \A m \in Bad : n <= m
    <3>. HIDE DEF Bad
    <3>. QED BY <2>0, LeastOf
  <2>2. n # 0
    BY WalkLinks
  <2>3. /\ n - 1 \in 0 .. k - 1 /\ n - 1 \in 0 .. k /\ (n - 1) + 1 = n
        /\ n \in 1 .. ClusterMapSize
        /\ ~ (n <= n - 1)
    BY <1>1, <2>2, ClusterMapAssumption
  <2>4. Walk(g, c)[n - 1] = Walk(f, c)[n - 1]
    BY <2>1, <2>3
  <2>5. Walk(g, c)[n] = g[Walk(f, c)[n - 1]]
    BY <1>1, <2>3, <2>4, WalkLinks DEF After
  <2>6. Walk(f, c)[n] = f[Walk(f, c)[n - 1]]
    BY <1>1, <2>3
  <2>. QED BY <2>1, <2>3, <2>5, <2>6
<1>3. /\ k \in 0 .. k
      /\ \A j \in 1 .. k - 1 : j \in 0 .. k
  BY <1>1, ClusterMapAssumption
<1>. QED BY <1>1, <1>2, <1>3, ChainEnds

\* The chain of a live entry runs through allocated clusters that links lead
\* to, and none but its last is marked EOF.
LEMMA LiveChain ==
  ASSUME Sound, NEW e \in Entries, NEW k \in ChainLengths(fat, Target(e))
  PROVE  /\ \A j \in 0 .. k :
              LET w == Walk(fat, Target(e))
              IN  /\ w[j] \in DataClusters /\ fat[w[j]] # EMPTY
                  /\ w[j] = Target(e) \/ \E b \in Clusters : fat[b] = w[j]
         /\ \A j \in 0 .. k - 1 : fat[Walk(fat, Target(e))[j]] \in DataClusters
<1>. DEFINE w == Walk(fat, Target(e))
<1>1. /\ k \in 1 .. ClusterMapSize
      /\ \A j \in 0 .. k : w[j] \in Clusters
      /\ \A j \in 0 .. k - 1 : w[j + 1] = fat[w[j]]
  BY ChainWalked
<1>2. w[0] = Target(e) /\ Target(e) \in DataClusters /\ fat[Target(e)] # EMPTY
  BY WalkLinks DEF Sound, NoDangling
<1>. HIDE DEF w
<1>3. \A j \in 0 .. k : w[j] \in DataClusters /\ fat[w[j]] # EMPTY
  <2>. DEFINE Bad == {j \in 0 .. k : ~ (w[j] \in DataClusters /\ fat[w[j]] # EMPTY)}
  <2>. SUFFICES ASSUME Bad # {} PROVE FALSE
    OBVIOUS
  <2>0. Bad \subseteq Nat
    BY <1>1, ClusterMapAssumption
  <2>1. PICK n \in Bad : \A m \in Bad : n <= m
    <3>. HIDE DEF Bad
    <3>. QED BY <2>0, LeastOf
  <2>2. n # 0
    BY <1>2
  <2>3. n - 1 \in 0 .. k - 1 /\ n - 1 \in 0 .. k /\ (n - 1) + 1 = n /\ ~ (n <= n - 1)
    BY <1>1, <2>2, ClusterMapAssumption
  <2>4. w[n - 1] \in Clusters /\ fat[w[n - 1]] # EMPTY
    BY <1>1, <2>1, <2>3
  <2>5. w[n] = fat[w[n - 1]] /\ w[n] \in Clusters
    BY <1>1, <2>1, <2>3
  <2>6. fat[w[n - 1]] \in FatEntry
    BY <2>4 DEF Sound, TypeOK
  <2>7. w[n] \in DataClusters
    BY <2>4, <2>5, <2>6, ClusterMapAssumption
    DEF FatEntry, EMPTY, EOF, CLUSTER_0_VALUE, Clusters
  <2>8. fat[w[n]] # EMPTY
    BY <2>4, <2>5, <2>7 DEF Sound, NoDangling
  <2>. QED BY <2>1, <2>7, <2>8
<1>4. ASSUME NEW j \in 0 .. k - 1
      PROVE  fat[w[j]] \in DataClusters
  <2>1. j + 1 \in 0 .. k
    BY <1>1, ClusterMapAssumption
  <2>. QED BY <1>1, <1>3, <2>1
<1>5. ASSUME NEW j \in 0 .. k
      PROVE  w[j] = Target(e) \/ \E b \in Clusters : fat[b] = w[j]
  <2>1. CASE j = 0
    BY <1>2, <2>1
  <2>2. CASE j # 0
    <3>1. j - 1 \in 0 .. k - 1 /\ j - 1 \in 0 .. k /\ (j - 1) + 1 = j
      BY <1>1, <2>2, ClusterMapAssumption
    <3>. QED BY <1>1, <3>1
  <2>. QED BY <2>1, <2>2
<1>. QED BY <1>3, <1>4, <1>5 DEF w

\* A step that leaves the links of a live entry's chain, and the clusters that
\* are linked on from, leaves the file.
LEMMA FileKept ==
  ASSUME Sound, NEW e \in Entries, NEW n, FileAt(fat, disk, Target(e), n),
         \A c \in DataClusters :
           fat[c] # EMPTY /\ (c = Target(e) \/ \E b \in Clusters : fat[b] = c)
             => fat'[c] = fat[c],
         \A c \in DataClusters : fat[c] \in DataClusters => disk'[c] = disk[c]
  PROVE  FileAt(fat', disk', Target(e), n)
<1>. DEFINE w == Walk(fat, Target(e))
<1>1. n \in ChainLengths(fat, Target(e))
  BY DEF FileAt
<1>2. n \in 1 .. ClusterMapSize
  BY <1>1, ChainWalked
<1>3. \A j \in 0 .. n : w[j] \in DataClusters /\ fat'[w[j]] = fat[w[j]]
  BY <1>1, LiveChain
<1>4. /\ ChainLengths(fat', Target(e)) = {n}
      /\ \A j \in 0 .. n : Walk(fat', Target(e))[j] = w[j]
  <2>1. \A j \in 0 .. n : fat'[Walk(fat, Target(e))[j]] = fat[Walk(fat, Target(e))[j]]
    BY <1>3
  <2>. HIDE DEF w
  <2>2. /\ ChainLengths(fat', Target(e)) = {n}
        /\ \A j \in 0 .. n : Walk(fat', Target(e))[j] = Walk(fat, Target(e))[j]
    BY <1>1, <2>1, ChainKept
  <2>. QED BY <2>2 DEF w
<1>5. \A j \in 0 .. n - 1 : disk'[w[j]] = disk[w[j]]
  <2>1. \A j \in 0 .. n - 1 : j \in 0 .. n
    BY <1>2, ClusterMapAssumption
  <2>2. \A j \in 0 .. n - 1 : fat[w[j]] \in DataClusters
    BY <1>1, LiveChain
  <2>. QED BY <1>3, <2>1, <2>2
<1>. HIDE DEF w
<1>6. Content(disk', fat', Target(e), n) = Content(disk, fat, Target(e), n)
  <2>1. ASSUME NEW j \in 1 .. n
        PROVE  /\ Walk(fat', Target(e))[j - 1] = w[j - 1]
               /\ disk'[w[j - 1]] = disk[w[j - 1]]
    <3>1. j - 1 \in 0 .. n - 1 /\ j - 1 \in 0 .. n
      BY <1>2, ClusterMapAssumption
    <3>. QED BY <1>4, <1>5, <3>1
  <2>. QED BY <2>1 DEF Content, w
<1>. QED BY <1>4, <1>6 DEF FileAt

\* The walk along a chain that write() has linked.
LEMMA LinkedChain ==
  ASSUME NEW f, NEW n \in Nat \ {0}, NEW ch \in Chains(f, n + 1), NEW g,
         g = Linked(f, ch, n + 1)
  PROVE  /\ ChainLengths(g, ch[1]) = {n}
         /\ \A j \in 0 .. n : Walk(g, ch[1])[j] = ch[j + 1]
<1>0. n + 1 \in Nat \ {0}
  OBVIOUS
<1>1. /\ \A i \in 1 .. n + 1 : ch[i] \in DataClusters /\ ch[i] \in Int /\ ch[i] \in Clusters
      /\ \A i, j \in 1 .. n + 1 : i < j => ch[i] < ch[j]
  BY <1>0, ChainClusters, ClusterMapAssumption DEF DataClusters, Clusters, FirstCluster
<1>2. /\ \A i \in 1 .. n : g[ch[i]] = ch[i + 1]
      /\ g[ch[n + 1]] = EOF
  <2>1. \A i \in 1 .. n + 1 : g[ch[i]] = IF i = n + 1 THEN EOF ELSE ch[i + 1]
    BY <1>0, LinkedEntries
  <2>2. \A i \in 1 .. n : i \in 1 .. n + 1 /\ i # n + 1
    OBVIOUS
  <2>3. n + 1 \in 1 .. n + 1
    OBVIOUS
  <2>. QED BY <2>1, <2>2, <2>3
\* There is room in the table, for the clusters of the chain are distinct.
<1>3. n \in 1 .. ClusterMapSize
  <2>1. \A i \in 1 .. n + 1 : ch[i] > i
    <3>. DEFINE Bad == {i \in 1 .. n + 1 : ~ (ch[i] > i)}
    <3>. SUFFICES ASSUME Bad # {} PROVE FALSE
      OBVIOUS
    <3>1. PICK i \in Bad : \A m \in Bad : i <= m
      <4>1. Bad \subseteq Nat
        OBVIOUS
      <4>. HIDE DEF Bad
      <4>. QED BY <4>1, LeastOf
    <3>2. CASE i = 1
      <4>1. ch[1] \in DataClusters
        BY <1>1
      <4>2. ch[1] > 1
        BY <4>1, ClusterMapAssumption DEF DataClusters, FirstCluster
      <4>. QED BY <3>1, <3>2, <4>2
    <3>3. CASE i # 1
      <4>1. i \in 1 .. n + 1 /\ i - 1 \in 1 .. n + 1 /\ i - 1 < i
        BY <3>1, <3>3
      <4>2. ch[i - 1] > i - 1
        BY <3>1, <4>1
      <4>3. ch[i - 1] < ch[i] /\ ch[i - 1] \in Int /\ ch[i] \in Int
        BY <1>1, <4>1
      <4>4. ch[i] > i
        BY <4>1, <4>2, <4>3
      <4>. QED BY <3>1, <4>4
    <3>. QED BY <3>2, <3>3
  <2>2. ch[n + 1] > n + 1 /\ ch[n + 1] \in Clusters
    BY <1>1, <2>1
  <2>. QED BY <2>2, ClusterMapAssumption DEF Clusters
<1>4. \A j \in 0 .. n : Walk(g, ch[1])[j] = ch[j + 1]
  <2>. DEFINE Bad == {j \in 0 .. n : Walk(g, ch[1])[j] # ch[j + 1]}
  <2>. SUFFICES ASSUME Bad # {} PROVE FALSE
    OBVIOUS
  <2>1. PICK j \in Bad : \A m \in Bad : j <= m
    <3>1. Bad \subseteq Nat
      OBVIOUS
    <3>. HIDE DEF Bad
    <3>. QED BY <3>1, LeastOf
  <2>2. j # 0
    <3>1. Walk(g, ch[1])[0] = ch[0 + 1]
      BY WalkLinks
    <3>. QED BY <2>1, <3>1
  <2>3. /\ j \in 1 .. n /\ j \in 1 .. n + 1 /\ j - 1 \in 0 .. n /\ (j - 1) + 1 = j
        /\ j \in 1 .. ClusterMapSize
        /\ ~ (j <= j - 1)
    BY <1>3, <2>1, <2>2, ClusterMapAssumption
  <2>4. Walk(g, ch[1])[j - 1] = ch[j]
    BY <2>1, <2>3
  <2>5. Walk(g, ch[1])[j] = g[ch[j]]
    BY <1>1, <2>3, <2>4, WalkLinks DEF After
  <2>. QED BY <1>2, <2>1, <2>3, <2>5
<1>5. \A j \in 0 .. n : Walk(g, ch[1])[j] \in Clusters
  <2>1. \A j \in 0 .. n : j + 1 \in 1 .. n + 1
    OBVIOUS
  <2>. QED BY <1>1, <1>4, <2>1
<1>6. g[Walk(g, ch[1])[n]] = EOF
  BY <1>2, <1>4
<1>7. ASSUME NEW j \in 1 .. n - 1
      PROVE  g[Walk(g, ch[1])[j]] # EOF
  <2>1. j \in 0 .. n /\ j + 1 \in 1 .. n /\ (j + 1) + 1 \in 1 .. n + 1
    OBVIOUS
  <2>2. g[Walk(g, ch[1])[j]] = ch[(j + 1) + 1] /\ ch[(j + 1) + 1] \in Clusters
    BY <1>1, <1>2, <1>4, <2>1
  <2>. QED BY <2>2, ClusterMapAssumption DEF Clusters, EOF
<1>. QED BY <1>3, <1>4, <1>5, <1>6, <1>7, ChainEnds

\* What write() builds is a file.
LEMMA NewFile ==
  ASSUME NEW f, NEW n \in 1 .. MaxFileClusters, NEW ch \in Chains(f, n + 1), NEW g, NEW dk,
         g = Linked(f, ch, n + 1),
         NEW d \in Datas,
         \A i \in 1 .. n : dk[ch[i]] = DataTable(d, i)
  PROVE  FileAt(g, dk, ch[1], n)
<1>0. n \in Nat \ {0}
  BY SizeAssumption
<1>1. /\ ChainLengths(g, ch[1]) = {n}
      /\ \A j \in 0 .. n : Walk(g, ch[1])[j] = ch[j + 1]
  BY <1>0, LinkedChain
<1>2. ASSUME NEW i \in 1 .. n
      PROVE  dk[Walk(g, ch[1])[i - 1]][SelfSlot].unread = <<d, i>>
  <2>1. i - 1 \in 0 .. n /\ (i - 1) + 1 = i
    OBVIOUS
  <2>2. dk[Walk(g, ch[1])[i - 1]] = DataTable(d, i)
    BY <1>1, <2>1
  <2>3. SelfSlot \in Slots
    BY SlotAssumption DEF SelfSlot, Slots
  <2>4. DataTable(d, i)[SelfSlot].unread = <<d, i>>
    <3>1. <<d, i>> \in Pieces /\ Reading[<<d, i>>] \in Table
      BY SizeAssumption, ReadingAssumption DEF Pieces
    <3>. QED BY <2>3, <3>1 DEF DataTable, Table, Entry
  <2>. QED BY <2>2, <2>4
<1>3. Content(dk, g, ch[1], n) = [i \in 1 .. n |-> <<d, i>>]
  BY <1>2 DEF Content
<1>. QED BY <1>1, <1>3 DEF FileAt

\* A step keeps files whole that leaves, for each entry it keeps, the links
\* that are in use and the clusters that are linked on from.
LEMMA KeptWhole ==
  ASSUME Sound, FilesWhole, NEW e, Kept(e),
         \A c \in DataClusters :
           fat[c] # EMPTY /\ (c = Target(e) \/ \E b \in Clusters : fat[b] = c)
             => fat'[c] = fat[c],
         \A c \in DataClusters : fat[c] \in DataClusters => disk'[c] = disk[c],
         disk'[e[1]][e[2]].attr = "file"
  PROVE  FileAt(fat', disk', Target(e)', disk'[e[1]][e[2]].size)
<1>. DEFINE n == disk[e[1]][e[2]].size
<1>1. /\ e \in Entries
      /\ disk'[e[1]][e[2]].size = n
      /\ Target(e)' = Target(e)
      /\ disk[e[1]][e[2]].attr = "file"
  BY KeptTarget DEF Kept
<1>2. FileAt(fat, disk, Target(e), n)
  BY <1>1, WholeFiles
<1>. HIDE DEF n
<1>3. FileAt(fat', disk', Target(e), n)
  BY <1>1, <1>2, FileKept
<1>. QED BY <1>1, <1>3

LEMMA InitWhole == Init => FilesWhole
<1>. SUFFICES ASSUME Init PROVE Entries = {}
  BY DEF FilesWhole
<1>1. RootCluster \in Clusters
  BY ClusterMapAssumption DEF Clusters, RootCluster, FirstCluster
<1>2. disk[RootCluster] = RootTable /\ dirs = {RootCluster}
  BY <1>1 DEF Init
<1>. QED BY <1>2 DEF Entries, RootTable, BlankTable, BlankEntry, ChildSlots

LEMMA UnchangedWhole ==
  FilesWhole /\ UNCHANGED <<fat, disk, dirs>> => FilesWhole'
<1>. SUFFICES ASSUME FilesWhole, UNCHANGED <<fat, disk, dirs>> PROVE FilesWhole'
  OBVIOUS
<1>1. fat' = fat /\ disk' = disk /\ Entries' = Entries
  BY DEF Entries
<1>2. FilesWhole' <=>
        \A e \in Entries' :
          disk'[e[1]][e[2]].attr = "file" =>
            FileAt(fat', disk', disk'[e[1]][e[2]].cluster, disk'[e[1]][e[2]].size)
  BY DEF FilesWhole, FileAt
<1>3. \A e \in Entries :
        disk[e[1]][e[2]].attr = "file" =>
          FileAt(fat, disk, disk[e[1]][e[2]].cluster, disk[e[1]][e[2]].size)
  BY WholeFiles DEF Target
<1>. QED BY <1>1, <1>2, <1>3

\* A call that does no harm leaves files whole and makes whole ones.
LEMMA HarmlessWhole ==
  ASSUME Sound, FilesWhole, NEW p \in Parents, NEW name \in Callable, NEW ext \in Exts,
         Call(p, name, ext), Harmless(p, name, ext)
  PROVE  FilesWhole'
<1>1. CASE UNCHANGED <<fat, disk, dirs>>
  BY <1>1, UnchangedWhole
<1>3. SUFFICES ASSUME ~ UNCHANGED <<fat, disk, dirs>>
               PROVE  \A e \in Entries' :
                        disk'[e[1]][e[2]].attr = "file" =>
                          FileAt(fat', disk', Target(e)', disk'[e[1]][e[2]].size)
  <2>1. FilesWhole' <=>
          \A e \in Entries' :
            disk'[e[1]][e[2]].attr = "file" =>
              FileAt(fat', disk', Target(e)', disk'[e[1]][e[2]].size)
    BY DEF FilesWhole, FileAt, Target
  <2>. QED BY <1>1, <2>1
<1>4. /\ DataClusters \subseteq Clusters
      /\ EMPTY \notin DataClusters /\ EOF \notin DataClusters
  BY ClusterMapAssumption DEF DataClusters, Clusters, FirstCluster, EMPTY, EOF
\* What is linked on from is no directory and no free cluster.
<1>5. \A c \in DataClusters : fat[c] \in DataClusters => c \notin dirs /\ fat[c] # EMPTY
  BY <1>4 DEF Sound, DirsAreEnds
<1>6. ASSUME NEW length \in Nat \ {0}, NEW ch \in Chains(fat, length),
             fat' = Linked(fat, ch, length)
      PROVE  /\ \A c \in DataClusters : fat[c] # EMPTY => fat'[c] = fat[c]
             /\ \A i \in 1 .. length : fat[ch[i]] = EMPTY
  BY <1>4, <1>6, ChainClusters, LinkedEntries
<1>7. CASE p \in dirs /\ WriteFolder(p, name, ext)
  <2>1. PICK ch \in Chains(fat, 1), s \in Slots :
          /\ fat' = Linked(fat, ch, 1)
          /\ p \in dirs
          /\ \A c \in Clusters : c # p /\ c # ch[1] => disk'[c] = disk[c]
          /\ \A e \in Entries' :
               \/ e = <<p, s>> /\ disk'[p][s] = DirEntry(name, ext, ch[1])
               \/ e # <<p, s>> /\ Kept(e)
    BY <1>7, FolderStep
  <2>2. 1 \in Nat \ {0} /\ 1 \in 1 .. 1
    OBVIOUS
  <2>3. /\ \A c \in DataClusters : fat[c] # EMPTY => fat'[c] = fat[c]
        /\ fat[ch[1]] = EMPTY
    BY <1>6, <2>1, <2>2
  <2>4. \A c \in DataClusters : fat[c] \in DataClusters => disk'[c] = disk[c]
    BY <1>4, <1>5, <2>1, <2>3
  <2>5. DirEntry(name, ext, ch[1]).attr # "file"
    BY DEF DirEntry, BlankEntry
  <2>6. ASSUME NEW e \in Entries', disk'[e[1]][e[2]].attr = "file"
        PROVE  Kept(e)
    BY <2>1, <2>5, <2>6
  <2>. QED BY <2>3, <2>4, <2>6, KeptWhole
<1>8. ASSUME p \in dirs, NEW size \in FileSizes, NEW d \in Datas,
             WriteFile(p, name, ext, size, d),
             NEW e \in Entries', disk'[e[1]][e[2]].attr = "file"
      PROVE  FileAt(fat', disk', Target(e)', disk'[e[1]][e[2]].size)
  <2>0. /\ size \in Nat \ {0} /\ Needed(size) = size + 1 /\ Needed(size) \in Nat \ {0}
        /\ size \in 1 .. MaxFileClusters
    BY <1>8, SizeAssumption DEF WriteFile, FileSizes, Needed
  <2>1. PICK ch \in Chains(fat, Needed(size)), s \in Slots :
          /\ fat' = Linked(fat, ch, Needed(size))
          /\ p \in dirs
          /\ \A i \in 1 .. size : disk'[ch[i]] = DataTable(d, i)
          /\ \A c \in Clusters :
               c # p /\ (\A i \in 1 .. size : c # ch[i]) => disk'[c] = disk[c]
          /\ \A f \in Entries' :
               \/ /\ f = <<p, s>>
                  /\ disk'[p][s].cluster = ch[1]
                  /\ disk'[p][s].size = size
               \/ f # <<p, s>> /\ Kept(f)
    BY <1>8, FileStep
  <2>2. /\ \A c \in DataClusters : fat[c] # EMPTY => fat'[c] = fat[c]
        /\ \A i \in 1 .. size : fat[ch[i]] = EMPTY
    BY <1>6, <2>0, <2>1
  <2>3. \A c \in DataClusters : fat[c] \in DataClusters => disk'[c] = disk[c]
    BY <1>4, <1>5, <2>1, <2>2
  <2>4. CASE e = <<p, s>> /\ disk'[p][s].cluster = ch[1] /\ disk'[p][s].size = size
    <3>1. FileAt(fat', disk', ch[1], size)
      BY <2>0, <2>1, NewFile
    <3>2. Target(e)' = ch[1] /\ disk'[e[1]][e[2]].size = size
      BY <2>4 DEF Target
    <3>. QED BY <3>1, <3>2
  <2>5. CASE Kept(e)
    BY <1>8, <2>2, <2>3, <2>5, KeptWhole
  <2>. QED BY <2>1, <2>4, <2>5
<1>9. CASE Aimed(p, name, ext) /\ DeleteEntry(p, name, ext)
  <2>1. PICK x \in DataClusters :
          /\ p \in dirs
          /\ fat' = [fat EXCEPT ![x] = EMPTY]
          /\ \A b \in Clusters : fat[b] # x
          /\ \A c \in Clusters : c # p => disk'[c] = disk[c]
          /\ \A e \in Entries' : Kept(e) /\ Target(e) # x
    BY <1>9, DeleteStep
  <2>2. \A c \in Clusters : c # x => fat'[c] = fat[c]
    BY <2>1 DEF Sound, TypeOK
  <2>3. \A c \in DataClusters : fat[c] \in DataClusters => disk'[c] = disk[c]
    BY <1>4, <1>5, <2>1
  <2>4. ASSUME NEW e \in Entries', disk'[e[1]][e[2]].attr = "file"
        PROVE  FileAt(fat', disk', Target(e)', disk'[e[1]][e[2]].size)
    <3>1. \A c \in DataClusters :
            fat[c] # EMPTY /\ (c = Target(e) \/ \E b \in Clusters : fat[b] = c)
              => fat'[c] = fat[c]
      BY <1>4, <2>1, <2>2
    <3>. QED BY <2>1, <2>3, <2>4, <3>1, KeptWhole
  <2>. QED BY <2>4
<1>10. CASE Aimed(p, name, ext) /\ DeleteChain(p, name, ext)
  <2>1. \A c \in First(Hits(p, name, ext)) : fat[c] = EOF
    BY <1>10, NoChainDeleted
  <2>. QED BY <1>10, <2>1 DEF DeleteChain
<1>. QED BY <1>3, <1>7, <1>8, <1>9, <1>10 DEF Harmless

LEMMA WholeStep ==
  ASSUME Misuse \subseteq BenignKinds
  PROVE  Sound /\ FilesWhole /\ [Next]_vars => FilesWhole'
<1>1. UNCHANGED vars => UNCHANGED <<fat, disk, dirs>>
  BY DEF vars
<1>. QED BY <1>1, UnchangedWhole, HarmlessWhole, BenignHarmless DEF Next

\* A caller of benign misuse never loses a file or a piece of one: whatever
\* comes and goes around it, its chain and its content stay as written.
THEOREM BenignFilesWhole ==
  ASSUME Misuse \subseteq BenignKinds
  PROVE  Spec => []FilesWhole
<1>. QED BY InitWhole, WholeStep, BenignSound, PTL DEF Spec
=============================================================================
