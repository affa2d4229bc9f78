-------------------------- MODULE Fat32DiskProofs --------------------------
(***************************************************************************)
(* Power failures, for every size of the volume: what the disk holds while *)
(* a file is written is a sound volume after every write, and the disk has *)
(* caught up with the driver's tables when a call returns.                 *)
(***************************************************************************)
EXTENDS Fat32Disk, Fat32RootProofs

(***************************************************************************)
(* The inductive invariant.  CrashSafe is about the disk alone, and the    *)
(* next write depends on what the running call has left to write: data     *)
(* that goes to free clusters, the allocation table when the data is       *)
(* there, and a parent that has all the entries it had.                    *)
(***************************************************************************)
Unwritten(c) == \E i \in 1 .. Len(pending) : pending[i] = c

\* old is the table before the entry of a file was added.
Before(old, new) ==
  /\ Same(old[SelfSlot], new[SelfSlot])
  /\ \A s \in ChildSlots :
       \/ Same(old[s], new[s])
       \/ old[s].name = NoName /\ old[s].attr = "none" /\ new[s].attr = "file"

FilePending ==
  /\ Len(pending) > 0
  /\ pending[Len(pending)] \in dirs
  /\ Before(platter[pending[Len(pending)]], disk[pending[Len(pending)]])
  /\ Len(pending) > 1 => pending[Len(pending) - 1] = FAT_CLUSTER_NUMBER
  /\ \A i \in 1 .. Len(pending) - 2 :
       /\ pending[i] \in DataClusters
       /\ Formatted => platterFat[pending[i]] = EMPTY

\* What is left to write is what the disk does not have yet.
Flushed ==
  /\ pending \in Seq(Clusters)
  /\ disk \in [Clusters -> Table] /\ platter \in [Clusters -> Table]
  /\ call \in {"idle", "off"} => pending = <<>>
  /\ call = "format" => pending \in {FormatWrites, Tail(FormatWrites), <<RootCluster>>}
  /\ Unwritten(BOOT_SECTOR) => call = "format"
  /\ call # "off" =>
       /\ \A c \in Clusters :
            c = FAT_CLUSTER_NUMBER \/ ~ Unwritten(c) => platter[c] = disk[c]
       /\ \/ Unwritten(FAT_CLUSTER_NUMBER)
          \/ platterFat = fat
          \/ platterFat = Junk /\ call \in {"format", "idle"}

\* A disk without the signature has been written to by nobody.
Unsigned ==
  ~ signed =>
    /\ platter = BlankDisk
    /\ call = "format" => pending = FormatWrites
    /\ call \in {"off", "format"}

Consistent ==
  /\ ret \in -1 .. 3 /\ overrun \in BOOLEAN
  /\ Flushed
  /\ call \in {"off", "idle", "format", "file", "folder", "delete"}
  /\ call \in {"file", "folder", "delete"} => ~ torn
  /\ Unsigned
  /\ ~ torn =>
       /\ call # "off" => Volume(fat, disk, dirs)
       /\ call = "file" => FilePending
       /\ Formatted /\ call = "file" => Volume(platterFat, platter, dirs)
       /\ Formatted /\ call = "off" => Volume(platterFat, platter, OnDisk)

(***************************************************************************)
(* Volumes.                                                                *)
(***************************************************************************)
LEMMA DirsAreParents ==
  ASSUME NEW f, NEW dk, NEW ds, Volume(f, dk, ds)
  PROVE  /\ ds \subseteq Parents /\ RootCluster \in ds
         /\ BOOT_SECTOR \notin ds /\ FAT_CLUSTER_NUMBER \notin ds
BY VolumeDirs, ClusterMapAssumption
DEF DataClusters, FirstCluster, RootCluster, Parents, BOOT_SECTOR, FAT_CLUSTER_NUMBER

\* The walk of a mount, level by level.
LEMMA FoundSteps ==
  /\ Found[0] = {RootCluster}
  /\ \A n \in Nat : Found[n + 1] = Found[n] \cup Below(platter, Found[n])
<1>1. PICK r : r = [n \in Nat |-> IF n = 0 THEN {RootCluster}
                                  ELSE r[n - 1] \cup Below(platter, r[n - 1])]
  BY LevelsExist
<1>2. Found = [n \in Nat |-> IF n = 0 THEN {RootCluster}
                             ELSE Found[n - 1] \cup Below(platter, Found[n - 1])]
  BY <1>1 DEF Found, Below
<1>3. ASSUME NEW n \in Nat
      PROVE  Found[n + 1] = Found[n] \cup Below(platter, Found[n])
  <2>1. n + 1 \in Nat /\ n + 1 # 0 /\ (n + 1) - 1 = n
    OBVIOUS
  <2>. QED BY <1>2, <2>1
<1>. QED BY <1>2, <1>3

\* A mount finds the tree of directories that is on the disk.
LEMMA FoundAll ==
  \A ds \in SUBSET Clusters : Tree(platter, ds) => OnDisk = ds
<1>. SUFFICES ASSUME NEW ds \in SUBSET Clusters, Tree(platter, ds)
              PROVE  OnDisk = ds
  OBVIOUS
<1>1. Levels(platter, ds, Found)
  BY FoundSteps DEF Levels
<1>. QED BY <1>1, TreeFound DEF OnDisk

\* Whatever is on the disk, a mount finds the root.
LEMMA RootOnDisk == RootCluster \in OnDisk
<1>. DEFINE Without == {n \in Nat : RootCluster \notin Found[n]}
<1>. SUFFICES ASSUME Without # {} PROVE FALSE
  BY ClusterMapAssumption DEF OnDisk
<1>1. PICK n \in Without : \A m \in Without : n <= m
  <2>. HIDE DEF Without
  <2>1. Without \subseteq Nat
    BY DEF Without
  <2>. QED BY <2>1, LeastOf
<1>2. n # 0
  BY FoundSteps
<1>3. n - 1 \in Nat /\ (n - 1) + 1 = n /\ ~ (n <= n - 1)
  BY <1>2
<1>4. RootCluster \in Found[n - 1]
  BY <1>1, <1>3
<1>5. Found[(n - 1) + 1] = Found[n - 1] \cup Below(platter, Found[n - 1])
  BY <1>3, FoundSteps
<1>. QED BY <1>1, <1>3, <1>4, <1>5

LEMMA FoundTree ==
  ASSUME NEW f, NEW ds, Volume(f, platter, ds)
  PROVE  OnDisk = ds
BY FoundAll DEF Volume

LEMMA DurableOperators ==
  /\ Durable!Clusters = Clusters /\ Durable!DataClusters = DataClusters
  /\ Durable!EMPTY = EMPTY /\ Durable!SelfSlot = SelfSlot
  /\ Durable!Entries = Used(platter, OnDisk)
  /\ \A e : Durable!Target(e) = Lead(platter, e)
  /\ \A f, c : Durable!ChainLengths(f, c) = ChainLengths(f, c)
  /\ \A dk, f, c, k : Durable!Content(dk, f, c, k) = Content(dk, f, c, k)
<1>1. /\ Durable!Clusters = Clusters /\ Durable!DataClusters = DataClusters
      /\ Durable!ChildSlots = ChildSlots /\ Durable!SelfSlot = SelfSlot
      /\ Durable!EMPTY = EMPTY /\ Durable!EOF = EOF
  BY DEF Durable!Clusters, Durable!DataClusters, Durable!ChildSlots, Durable!EMPTY,
         Durable!EOF, Durable!Slots, Durable!SelfSlot, Durable!FirstCluster,
         Clusters, DataClusters, ChildSlots, EMPTY, EOF, Slots, SelfSlot, FirstCluster
<1>2. ASSUME NEW f, NEW c
      PROVE  Durable!Walk(f, c) = Walk(f, c)
  BY <1>1 DEF Durable!Walk, Walk
<1>3. \A f, c : Durable!ChainLengths(f, c) = ChainLengths(f, c)
  BY <1>1, <1>2 DEF Durable!ChainLengths, ChainLengths, Durable!First, First
<1>4. \A dk, f, c, k : Durable!Content(dk, f, c, k) = Content(dk, f, c, k)
  BY <1>1, <1>2 DEF Durable!Content, Content
<1>5. Durable!Entries = Used(platter, OnDisk)
  BY <1>1 DEF Durable!Entries, Used
<1>6. \A e : Durable!Target(e) = Lead(platter, e)
  BY DEF Durable!Target, Lead
<1>. QED BY <1>1, <1>3, <1>4, <1>5, <1>6

LEMMA DurableVolume ==
  ASSUME Volume(platterFat, platter, OnDisk)
  PROVE  Durable!UniqueOwner /\ Durable!NoDangling /\ Durable!FilesWhole
<1>1. Allotted(platterFat, platter, OnDisk) /\ Whole(platterFat, platter, OnDisk)
  BY DEF Volume
<1>2. Durable!UniqueOwner
  BY <1>1, DurableOperators DEF Durable!UniqueOwner, Allotted
<1>3. Durable!NoDangling
  BY <1>1, DurableOperators DEF Durable!NoDangling, Allotted
<1>4. Durable!FilesWhole
  <2>. SUFFICES ASSUME NEW e \in Used(platter, OnDisk),
                       platter[e[1]][e[2]].attr = "file"
       PROVE  /\ ChainLengths(platterFat, platter[e[1]][e[2]].cluster)
                   = {platter[e[1]][e[2]].size}
              /\ \E d \in Datas :
                   Content(platter, platterFat, platter[e[1]][e[2]].cluster,
                           platter[e[1]][e[2]].size)
                     = [i \in 1 .. platter[e[1]][e[2]].size |-> <<d, i>>]
    BY DurableOperators DEF Durable!FilesWhole
  <2>1. FileAt(platterFat, platter, platter[e[1]][e[2]].cluster, platter[e[1]][e[2]].size)
    BY <1>1 DEF Whole, Lead
  <2>. QED BY <2>1 DEF FileAt
<1>. QED BY <1>2, <1>3, <1>4

(***************************************************************************)
(* What a cluster write does to the volume on the disk.                    *)
(***************************************************************************)
\* A file is still there when the clusters that are linked on from are.
LEMMA ContentKept ==
  ASSUME NEW f, NEW dk, NEW ds, Volume(f, dk, ds),
         NEW e \in Used(dk, ds), NEW n, FileAt(f, dk, Lead(dk, e), n),
         NEW dk2, \A c \in DataClusters : f[c] \in DataClusters => dk2[c] = dk[c]
  PROVE  FileAt(f, dk2, Lead(dk, e), n)
<1>. DEFINE w == Walk(f, Lead(dk, e))
<1>1. n \in ChainLengths(f, Lead(dk, e))
  BY DEF FileAt
<1>2. n \in 1 .. ClusterMapSize /\ \A j \in 0 .. n - 1 : dk2[w[j]] = dk[w[j]]
  BY <1>1, VolumeChain
<1>. HIDE DEF w
<1>3. Content(dk2, f, Lead(dk, e), n) = Content(dk, f, Lead(dk, e), n)
  <2>1. ASSUME NEW j \in 1 .. n
        PROVE  dk2[w[j - 1]] = dk[w[j - 1]]
    <3>1. j - 1 \in 0 .. n - 1
      BY <1>2, ClusterMapAssumption
    <3>. QED BY <1>2, <3>1
  <2>. QED BY <2>1 DEF Content, w
<1>. QED BY <1>3 DEF FileAt

\* A write to a free cluster leaves a volume one.
LEMMA SpareWritten ==
  ASSUME NEW f, NEW dk, NEW ds, Volume(f, dk, ds),
         NEW c \in DataClusters, f[c] = EMPTY, NEW dk2 \in [Clusters -> Table],
         \A b \in Clusters : b # c => dk2[b] = dk[b]
  PROVE  Volume(f, dk2, ds)
<1>0. EMPTY \notin DataClusters /\ EMPTY # EOF
  BY ClusterMapAssumption DEF EMPTY, EOF, DataClusters, FirstCluster
<1>1. \A d \in ds : dk2[d] = dk[d]
  BY <1>0 DEF Volume
<1>2. Used(dk2, ds) = Used(dk, ds)
  BY <1>1 DEF Used
<1>3. \A e \in Used(dk, ds) : dk2[e[1]][e[2]] = dk[e[1]][e[2]] /\ Lead(dk2, e) = Lead(dk, e)
  BY <1>1 DEF Used, Lead
<1>4. Allotted(f, dk2, ds)
  BY <1>2, <1>3 DEF Volume, Allotted
<1>5. Whole(f, dk2, ds)
  <2>. SUFFICES ASSUME NEW e \in Used(dk, ds), dk[e[1]][e[2]].attr = "file"
                PROVE  FileAt(f, dk2, Lead(dk, e), dk[e[1]][e[2]].size)
    BY <1>2, <1>3 DEF Whole
  <2>1. PICK n : n = dk[e[1]][e[2]].size
    OBVIOUS
  <2>2. FileAt(f, dk, Lead(dk, e), n)
    BY <2>1 DEF Volume, Whole
  <2>3. \A b \in DataClusters : f[b] \in DataClusters => dk2[b] = dk[b]
    BY <1>0, ClusterMapAssumption DEF DataClusters, Clusters, FirstCluster
  <2>4. FileAt(f, dk2, Lead(dk, e), n)
    BY <2>2, <2>3, ContentKept
  <2>. QED BY <2>1, <2>4
<1>6. Tables(dk2, ds)
  BY <1>1 DEF Volume, Tables
<1>7. Tree(dk2, ds)
  BY <1>1, TreeKept DEF Volume
<1>. QED BY <1>4, <1>5, <1>6, <1>7 DEF Volume

\* A volume is one, too, without the entry that makes a file part of it.
LEMMA EntryUnlisted ==
  ASSUME NEW f, NEW new, NEW ds, Volume(f, new, ds),
         NEW p \in ds, NEW old \in [Clusters -> Table],
         \A c \in Clusters : c # p => old[c] = new[c],
         Before(old[p], new[p])
  PROVE  Volume(f, old, ds)
<1>0. EOF \notin DataClusters /\ DataClusters \subseteq Clusters
  BY ClusterMapAssumption DEF EOF, DataClusters, Clusters, FirstCluster
<1>1. ASSUME NEW d \in ds, NEW s \in ChildSlots
      PROVE  \/ Same(old[d][s], new[d][s])
             \/ old[d][s].name = NoName /\ old[d][s].attr = "none" /\ new[d][s].attr = "file"
  <2>1. CASE d = p
    BY <2>1 DEF Before
  <2>2. CASE d # p
    <3>1. old[d] = new[d]
      BY <2>2 DEF Volume
    <3>. QED BY <3>1 DEF Same
  <2>. QED BY <2>1, <2>2
<1>2. ASSUME NEW d \in ds
      PROVE  Same(old[d][SelfSlot], new[d][SelfSlot])
  <2>1. CASE d = p
    BY <2>1 DEF Before
  <2>2. CASE d # p
    <3>1. old[d] = new[d]
      BY <2>2 DEF Volume
    <3>. QED BY <3>1 DEF Same
  <2>. QED BY <2>1, <2>2
<1>3. ASSUME NEW e \in Used(old, ds)
      PROVE  e \in Used(new, ds) /\ Same(old[e[1]][e[2]], new[e[1]][e[2]])
  <2>1. e \in ds \X ChildSlots /\ e[1] \in ds /\ e[2] \in ChildSlots
        /\ old[e[1]][e[2]].name # NoName
    BY DEF Used
  <2>2. Same(old[e[1]][e[2]], new[e[1]][e[2]])
    BY <1>1, <2>1
  <2>. QED BY <2>1, <2>2 DEF Used, Same
<1>4. \A e \in Used(old, ds) : e \in Used(new, ds) /\ Lead(old, e) = Lead(new, e)
  BY <1>3 DEF Lead, Same
<1>5. Allotted(f, old, ds)
  BY <1>4 DEF Volume, Allotted
<1>6. Whole(f, old, ds)
  <2>. SUFFICES ASSUME NEW e \in Used(old, ds), old[e[1]][e[2]].attr = "file"
                PROVE  FileAt(f, old, Lead(old, e), old[e[1]][e[2]].size)
    BY DEF Whole
  <2>1. PICK n : n = new[e[1]][e[2]].size
    OBVIOUS
  <2>2. e \in Used(new, ds) /\ old[e[1]][e[2]].size = n /\ new[e[1]][e[2]].attr = "file"
    BY <1>3, <2>1 DEF Same
  <2>3. FileAt(f, new, Lead(new, e), n)
    BY <2>1, <2>2 DEF Volume, Whole
  <2>4. \A c \in DataClusters : f[c] \in DataClusters => old[c] = new[c]
    BY <1>0 DEF Volume
  <2>5. FileAt(f, old, Lead(new, e), n)
    BY <2>2, <2>3, <2>4, ContentKept
  <2>. QED BY <1>4, <2>2, <2>5
<1>7. Tables(old, ds)
  <2>. SUFFICES ASSUME NEW d \in ds
                PROVE  /\ old[d][SelfSlot].name # NoName
                       /\ old[d][SelfSlot].cluster = d
                       /\ old[d][SelfSlot].attr = "dir"
                       /\ \A s \in ChildSlots :
                            IF old[d][s].name = NoName THEN old[d][s].attr = "none"
                            ELSE old[d][s].attr \in {"file", "dir"}
    BY DEF Tables
  <2>. QED BY <1>1, <1>2 DEF Volume, Tables, Same
<1>8. Tree(old, ds)
  <2>1. \A d \in ds, s \in ChildSlots :
          /\ old[d][s].attr = "dir" <=> new[d][s].attr = "dir"
          /\ new[d][s].attr = "dir" => old[d][s].cluster = new[d][s].cluster
    BY <1>1 DEF Same
  <2>2. Tree(new, ds)
    BY DEF Volume
  <2>. QED BY <2>1, <2>2, TreeKept
<1>. QED BY <1>5, <1>6, <1>7, <1>8 DEF Volume

\* A formatted disk holds an empty volume.
LEMMA FormattedVolume ==
  ASSUME NEW dk \in [Clusters -> Table], dk[RootCluster] = RootTable
  PROVE  Volume(FormattedFat, dk, {RootCluster})
<1>1. RootCluster \in Clusters
  BY ClusterMapAssumption DEF Clusters, RootCluster, FirstCluster
<1>2. /\ FormattedFat \in [Clusters -> FatEntry]
      /\ FormattedFat[RootCluster] = EOF
      /\ \A c \in Clusters : FormattedFat[c] \notin DataClusters
  <2>1. ASSUME NEW c \in Clusters
        PROVE  FormattedFat[c] \notin DataClusters
    BY ClusterMapAssumption
    DEF FormattedFat, DataClusters, FirstCluster, EMPTY, EOF, CLUSTER_0_VALUE
  <2>2. FormattedFat[RootCluster] = EOF
    BY <1>1 DEF FormattedFat, RootCluster
  <2>. QED BY <2>1, <2>2 DEF FormattedFat, FatEntry
<1>3. /\ RootTable[SelfSlot].name = RootName
      /\ RootTable[SelfSlot].cluster = RootCluster
      /\ RootTable[SelfSlot].attr = "dir"
      /\ \A s \in ChildSlots : RootTable[s].name = NoName /\ RootTable[s].attr = "none"
  BY SlotNumbers DEF RootTable, BlankTable, DirEntry, BlankEntry
<1>4. Used(dk, {RootCluster}) = {} /\ Below(dk, {RootCluster}) = {}
  BY <1>1, <1>3 DEF Used, Below
<1>5. Tables(dk, {RootCluster})
  BY <1>1, <1>3, NameAssumption DEF Tables
<1>6. Tree(dk, {RootCluster})
  BY <1>4 DEF Tree, Closed
<1>7. Allotted(FormattedFat, dk, {RootCluster}) /\ Whole(FormattedFat, dk, {RootCluster})
  BY <1>2, <1>4 DEF Allotted, Whole
<1>. QED BY <1>1, <1>2, <1>5, <1>6, <1>7 DEF Volume

(***************************************************************************)
(* The steps.                                                              *)
(***************************************************************************)
\* The clusters of an ascending chain, put in ascending order.
LEMMA AscendingClusters ==
  ASSUME NEW n \in Nat, NEW S \in SUBSET Nat, NEW q \in [1 .. n -> S],
         \A i, j \in 1 .. n : i < j => q[i] < q[j],
         \A x \in S : \E i \in 1 .. n : q[i] = x
  PROVE  /\ Ascending(S) \in Seq(S)
         /\ \A x \in S : \E i \in 1 .. Len(Ascending(S)) : Ascending(S)[i] = x
<1>1. ASSUME NEW f \in [1 .. n -> S], \A i, j \in 1 .. n : i < j => f[i] < f[j]
      PROVE  f \in Injection(1 .. n, S)
  <2>. SUFFICES ASSUME NEW i \in 1 .. n, NEW j \in 1 .. n, f[i] = f[j]
                PROVE  i = j
    BY DEF Injection, IsInjective
  <2>1. f[i] \in Nat /\ f[j] \in Nat
    OBVIOUS
  <2>2. ~ (i < j) /\ ~ (j < i)
    BY <1>1, <2>1
  <2>. QED BY <2>2
<1>2. q \in Bijection(1 .. n, S)
  BY <1>1 DEF Bijection, Surjection
<1>3. IsFiniteSet(S) /\ Cardinality(S) = n
  <2>1. ExistsBijection(1 .. n, S)
    BY <1>2 DEF ExistsBijection
  <2>2. IsFiniteSet(1 .. n)
    BY FS_Interval
  <2>. QED BY <2>1, <2>2, FS_CountingElements, FS_Bijection
<1>4. PICK f : f = Ascending(S)
  OBVIOUS
<1>5. f \in [1 .. n -> S] /\ \A i, j \in 1 .. n : i < j => f[i] < f[j]
  <2>1. \E g \in [1 .. n -> S] : \A i, j \in DOMAIN g : i < j => g[i] < g[j]
    OBVIOUS
  <2>2. f = CHOOSE g \in [1 .. n -> S] : \A i, j \in DOMAIN g : i < j => g[i] < g[j]
    BY <1>3, <1>4 DEF Ascending
  <2>. QED BY <2>1, <2>2
<1>6. f \in Surjection(1 .. n, S)
  <2>1. Cardinality(1 .. n) = n
    BY FS_Interval
  <2>. QED BY <1>1, <1>3, <1>5, <2>1, FS_Injection
<1>7. f \in Seq(S) /\ Len(f) = n
  BY <1>5
<1>. QED BY <1>4, <1>6, <1>7 DEF Surjection

LEMMA InitConsistent == DiskInit => Consistent
<1>. SUFFICES ASSUME DiskInit PROVE Consistent
  OBVIOUS
<1>1. Init /\ ~ signed /\ platter = BlankDisk /\ pending = <<>> /\ call = "off" /\ ~ torn
  BY DEF DiskInit
<1>2. TypeOK
  BY <1>1, InitTypeOK
<1>3. platter \in [Clusters -> Table]
  BY <1>1, BlankTableType DEF BlankDisk
<1>. QED BY <1>1, <1>2, <1>3 DEF Consistent, Flushed, Unsigned, Unwritten, TypeOK, Formatted

LEMMA FormatConsistent == Consistent /\ Format => Consistent'
<1>. SUFFICES ASSUME Consistent, Format PROVE Consistent'
  OBVIOUS
<1>1. /\ call = "off" /\ ~ signed /\ call' = "format" /\ ~ signed'
      /\ pending' = <<BOOT_SECTOR, FAT_CLUSTER_NUMBER, RootCluster>>
      /\ disk' = [platter EXCEPT ![BOOT_SECTOR] = BootSector, ![RootCluster] = RootTable]
      /\ platter' = platter
      /\ fat' = FormattedFat /\ dirs' = {RootCluster}
      /\ ret' = ret /\ overrun' = overrun /\ torn' = torn
  BY DEF Format, FormatWrites
<1>2. BOOT_SECTOR \in Clusters /\ FAT_CLUSTER_NUMBER \in Clusters /\ RootCluster \in Clusters
  BY ClusterMapAssumption
  DEF Clusters, FirstCluster, RootCluster, BOOT_SECTOR, FAT_CLUSTER_NUMBER
<1>3. /\ pending' \in Seq(Clusters) /\ Unwritten(FAT_CLUSTER_NUMBER)'
      /\ Unwritten(RootCluster)' /\ Unwritten(BOOT_SECTOR)'
  BY <1>1, <1>2 DEF Unwritten
<1>4. /\ disk' \in [Clusters -> Table]
      /\ \A c \in Clusters : c \notin {BOOT_SECTOR, RootCluster} => disk'[c] = platter[c]
  BY <1>1, <1>2, RootTableType, BootSectorAssumption DEF Consistent, Flushed
<1>5. Flushed'
  <2>1. FAT_CLUSTER_NUMBER \notin {BOOT_SECTOR, RootCluster}
    BY DEF RootCluster, BOOT_SECTOR, FAT_CLUSTER_NUMBER
  <2>2. pending' = FormatWrites
    BY <1>1 DEF FormatWrites
  <2>. QED BY <1>1, <1>3, <1>4, <2>1, <2>2 DEF Consistent, Flushed
<1>6. ASSUME ~ torn
      PROVE  Volume(fat', disk', dirs')
  <2>1. platter = BlankDisk
    BY <1>1 DEF Consistent, Unsigned
  <2>. QED BY <1>1, <1>2, <1>4, <2>1, FormattedVolume DEF BlankDisk
<1>7. Unsigned'
  BY <1>1 DEF Consistent, Unsigned, FormatWrites
<1>. QED BY <1>1, <1>5, <1>6, <1>7 DEF Consistent, Formatted

LEMMA MountConsistent == Consistent /\ Mount => Consistent'
<1>. SUFFICES ASSUME Consistent, Mount PROVE Consistent'
  OBVIOUS
<1>1. /\ call = "off" /\ signed /\ platterFat # Junk /\ call' = "idle" /\ signed' = signed
      /\ pending' = pending /\ platter' = platter /\ platterFat' = platterFat
      /\ fat' = platterFat /\ disk' = platter /\ dirs' = OnDisk
      /\ ret' = ret /\ overrun' = overrun /\ torn' = torn
  BY DEF Mount
<1>2. Flushed'
  BY <1>1 DEF Consistent, Flushed, Unwritten
<1>3. ~ torn => Volume(fat', disk', dirs')
  BY <1>1 DEF Consistent, Formatted
<1>. QED BY <1>1, <1>2, <1>3 DEF Consistent, Unsigned

\* Between calls the driver's tables are those on the disk, and sound.
LEMMA ReadyVolume ==
  ASSUME Consistent, Ready
  PROVE  /\ Orderly
         /\ platter = disk /\ platterFat \in {fat, Junk}
         /\ \A p \in dirs : p \in Parents /\ p \in Clusters /\ p \notin {BOOT_SECTOR, FAT_CLUSTER_NUMBER}
         /\ signed
<1>1. call = "idle" /\ ~ torn /\ pending = <<>>
  BY DEF Ready, Consistent, Flushed
<1>2. \A c : ~ Unwritten(c)
  BY <1>1 DEF Unwritten
<1>3. platter = disk /\ platterFat \in {fat, Junk}
  BY <1>1, <1>2 DEF Consistent, Flushed
<1>4. Volume(fat, disk, dirs)
  BY <1>1 DEF Consistent
<1>5. Orderly
  BY <1>4, OrderlyVolume DEF Consistent
<1>6. signed
  BY <1>1 DEF Consistent, Unsigned
<1>7. \A p \in dirs : p \in Parents /\ p \in Clusters /\ p \notin {BOOT_SECTOR, FAT_CLUSTER_NUMBER}
  BY <1>4, DirsAreParents DEF Volume
<1>. QED BY <1>3, <1>5, <1>6, <1>7

\* Between calls and while a file is written the disk holds a volume.
LEMMA SafeVolume ==
  ASSUME Consistent, ~ torn, Formatted, call \in {"idle", "file"}
  PROVE  Volume(platterFat, platter, dirs)
<1>1. CASE call = "idle"
  <2>1. Ready
    BY <1>1 DEF Ready
  <2>2. platter = disk /\ platterFat = fat
    BY <2>1, ReadyVolume DEF Formatted
  <2>. QED BY <1>1, <2>2 DEF Consistent
<1>2. CASE call = "file"
  BY <1>2 DEF Consistent
<1>. QED BY <1>1, <1>2

\* What a call leaves in the driver's tables is a volume again.
LEMMA CallVolume ==
  ASSUME Misuse \subseteq CarefulKinds, Orderly, [Next]_vars
  PROVE  Volume(fat', disk', dirs') /\ ret' \in -1 .. 3 /\ overrun' \in BOOLEAN
<1>1. Orderly'
  BY OrderlyStep
<1>2. (Orderly)' => (Volume(fat, disk, dirs) /\ ret \in -1 .. 3 /\ overrun \in BOOLEAN)'
  BY OrderlyVolume, PTL
<1>. QED BY <1>1, <1>2

\* What is left to write once a call has begun, and is not on the disk yet.
LEMMA StartedFlush ==
  ASSUME Consistent, Ready, Orderly', NEW p \in dirs,
         UNCHANGED <<platterFat, platter>>, call' \in {"file", "folder", "delete"},
         pending' \in Seq(Clusters), Unwritten(FAT_CLUSTER_NUMBER)', Unwritten(p)',
         ~ Unwritten(BOOT_SECTOR)',
         \A c \in Clusters :
           c # p /\ (c = FAT_CLUSTER_NUMBER \/ ~ Unwritten(c)')
             => disk'[c] = disk[c]
  PROVE  Flushed'
<1>1. platter = disk /\ disk \in [Clusters -> Table] /\ platter \in [Clusters -> Table]
  BY ReadyVolume DEF Consistent, Flushed
<1>2. disk' \in [Clusters -> Table]
  BY DEF Orderly, Sound, TypeOK
<1>3. p \notin {BOOT_SECTOR, FAT_CLUSTER_NUMBER}
  BY ReadyVolume
<1>4. ASSUME NEW c \in Clusters,
             c = FAT_CLUSTER_NUMBER \/ ~ Unwritten(c)'
      PROVE  platter'[c] = disk'[c]
  <2>1. c # p
    BY <1>3, <1>4
  <2>. QED BY <1>1, <1>4, <2>1
<1>. QED BY <1>1, <1>2, <1>4 DEF Flushed

\* The data clusters of a new file, as its call finds them, are its chain but
\* for the terminator.
LEMMA FillingChain ==
  ASSUME TypeOK, NEW size \in Nat \ {0}, NEW ch \in Chains(fat, Needed(size)),
         fat' = Linked(fat, ch, Needed(size))
  PROVE  /\ \A x : x \in Filling <=> \E i \in 1 .. size : ch[i] = x
         /\ \A i \in 1 .. size : ch[i] \in DataClusters /\ fat[ch[i]] = EMPTY
         /\ Ascending(Filling) \in Seq(Filling)
         /\ \A x \in Filling : \E i \in 1 .. Len(Ascending(Filling)) : Ascending(Filling)[i] = x
<1>1. Needed(size) \in Nat \ {0} /\ Needed(size) = size + 1
  BY DEF Needed
<1>2. /\ \A i \in 1 .. Needed(size) : ch[i] \in DataClusters /\ fat[ch[i]] = EMPTY
      /\ \A i, j \in 1 .. Needed(size) : i < j => ch[i] < ch[j]
      /\ \A i \in 1 .. Needed(size) :
           fat'[ch[i]] = IF i = Needed(size) THEN EOF ELSE ch[i + 1]
      /\ \A c \in Clusters : (\A i \in 1 .. Needed(size) : c # ch[i]) => fat'[c] = fat[c]
  BY <1>1, ChainClusters, LinkedEntries
<1>3. EMPTY \notin DataClusters /\ EOF \notin DataClusters /\ DataClusters \subseteq Clusters
      /\ DataClusters \subseteq Nat
  BY ClusterMapAssumption DEF EMPTY, EOF, DataClusters, Clusters, FirstCluster
<1>4. ASSUME NEW i \in 1 .. size
      PROVE  i \in 1 .. Needed(size) /\ ch[i] \in Filling
  <2>1. i \in 1 .. Needed(size) /\ i + 1 \in 1 .. Needed(size) /\ i # Needed(size)
    BY <1>1
  <2>. QED BY <1>2, <2>1 DEF Filling, FreeClusters
<1>5. ASSUME NEW x \in Filling
      PROVE  \E i \in 1 .. size : ch[i] = x
  <2>1. x \in DataClusters /\ fat[x] = EMPTY /\ fat'[x] \in DataClusters
    BY DEF Filling, FreeClusters
  <2>2. PICK i \in 1 .. Needed(size) : ch[i] = x
    BY <1>2, <1>3, <2>1
  <2>3. i # Needed(size)
    BY <1>2, <1>3, <2>1, <2>2
  <2>4. i \in 1 .. size
    BY <1>1, <2>2, <2>3
  <2>. QED BY <2>2, <2>4
<1>6. \A x : x \in Filling <=> \E i \in 1 .. size : ch[i] = x
  BY <1>4, <1>5
<1>7. /\ \A i \in 1 .. size : ch[i] \in DataClusters /\ fat[ch[i]] = EMPTY
      /\ \A i, j \in 1 .. size : i < j => ch[i] < ch[j]
      /\ \A i \in 1 .. size : ch[i] \in Nat
  BY <1>2, <1>3, <1>4
<1>8. /\ Ascending(Filling) \in Seq(Filling)
      /\ \A x \in Filling : \E i \in 1 .. Len(Ascending(Filling)) : Ascending(Filling)[i] = x
  <2>. PICK S : S = Filling
    OBVIOUS
  <2>. DEFINE q == [i \in 1 .. size |-> ch[i]]
  <2>1. S \in SUBSET Nat /\ q \in [1 .. size -> S]
    BY <1>3, <1>6, <1>7
  <2>2. /\ \A i, j \in 1 .. size : i < j => q[i] < q[j]
        /\ \A x \in S : \E i \in 1 .. size : q[i] = x
    BY <1>6, <1>7
  <2>3. /\ Ascending(S) \in Seq(S)
        /\ \A x \in S : \E i \in 1 .. Len(Ascending(S)) : Ascending(S)[i] = x
    <3>. HIDE DEF q
    <3>. QED BY <2>1, <2>2, AscendingClusters
  <2>. QED BY <2>3
<1>. QED BY <1>6, <1>7, <1>8

LEMMA FileConsistent ==
  ASSUME Misuse \subseteq CarefulKinds,
         NEW p \in dirs, NEW name \in Names, NEW ext \in Exts,
         NEW size \in FileSizes, NEW d \in Datas
  PROVE  Consistent /\ StartFile(p, name, ext, size, d) => Consistent'
<1>. SUFFICES ASSUME Consistent, StartFile(p, name, ext, size, d)
              PROVE  Consistent'
  OBVIOUS
<1>0. /\ Ready /\ WriteFile(p, name, ext, size, d) /\ pending' = FileWrites(p)
      /\ call' = "file" /\ signed' = signed /\ platterFat' = platterFat
      /\ platter' = platter /\ torn' = torn
  BY DEF StartFile
<1>1. /\ Orderly /\ platter = disk /\ platterFat \in {fat, Junk} /\ signed
      /\ p \in Parents /\ p \in Clusters
  BY <1>0, ReadyVolume
<1>2. name \in Callable /\ Misuse \subseteq BenignKinds
  BY DEF Callable, CarefulKinds
<1>3. Next
  BY <1>0, <1>1, <1>2 DEF Next, Call
<1>4. Volume(fat', disk', dirs') /\ Orderly' /\ ret' \in -1 .. 3 /\ overrun' \in BOOLEAN
  BY <1>1, <1>3, CallVolume, OrderlyStep
<1>5. size \in Nat \ {0} /\ dirs' = dirs
  BY <1>0, <1>1, <1>2, BenignCalls, FileTables DEF Orderly
<1>6. PICK ch \in Chains(fat, Needed(size)), s \in ChildSlots :
        /\ fat' = Linked(fat, ch, Needed(size))
        /\ disk[p][s].name = NoName
        /\ Same(disk'[p][s], FileEntry(name, ext, ch[1], size))
        /\ \A r \in Slots : r # s => Same(disk'[p][r], disk[p][r])
        /\ \A c \in Clusters :
             c # p /\ (\A i \in 1 .. size : c # ch[i]) => disk'[c] = disk[c]
  BY <1>0, <1>1, <1>2, BenignCalls, FileTables DEF Orderly
<1>7. TypeOK
  BY <1>1 DEF Orderly, Sound
<1>8. PICK q : q = Ascending(Filling)
  OBVIOUS
<1>9. /\ \A x : x \in Filling <=> \E i \in 1 .. size : ch[i] = x
      /\ \A x \in Filling : x \in DataClusters /\ fat[x] = EMPTY
      /\ q \in Seq(Filling)
      /\ \A x \in Filling : \E i \in 1 .. Len(q) : q[i] = x
  <2>1. /\ \A x : x \in Filling <=> \E i \in 1 .. size : ch[i] = x
        /\ \A i \in 1 .. size : ch[i] \in DataClusters /\ fat[ch[i]] = EMPTY
        /\ Ascending(Filling) \in Seq(Filling)
        /\ \A x \in Filling : \E i \in 1 .. Len(Ascending(Filling)) : Ascending(Filling)[i] = x
    BY <1>5, <1>6, <1>7, FillingChain
  <2>. QED BY <1>8, <2>1
<1>10. /\ DataClusters \subseteq Clusters /\ FAT_CLUSTER_NUMBER \in Clusters
       /\ BOOT_SECTOR \notin DataClusters /\ FAT_CLUSTER_NUMBER \notin DataClusters
  BY ClusterMapAssumption
  DEF DataClusters, Clusters, FirstCluster, BOOT_SECTOR, FAT_CLUSTER_NUMBER
<1>11. PICK w : w = pending'
  OBVIOUS
<1>12. w = q \o <<FAT_CLUSTER_NUMBER, p>>
  BY <1>0, <1>8, <1>11 DEF FileWrites, Flush
<1>13. /\ w \in Seq(Clusters) /\ Len(w) = Len(q) + 2 /\ Len(q) \in Nat
       /\ \A i \in 1 .. Len(q) : w[i] = q[i] /\ q[i] \in Filling
       /\ w[Len(q) + 1] = FAT_CLUSTER_NUMBER /\ w[Len(q) + 2] = p
  <2>1. q \in Seq(Clusters) /\ <<FAT_CLUSTER_NUMBER, p>> \in Seq(Clusters)
    <3>1. Filling \subseteq Clusters
      BY <1>9, <1>10
    <3>. QED BY <1>1, <1>9, <1>10, <3>1
  <2>2. \A i \in 1 .. Len(q) : q[i] \in Filling
    BY <1>9
  <2>. HIDE DEF Clusters
  <2>. QED BY <1>12, <2>1, <2>2
<1>14. \A c \in Filling : Unwritten(c)'
  <2>. SUFFICES ASSUME NEW c \in Filling PROVE \E i \in 1 .. Len(w) : w[i] = c
    BY <1>11 DEF Unwritten
  <2>1. PICK i \in 1 .. Len(q) : q[i] = c
    BY <1>9
  <2>2. i \in 1 .. Len(w)
    BY <1>13
  <2>. QED BY <1>13, <2>1, <2>2
<1>15. Unwritten(FAT_CLUSTER_NUMBER)' /\ Unwritten(p)'
  <2>1. Len(q) + 1 \in 1 .. Len(w) /\ Len(q) + 2 \in 1 .. Len(w)
    BY <1>13
  <2>. QED BY <1>11, <1>13, <2>1 DEF Unwritten
<1>21. ~ Unwritten(BOOT_SECTOR)'
  <2>. SUFFICES ASSUME NEW i \in 1 .. Len(w), w[i] = BOOT_SECTOR PROVE FALSE
    BY <1>11 DEF Unwritten
  <2>1. i \in 1 .. Len(q) \/ i = Len(q) + 1 \/ i = Len(q) + 2
    BY <1>13
  <2>2. p # BOOT_SECTOR /\ FAT_CLUSTER_NUMBER # BOOT_SECTOR
    BY <1>0, ReadyVolume DEF BOOT_SECTOR, FAT_CLUSTER_NUMBER
  <2>. QED BY <1>9, <1>10, <1>13, <2>1, <2>2
<1>16. Flushed'
  <2>1. ASSUME NEW c \in Clusters, c # p,
               c = FAT_CLUSTER_NUMBER \/ ~ Unwritten(c)'
        PROVE  disk'[c] = disk[c]
    <3>1. c \notin Filling
      BY <1>9, <1>10, <1>14, <2>1
    <3>. QED BY <1>6, <1>9, <2>1, <3>1
  <2>. QED BY <1>0, <1>4, <1>11, <1>13, <1>15, <1>21, <2>1, StartedFlush
<1>17. Before(platter'[p], disk'[p])
  <2>1. \A r \in Slots : r # s => Same(platter'[p][r], disk'[p][r])
    BY <1>0, <1>1, <1>6 DEF Same
  <2>2. disk[p][s].attr = "none"
    BY <1>1, <1>6 DEF Orderly, Tables
  <2>3. disk'[p][s].attr = "file"
    BY <1>6 DEF Same, FileEntry
  <2>. QED BY <1>0, <1>1, <1>6, <2>1, <2>2, <2>3, SlotNumbers DEF Before
<1>18. FilePending'
  <2>1. /\ Len(w) > 0 /\ w[Len(w)] = p
        /\ w[Len(w) - 1] = FAT_CLUSTER_NUMBER
    <3>1. Len(w) = Len(q) + 2 /\ Len(w) - 1 = Len(q) + 1 /\ Len(w) > 0
      BY <1>13
    <3>. QED BY <1>13, <3>1
  <2>2. ASSUME NEW i \in 1 .. Len(w) - 2
        PROVE  w[i] \in DataClusters /\ (Formatted' => platterFat'[w[i]] = EMPTY)
    <3>1. i \in 1 .. Len(q)
      BY <1>13
    <3>2. w[i] \in DataClusters /\ fat[w[i]] = EMPTY
      BY <1>9, <1>13, <3>1
    <3>. QED BY <1>0, <1>1, <3>2 DEF Formatted
  <2>. QED BY <1>5, <1>11, <1>17, <2>1, <2>2 DEF FilePending
<1>19. Formatted' => Volume(platterFat', platter', dirs')
  <2>1. Volume(fat, disk, dirs)
    BY <1>1, OrderlyVolume
  <2>2. Formatted' => platterFat' = fat
    BY <1>0, <1>1 DEF Formatted
  <2>. QED BY <1>0, <1>1, <1>5, <2>1, <2>2
<1>. QED BY <1>0, <1>1, <1>4, <1>16, <1>18, <1>19 DEF Consistent, Ready, Unsigned

\* The cluster of a new directory, as its call finds it.
LEMMA MadeCluster ==
  ASSUME Orderly, NEW p \in dirs, NEW name \in Callable, NEW ext \in Exts,
         Misuse \subseteq BenignKinds, WriteFolder(p, name, ext),
         NEW g, dirs' = dirs \cup {g}, g \notin dirs
  PROVE  Made = {g}
<1>1. PICK ch \in Chains(fat, 1) : fat' = Linked(fat, ch, 1) /\ dirs' = dirs \cup {ch[1]}
  BY BenignCalls, FolderTables DEF Orderly
<1>2. ch[1] = g
  BY <1>1
<1>3. /\ ch[1] \in DataClusters /\ fat[ch[1]] = EMPTY /\ fat'[ch[1]] = EOF
      /\ \A c \in Clusters : c # ch[1] => fat'[c] = fat[c]
  <2>1. /\ \A i \in 1 .. 1 : ch[i] \in DataClusters /\ fat[ch[i]] = EMPTY
        /\ \A i \in 1 .. 1 : fat'[ch[i]] = IF i = 1 THEN EOF ELSE ch[i + 1]
        /\ \A c \in Clusters : (\A i \in 1 .. 1 : c # ch[i]) => fat'[c] = fat[c]
    BY <1>1, ChainClusters, LinkedEntries DEF Orderly, Sound
  <2>. QED BY <2>1
<1>4. DataClusters \subseteq Clusters /\ EMPTY # EOF
  BY ClusterMapAssumption DEF DataClusters, Clusters, FirstCluster, EMPTY, EOF
<1>. QED BY <1>2, <1>3, <1>4 DEF Made, FreeClusters

LEMMA FolderConsistent ==
  ASSUME Misuse \subseteq CarefulKinds,
         NEW p \in dirs, NEW name \in Names, NEW ext \in Exts
  PROVE  Consistent /\ StartFolder(p, name, ext) => Consistent'
<1>. SUFFICES ASSUME Consistent, StartFolder(p, name, ext)
              PROVE  Consistent'
  OBVIOUS
<1>0. /\ Ready /\ WriteFolder(p, name, ext) /\ pending' = FolderWrites(p)
      /\ call' = "folder" /\ signed' = signed /\ platterFat' = platterFat
      /\ platter' = platter /\ torn' = torn
  BY DEF StartFolder
<1>1. Orderly /\ signed /\ p \in Parents /\ p \in Clusters
  BY <1>0, ReadyVolume
<1>2. name \in Callable /\ Misuse \subseteq BenignKinds
  BY DEF Callable, CarefulKinds
<1>3. Next
  BY <1>0, <1>1, <1>2 DEF Next, Call
<1>4. Volume(fat', disk', dirs') /\ Orderly' /\ ret' \in -1 .. 3 /\ overrun' \in BOOLEAN
  BY <1>1, <1>3, CallVolume, OrderlyStep
<1>5. PICK ch \in Chains(fat, 1) :
        /\ ch[1] \in DataClusters /\ ch[1] \notin dirs
        /\ dirs' = dirs \cup {ch[1]}
        /\ \A c \in Clusters : c # p /\ c # ch[1] => disk'[c] = disk[c]
  BY <1>0, <1>1, <1>2, BenignCalls, FolderTables DEF Orderly
<1>6. PICK n : n = ch[1]
  OBVIOUS
<1>7. PICK S : S = Made
  OBVIOUS
<1>8. S = {n} /\ n \in DataClusters
  BY <1>0, <1>1, <1>2, <1>5, <1>6, <1>7, MadeCluster
<1>9. /\ DataClusters \subseteq Clusters /\ FAT_CLUSTER_NUMBER \in Clusters
      /\ BOOT_SECTOR \notin DataClusters /\ FAT_CLUSTER_NUMBER \notin DataClusters
      /\ DataClusters \subseteq Nat
  BY ClusterMapAssumption
  DEF DataClusters, Clusters, FirstCluster, BOOT_SECTOR, FAT_CLUSTER_NUMBER
<1>10. PICK q : q = Ascending(S)
  OBVIOUS
<1>11. q \in Seq(S) /\ \E i \in 1 .. Len(q) : q[i] = n
  <2>. DEFINE g == [i \in 1 .. 1 |-> n]
  <2>1. S \in SUBSET Nat /\ g \in [1 .. 1 -> S] /\ 1 \in Nat
    BY <1>8, <1>9
  <2>2. /\ \A i, j \in 1 .. 1 : i < j => g[i] < g[j]
        /\ \A x \in S : \E i \in 1 .. 1 : g[i] = x
    BY <1>8
  <2>3. Ascending(S) \in Seq(S) /\ \A x \in S : \E i \in 1 .. Len(Ascending(S)) : Ascending(S)[i] = x
    <3>. HIDE DEF g
    <3>. QED BY <2>1, <2>2, AscendingClusters
  <2>. QED BY <1>8, <1>10, <2>3
<1>12. PICK w : w = pending'
  OBVIOUS
<1>13. w = <<FAT_CLUSTER_NUMBER, p>> \o q
  BY <1>0, <1>7, <1>10, <1>12 DEF FolderWrites, Flush
<1>14. q \in Seq(Clusters) /\ Len(q) \in Nat
  <2>1. S \subseteq Clusters
    BY <1>8, <1>9
  <2>. QED BY <1>11, <2>1
<1>15. /\ w \in Seq(Clusters) /\ Len(w) = Len(q) + 2
       /\ w[1] = FAT_CLUSTER_NUMBER /\ w[2] = p
       /\ \A i \in 1 .. Len(q) : w[i + 2] = q[i]
  <2>1. <<FAT_CLUSTER_NUMBER, p>> \in Seq(Clusters)
    BY <1>1, <1>9
  <2>. HIDE DEF Clusters
  <2>. QED BY <1>13, <1>14, <2>1
<1>16. Unwritten(FAT_CLUSTER_NUMBER)' /\ Unwritten(p)' /\ Unwritten(n)'
  <2>1. PICK i \in 1 .. Len(q) : q[i] = n
    BY <1>11
  <2>2. 1 \in 1 .. Len(w) /\ 2 \in 1 .. Len(w) /\ i + 2 \in 1 .. Len(w)
    BY <1>14, <1>15
  <2>3. \A c : (\E j \in 1 .. Len(w) : w[j] = c) => Unwritten(c)'
    BY <1>12 DEF Unwritten
  <2>. QED BY <1>15, <2>1, <2>2, <2>3
<1>18. ~ Unwritten(BOOT_SECTOR)'
  <2>. SUFFICES ASSUME NEW i \in 1 .. Len(w), w[i] = BOOT_SECTOR PROVE FALSE
    BY <1>12 DEF Unwritten
  <2>1. i = 1 \/ i = 2 \/ (i - 2 \in 1 .. Len(q) /\ (i - 2) + 2 = i)
    BY <1>14, <1>15
  <2>2. p # BOOT_SECTOR /\ FAT_CLUSTER_NUMBER # BOOT_SECTOR
    BY <1>0, ReadyVolume DEF BOOT_SECTOR, FAT_CLUSTER_NUMBER
  <2>3. \A j \in 1 .. Len(q) : q[j] = n
    BY <1>8, <1>11
  <2>. QED BY <1>8, <1>9, <1>15, <2>1, <2>2, <2>3
<1>17. Flushed'
  <2>1. ASSUME NEW c \in Clusters, c # p,
               c = FAT_CLUSTER_NUMBER \/ ~ Unwritten(c)'
        PROVE  disk'[c] = disk[c]
    <3>1. c # n
      BY <1>8, <1>9, <1>16, <2>1
    <3>. QED BY <1>5, <1>6, <2>1, <3>1
  <2>. QED BY <1>0, <1>4, <1>12, <1>15, <1>16, <1>18, <2>1, StartedFlush
<1>. QED BY <1>0, <1>1, <1>4, <1>17 DEF Consistent, Ready, Unsigned

LEMMA DeleteConsistent ==
  ASSUME Misuse \subseteq CarefulKinds,
         NEW p \in dirs, NEW name \in Names, NEW ext \in Exts
  PROVE  Consistent /\ StartDelete(p, name, ext) => Consistent'
<1>. SUFFICES ASSUME Consistent, StartDelete(p, name, ext)
              PROVE  Consistent'
  OBVIOUS
<1>0. /\ Ready /\ DeleteEntry(p, name, ext) /\ pending' = <<FAT_CLUSTER_NUMBER, p>>
      /\ call' = "delete" /\ signed' = signed /\ platterFat' = platterFat
      /\ platter' = platter /\ torn' = torn
  BY DEF StartDelete, Flush
<1>1. Orderly /\ signed /\ p \in Parents /\ p \in Clusters
  BY <1>0, ReadyVolume
<1>2. name \in Callable /\ Misuse \subseteq BenignKinds
  BY DEF Callable, CarefulKinds
<1>3. Next
  BY <1>0, <1>1, <1>2 DEF Next, Call
<1>4. Volume(fat', disk', dirs') /\ Orderly' /\ ret' \in -1 .. 3 /\ overrun' \in BOOLEAN
  BY <1>1, <1>3, CallVolume, OrderlyStep
<1>5. \A c \in Clusters : c # p => disk'[c] = disk[c]
  <2>1. PICK s \in ChildSlots :
          disk' = [disk EXCEPT ![p] = [disk[p] EXCEPT ![s] = BlankEntry]]
    BY <1>0, <1>1, <1>2, BenignCalls, DeleteTables DEF Orderly
  <2>. QED BY <1>1, <2>1 DEF Orderly, Sound, TypeOK
<1>6. FAT_CLUSTER_NUMBER \in Clusters
  BY ClusterMapAssumption DEF Clusters, FirstCluster, FAT_CLUSTER_NUMBER
<1>7. pending' \in Seq(Clusters) /\ Unwritten(FAT_CLUSTER_NUMBER)' /\ Unwritten(p)'
  BY <1>0, <1>1, <1>6 DEF Unwritten
<1>9. ~ Unwritten(BOOT_SECTOR)'
  BY <1>0, ReadyVolume DEF Unwritten, BOOT_SECTOR, FAT_CLUSTER_NUMBER
<1>8. Flushed'
  BY <1>0, <1>4, <1>5, <1>7, <1>9, StartedFlush
<1>. QED BY <1>0, <1>1, <1>4, <1>8 DEF Consistent, Ready, Unsigned

\* What one cluster write does, whatever the call.
LEMMA ClusterWritten ==
  ASSUME Consistent, WriteCluster
  PROVE  \E c \in Clusters :
           /\ Len(pending) \in Nat \ {0} /\ pending[1] = c
           /\ Len(pending') = Len(pending) - 1
           /\ \A i \in 1 .. Len(pending) - 1 : pending'[i] = pending[i + 1]
           /\ \A x : Unwritten(x) => x = c \/ Unwritten(x)'
           /\ \A x : Unwritten(x)' => Unwritten(x)
           /\ signed' = IF c = BOOT_SECTOR THEN call = "format" ELSE signed
           /\ platterFat' = IF c = FAT_CLUSTER_NUMBER THEN FatToWrite ELSE platterFat
           /\ platter' = IF c = FAT_CLUSTER_NUMBER
                           THEN platter ELSE [platter EXCEPT ![c] = disk[c]]
           /\ call' = IF Len(pending) = 1 THEN "idle" ELSE call
           /\ UNCHANGED <<fat, disk, dirs, ret, overrun, torn>>
<1>1. pending \in Seq(Clusters) /\ pending # <<>>
  BY DEF WriteCluster, Consistent, Flushed
<1>2. PICK c : c = Head(pending)
  OBVIOUS
<1>3. /\ c \in Clusters /\ pending[1] = c /\ Len(pending) \in Nat \ {0}
      /\ pending' = Tail(pending) /\ Len(pending') = Len(pending) - 1
      /\ \A i \in 1 .. Len(pending) - 1 : pending'[i] = pending[i + 1]
  <2>. HIDE DEF Clusters
  <2>. QED BY <1>1, <1>2 DEF WriteCluster
<1>4. ASSUME NEW x, Unwritten(x), x # c
      PROVE  Unwritten(x)'
  <2>1. PICK i \in 1 .. Len(pending) : pending[i] = x
    BY <1>4 DEF Unwritten
  <2>2. i # 1
    BY <1>3, <1>4, <2>1
  <2>3. i - 1 \in 1 .. Len(pending) - 1 /\ (i - 1) + 1 = i
    BY <1>3, <2>1, <2>2
  <2>4. i - 1 \in 1 .. Len(pending') /\ pending'[i - 1] = x
    BY <1>3, <2>1, <2>3
  <2>. QED BY <2>4 DEF Unwritten
<1>5. ASSUME NEW x, Unwritten(x)'
      PROVE  Unwritten(x)
  <2>1. PICK i \in 1 .. Len(pending') : pending'[i] = x
    BY <1>5 DEF Unwritten
  <2>2. i \in 1 .. Len(pending) - 1 /\ i + 1 \in 1 .. Len(pending)
    BY <1>3
  <2>3. pending[i + 1] = x
    BY <1>3, <2>1, <2>2
  <2>. QED BY <2>2, <2>3 DEF Unwritten
<1>. QED BY <1>2, <1>3, <1>4, <1>5 DEF WriteCluster, vars

LEMMA WriteFlushed == Consistent /\ WriteCluster => Flushed'
<1>. SUFFICES ASSUME Consistent, WriteCluster PROVE Flushed'
  OBVIOUS
<1>1. PICK c \in Clusters :
        /\ Len(pending) \in Nat \ {0} /\ pending[1] = c
        /\ Len(pending') = Len(pending) - 1
        /\ \A x : Unwritten(x) => x = c \/ Unwritten(x)'
        /\ \A x : Unwritten(x)' => Unwritten(x)
        /\ platterFat' = IF c = FAT_CLUSTER_NUMBER THEN FatToWrite ELSE platterFat
        /\ platter' = IF c = FAT_CLUSTER_NUMBER
                        THEN platter ELSE [platter EXCEPT ![c] = disk[c]]
        /\ call' = IF Len(pending) = 1 THEN "idle" ELSE call
        /\ fat' = fat /\ disk' = disk
  BY ClusterWritten
<1>2. /\ disk \in [Clusters -> Table] /\ platter \in [Clusters -> Table]
      /\ pending \in Seq(Clusters) /\ pending # <<>> /\ pending' = Tail(pending)
      /\ call \notin {"idle", "off"}
  BY DEF Consistent, Flushed, WriteCluster
<1>3. platter' \in [Clusters -> Table] /\ pending' \in Seq(Clusters)
  <2>1. platter' \in [Clusters -> Table]
    BY <1>1, <1>2
  <2>2. pending' \in Seq(Clusters)
    <3>. HIDE DEF Clusters
    <3>. QED BY <1>2
  <2>. QED BY <2>1, <2>2
<1>4. call' \in {"idle", "off"} => pending' = <<>>
  BY <1>1, <1>2, <1>3
<1>5. call' = "format" => pending' \in {FormatWrites, Tail(FormatWrites), <<RootCluster>>}
  <2>1. Tail(FormatWrites) = <<FAT_CLUSTER_NUMBER, RootCluster>>
        /\ Tail(Tail(FormatWrites)) = <<RootCluster>>
    BY DEF FormatWrites
  <2>2. CASE call' = "format"
    <3>1. call = "format" /\ Len(pending) # 1
      BY <1>1, <2>2
    <3>2. pending \in {FormatWrites, Tail(FormatWrites)}
      BY <3>1 DEF Consistent, Flushed
    <3>. QED BY <1>2, <2>1, <3>2
  <2>. QED BY <2>2
<1>6. ASSUME NEW x \in Clusters,
             x = FAT_CLUSTER_NUMBER \/ ~ Unwritten(x)'
      PROVE  platter'[x] = disk'[x]
  <2>1. CASE x = c /\ x # FAT_CLUSTER_NUMBER
    BY <1>1, <1>2, <2>1
  <2>2. CASE x # c \/ x = FAT_CLUSTER_NUMBER
    <3>1. platter'[x] = platter[x]
      BY <1>1, <1>2, <2>2
    <3>2. platter[x] = disk[x]
      BY <1>1, <1>2, <1>6, <2>2 DEF Consistent, Flushed
    <3>. QED BY <1>1, <3>1, <3>2
  <2>. QED BY <2>1, <2>2
<1>7. \/ Unwritten(FAT_CLUSTER_NUMBER)'
      \/ platterFat' = fat'
      \/ platterFat' = Junk /\ call' \in {"format", "idle"}
  <2>1. CASE c = FAT_CLUSTER_NUMBER
    BY <1>1, <2>1 DEF FatToWrite
  <2>2. CASE c # FAT_CLUSTER_NUMBER
    <3>1. platterFat' = platterFat /\ fat' = fat /\ (Unwritten(FAT_CLUSTER_NUMBER) => Unwritten(FAT_CLUSTER_NUMBER)')
      BY <1>1, <2>2
    <3>2. \/ Unwritten(FAT_CLUSTER_NUMBER)
          \/ platterFat = fat
          \/ platterFat = Junk /\ call \in {"format", "idle"}
      BY <1>2 DEF Consistent, Flushed
    <3>. QED BY <1>1, <3>1, <3>2
  <2>. QED BY <2>1, <2>2
<1>8. Unwritten(BOOT_SECTOR)' => call' = "format"
  <2>1. Unwritten(BOOT_SECTOR)' => call = "format"
    BY <1>1 DEF Consistent, Flushed
  <2>2. Unwritten(BOOT_SECTOR)' => Len(pending) # 1
    BY <1>1 DEF Unwritten
  <2>. QED BY <1>1, <2>1, <2>2
<1>. QED BY <1>1, <1>2, <1>3, <1>4, <1>5, <1>6, <1>7, <1>8 DEF Flushed

\* A write of the call that makes a file, but for the last: what the disk holds
\* stays a volume, and what is left to write is as the call began it.
LEMMA FileWritten ==
  ASSUME Consistent, ~ torn, WriteCluster, call = "file", Len(pending) # 1
  PROVE  /\ FilePending'
         /\ Formatted' => Volume(platterFat', platter', dirs')
<1>1. PICK c \in Clusters :
        /\ Len(pending) \in Nat \ {0} /\ pending[1] = c
        /\ Len(pending') = Len(pending) - 1
        /\ \A i \in 1 .. Len(pending) - 1 : pending'[i] = pending[i + 1]
        /\ signed' = IF c = BOOT_SECTOR THEN call = "format" ELSE signed
        /\ platterFat' = IF c = FAT_CLUSTER_NUMBER THEN FatToWrite ELSE platterFat
        /\ platter' = IF c = FAT_CLUSTER_NUMBER
                        THEN platter ELSE [platter EXCEPT ![c] = disk[c]]
        /\ fat' = fat /\ disk' = disk /\ dirs' = dirs
  BY ClusterWritten
<1>2. /\ FilePending /\ Volume(fat, disk, dirs) /\ signed
      /\ Formatted => Volume(platterFat, platter, dirs)
      /\ platter \in [Clusters -> Table] /\ disk \in [Clusters -> Table]
  BY DEF Consistent, Unsigned, Flushed
<1>3. PICK n \in Nat : n = Len(pending) /\ n > 1
  BY <1>1
<1>4. PICK p \in dirs : p = pending[n]
  BY <1>2, <1>3 DEF FilePending
<1>5. /\ p \in Clusters /\ p \notin {BOOT_SECTOR, FAT_CLUSTER_NUMBER}
      /\ Before(platter[p], disk[p])
  BY <1>2, <1>3, <1>4, DirsAreParents DEF Volume, FilePending
<1>6. pending[n - 1] = FAT_CLUSTER_NUMBER
  BY <1>2, <1>3 DEF FilePending
<1>7. \A i \in 1 .. n - 2 : /\ pending[i] \in DataClusters
                            /\ Formatted => platterFat[pending[i]] = EMPTY
  BY <1>2, <1>3 DEF FilePending
<1>8. BOOT_SECTOR \notin DataClusters /\ FAT_CLUSTER_NUMBER \notin DataClusters
      /\ FAT_CLUSTER_NUMBER # BOOT_SECTOR
  BY DEF DataClusters, FirstCluster, BOOT_SECTOR, FAT_CLUSTER_NUMBER
<1>9. Before(platter'[p], disk'[p])
  <2>1. CASE platter'[p] = platter[p]
    BY <1>1, <1>5, <2>1
  <2>2. CASE platter'[p] # platter[p]
    <3>1. platter'[p] = disk[p]
      BY <1>1, <1>2, <1>5, <2>2
    <3>. QED BY <1>1, <3>1 DEF Before, Same
  <2>. QED BY <2>1, <2>2
<1>10. pending'[n - 1] = p /\ n - 1 > 0 /\ Len(pending') = n - 1
  <2>1. n - 1 \in 1 .. Len(pending) - 1 /\ (n - 1) + 1 = n
    BY <1>3
  <2>. QED BY <1>1, <1>3, <1>4, <2>1
<1>11. n - 1 > 1 => pending'[n - 2] = FAT_CLUSTER_NUMBER
  <2>. SUFFICES ASSUME n - 1 > 1 PROVE pending'[n - 2] = FAT_CLUSTER_NUMBER
    OBVIOUS
  <2>1. n - 2 \in 1 .. Len(pending) - 1 /\ (n - 2) + 1 = n - 1
    BY <1>3
  <2>. QED BY <1>1, <1>6, <2>1
<1>12. ASSUME n > 2
       PROVE  /\ c \in DataClusters /\ Formatted' = Formatted
              /\ platterFat' = platterFat
              /\ platter' = [platter EXCEPT ![c] = disk[c]]
  <2>1. 1 \in 1 .. n - 2
    BY <1>3, <1>12
  <2>2. c \in DataClusters
    BY <1>1, <1>7, <2>1
  <2>. QED BY <1>1, <1>8, <2>2 DEF Formatted
<1>13. ASSUME NEW i \in 1 .. (n - 1) - 2
       PROVE  pending'[i] \in DataClusters /\ (Formatted' => platterFat'[pending'[i]] = EMPTY)
  <2>1. n > 2 /\ i \in 1 .. Len(pending) - 1 /\ i + 1 \in 1 .. n - 2
    BY <1>3
  <2>2. pending'[i] = pending[i + 1]
    BY <1>1, <2>1
  <2>3. pending[i + 1] \in DataClusters /\ (Formatted => platterFat[pending[i + 1]] = EMPTY)
    BY <1>7, <2>1
  <2>. QED BY <1>12, <2>1, <2>2, <2>3
<1>14. FilePending'
  <2>1. (n - 1) - 1 = n - 2
    BY <1>3
  <2>2. pending'[n - 1] \in dirs'
    BY <1>1, <1>10
  <2>. QED BY <1>9, <1>10, <1>11, <1>13, <2>1, <2>2 DEF FilePending
<1>15. ASSUME Formatted'
       PROVE  Volume(platterFat', platter', dirs')
  <2>1. CASE n = 2
    <3>1. c = FAT_CLUSTER_NUMBER
      BY <1>1, <1>6, <2>1
    <3>2. platterFat' = fat /\ platter' = platter
      BY <1>1, <3>1 DEF FatToWrite
    <3>3. \A x \in Clusters : x # p => platter[x] = disk[x]
      <4>. SUFFICES ASSUME NEW x \in Clusters, x # p,
                           x # FAT_CLUSTER_NUMBER
                    PROVE  ~ Unwritten(x)
        BY DEF Consistent, Flushed
      <4>1. \A i \in 1 .. Len(pending) : i = 1 \/ i = n
        BY <1>3, <2>1
      <4>. QED BY <1>1, <1>4, <3>1, <4>1 DEF Unwritten
    <3>4. Volume(fat, platter, dirs)
      BY <1>2, <1>5, <3>3, EntryUnlisted
    <3>. QED BY <1>1, <3>2, <3>4
  <2>2. CASE n > 2
    <3>1. Formatted /\ platterFat[c] = EMPTY
      <4>1. 1 \in 1 .. n - 2
        BY <1>3, <2>2
      <4>. QED BY <1>1, <1>7, <1>12, <1>15, <2>2, <4>1
    <3>2. Volume(platterFat, platter, dirs)
      BY <1>2, <3>1
    <3>3. PICK pl : pl = platter'
      OBVIOUS
    <3>4. pl \in [Clusters -> Table] /\ \A b \in Clusters : b # c => pl[b] = platter[b]
      BY <1>2, <1>12, <2>2, <3>3
    <3>5. Volume(platterFat, pl, dirs)
      BY <1>12, <2>2, <3>1, <3>2, <3>4, SpareWritten
    <3>. QED BY <1>1, <1>12, <2>2, <3>3, <3>5
  <2>. QED BY <1>3, <2>1, <2>2
<1>. QED BY <1>14, <1>15

LEMMA WriteConsistent == Consistent /\ WriteCluster => Consistent'
<1>. SUFFICES ASSUME Consistent, WriteCluster PROVE Consistent'
  OBVIOUS
<1>1. PICK c \in Clusters :
        /\ pending[1] = c /\ Len(pending) \in Nat \ {0}
        /\ signed' = IF c = BOOT_SECTOR THEN call = "format" ELSE signed
        /\ call' = IF Len(pending) = 1 THEN "idle" ELSE call
        /\ UNCHANGED <<fat, disk, dirs, ret, overrun, torn>>
  BY ClusterWritten
<1>2. Flushed'
  BY WriteFlushed
<1>3. call \notin {"idle", "off"}
  BY DEF Consistent, Flushed, WriteCluster
<1>4. signed'
  <2>1. CASE ~ signed
    <3>1. pending = FormatWrites
      BY <1>3, <2>1 DEF Consistent, Unsigned
    <3>2. c = BOOT_SECTOR
      BY <1>1, <3>1 DEF FormatWrites
    <3>3. call = "format"
      BY <1>3, <2>1 DEF Consistent, Unsigned
    <3>. QED BY <1>1, <3>2, <3>3
  <2>2. c = BOOT_SECTOR => call = "format"
    <3>1. 1 \in 1 .. Len(pending)
      BY <1>1
    <3>. QED BY <1>1, <3>1 DEF Consistent, Flushed, Unwritten
  <2>. QED BY <1>1, <2>1, <2>2
<1>5. ASSUME ~ torn, call' = "file"
      PROVE  FilePending' /\ (Formatted' => Volume(platterFat', platter', dirs'))
  BY <1>1, <1>5, FileWritten
<1>6. call' # "off"
  BY <1>1, <1>3
<1>7. /\ ret' \in -1 .. 3 /\ overrun' \in BOOLEAN
      /\ call' \in {"off", "idle", "format", "file", "folder", "delete"}
      /\ call' \in {"file", "folder", "delete"} => ~ torn'
      /\ ~ torn => Volume(fat', disk', dirs')
  BY <1>1, <1>3 DEF Consistent
<1>8. Unsigned'
  BY <1>4 DEF Unsigned
<1>. QED BY <1>1, <1>2, <1>5, <1>6, <1>7, <1>8 DEF Consistent

LEMMA PowerLossConsistent == Consistent /\ PowerLoss => Consistent'
<1>. SUFFICES ASSUME Consistent, PowerLoss PROVE Consistent'
  OBVIOUS
<1>1. /\ call # "off" /\ call' = "off" /\ pending' = <<>> /\ disk' = platter
      /\ torn' = (torn \/ call \in {"format", "folder", "delete"})
      /\ UNCHANGED <<ret, overrun, signed, platterFat, platter>>
  BY DEF PowerLoss
<1>2. Flushed'
  BY <1>1 DEF Consistent, Flushed, Unwritten
<1>3. ASSUME ~ torn'
      PROVE  ~ torn /\ call \in {"idle", "file"} /\ signed
  BY <1>1, <1>3 DEF Consistent, Unsigned
<1>4. ASSUME ~ torn', Formatted'
      PROVE  Volume(platterFat', platter', OnDisk')
  <2>1. ~ torn /\ call \in {"idle", "file"} /\ Formatted
    BY <1>1, <1>3, <1>4 DEF Formatted
  <2>2. Volume(platterFat, platter, dirs)
    BY <2>1, SafeVolume
  <2>3. OnDisk = dirs
    BY <2>2, FoundTree
  <2>4. OnDisk' = OnDisk
    BY <1>1 DEF OnDisk, Found
  <2>. QED BY <1>1, <2>2, <2>3, <2>4
<1>5. Unsigned'
  BY <1>1 DEF Consistent, Unsigned
<1>. QED BY <1>1, <1>2, <1>4, <1>5 DEF Consistent

LEMMA ConsistentStep ==
  ASSUME Misuse \subseteq CarefulKinds
  PROVE  Consistent /\ [DiskNext]_<<vars, diskVars>> => Consistent'
<1>. SUFFICES ASSUME Consistent, [DiskNext]_<<vars, diskVars>> PROVE Consistent'
  OBVIOUS
<1>1. CASE Format
  BY <1>1, FormatConsistent
<1>2. CASE Mount
  BY <1>2, MountConsistent
<1>3. ASSUME NEW p \in dirs, NEW name \in Names, NEW ext \in Exts,
             \/ \E size \in FileSizes, d \in Datas : StartFile(p, name, ext, size, d)
             \/ StartFolder(p, name, ext)
             \/ StartDelete(p, name, ext)
      PROVE  Consistent'
  BY <1>3, FileConsistent, FolderConsistent, DeleteConsistent
<1>4. CASE WriteCluster
  BY <1>4, WriteConsistent
<1>5. CASE PowerLoss
  BY <1>5, PowerLossConsistent
<1>6. CASE UNCHANGED <<vars, diskVars>>
  <2>1. UNCHANGED <<fat, disk, dirs, ret, overrun>>
        /\ UNCHANGED <<signed, platterFat, platter, pending, call, torn>>
    BY <1>6 DEF vars, diskVars
  <2>2. OnDisk' = OnDisk
    BY <2>1 DEF OnDisk, Found
  <2>3. /\ Flushed' /\ (Unsigned => Unsigned') /\ (FilePending => FilePending')
        /\ Formatted' = Formatted
    BY <2>1 DEF Consistent, Flushed, Unsigned, FilePending, Formatted, Unwritten
  <2>. QED BY <2>1, <2>2, <2>3 DEF Consistent
<1>. QED BY <1>1, <1>2, <1>3, <1>4, <1>5, <1>6 DEF DiskNext

\* A call that has returned is on the disk in full, whatever came before it:
\* the driver has nothing in memory that a power failure could take away.
THEOREM CarefulAcknowledged ==
  ASSUME Misuse \subseteq CarefulKinds
  PROVE  DiskSpec => []AcknowledgedIsDurable
<1>1. Consistent => AcknowledgedIsDurable
  <2>. SUFFICES ASSUME Consistent, Formatted, call = "idle"
                PROVE  platterFat = fat /\ platter = disk
    BY DEF AcknowledgedIsDurable
  <2>1. \A c : ~ Unwritten(c)
    BY DEF Consistent, Flushed, Unwritten
  <2>. QED BY <2>1 DEF Consistent, Flushed, Formatted
<1>. QED BY <1>1, InitConsistent, ConsistentStep, PTL DEF DiskSpec

\* The power may fail between calls and at every cluster write of a call that
\* makes a file: what the next mount finds is sound.
THEOREM CarefulCrashSafe ==
  ASSUME Misuse \subseteq CarefulKinds
  PROVE  DiskSpec => []CrashSafe
<1>1. Consistent => CrashSafe
  <2>. SUFFICES ASSUME Consistent, Formatted, ~ torn, call \in {"idle", "off", "file"}
                PROVE  Volume(platterFat, platter, OnDisk)
    BY DurableVolume DEF CrashSafe
  <2>1. CASE call = "off"
    BY <2>1 DEF Consistent
  <2>2. CASE call \in {"idle", "file"}
    <3>1. Volume(platterFat, platter, dirs)
      BY <2>2, SafeVolume
    <3>2. OnDisk = dirs
      BY <3>1, FoundTree
    <3>. QED BY <3>1, <3>2
  <2>. QED BY <2>1, <2>2
<1>. QED BY <1>1, InitConsistent, ConsistentStep, PTL DEF DiskSpec
-----------------------------------------------------------------------------
(***************************************************************************)
(* What a cluster write lets appear.  The invariant is Consistent and, for *)
(* each call, what the disk holds between its writes: a folder's parent is *)
(* written before the folder's own table, so that for one write the new    *)
(* entry leads to a cluster of old content, and delete() frees a cluster   *)
(* before it removes the entry that leads to it.                           *)
(***************************************************************************)
\* A table without entries but the directory's own.
Bare(t) == \A s \in ChildSlots : t[s] = BlankEntry

\* No directory is entered in t, as long as none is in the contents.
Childless(t) == NoFolderInData => \A s \in ChildSlots : t[s].attr # "dir"

\* No cluster that is not a directory's has an entry of a directory.
Barren(dk, ds) == \A c \in Clusters \ ds : Childless(dk[c])

FolderOwed(p, g) ==
  /\ p # g /\ g \in DataClusters
  /\ Len(pending) \in 1 .. 3 /\ pending[Len(pending)] = g
  /\ Len(pending) > 1 => pending[Len(pending) - 1] = p
  /\ Len(pending) > 2 => pending[1] = FAT_CLUSTER_NUMBER
  /\ \A s \in ChildSlots : platter[p][s].name # NoName => platter[p][s] = disk[p][s]
  /\ Bare(disk[g])
  /\ Childless(platter[g])
  /\ Len(pending) > 1 => Tree(platter, dirs \ {g})
  /\ Len(pending) = 3 /\ Formatted => Volume(platterFat, platter, dirs \ {g})

FolderPending == \E p \in dirs, g \in dirs : FolderOwed(p, g)

\* ds are the directories there were: a directory that goes has no entries.
DeletePending ==
  \E p \in dirs, ds \in SUBSET Clusters, s \in ChildSlots :
    /\ pending \in {<<FAT_CLUSTER_NUMBER, p>>, <<p>>}
    /\ disk[p] = [platter[p] EXCEPT ![s] = BlankEntry]
    /\ dirs \subseteq ds /\ Tree(platter, ds)
    /\ \A d \in ds \ dirs, r \in ChildSlots : platter[d][r].name = NoName
    /\ Len(pending) = 2 /\ Formatted => Volume(platterFat, platter, ds)

Watched ==
  /\ call = "format" => Bare(platter[RootCluster]) /\ disk[RootCluster] = RootTable
  /\ ~ torn =>
       /\ platterFat = Junk /\ call \notin {"off", "format"} => Bare(platter[RootCluster])
       /\ call = "folder" => FolderPending
       /\ call = "delete" => DeletePending
       /\ call # "off" => Barren(disk, dirs)
       /\ call = "file" => Barren(platter, dirs)
       /\ Formatted /\ call = "off" => Barren(platter, OnDisk)

(***************************************************************************)
(* What is visible.                                                        *)
(***************************************************************************)
Shown(f, dk, e) ==
  LET entry == dk[e[1]][e[2]]
  IN  <<entry.name, entry.ext, entry.attr,
        IF entry.attr = "file"
          THEN {Content(dk, f, entry.cluster, k) : k \in ChainLengths(f, entry.cluster)}
          ELSE {}>>

LEMMA VisibleIs == Visible = [e \in Used(platter, OnDisk) |-> Shown(platterFat, platter, e)]
BY DurableOperators DEF Visible, Shown

\* A file that is whole before and after shows the same content.
LEMMA ShownKept ==
  ASSUME NEW f, NEW dk, NEW g, NEW dk2, NEW e, Same(dk2[e[1]][e[2]], dk[e[1]][e[2]]),
         dk[e[1]][e[2]].attr = "file" =>
           /\ FileAt(f, dk, Lead(dk, e), dk[e[1]][e[2]].size)
           /\ FileAt(g, dk2, Lead(dk, e), dk[e[1]][e[2]].size)
           /\ dk2[Lead(dk, e)] = dk[Lead(dk, e)]
  PROVE  Shown(g, dk2, e) = Shown(f, dk, e)
<1>1. PICK n, c : n = dk[e[1]][e[2]].size /\ c = Lead(dk, e)
  OBVIOUS
<1>2. CASE dk[e[1]][e[2]].attr = "file"
  <2>1. FileAt(f, dk, c, n) /\ FileAt(g, dk2, c, n) /\ dk2[c] = dk[c]
    BY <1>1, <1>2
  <2>2. PICK d \in Datas : Content(dk, f, c, n) = Stored(d, n) /\ Begins(dk[c], d)
    BY <2>1, StoredContent
  <2>3. PICK b \in Datas : Content(dk2, g, c, n) = Stored(b, n) /\ Begins(dk2[c], b)
    BY <2>1, StoredContent
  <2>4. b = d
    BY <2>1, <2>2, <2>3 DEF Begins
  <2>5. ChainLengths(f, c) = {n} /\ ChainLengths(g, c) = {n}
    BY <2>1, StoredContent
  <2>6. {Content(dk2, g, c, k) : k \in ChainLengths(g, c)}
          = {Content(dk, f, c, k) : k \in ChainLengths(f, c)}
    BY <2>2, <2>3, <2>4, <2>5
  <2>. QED BY <1>1, <1>2, <2>6 DEF Shown, Same, Lead
<1>3. CASE dk[e[1]][e[2]].attr # "file"
  BY <1>3 DEF Shown, Same
<1>. QED BY <1>2, <1>3

\* Nothing is to be seen under a bare root.
LEMMA BareRoot ==
  ASSUME NEW dk, Bare(dk[RootCluster])
  PROVE  Tree(dk, {RootCluster}) /\ Used(dk, {RootCluster}) = {}
<1>1. \A s \in ChildSlots : dk[RootCluster][s].attr = "none" /\ dk[RootCluster][s].name = NoName
  BY DEF Bare, BlankEntry
<1>2. Below(dk, {RootCluster}) = {} /\ Used(dk, {RootCluster}) = {}
  BY <1>1 DEF Below, Used
<1>. QED BY <1>2 DEF Tree, Closed

LEMMA NothingVisible == Bare(platter[RootCluster]) => Used(platter, OnDisk) = {}
<1>. SUFFICES ASSUME Bare(platter[RootCluster]) PROVE Used(platter, OnDisk) = {}
  OBVIOUS
<1>1. Tree(platter, {RootCluster}) /\ Used(platter, {RootCluster}) = {}
  BY BareRoot
<1>2. {RootCluster} \in SUBSET Clusters
  BY ClusterMapAssumption DEF Clusters, RootCluster, FirstCluster
<1>3. OnDisk = {RootCluster}
  BY <1>1, <1>2, FoundAll
<1>. QED BY <1>1, <1>3
(***************************************************************************)
(* The invariant, step by step.                                            *)
(***************************************************************************)
LEMMA FormatWatched == Consistent /\ Format => Watched'
<1>. SUFFICES ASSUME Consistent, Format PROVE Watched'
  OBVIOUS
<1>1. /\ call' = "format" /\ platter' = platter /\ dirs' = {RootCluster}
      /\ disk' = [platter EXCEPT ![BOOT_SECTOR] = BootSector, ![RootCluster] = RootTable]
      /\ platter = BlankDisk
  BY DEF Format, Consistent, Unsigned
<1>2. RootCluster \in Clusters
  BY ClusterMapAssumption DEF Clusters, RootCluster, FirstCluster
<1>3. disk'[RootCluster] = RootTable
  BY <1>1, <1>2 DEF BlankDisk
<1>4. Barren(disk', dirs')
  <2>1. ASSUME NEW c \in Clusters, c # RootCluster
        PROVE  disk'[c] \in {BlankTable, BootSector}
    BY <1>1, <2>1 DEF BlankDisk
  <2>2. \A s \in ChildSlots : BlankTable[s].attr # "dir" /\ BootSector[s].attr # "dir"
    BY SlotNumbers, BootSectorAssumption DEF BlankTable, BlankEntry
  <2>. QED BY <1>1, <2>1, <2>2 DEF Barren, Childless
<1>5. Bare(platter'[RootCluster])
  BY <1>1, <1>2, SlotNumbers DEF BlankDisk, BlankTable, Bare
<1>. QED BY <1>1, <1>3, <1>4, <1>5 DEF Watched

LEMMA MountWatched == Consistent /\ Watched /\ Mount => Watched'
<1>. SUFFICES ASSUME Consistent, Watched, Mount PROVE Watched'
  OBVIOUS
<1>1. /\ call = "off" /\ Formatted /\ call' = "idle"
      /\ platterFat' = platterFat /\ platterFat # Junk
      /\ disk' = platter /\ dirs' = OnDisk /\ torn' = torn
  BY DEF Mount, Formatted
<1>. QED BY <1>1 DEF Watched

\* Between calls nothing is visible until a first call has replaced what
\* formatting has left of the table.
LEMMA ReadyWatched ==
  ASSUME Consistent, Watched, Ready
  PROVE  /\ Barren(disk, dirs) /\ Barren(platter, dirs)
         /\ platterFat = Junk => Bare(platter[RootCluster])
BY ReadyVolume DEF Ready, Watched

\* What a call puts in clusters that are no directory's: data.
LEMMA FileBarren ==
  ASSUME Sound, Tables(disk, dirs), Barren(disk, dirs),
         NEW p \in dirs, NEW name \in Callable, NEW ext \in Exts,
         NEW size \in FileSizes, NEW d \in Datas,
         WriteFile(p, name, ext, size, d)
  PROVE  Barren(disk', dirs')
<1>1. dirs' = dirs
  BY FileTables
<1>2. PICK ch \in Chains(fat, Needed(size)) :
        /\ \A i \in 1 .. size : disk'[ch[i]] = DataTable(d, i)
        /\ \A c \in Clusters :
             c # p /\ (\A i \in 1 .. size : c # ch[i]) => disk'[c] = disk[c]
  BY FileTables
<1>. SUFFICES ASSUME NoFolderInData, NEW c \in Clusters \ dirs, NEW s \in ChildSlots
              PROVE  disk'[c][s].attr # "dir"
  BY <1>1 DEF Barren, Childless, NoFolderInData
<1>3. CASE \E i \in 1 .. size : c = ch[i]
  <2>1. PICK i \in 1 .. size : c = ch[i]
    BY <1>3
  <2>2. disk'[c] = DataTable(d, i)
    BY <1>2, <2>1
  <2>3. <<d, i>> \in Pieces
    BY <1>1, <2>1, SizeAssumption, FileTables DEF Pieces, FileSizes
  <2>. QED BY <2>2, <2>3, SlotNumbers, ReadingAssumption DEF DataTable, NoFolderInData, Table, Entry
<1>4. CASE \A i \in 1 .. size : c # ch[i]
  BY <1>2, <1>4 DEF Barren, Childless
<1>. QED BY <1>3, <1>4

LEMMA FolderBarren ==
  ASSUME Sound, Tables(disk, dirs), Barren(disk, dirs),
         NEW p \in dirs, NEW name \in Callable, NEW ext \in Exts,
         WriteFolder(p, name, ext)
  PROVE  Barren(disk', dirs')
<1>1. PICK ch \in Chains(fat, 1) :
        /\ p \in dirs /\ dirs' = dirs \cup {ch[1]}
        /\ \A c \in Clusters : c # p /\ c # ch[1] => disk'[c] = disk[c]
  BY FolderTables
<1>. SUFFICES ASSUME NEW c \in Clusters \ dirs'
              PROVE  Childless(disk'[c])
  BY DEF Barren
<1>2. c \in Clusters \ dirs /\ disk'[c] = disk[c]
  BY <1>1
<1>. QED BY <1>2 DEF Barren

LEMMA FileWatched ==
  ASSUME Misuse \subseteq CarefulKinds,
         NEW p \in dirs, NEW name \in Names, NEW ext \in Exts,
         NEW size \in FileSizes, NEW d \in Datas
  PROVE  Consistent /\ Watched /\ StartFile(p, name, ext, size, d) => Watched'
<1>. SUFFICES ASSUME Consistent, Watched, StartFile(p, name, ext, size, d)
              PROVE  Watched'
  OBVIOUS
<1>1. /\ Ready /\ WriteFile(p, name, ext, size, d) /\ pending' = FileWrites(p)
      /\ call' = "file" /\ platterFat' = platterFat
      /\ platter' = platter /\ torn' = torn
  BY DEF StartFile
<1>2. Consistent' /\ FilePending'
  <2>1. Consistent'
    BY FileConsistent
  <2>2. ~ torn'
    BY <1>1 DEF Ready
  <2>. QED BY <1>1, <2>1, <2>2 DEF Consistent
<1>3. /\ Orderly /\ p \in Parents /\ platter = disk /\ Barren(disk, dirs)
      /\ platterFat = Junk => Bare(platter[RootCluster])
  BY <1>1, ReadyVolume, ReadyWatched
<1>4. name \in Callable /\ Misuse \subseteq BenignKinds
  BY DEF Callable, CarefulKinds
<1>5. size \in Nat \ {0} /\ dirs' = dirs
  BY <1>1, <1>3, <1>4, BenignCalls, FileTables DEF Orderly
<1>6. Barren(disk', dirs')
  BY <1>1, <1>3, <1>4, FileBarren DEF Orderly
<1>. QED BY <1>1, <1>3, <1>5, <1>6 DEF Watched, Barren

\* A new directory's cluster is the one that is written last.
LEMMA AscendingOne ==
  ASSUME NEW n
  PROVE  Ascending({n}) = <<n>>
<1>1. Cardinality({n}) = 1
  BY FS_Singleton
<1>2. PICK g : g = Ascending({n})
  OBVIOUS
<1>3. g = CHOOSE q \in [1 .. 1 -> {n}] : \A i, j \in DOMAIN q : i < j => q[i] < q[j]
  BY <1>1, <1>2 DEF Ascending
<1>4. \E q \in [1 .. 1 -> {n}] : \A i, j \in DOMAIN q : i < j => q[i] < q[j]
  <2>. DEFINE q == [i \in 1 .. 1 |-> n]
  <2>1. q \in [1 .. 1 -> {n}] /\ DOMAIN q = 1 .. 1
    OBVIOUS
  <2>. HIDE DEF q
  <2>2. \A i, j \in DOMAIN q : ~ (i < j)
    BY <2>1
  <2>. QED BY <2>1, <2>2
<1>5. g \in [1 .. 1 -> {n}]
  BY <1>3, <1>4
<1>. QED BY <1>2, <1>5

LEMMA FolderWatched ==
  ASSUME Misuse \subseteq CarefulKinds,
         NEW p \in dirs, NEW name \in Names, NEW ext \in Exts
  PROVE  Consistent /\ Watched /\ StartFolder(p, name, ext) => Watched'
<1>. SUFFICES ASSUME Consistent, Watched, StartFolder(p, name, ext)
              PROVE  Watched'
  OBVIOUS
<1>1. /\ Ready /\ WriteFolder(p, name, ext) /\ pending' = FolderWrites(p)
      /\ call' = "folder" /\ platterFat' = platterFat /\ signed' = signed
      /\ platter' = platter /\ torn' = torn
  BY DEF StartFolder
<1>2. /\ Orderly /\ p \in Parents /\ platter = disk /\ platterFat \in {fat, Junk}
      /\ Barren(disk, dirs) /\ Volume(fat, disk, dirs) /\ disk \in [Clusters -> Table]
      /\ platterFat = Junk => Bare(platter[RootCluster])
  BY <1>1, ReadyVolume, ReadyWatched, OrderlyVolume DEF Volume
<1>3. name \in Callable /\ Misuse \subseteq BenignKinds
  BY DEF Callable, CarefulKinds
<1>4. PICK ch \in Chains(fat, 1), s \in ChildSlots :
        /\ ch[1] \in DataClusters /\ ch[1] \notin dirs
        /\ dirs' = dirs \cup {ch[1]}
        /\ disk[p][s].name = NoName
        /\ disk'[ch[1]] = NewTable(name, ch[1])
        /\ \A r \in Slots : r # s => disk'[p][r] = disk[p][r]
        /\ \A c \in Clusters : c # p /\ c # ch[1] => disk'[c] = disk[c]
  BY <1>1, <1>2, <1>3, BenignCalls, FolderTables DEF Orderly
<1>5. PICK g : g = ch[1]
  OBVIOUS
<1>6. g \in DataClusters /\ g \notin dirs /\ dirs' = dirs \cup {g} /\ g \in Clusters /\ g # p
  BY <1>4, <1>5, ClusterMapAssumption DEF DataClusters, Clusters, FirstCluster
<1>7. PICK w : w = pending'
  OBVIOUS
<1>8. Len(w) = 3 /\ w[1] = FAT_CLUSTER_NUMBER /\ w[2] = p /\ w[3] = g
  <2>1. Made = {g}
    BY <1>1, <1>2, <1>3, <1>6, MadeCluster
  <2>2. Ascending(Made) = <<g>>
    BY <2>1, AscendingOne
  <2>3. w = <<FAT_CLUSTER_NUMBER, p>> \o <<g>>
    BY <1>1, <1>7, <2>2 DEF FolderWrites, Flush
  <2>4. FAT_CLUSTER_NUMBER \in Clusters
    BY ClusterMapAssumption DEF FAT_CLUSTER_NUMBER, Clusters, FirstCluster
  <2>5. p \in Clusters
    BY <1>2 DEF Volume
  <2>6. <<FAT_CLUSTER_NUMBER, p>> \in Seq(Clusters) /\ <<g>> \in Seq(Clusters)
    BY <1>6, <2>4, <2>5
  <2>. HIDE DEF Clusters
  <2>. QED BY <2>3, <2>6
<1>9. Bare(disk'[g])
  <2>1. disk'[g] = NewTable(name, g)
    BY <1>4, <1>5
  <2>. QED BY <2>1, SlotNumbers DEF NewTable, BlankTable, Bare
<1>10. Barren(disk', dirs')
  BY <1>1, <1>2, <1>3, FolderBarren DEF Orderly
<1>11. FolderPending'
  <2>1. \A r \in ChildSlots : platter'[p][r].name # NoName => platter'[p][r] = disk'[p][r]
    BY <1>1, <1>2, <1>4, SlotNumbers
  <2>2. Childless(platter'[g])
    BY <1>1, <1>2, <1>6 DEF Barren
  <2>3. dirs' \ {g} = dirs
    BY <1>6
  <2>4. Tree(platter', dirs)
    BY <1>1, <1>2 DEF Volume
  <2>5. Formatted' => Volume(platterFat', platter', dirs)
    BY <1>1, <1>2 DEF Formatted
  <2>6. Tree(platter', dirs' \ {g}) /\ (Formatted' => Volume(platterFat', platter', dirs' \ {g}))
    BY <2>3, <2>4, <2>5
  <2>7. p \in dirs' /\ g \in dirs'
    BY <1>6
  <2>8. /\ Len(pending') \in 1 .. 3 /\ pending'[Len(pending')] = g
        /\ pending'[Len(pending') - 1] = p /\ pending'[1] = FAT_CLUSTER_NUMBER
    BY <1>7, <1>8
  <2>9. FolderOwed(p, g)'
    BY <1>6, <1>9, <2>1, <2>2, <2>6, <2>8 DEF FolderOwed
  <2>. QED BY <2>7, <2>9 DEF FolderPending
<1>. QED BY <1>1, <1>2, <1>10, <1>11 DEF Watched

LEMMA DeleteWatched ==
  ASSUME Misuse \subseteq CarefulKinds,
         NEW p \in dirs, NEW name \in Names, NEW ext \in Exts
  PROVE  Consistent /\ Watched /\ StartDelete(p, name, ext) => Watched'
<1>. SUFFICES ASSUME Consistent, Watched, StartDelete(p, name, ext)
              PROVE  Watched'
  OBVIOUS
<1>1. /\ Ready /\ DeleteEntry(p, name, ext) /\ pending' = <<FAT_CLUSTER_NUMBER, p>>
      /\ call' = "delete" /\ platterFat' = platterFat /\ signed' = signed
      /\ platter' = platter /\ torn' = torn
  BY DEF StartDelete, Flush
<1>2. /\ Orderly /\ p \in Parents /\ platter = disk /\ platterFat \in {fat, Junk}
      /\ Barren(disk, dirs) /\ Volume(fat, disk, dirs) /\ disk \in [Clusters -> Table]
      /\ platterFat = Junk => Bare(platter[RootCluster])
  BY <1>1, ReadyVolume, ReadyWatched, OrderlyVolume DEF Volume
<1>3. name \in Callable /\ Misuse \subseteq BenignKinds
  BY DEF Callable, CarefulKinds
<1>4. PICK s \in ChildSlots :
        /\ <<p, s>> \in Entries
        /\ dirs' = dirs \ {disk[p][s].cluster}
        /\ disk' = [disk EXCEPT ![p] = [disk[p] EXCEPT ![s] = BlankEntry]]
        /\ Filled(disk[p][s]) => "filled_folder" \in Misuse
  BY <1>1, <1>2, <1>3, BenignCalls, DeleteTables DEF Orderly
<1>5. PICK x : x = disk[p][s].cluster
  OBVIOUS
<1>6. p \in Clusters /\ dirs \in SUBSET Clusters /\ disk[p] \in Table
  BY <1>2 DEF Volume
<1>7. /\ disk'[p] = [disk[p] EXCEPT ![s] = BlankEntry]
      /\ \A c \in Clusters : c # p => disk'[c] = disk[c]
  BY <1>2, <1>4, <1>6
\* What the entry leads to has no entries: a file has none, a directory must not.
<1>8. x \in dirs => \A r \in ChildSlots : disk[x][r].name = NoName /\ disk[x][r].attr = "none"
  <2>. SUFFICES ASSUME x \in dirs
                PROVE  \A r \in ChildSlots : disk[x][r].name = NoName /\ disk[x][r].attr = "none"
    OBVIOUS
  <2>1. disk[p][s].attr \in {"file", "dir"}
    BY <1>2, <1>4 DEF Volume, Tables, Entries
  <2>2. disk[p][s].attr # "file"
    BY <1>2, <1>5, FileOf
  <2>3. ~ Filled(disk[p][s])
    BY <1>4 DEF CarefulKinds
  <2>4. Children(disk[x]) = {}
    BY <1>5, <2>1, <2>2, <2>3 DEF Filled
  <2>5. \A r \in ChildSlots : disk[x][r].name = NoName
    BY <2>4 DEF Children
  <2>. QED BY <1>2, <2>5 DEF Volume, Tables
<1>9. DeletePending'
  <2>1. disk'[p] = [platter'[p] EXCEPT ![s] = BlankEntry]
    BY <1>1, <1>2, <1>7
  <2>2. p \in dirs'
    <3>1. CASE x = p
      <4>1. disk[p][s].name = NoName
        BY <1>8, <3>1
      <4>. QED BY <1>4, <4>1 DEF Entries
    <3>2. CASE x # p
      BY <1>4, <1>5, <3>2
    <3>. QED BY <3>1, <3>2
  <2>3. dirs' \subseteq dirs /\ \A c \in dirs \ dirs' : c = x
    BY <1>4, <1>5
  <2>4. \A c \in dirs \ dirs', r \in ChildSlots : platter'[c][r].name = NoName
    BY <1>1, <1>2, <1>8, <2>3
  <2>5. Tree(platter', dirs) /\ (Formatted' => Volume(platterFat', platter', dirs))
    BY <1>1, <1>2 DEF Formatted, Volume
  <2>. QED BY <1>1, <1>6, <2>1, <2>2, <2>3, <2>4, <2>5 DEF DeletePending
<1>10. Barren(disk', dirs')
  <2>. SUFFICES ASSUME NEW c \in Clusters \ dirs', NEW r \in ChildSlots
                PROVE  NoFolderInData => disk'[c][r].attr # "dir"
    BY DEF Barren, Childless, NoFolderInData
  <2>1. CASE c = p
    <3>1. disk'[p] = [disk[p] EXCEPT ![s] = BlankEntry] /\ x = p
      BY <1>4, <1>5, <1>7, <2>1
    <3>. QED BY <1>6, <1>8, <2>1, <3>1, SlotNumbers DEF BlankEntry, Table
  <2>2. CASE c # p /\ c \in dirs
    BY <1>4, <1>5, <1>7, <1>8, <2>2
  <2>3. CASE c # p /\ c \notin dirs
    BY <1>2, <1>7, <2>3 DEF Barren, Childless
  <2>. QED BY <2>1, <2>2, <2>3
<1>. QED BY <1>1, <1>2, <1>9, <1>10 DEF Watched

LEMMA PowerLossWatched == Consistent /\ Watched /\ PowerLoss => Watched'
<1>. SUFFICES ASSUME Consistent, Watched, PowerLoss PROVE Watched'
  OBVIOUS
<1>1. /\ call # "off" /\ call' = "off"
      /\ torn' = (torn \/ call \in {"format", "folder", "delete"})
      /\ UNCHANGED <<signed, platterFat, platter>>
  BY DEF PowerLoss
<1>2. ASSUME ~ torn', Formatted'
      PROVE  Barren(platter', OnDisk')
  <2>1. ~ torn /\ call \in {"idle", "file"} /\ Formatted
    BY <1>1, <1>2 DEF Consistent, Formatted
  <2>2. Volume(platterFat, platter, dirs)
    BY <2>1, SafeVolume
  <2>3. OnDisk = dirs
    BY <2>2, FoundTree
  <2>4. OnDisk' = OnDisk
    BY <1>1 DEF OnDisk, Found
  <2>5. Barren(platter, dirs)
    <3>1. CASE call = "idle"
      BY <2>1, <3>1, ReadyWatched DEF Ready
    <3>2. CASE call = "file"
      BY <2>1, <3>2 DEF Watched
    <3>. QED BY <2>1, <3>1, <3>2
  <2>. QED BY <1>1, <2>3, <2>4, <2>5
<1>. QED BY <1>1, <1>2 DEF Watched

\* What formatting leaves is no table, so that the driver never has it.
LEMMA FatIsNoJunk ==
  ASSUME Consistent, ~ torn, call # "off"
  PROVE  fat # Junk
BY JunkAssumption DEF Consistent, Volume

\* While it is there, no call has written anything but data.
LEMMA JunkStays ==
  ASSUME Consistent, ~ torn, WriteCluster, call \in {"file", "folder", "delete"},
         platterFat' = Junk
  PROVE  platterFat = Junk /\ Unwritten(FAT_CLUSTER_NUMBER) /\ pending[1] # FAT_CLUSTER_NUMBER
<1>1. PICK c \in Clusters :
        /\ pending[1] = c
        /\ platterFat' = IF c = FAT_CLUSTER_NUMBER THEN FatToWrite ELSE platterFat
  BY ClusterWritten
<1>2. fat # Junk
  BY FatIsNoJunk
<1>3. c # FAT_CLUSTER_NUMBER
  BY <1>1, <1>2 DEF FatToWrite
<1>4. platterFat = Junk
  BY <1>1, <1>3
<1>5. Unwritten(FAT_CLUSTER_NUMBER)
  BY <1>2, <1>4 DEF Consistent, Flushed
<1>. QED BY <1>1, <1>3, <1>4, <1>5

LEMMA FormatWatchedOn ==
  ASSUME Consistent, Watched, WriteCluster, call = "format"
  PROVE  Watched'
<1>1. PICK c \in Clusters :
        /\ pending[1] = c
        /\ platter' = IF c = FAT_CLUSTER_NUMBER
                        THEN platter ELSE [platter EXCEPT ![c] = disk[c]]
        /\ call' = IF Len(pending) = 1 THEN "idle" ELSE call
        /\ UNCHANGED <<disk, dirs, torn>>
  BY ClusterWritten
<1>2. pending \in {FormatWrites, Tail(FormatWrites), <<RootCluster>>}
  BY DEF Consistent, Flushed
<1>3. /\ Bare(platter[RootCluster]) /\ disk[RootCluster] = RootTable
      /\ platter \in [Clusters -> Table] /\ RootCluster \in Clusters
  BY ClusterMapAssumption DEF Watched, Consistent, Flushed, Clusters, RootCluster, FirstCluster
<1>4. CASE Len(pending) # 1
  <2>1. c \in {BOOT_SECTOR, FAT_CLUSTER_NUMBER}
    BY <1>1, <1>2, <1>4 DEF FormatWrites
  <2>2. platter'[RootCluster] = platter[RootCluster]
    BY <1>1, <1>3, <2>1 DEF RootCluster, BOOT_SECTOR, FAT_CLUSTER_NUMBER
  <2>. QED BY <1>1, <1>3, <1>4, <2>2 DEF Watched
<1>5. CASE Len(pending) = 1
  <2>1. c = RootCluster
    BY <1>1, <1>2, <1>5 DEF FormatWrites
  <2>2. platter'[RootCluster] = RootTable
    BY <1>1, <1>3, <2>1 DEF RootCluster, FAT_CLUSTER_NUMBER
  <2>3. Bare(platter'[RootCluster])
    BY <2>2, SlotNumbers DEF RootTable, BlankTable, Bare
  <2>. QED BY <1>1, <1>5, <2>3 DEF Watched
<1>. QED BY <1>4, <1>5

LEMMA FileWatchedOn ==
  ASSUME Consistent, Watched, WriteCluster, call = "file"
  PROVE  Watched'
<1>1. PICK c \in Clusters :
        /\ Len(pending) \in Nat \ {0} /\ pending[1] = c
        /\ platter' = IF c = FAT_CLUSTER_NUMBER
                        THEN platter ELSE [platter EXCEPT ![c] = disk[c]]
        /\ call' = IF Len(pending) = 1 THEN "idle" ELSE call
        /\ UNCHANGED <<disk, dirs, torn>>
  BY ClusterWritten
<1>2. /\ ~ torn /\ Barren(disk, dirs) /\ Barren(platter, dirs) /\ FilePending
      /\ platterFat = Junk => Bare(platter[RootCluster])
      /\ platter \in [Clusters -> Table]
  BY DEF Consistent, Flushed, Watched
<1>3. Barren(platter', dirs')
  <2>. SUFFICES ASSUME NEW x \in Clusters \ dirs, NEW s \in ChildSlots
                PROVE  NoFolderInData => platter'[x][s].attr # "dir"
    BY <1>1 DEF Barren, Childless, NoFolderInData
  <2>1. platter'[x] = platter[x] \/ platter'[x] = disk[x]
    BY <1>1, <1>2
  <2>. QED BY <1>2, <2>1 DEF Barren, Childless
<1>4. ASSUME platterFat' = Junk
      PROVE  Bare(platter'[RootCluster])
  <2>1. platterFat = Junk /\ Unwritten(FAT_CLUSTER_NUMBER) /\ c # FAT_CLUSTER_NUMBER
    BY <1>1, <1>2, <1>4, JunkStays
  <2>2. Len(pending) > 2
    <3>1. CASE Len(pending) = 1
      <4>1. Unwritten(FAT_CLUSTER_NUMBER) => pending[1] = FAT_CLUSTER_NUMBER
        BY <3>1 DEF Unwritten
      <4>. QED BY <1>1, <2>1, <4>1
    <3>2. CASE Len(pending) = 2
      BY <1>1, <1>2, <2>1, <3>2 DEF FilePending
    <3>3. PICK n \in Nat \ {0} : n = Len(pending)
      BY <1>1
    <3>4. n # 1 /\ n # 2
      BY <3>1, <3>2, <3>3
    <3>. QED BY <3>3, <3>4
  <2>3. c \in DataClusters
    <3>1. 1 \in 1 .. Len(pending) - 2
      BY <1>1, <2>2
    <3>. QED BY <1>1, <1>2, <3>1 DEF FilePending
  <2>4. c # RootCluster
    BY <2>3 DEF DataClusters, FirstCluster, RootCluster
  <2>5. platter'[RootCluster] = platter[RootCluster]
    BY <1>1, <1>2, <2>4
  <2>. QED BY <1>2, <2>1, <2>5
<1>. QED BY <1>1, <1>2, <1>3, <1>4 DEF Watched

LEMMA FolderWatchedOn ==
  ASSUME Consistent, Watched, WriteCluster, call = "folder"
  PROVE  Watched'
<1>1. PICK c \in Clusters :
        /\ Len(pending) \in Nat \ {0} /\ pending[1] = c
        /\ Len(pending') = Len(pending) - 1
        /\ \A i \in 1 .. Len(pending) - 1 : pending'[i] = pending[i + 1]
        /\ platter' = IF c = FAT_CLUSTER_NUMBER
                        THEN platter ELSE [platter EXCEPT ![c] = disk[c]]
        /\ call' = IF Len(pending) = 1 THEN "idle" ELSE call
        /\ UNCHANGED <<disk, dirs, torn>>
  BY ClusterWritten
<1>2. /\ ~ torn /\ Barren(disk, dirs) /\ FolderPending /\ Volume(fat, disk, dirs)
      /\ platter \in [Clusters -> Table] /\ disk \in [Clusters -> Table]
  BY DEF Consistent, Flushed, Watched
<1>3. PICK p \in dirs, g \in dirs :
        /\ p # g /\ g \in DataClusters
        /\ Len(pending) \in 1 .. 3 /\ pending[Len(pending)] = g
        /\ Len(pending) > 1 => pending[Len(pending) - 1] = p
        /\ Len(pending) > 2 => pending[1] = FAT_CLUSTER_NUMBER
        /\ \A s \in ChildSlots : platter[p][s].name # NoName => platter[p][s] = disk[p][s]
        /\ Bare(disk[g])
        /\ Childless(platter[g])
        /\ Len(pending) > 1 => Tree(platter, dirs \ {g})
  BY <1>2 DEF FolderPending, FolderOwed
<1>4. FAT_CLUSTER_NUMBER \notin dirs /\ dirs \in SUBSET Clusters
  BY <1>2, DirsAreParents DEF Volume
<1>5. platterFat' # Junk
  <2>. SUFFICES ASSUME platterFat' = Junk PROVE FALSE
    OBVIOUS
  <2>1. Unwritten(FAT_CLUSTER_NUMBER) /\ pending[1] # FAT_CLUSTER_NUMBER
    BY <1>2, JunkStays
  <2>2. PICK i \in 1 .. Len(pending) : pending[i] = FAT_CLUSTER_NUMBER
    BY <2>1 DEF Unwritten
  <2>3. i # Len(pending) /\ i # Len(pending) - 1
    BY <1>3, <1>4, <2>2
  <2>. QED BY <1>3, <2>1, <2>2, <2>3
<1>6. ASSUME Len(pending) > 1
      PROVE  FolderPending'
  <2>1. /\ Len(pending') \in 1 .. 2 /\ pending'[Len(pending')] = g
        /\ Len(pending') > 1 => pending'[Len(pending') - 1] = p
    <3>1. Len(pending) - 1 \in 1 .. Len(pending) - 1 /\ (Len(pending) - 1) + 1 = Len(pending)
      BY <1>3, <1>6
    <3>2. Len(pending) > 2 => /\ Len(pending) - 2 \in 1 .. Len(pending) - 1
                              /\ (Len(pending) - 2) + 1 = Len(pending) - 1
      BY <1>3
    <3>. QED BY <1>1, <1>3, <1>6, <3>1, <3>2
  <2>2. platter'[g] = platter[g]
    <3>1. c # g
      BY <1>1, <1>3, <1>4, <1>6
    <3>. QED BY <1>1, <1>2, <1>4, <3>1
  <2>3. platter'[p] \in {platter[p], disk[p]}
    BY <1>1, <1>2, <1>4
  <2>4. ASSUME Len(pending') > 1
        PROVE  platter' = platter
    BY <1>1, <1>3, <2>4
  <2>5. ASSUME Len(pending') > 1
        PROVE  Tree(platter', dirs' \ {g})
    <3>1. platter' = platter /\ dirs' = dirs
      BY <1>1, <2>4, <2>5
    <3>2. Tree(platter, dirs \ {g})
      BY <1>3, <1>6
    <3>. QED BY <3>1, <3>2
  <2>6. p \in dirs' /\ g \in dirs' /\ Len(pending') \in 1 .. 3 /\ ~ (Len(pending') > 2)
        /\ Len(pending') # 3
    <3>1. dirs' = dirs
      BY <1>1
    <3>2. \A n \in 1 .. 2 : n \in 1 .. 3 /\ ~ (n > 2) /\ n # 3
      OBVIOUS
    <3>. QED BY <2>1, <3>1, <3>2
  <2>7. \A s \in ChildSlots : platter'[p][s].name # NoName => platter'[p][s] = disk'[p][s]
    BY <1>1, <1>3, <2>3
  <2>8. Bare(disk'[g]) /\ Childless(platter'[g])
    BY <1>1, <1>3, <2>2
  <2>9. FolderOwed(p, g)'
    BY <1>3, <2>1, <2>5, <2>6, <2>7, <2>8 DEF FolderOwed
  <2>. QED BY <2>6, <2>9 DEF FolderPending
<1>. QED BY <1>1, <1>2, <1>5, <1>6 DEF Watched

LEMMA DeleteWatchedOn ==
  ASSUME Consistent, Watched, WriteCluster, call = "delete"
  PROVE  Watched'
<1>1. PICK c \in Clusters :
        /\ Len(pending) \in Nat \ {0} /\ pending[1] = c
        /\ pending' = Tail(pending)
        /\ platter' = IF c = FAT_CLUSTER_NUMBER
                        THEN platter ELSE [platter EXCEPT ![c] = disk[c]]
        /\ call' = IF Len(pending) = 1 THEN "idle" ELSE call
        /\ UNCHANGED <<disk, dirs, torn>>
  BY ClusterWritten DEF WriteCluster
<1>2. /\ ~ torn /\ Barren(disk, dirs) /\ DeletePending /\ Volume(fat, disk, dirs)
  BY DEF Consistent, Watched
<1>3. PICK p \in dirs, ds \in SUBSET Clusters, s \in ChildSlots :
        /\ pending \in {<<FAT_CLUSTER_NUMBER, p>>, <<p>>}
        /\ disk[p] = [platter[p] EXCEPT ![s] = BlankEntry]
        /\ dirs \subseteq ds /\ Tree(platter, ds)
        /\ \A d \in ds \ dirs, r \in ChildSlots : platter[d][r].name = NoName
  BY <1>2 DEF DeletePending
<1>4. FAT_CLUSTER_NUMBER \notin dirs
  BY <1>2, DirsAreParents
<1>5. platterFat' # Junk
  <2>. SUFFICES ASSUME platterFat' = Junk PROVE FALSE
    OBVIOUS
  <2>1. Unwritten(FAT_CLUSTER_NUMBER) /\ pending[1] # FAT_CLUSTER_NUMBER
    BY <1>2, JunkStays
  <2>2. PICK i \in 1 .. Len(pending) : pending[i] = FAT_CLUSTER_NUMBER
    BY <2>1 DEF Unwritten
  <2>3. pending # <<FAT_CLUSTER_NUMBER, p>>
    BY <2>1
  <2>4. pending = <<p>>
    BY <1>3, <2>3
  <2>5. pending[i] = p
    <3>1. Len(pending) = 1 /\ pending[1] = p
      BY <2>4
    <3>. QED BY <2>2, <3>1
  <2>. QED BY <1>4, <2>2, <2>5
<1>6. ASSUME Len(pending) # 1
      PROVE  DeletePending'
  <2>1. pending = <<FAT_CLUSTER_NUMBER, p>>
    BY <1>3, <1>6
  <2>2. c = FAT_CLUSTER_NUMBER /\ pending' = <<p>> /\ platter' = platter
    BY <1>1, <2>1
  <2>3. Len(pending') # 2
    BY <2>2
  <2>4. pending' \in {<<FAT_CLUSTER_NUMBER, p>>, <<p>>}
    BY <2>2
  <2>5. /\ p \in dirs' /\ disk'[p] = [platter'[p] EXCEPT ![s] = BlankEntry]
        /\ dirs' \subseteq ds /\ Tree(platter', ds)
        /\ \A d \in ds \ dirs', r \in ChildSlots : platter'[d][r].name = NoName
    BY <1>1, <1>3, <2>2
  <2>. QED BY <2>3, <2>4, <2>5 DEF DeletePending
<1>. QED BY <1>1, <1>2, <1>5, <1>6 DEF Watched

(***************************************************************************)
(* The invariant of the properties that are about steps.                   *)
(***************************************************************************)
Guarded == Consistent /\ Watched

LEMMA GuardedStep ==
  ASSUME Misuse \subseteq CarefulKinds
  PROVE  Guarded /\ [DiskNext]_<<vars, diskVars>> => Guarded'
<1>. SUFFICES ASSUME Consistent, Watched, [DiskNext]_<<vars, diskVars>>
              PROVE  Watched'
  BY ConsistentStep DEF Guarded
<1>1. CASE Format
  BY <1>1, FormatWatched
<1>2. CASE Mount
  BY <1>2, MountWatched
<1>3. ASSUME NEW p \in dirs, NEW name \in Names, NEW ext \in Exts,
             \/ \E size \in FileSizes, d \in Datas : StartFile(p, name, ext, size, d)
             \/ StartFolder(p, name, ext)
             \/ StartDelete(p, name, ext)
      PROVE  Watched'
  BY <1>3, FileWatched, FolderWatched, DeleteWatched
<1>4. CASE WriteCluster
  <2>1. call \in {"format", "file", "folder", "delete"}
    BY <1>4 DEF Consistent, Flushed, WriteCluster
  <2>. QED BY <1>4, <2>1, FormatWatchedOn, FileWatchedOn, FolderWatchedOn, DeleteWatchedOn
<1>5. CASE PowerLoss
  BY <1>5, PowerLossWatched
<1>6. CASE UNCHANGED <<vars, diskVars>>
  <2>1. UNCHANGED <<fat, disk, dirs, ret, overrun>>
        /\ UNCHANGED <<signed, platterFat, platter, pending, call, torn>>
    BY <1>6 DEF vars, diskVars
  <2>2. OnDisk' = OnDisk
    BY <2>1 DEF OnDisk, Found
  <2>3. Formatted' = Formatted
    BY <2>1 DEF Formatted
  <2>4. FolderPending' = FolderPending
    BY <2>1, <2>3 DEF FolderPending, FolderOwed
  <2>5. DeletePending' = DeletePending
    BY <2>1, <2>3 DEF DeletePending
  <2>. QED BY <2>1, <2>2, <2>3, <2>4, <2>5 DEF Watched
<1>. QED BY <1>1, <1>2, <1>3, <1>4, <1>5, <1>6 DEF DiskNext

LEMMA InitGuarded == DiskInit => Guarded
BY InitConsistent DEF DiskInit, Guarded, Watched, Formatted

(***************************************************************************)
(* What a cluster write leaves as it was.                                  *)
(***************************************************************************)
\* An entry shows the same wherever the clusters that are linked on from are
\* the same.
LEMMA LiveShown ==
  ASSUME NEW f, NEW dk, NEW ds, Volume(f, dk, ds),
         NEW dk2, \A c \in DataClusters : f[c] \in DataClusters => dk2[c] = dk[c],
         NEW e \in Used(dk, ds), Same(dk2[e[1]][e[2]], dk[e[1]][e[2]])
  PROVE  /\ Shown(f, dk2, e) = Shown(f, dk, e)
         /\ dk[e[1]][e[2]].attr = "file" => FileAt(f, dk2, Lead(dk, e), dk[e[1]][e[2]].size)
<1>1. ASSUME dk[e[1]][e[2]].attr = "file"
      PROVE  /\ FileAt(f, dk, Lead(dk, e), dk[e[1]][e[2]].size)
             /\ FileAt(f, dk2, Lead(dk, e), dk[e[1]][e[2]].size)
             /\ dk2[Lead(dk, e)] = dk[Lead(dk, e)]
  <2>1. PICK n : n = dk[e[1]][e[2]].size
    OBVIOUS
  <2>2. FileAt(f, dk, Lead(dk, e), n)
    BY <1>1, <2>1 DEF Volume, Whole
  <2>3. FileAt(f, dk2, Lead(dk, e), n)
    BY <2>2, ContentKept
  <2>4. e[1] \in ds /\ e[2] \in ChildSlots
    BY DEF Used
  <2>5. Lead(dk, e) \in DataClusters /\ f[Lead(dk, e)] \in DataClusters
    BY <1>1, <2>4, FileOf DEF Lead
  <2>. QED BY <2>1, <2>2, <2>3, <2>5
<1>2. Shown(f, dk2, e) = Shown(f, dk, e)
  BY <1>1, ShownKept
<1>. QED BY <1>1, <1>2

\* Under another table, too, if that is the table of a volume with the entry.
LEMMA SwappedShown ==
  ASSUME NEW f, NEW dk, NEW ds, Volume(f, dk, ds),
         NEW g, NEW dk2, NEW ds2, Volume(g, dk2, ds2),
         \A c \in DataClusters : g[c] \in DataClusters => dk[c] = dk2[c],
         NEW e \in Used(dk, ds), e \in Used(dk2, ds2),
         Same(dk[e[1]][e[2]], dk2[e[1]][e[2]])
  PROVE  Shown(g, dk, e) = Shown(f, dk, e)
<1>1. ASSUME dk[e[1]][e[2]].attr = "file"
      PROVE  /\ FileAt(f, dk, Lead(dk, e), dk[e[1]][e[2]].size)
             /\ FileAt(g, dk, Lead(dk, e), dk[e[1]][e[2]].size)
  <2>1. PICK n : n = dk[e[1]][e[2]].size
    OBVIOUS
  <2>2. FileAt(f, dk, Lead(dk, e), n)
    BY <1>1, <2>1 DEF Volume, Whole
  <2>3. dk2[e[1]][e[2]].attr = "file" /\ dk2[e[1]][e[2]].size = n /\ Lead(dk2, e) = Lead(dk, e)
    BY <1>1, <2>1 DEF Same, Lead
  <2>4. dk2[e[1]][e[2]].attr = "file" => FileAt(g, dk, Lead(dk2, e), dk2[e[1]][e[2]].size)
    BY LiveShown
  <2>5. FileAt(g, dk, Lead(dk, e), n)
    BY <2>3, <2>4
  <2>. QED BY <2>1, <2>2, <2>5
<1>2. Same(dk[e[1]][e[2]], dk[e[1]][e[2]])
  BY DEF Same
<1>. QED BY <1>1, <1>2, ShownKept

\* When only tables are left to write, the data are on the disk.
LEMMA DataWritten ==
  ASSUME Consistent, ~ torn, call \in {"file", "folder", "delete"},
         \A i \in 1 .. Len(pending) : pending[i] \in dirs \cup {FAT_CLUSTER_NUMBER}
  PROVE  \A c \in DataClusters : fat[c] \in DataClusters => platter[c] = disk[c]
<1>. SUFFICES ASSUME NEW c \in DataClusters, fat[c] \in DataClusters
              PROVE  platter[c] = disk[c]
  OBVIOUS
<1>1. c \in Clusters /\ c # FAT_CLUSTER_NUMBER /\ EOF \notin DataClusters
  BY ClusterMapAssumption DEF DataClusters, Clusters, FirstCluster, FAT_CLUSTER_NUMBER, EOF
<1>2. c \notin dirs
  BY <1>1 DEF Consistent, Volume
<1>3. ~ Unwritten(c)
  BY <1>1, <1>2 DEF Unwritten
<1>. QED BY <1>1, <1>3 DEF Consistent, Flushed

\* The last write of a call.
LEMMA LastWrite ==
  ASSUME Consistent, ~ torn, WriteCluster, call \in {"file", "folder", "delete"},
         Len(pending) = 1, pending[1] \in dirs
  PROVE  /\ platterFat = fat /\ platterFat' = fat /\ platter' = disk
         /\ \A c \in Clusters : c # pending[1] => platter[c] = disk[c]
         /\ OnDisk' = dirs
<1>1. PICK c \in Clusters :
        /\ pending[1] = c
        /\ Len(pending') = Len(pending) - 1
        /\ platterFat' = IF c = FAT_CLUSTER_NUMBER THEN FatToWrite ELSE platterFat
        /\ platter' = IF c = FAT_CLUSTER_NUMBER
                        THEN platter ELSE [platter EXCEPT ![c] = disk[c]]
  BY ClusterWritten
<1>2. /\ Volume(fat, disk, dirs) /\ BOOT_SECTOR \notin dirs /\ FAT_CLUSTER_NUMBER \notin dirs
      /\ platter \in [Clusters -> Table] /\ disk \in [Clusters -> Table]
  BY DirsAreParents DEF Consistent, Flushed
<1>3. \A x : Unwritten(x) => x = c
  BY <1>1 DEF Unwritten
<1>4. platterFat = fat
  BY <1>1, <1>2, <1>3 DEF Consistent, Flushed
<1>5. \A x \in Clusters : x # c => platter[x] = disk[x]
  BY <1>3 DEF Consistent, Flushed
<1>6. platter' = disk
  BY <1>1, <1>2, <1>5
<1>7. OnDisk' = dirs
  <2>1. (\A ds \in SUBSET Clusters : Tree(platter, ds) => OnDisk = ds)'
    BY FoundAll, PTL
  <2>2. dirs \in SUBSET Clusters /\ Tree(platter', dirs)
    BY <1>2, <1>6 DEF Volume
  <2>. QED BY <2>1, <2>2
<1>. QED BY <1>1, <1>2, <1>4, <1>5, <1>6, <1>7

\* What was visible and is, after a cluster write.
Undisturbed(e) ==
  /\ e \in Used(platter', OnDisk')
  /\ Shown(platterFat', platter', e) = Shown(platterFat, platter, e)

LEMMA FileKeepsAll ==
  ASSUME Guarded, WriteCluster, call = "file", Len(pending) # 1
  PROVE  /\ Used(platter', OnDisk') = Used(platter, OnDisk)
         /\ \A e \in Used(platter, OnDisk) : Undisturbed(e)
<1>1. PICK c \in Clusters :
        /\ Len(pending) \in Nat \ {0} /\ pending[1] = c
        /\ signed' = IF c = BOOT_SECTOR THEN call = "format" ELSE signed
        /\ platterFat' = IF c = FAT_CLUSTER_NUMBER THEN FatToWrite ELSE platterFat
        /\ platter' = IF c = FAT_CLUSTER_NUMBER
                        THEN platter ELSE [platter EXCEPT ![c] = disk[c]]
        /\ fat' = fat /\ disk' = disk /\ dirs' = dirs
  BY ClusterWritten DEF Guarded
<1>2. /\ Consistent /\ ~ torn /\ signed /\ FilePending /\ Volume(fat, disk, dirs)
      /\ platterFat = Junk => Bare(platter[RootCluster])
      /\ platter \in [Clusters -> Table] /\ disk \in [Clusters -> Table]
  BY DEF Guarded, Consistent, Flushed, Unsigned, Watched
<1>3. PICK n \in Nat : n = Len(pending) /\ n > 1
  <2>. PICK k : k = Len(pending)
    OBVIOUS
  <2>1. k \in Nat \ {0} /\ k # 1
    BY <1>1
  <2>2. k \in Nat /\ k > 1
    BY <2>1
  <2>. QED BY <2>2
<1>4. n = 2 => c = FAT_CLUSTER_NUMBER
  BY <1>1, <1>2, <1>3 DEF FilePending
<1>5. n # 2 => c \in DataClusters /\ (Formatted => platterFat[c] = EMPTY)
  <2>. SUFFICES ASSUME n # 2 PROVE c \in DataClusters /\ (Formatted => platterFat[c] = EMPTY)
    OBVIOUS
  <2>1. 1 \in 1 .. n - 2
    BY <1>3
  <2>. QED BY <1>1, <1>2, <1>3, <2>1 DEF FilePending
<1>6. BOOT_SECTOR \notin DataClusters /\ FAT_CLUSTER_NUMBER \notin DataClusters
      /\ RootCluster \notin DataClusters /\ RootCluster \in Clusters /\ EMPTY # EOF
      /\ EMPTY \notin DataClusters
  BY ClusterMapAssumption DEF DataClusters, Clusters, FirstCluster, BOOT_SECTOR,
     FAT_CLUSTER_NUMBER, RootCluster, EMPTY, EOF
<1>7. CASE platterFat = Junk
  <2>1. platter'[RootCluster] = platter[RootCluster]
    BY <1>1, <1>2, <1>4, <1>5, <1>6
  <2>2. Used(platter, OnDisk) = {}
    BY <1>2, <1>7, NothingVisible
  <2>3. (Bare(platter[RootCluster]) => Used(platter, OnDisk) = {})'
    BY NothingVisible, PTL
  <2>4. Used(platter', OnDisk') = {}
    BY <1>2, <1>7, <2>1, <2>3
  <2>. QED BY <2>2, <2>4
<1>8. CASE platterFat # Junk
  <2>1. Formatted /\ Volume(platterFat, platter, dirs) /\ OnDisk = dirs
    <3>1. Formatted
      BY <1>2, <1>8 DEF Formatted
    <3>. QED BY <1>2, <3>1, SafeVolume, FoundTree
  <2>2. Formatted'
    <3>1. fat # Junk
      BY <1>2, FatIsNoJunk
    <3>2. c # BOOT_SECTOR
      BY <1>4, <1>5, <1>6 DEF BOOT_SECTOR, FAT_CLUSTER_NUMBER
    <3>. QED BY <1>1, <1>2, <1>8, <3>1, <3>2 DEF Formatted, FatToWrite
  <2>3. Volume(platterFat', platter', dirs)
    <3>1. Volume(platterFat', platter', dirs')
      BY <1>2, <2>2, FileWritten
    <3>. QED BY <1>1, <3>1
  <2>4. OnDisk' = dirs
    <3>1. (\A ds \in SUBSET Clusters : Tree(platter, ds) => OnDisk = ds)'
      BY FoundAll, PTL
    <3>. QED BY <2>3, <3>1 DEF Volume
  <2>5. \A d \in dirs : platter'[d] = platter[d]
    BY <1>1, <1>2, <1>4, <1>5, <1>6, <2>1 DEF Volume
  <2>6. Used(platter', dirs) = Used(platter, dirs)
    BY <2>5 DEF Used
  <2>7. ASSUME NEW e \in Used(platter, dirs)
        PROVE  Shown(platterFat', platter', e) = Shown(platterFat, platter, e)
    <3>0. e[1] \in dirs
      BY DEF Used
    <3>1. Same(platter'[e[1]][e[2]], platter[e[1]][e[2]])
      BY <2>5, <3>0 DEF Same
    <3>2. CASE n = 2
      <4>1. platter' = platter
        BY <1>1, <1>4, <3>2
      <4>2. PICK g : g = platterFat'
        OBVIOUS
      <4>3. Volume(g, platter, dirs) /\ Same(platter[e[1]][e[2]], platter[e[1]][e[2]])
        BY <2>3, <4>1, <4>2 DEF Same
      <4>4. Shown(g, platter, e) = Shown(platterFat, platter, e)
        BY <2>1, <4>3, SwappedShown
      <4>. QED BY <4>1, <4>2, <4>4
    <3>3. CASE n # 2
      <4>1. platterFat' = platterFat
        BY <1>1, <1>5, <1>6, <3>3
      <4>2. PICK dk2 : dk2 = platter'
        OBVIOUS
      <4>3. \A x \in Clusters : x # c => dk2[x] = platter[x]
        BY <1>1, <1>2, <4>2
      <4>4. \A x \in DataClusters : platterFat[x] \in DataClusters => dk2[x] = platter[x]
        BY <1>5, <1>6, <2>1, <3>3, <4>3, ClusterMapAssumption
        DEF DataClusters, Clusters, FirstCluster
      <4>5. Shown(platterFat, dk2, e) = Shown(platterFat, platter, e)
        BY <2>1, <3>1, <4>2, <4>4, LiveShown
      <4>. QED BY <4>1, <4>2, <4>5
    <3>. QED BY <3>2, <3>3
  <2>. QED BY <2>1, <2>4, <2>6, <2>7 DEF Undisturbed
<1>. QED BY <1>7, <1>8

\* A file appears on the disk in one write, the last of the call that makes it,
\* whatever else is on the disk.
THEOREM CarefulAppearsAtOnce ==
  ASSUME Misuse \subseteq CarefulKinds
  PROVE  DiskSpec => FileAppearsAtOnce
<1>1. ASSUME Guarded, [DiskNext]_<<vars, diskVars>>, call = "file", Len(pending) # 1
      PROVE  Visible' = Visible
  <2>1. Visible = [e \in Used(platter, OnDisk) |-> Shown(platterFat, platter, e)]
    BY VisibleIs
  <2>2. Visible' = [e \in Used(platter', OnDisk') |-> Shown(platterFat', platter', e)]
    <3>1. (Visible = [e \in Used(platter, OnDisk) |-> Shown(platterFat, platter, e)])'
      BY VisibleIs, PTL
    <3>. QED BY <3>1
  <2>3. CASE WriteCluster
    <3>1. /\ Used(platter', OnDisk') = Used(platter, OnDisk)
          /\ \A e \in Used(platter, OnDisk) :
               Shown(platterFat', platter', e) = Shown(platterFat, platter, e)
      BY <1>1, <2>3, FileKeepsAll DEF Undisturbed
    <3>. QED BY <2>1, <2>2, <3>1
  <2>4. CASE UNCHANGED <<platterFat, platter>>
    <3>1. OnDisk' = OnDisk
      BY <2>4 DEF OnDisk, Found
    <3>. QED BY <2>1, <2>2, <2>4, <3>1
  <2>5. WriteCluster \/ UNCHANGED <<platterFat, platter>>
    BY <1>1 DEF DiskNext, Format, Mount, StartFile, StartFolder, StartDelete, PowerLoss,
                vars, diskVars
  <2>. QED BY <2>3, <2>4, <2>5
<1>2. Guarded /\ [DiskNext]_<<vars, diskVars>>
        => [(call = "file" /\ Visible' # Visible) => Len(pending) = 1]_<<vars, diskVars>>
  BY <1>1
<1>. QED BY <1>2, InitGuarded, GuardedStep, PTL DEF DiskSpec, FileAppearsAtOnce

\* The disk when all but a new directory's own table is written.
LEMMA FolderTree ==
  ASSUME NEW pl, NEW dk, NEW g, Tree(dk, dirs), Bare(dk[g]),
         \A d \in dirs : d # g => pl[d] = dk[d],
         \A s \in ChildSlots : pl[g][s].attr # "dir"
  PROVE  Tree(pl, dirs)
<1>1. ASSUME NEW d \in dirs, NEW s \in ChildSlots
      PROVE  /\ pl[d][s].attr = "dir" <=> dk[d][s].attr = "dir"
             /\ dk[d][s].attr = "dir" => pl[d][s].cluster = dk[d][s].cluster
  <2>1. CASE d = g
    <3>1. dk[d][s].attr = "none"
      BY <2>1 DEF Bare, BlankEntry
    <3>. QED BY <2>1, <3>1
  <2>2. CASE d # g
    BY <2>2
  <2>. QED BY <2>1, <2>2
<1>. QED BY <1>1, TreeKept

LEMMA FileKeepsLast ==
  ASSUME Guarded, WriteCluster, call = "file", Len(pending) = 1,
         NEW e \in Used(platter, OnDisk)
  PROVE  Undisturbed(e)
<1>1. /\ Consistent /\ ~ torn /\ signed /\ FilePending /\ Volume(fat, disk, dirs)
  BY DEF Guarded, Consistent, Unsigned
<1>2. PICK p \in dirs : p = pending[1] /\ Before(platter[p], disk[p])
  BY <1>1 DEF FilePending
<1>3. /\ platterFat = fat /\ platterFat' = fat /\ platter' = disk
      /\ \A c \in Clusters : c # p => platter[c] = disk[c]
      /\ OnDisk' = dirs
  BY <1>1, <1>2, LastWrite
<1>4. fat # Junk
  BY <1>1, FatIsNoJunk
<1>5. OnDisk = dirs
  BY <1>1, <1>3, <1>4, SafeVolume, FoundTree DEF Formatted
<1>6. e[1] \in dirs /\ e[2] \in ChildSlots /\ platter[e[1]][e[2]].name # NoName
  BY <1>5 DEF Used
<1>7. Same(platter[e[1]][e[2]], disk[e[1]][e[2]])
  <2>1. CASE e[1] = p
    BY <1>2, <1>6, <2>1 DEF Before
  <2>2. CASE e[1] # p
    BY <1>1, <1>3, <1>6, <2>2 DEF Same, Volume
  <2>. QED BY <2>1, <2>2
<1>8. e \in Used(disk, dirs)
  BY <1>5, <1>6, <1>7 DEF Used, Same
<1>9. \A c \in DataClusters : fat[c] \in DataClusters => platter[c] = disk[c]
  BY <1>1, <1>2, DataWritten
<1>10. Shown(fat, platter, e) = Shown(fat, disk, e)
  BY <1>1, <1>7, <1>8, <1>9, LiveShown
<1>. QED BY <1>3, <1>8, <1>10 DEF Undisturbed

\* The allocation table is written: what was visible and is not removed has an
\* entry in the driver's tables, and shows the same under the driver's table.
LEMMA TableKeeps ==
  ASSUME Guarded, WriteCluster, call \in {"folder", "delete"},
         pending[1] = FAT_CLUSTER_NUMBER,
         \A i \in 1 .. Len(pending) : pending[i] \in dirs \cup {FAT_CLUSTER_NUMBER},
         NEW ds, Volume(platterFat, platter, ds),
         NEW e \in Used(platter, ds), e \in Used(disk, dirs),
         Same(platter[e[1]][e[2]], disk[e[1]][e[2]])
  PROVE  Undisturbed(e)
<1>1. Consistent /\ ~ torn /\ Volume(fat, disk, dirs)
  BY DEF Guarded, Consistent
<1>2. platterFat' = fat /\ platter' = platter
  BY <1>1, ClusterWritten DEF FatToWrite
<1>3. OnDisk = ds
  BY FoundTree
<1>4. OnDisk' = OnDisk
  BY <1>2 DEF OnDisk, Found
<1>5. \A c \in DataClusters : fat[c] \in DataClusters => platter[c] = disk[c]
  BY <1>1, DataWritten
<1>6. Shown(fat, platter, e) = Shown(platterFat, platter, e)
  BY <1>1, <1>5, SwappedShown
<1>. QED BY <1>2, <1>3, <1>4, <1>6 DEF Undisturbed

\* Whatever the cluster of a new directory seems to hold, the root is found.
LEMMA FolderKeeps ==
  ASSUME NEW e \in Used(platter, OnDisk), NoFolderInData \/ e[1] = RootCluster,
         ~ Concerned(e), Guarded, WriteCluster, call = "folder"
  PROVE  Undisturbed(e)
<1>1. /\ Consistent /\ ~ torn /\ signed /\ FolderPending /\ Volume(fat, disk, dirs)
      /\ platterFat = Junk => Bare(platter[RootCluster])
      /\ platter \in [Clusters -> Table] /\ disk \in [Clusters -> Table]
      /\ dirs \in SUBSET Clusters
  BY DEF Guarded, Consistent, Flushed, Unsigned, Watched, Volume
<1>2. PICK p \in dirs, g \in dirs, n \in 1 .. 3 : FolderOwed(p, g) /\ n = Len(pending)
  BY <1>1 DEF FolderPending, FolderOwed
<1>3. /\ p # g /\ g \in DataClusters
      /\ pending[n] = g
      /\ n > 1 => pending[n - 1] = p
      /\ n > 2 => pending[1] = FAT_CLUSTER_NUMBER
      /\ \A s \in ChildSlots : platter[p][s].name # NoName => platter[p][s] = disk[p][s]
      /\ Bare(disk[g])
      /\ Childless(platter[g])
      /\ n > 1 => Tree(platter, dirs \ {g})
      /\ n = 3 /\ Formatted => Volume(platterFat, platter, dirs \ {g})
  BY <1>2 DEF FolderOwed
<1>4. \A i \in 1 .. Len(pending) : pending[i] \in dirs \cup {FAT_CLUSTER_NUMBER}
  <2>. SUFFICES ASSUME NEW i \in 1 .. n PROVE pending[i] \in dirs \cup {FAT_CLUSTER_NUMBER}
    BY <1>2
  <2>1. i = n \/ i = n - 1 \/ (n > 2 /\ i = 1)
    <3>1. n = 1 \/ n = 2 \/ n = 3
      BY <1>2
    <3>. QED BY <3>1
  <2>. QED BY <1>2, <1>3, <2>1
<1>5. \A c \in DataClusters : fat[c] \in DataClusters => platter[c] = disk[c]
  BY <1>1, <1>4, DataWritten
<1>6. /\ BOOT_SECTOR \notin dirs /\ FAT_CLUSTER_NUMBER \notin dirs
      /\ FAT_CLUSTER_NUMBER # BOOT_SECTOR
  BY <1>1, DirsAreParents DEF FAT_CLUSTER_NUMBER, BOOT_SECTOR
\* Another directory's table is on the disk.
<1>7. \A d \in dirs : d # p /\ d # g => platter[d] = disk[d]
  <2>. SUFFICES ASSUME NEW d \in dirs, d # p, d # g PROVE platter[d] = disk[d]
    OBVIOUS
  <2>1. ASSUME NEW i \in 1 .. n
        PROVE  pending[i] # d
    <3>1. n = 1 \/ n = 2 \/ n = 3
      BY <1>2
    <3>2. i = n \/ i = n - 1 \/ (n > 2 /\ i = 1)
      BY <3>1
    <3>. QED BY <1>2, <1>3, <1>6, <3>2
  <2>2. ~ Unwritten(d)
    BY <1>2, <2>1 DEF Unwritten
  <2>. QED BY <1>1, <2>2 DEF Consistent, Flushed
<1>8. ASSUME e[1] \in dirs, e[1] # g, e[2] \in ChildSlots, platter[e[1]][e[2]].name # NoName
      PROVE  /\ platter[e[1]][e[2]] = disk[e[1]][e[2]]
             /\ Same(platter[e[1]][e[2]], disk[e[1]][e[2]])
             /\ e \in dirs \X ChildSlots => e \in Used(disk, dirs)
  <2>1. platter[e[1]][e[2]] = disk[e[1]][e[2]]
    <3>1. CASE e[1] = p
      BY <1>3, <1>8, <3>1
    <3>2. CASE e[1] # p
      BY <1>7, <1>8, <3>2
    <3>. QED BY <3>1, <3>2
  <2>. QED BY <1>8, <2>1 DEF Used, Same
<1>9. dirs \ {g} \in SUBSET Clusters
  BY <1>1
<1>10. CASE n = 3
  <2>1. Formatted
    <3>1. platterFat # Junk
      BY <1>1, NothingVisible
    <3>. QED BY <1>1, <3>1 DEF Formatted
  <2>2. Volume(platterFat, platter, dirs \ {g})
    BY <1>3, <1>10, <2>1
  <2>3. OnDisk = dirs \ {g}
    BY <2>2, FoundTree
  <2>4. e \in Used(platter, dirs \ {g})
    BY <2>3
  <2>5. /\ e[1] \in dirs /\ e[1] # g /\ e[2] \in ChildSlots /\ platter[e[1]][e[2]].name # NoName
        /\ e \in dirs \X ChildSlots
    BY <2>4 DEF Used
  <2>6. e \in Used(disk, dirs) /\ Same(platter[e[1]][e[2]], disk[e[1]][e[2]])
    BY <1>8, <2>5
  <2>7. pending[1] = FAT_CLUSTER_NUMBER
    BY <1>3, <1>10
  <2>. QED BY <1>4, <2>2, <2>4, <2>6, <2>7, TableKeeps
<1>11. CASE n = 2
  <2>1. pending[1] = p /\ pending[2] = g
    BY <1>3, <1>11
  <2>2. ~ Unwritten(FAT_CLUSTER_NUMBER)
    <3>1. \A i \in 1 .. Len(pending) : i = 1 \/ i = 2
      BY <1>2, <1>11
    <3>. QED BY <1>3, <1>6, <2>1, <3>1 DEF Unwritten
  <2>3. platterFat = fat
    BY <1>1, <2>2 DEF Consistent, Flushed
  <2>4. platter' = [platter EXCEPT ![p] = disk[p]] /\ platterFat' = fat
    BY <1>1, <1>6, <2>1, <2>3, ClusterWritten
  <2>5. OnDisk = dirs \ {g}
    BY <1>3, <1>9, <1>11, FoundAll
  <2>6. /\ e[1] \in dirs /\ e[1] # g /\ e[2] \in ChildSlots /\ platter[e[1]][e[2]].name # NoName
        /\ e \in dirs \X ChildSlots
    BY <2>5 DEF Used
  <2>7. e \in Used(disk, dirs) /\ Same(platter[e[1]][e[2]], disk[e[1]][e[2]])
    BY <1>8, <2>6
  <2>8. PICK pl : pl = platter'
    OBVIOUS
  <2>9. pl[p] = disk[p] /\ \A c \in Clusters : c # p => pl[c] = platter[c]
    BY <1>1, <2>4, <2>8
  <2>10. pl[g] = platter[g] /\ \A d \in dirs : d # g => pl[d] = disk[d]
    BY <1>1, <1>3, <1>7, <2>9
  <2>11. ASSUME NoFolderInData
         PROVE  Tree(pl, dirs)
    <3>1. Tree(disk, dirs)
      BY <1>1 DEF Volume
    <3>2. Bare(disk[g]) /\ \A s \in ChildSlots : pl[g][s].attr # "dir"
      BY <1>3, <2>10, <2>11 DEF Childless
    <3>3. \A d \in dirs : d # g => pl[d] = disk[d]
      BY <2>10
    <3>. QED BY <3>1, <3>2, <3>3, FolderTree
  <2>12. e[1] \in OnDisk'
    <3>1. CASE NoFolderInData
      <4>1. (\A ds \in SUBSET Clusters : Tree(platter, ds) => OnDisk = ds)'
        BY FoundAll, PTL
      <4>2. OnDisk' = dirs
        BY <1>1, <2>8, <2>11, <3>1, <4>1
      <4>. QED BY <2>6, <4>2
    <3>2. CASE e[1] = RootCluster
      <4>1. (RootCluster \in OnDisk)'
        BY RootOnDisk, PTL
      <4>. QED BY <3>2, <4>1
    <3>. QED BY <3>1, <3>2
  <2>13. e \in Used(pl, OnDisk') /\ Same(pl[e[1]][e[2]], disk[e[1]][e[2]])
    BY <2>6, <2>7, <2>10, <2>12 DEF Used, Same
  <2>14. \A c \in DataClusters : fat[c] \in DataClusters => pl[c] = disk[c]
    BY <1>1, <1>5, <2>9, ClusterMapAssumption DEF DataClusters, Clusters, FirstCluster
  <2>15. Shown(fat, platter, e) = Shown(fat, disk, e)
    BY <1>1, <1>5, <2>7, LiveShown
  <2>16. Shown(fat, pl, e) = Shown(fat, disk, e)
    BY <1>1, <2>7, <2>13, <2>14, LiveShown
  <2>. QED BY <2>3, <2>4, <2>8, <2>13, <2>15, <2>16 DEF Undisturbed
<1>12. CASE n = 1
  <2>1. pending[1] = g /\ Len(pending) = 1
    BY <1>2, <1>3, <1>12
  <2>2. /\ platterFat = fat /\ platterFat' = fat /\ platter' = disk
        /\ \A c \in Clusters : c # g => platter[c] = disk[c]
        /\ OnDisk' = dirs
    BY <1>1, <2>1, LastWrite
  <2>3. ASSUME NoFolderInData
        PROVE  Tree(platter, dirs)
    <3>1. Tree(disk, dirs)
      BY <1>1 DEF Volume
    <3>2. \A d \in dirs : d # g => platter[d] = disk[d]
      BY <1>1, <2>2
    <3>3. Bare(disk[g]) /\ \A s \in ChildSlots : platter[g][s].attr # "dir"
      BY <1>3, <2>3 DEF Childless
    <3>. QED BY <3>1, <3>2, <3>3, FolderTree
  <2>4. e[1] \in dirs
    <3>1. CASE NoFolderInData
      <4>1. OnDisk = dirs
        BY <1>1, <2>3, <3>1, FoundAll
      <4>. QED BY <4>1 DEF Used
    <3>2. CASE e[1] = RootCluster
      BY <1>1, <3>2, VolumeDirs
    <3>. QED BY <3>1, <3>2
  <2>5. e[1] # g
    BY <2>1 DEF Concerned, Last
  <2>6. /\ e[1] \in dirs /\ e[2] \in ChildSlots /\ platter[e[1]][e[2]].name # NoName
        /\ e \in dirs \X ChildSlots
    BY <2>4 DEF Used
  <2>7. e \in Used(disk, dirs) /\ Same(platter[e[1]][e[2]], disk[e[1]][e[2]])
    BY <1>8, <2>5, <2>6
  <2>8. Shown(fat, platter, e) = Shown(fat, disk, e)
    BY <1>1, <1>5, <2>7, LiveShown
  <2>. QED BY <2>2, <2>7, <2>8 DEF Undisturbed
<1>. QED BY <1>10, <1>11, <1>12

LEMMA DeleteKeeps ==
  ASSUME Guarded, WriteCluster, call = "delete",
         NEW e \in Used(platter, OnDisk), ~ Concerned(e)
  PROVE  Undisturbed(e)
<1>1. /\ Consistent /\ ~ torn /\ signed /\ DeletePending /\ Volume(fat, disk, dirs)
      /\ platterFat = Junk => Bare(platter[RootCluster])
      /\ platter \in [Clusters -> Table] /\ disk \in [Clusters -> Table]
      /\ dirs \in SUBSET Clusters
  BY DEF Guarded, Consistent, Flushed, Unsigned, Watched, Volume
<1>2. PICK p \in dirs, ds \in SUBSET Clusters, s \in ChildSlots :
        /\ pending \in {<<FAT_CLUSTER_NUMBER, p>>, <<p>>}
        /\ disk[p] = [platter[p] EXCEPT ![s] = BlankEntry]
        /\ dirs \subseteq ds /\ Tree(platter, ds)
        /\ \A d \in ds \ dirs, r \in ChildSlots : platter[d][r].name = NoName
        /\ Len(pending) = 2 /\ Formatted => Volume(platterFat, platter, ds)
  BY <1>1 DEF DeletePending
<1>3. OnDisk = ds
  BY <1>2, FoundAll
<1>4. /\ e[1] \in dirs /\ e[2] \in ChildSlots /\ platter[e[1]][e[2]].name # NoName
      /\ e \in dirs \X ChildSlots
  BY <1>2, <1>3 DEF Used
<1>5. \A i \in 1 .. Len(pending) : pending[i] \in dirs \cup {FAT_CLUSTER_NUMBER}
  BY <1>2
<1>6. \A c \in DataClusters : fat[c] \in DataClusters => platter[c] = disk[c]
  BY <1>1, <1>5, DataWritten
<1>7. pending[Len(pending)] = p
  BY <1>2
<1>8. platter[e[1]][e[2]] = disk[e[1]][e[2]]
  <2>1. CASE e[1] = p
    <3>1. disk[p][e[2]] # BlankEntry
      BY <1>7, <2>1 DEF Concerned, Last
    <3>2. platter[p] \in Table
      BY <1>1
    <3>3. e[2] # s
      BY <1>2, <1>4, <3>1, <3>2, SlotNumbers DEF Table
    <3>. QED BY <1>2, <1>4, <2>1, <3>2, <3>3, SlotNumbers DEF Table
  <2>2. CASE e[1] # p
    <3>1. e[1] \notin {FAT_CLUSTER_NUMBER} /\ e[1] \in Clusters
      BY <1>1, <1>4, DirsAreParents
    <3>2. ~ Unwritten(e[1])
      BY <1>2, <2>2, <3>1 DEF Unwritten
    <3>. QED BY <1>1, <3>1, <3>2 DEF Consistent, Flushed
  <2>. QED BY <2>1, <2>2
<1>9. e \in Used(disk, dirs) /\ Same(platter[e[1]][e[2]], disk[e[1]][e[2]])
  BY <1>4, <1>8 DEF Used, Same
<1>10. CASE pending = <<FAT_CLUSTER_NUMBER, p>>
  <2>1. Formatted
    <3>1. platterFat # Junk
      BY <1>1, NothingVisible
    <3>. QED BY <1>1, <3>1 DEF Formatted
  <2>2. Volume(platterFat, platter, ds) /\ pending[1] = FAT_CLUSTER_NUMBER
    BY <1>2, <1>10, <2>1
  <2>3. e \in Used(platter, ds)
    BY <1>3
  <2>. QED BY <1>5, <1>9, <2>2, <2>3, TableKeeps
<1>11. CASE pending = <<p>>
  <2>1. /\ platterFat = fat /\ platterFat' = fat /\ platter' = disk /\ OnDisk' = dirs
    BY <1>1, <1>11, LastWrite
  <2>2. Shown(fat, platter, e) = Shown(fat, disk, e)
    BY <1>1, <1>6, <1>9, LiveShown
  <2>. QED BY <1>9, <2>1, <2>2 DEF Undisturbed
<1>. QED BY <1>2, <1>10, <1>11

\* Wherever the power fails, in whatever call, a cluster write takes away and
\* changes nothing that the call was not asked to, if no content looks like the
\* entry of a directory.
THEOREM CarefulOthersUntouched ==
  ASSUME Misuse \subseteq CarefulKinds
  PROVE  DiskSpec => OthersUntouched
<1>1. ASSUME Guarded, [DiskNext]_<<vars, diskVars>>, NoFolderInData,
             <<platterFat, platter>>' # <<platterFat, platter>>,
             NEW e \in Used(platter, OnDisk), ~ Concerned(e)
      PROVE  Undisturbed(e)
  <2>1. WriteCluster
    BY <1>1 DEF DiskNext, Format, Mount, StartFile, StartFolder, StartDelete, PowerLoss,
                vars, diskVars
  <2>2. call \in {"format", "file", "folder", "delete"}
    BY <1>1, <2>1 DEF Guarded, Consistent, Flushed, WriteCluster
  <2>3. CASE call = "format"
    <3>3. Bare(platter[RootCluster])
      BY <1>1, <2>3 DEF Guarded, Watched
    <3>. QED BY <1>1, <3>3, NothingVisible
  <2>4. CASE call = "file"
    BY <1>1, <2>1, <2>4, FileKeepsAll, FileKeepsLast
  <2>5. CASE call = "folder"
    BY <1>1, <2>1, <2>5, FolderKeeps
  <2>6. CASE call = "delete"
    BY <1>1, <2>1, <2>6, DeleteKeeps
  <2>. QED BY <2>2, <2>3, <2>4, <2>5, <2>6
<1>2. ASSUME Guarded, [DiskNext]_<<vars, diskVars>>, NoFolderInData,
             <<platterFat, platter>>' # <<platterFat, platter>>
      PROVE  \A e \in DOMAIN Visible :
               Concerned(e) \/ (e \in DOMAIN Visible' /\ Visible'[e] = Visible[e])
  <2>1. Visible = [e \in Used(platter, OnDisk) |-> Shown(platterFat, platter, e)]
    BY VisibleIs
  <2>2. Visible' = [e \in Used(platter', OnDisk') |-> Shown(platterFat', platter', e)]
    <3>1. (Visible = [e \in Used(platter, OnDisk) |-> Shown(platterFat, platter, e)])'
      BY VisibleIs, PTL
    <3>. QED BY <3>1
  <2>3. ASSUME NEW e \in DOMAIN Visible, ~ Concerned(e)
        PROVE  e \in DOMAIN Visible' /\ Visible'[e] = Visible[e]
    <3>1. e \in Used(platter, OnDisk)
      BY <2>1
    <3>2. Undisturbed(e)
      BY <1>1, <1>2, <2>3, <3>1
    <3>. QED BY <2>1, <2>2, <3>1, <3>2 DEF Undisturbed
  <2>. QED BY <2>3
<1>3. Guarded /\ [DiskNext]_<<vars, diskVars>>
        => [NoFolderInData /\ <<platterFat, platter>>' # <<platterFat, platter>> =>
              LET before == Visible
                  after  == Visible'
              IN  \A e \in DOMAIN before :
                    Concerned(e) \/ (e \in DOMAIN after /\ after[e] = before[e])]_<<vars, diskVars>>
  BY <1>2
<1>. QED BY <1>3, InitGuarded, GuardedStep, PTL DEF DiskSpec, OthersUntouched
=============================================================================
