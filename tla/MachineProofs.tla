--------------------------- MODULE MachineProofs ---------------------------
(***************************************************************************)
(* The life of a disk image, for every size of the volume and every number *)
(* of starts, calls and power failures: the shell the inserter has put on  *)
(* it is what the kernel loads, and a boot has its own objects in place,   *)
(* as long as the kernel has not been at work on a torn volume.            *)
(***************************************************************************)
EXTENDS Machine, Fat32DiskProofs

(***************************************************************************)
(* The inductive invariant.  The program is loaded from the tables in the  *)
(* driver's memory, which a start takes from the disk and a save puts      *)
(* there; what a power failure leaves is again the disk's.  So the shell   *)
(* is followed in both places, and in both it is in the same slot of the   *)
(* root, for a call that has begun changes one before the other.           *)
(***************************************************************************)
Holds(f, dk, s, n) ==
  /\ KeyedSlots(dk[RootCluster], shell, NoExt) = {s}
  /\ dk[RootCluster][s].size \in 1 .. ClusterMapSize
  /\ dk[RootCluster][s].cluster # 0
  /\ Shown(f, dk, <<RootCluster, s>>) = <<shell, NoExt, "file", {Stored(Code, n)}>>

Hosted == at \in {"host", "save"}

\* The inserter's write has returned 0: what it has in memory is not the disk's.
Inserting == at = "save" /\ ret = 0

Installed ==
  inserted > 0 =>
    /\ call # "format"
    /\ ~ Inserting => Formatted
    /\ \E s \in ChildSlots :
         /\ ~ Inserting => Holds(platterFat, platter, s, inserted)
         /\ (Hosted \/ call # "off") => Holds(fat, disk, s, inserted)

\* The inserter works on a volume, and leaves alone what it does not write.
Hosting ==
  Hosted =>
    /\ ~ torn /\ Volume(fat, disk, dirs) /\ Barren(disk, dirs)
    /\ (signed /\ ~ Inserting) => (fat = platterFat /\ disk = platter)

\* What kernel_setup has yet to do are calls of the driver.
Steps ==
  [ op : {"write", "look"}, where : {"root", "table", "table3"}, key : Keys,
    size : {0, 1}, into : {"root", "table", "table3"} ]

Scripted == at = "boot" => script \in Seq(Steps)

Lived ==
  /\ astray = 0
  /\ Guarded
  /\ Hosted \/ at \in {"off", "load", "boot", "user"}
  /\ (at = "off" \/ Hosted) => call = "off"
  /\ inserted \in Nat
  /\ Hosting /\ Installed /\ Scripted
  /\ ProgramLoads

(***************************************************************************)
(* What the disk's invariant asks of the steps that are none of the disk's.*)
(***************************************************************************)
\* Without power only the disk counts.
LEMMA GuardedOff ==
  ASSUME Guarded, call = "off", UNCHANGED diskVars,
         disk' \in [Clusters -> Table], ret' \in -1 .. 3, overrun' \in BOOLEAN
  PROVE  Guarded'
<1>1. UNCHANGED <<signed, platterFat, platter, pending, call, torn>>
  BY DEF diskVars
<1>2. OnDisk' = OnDisk
  BY <1>1 DEF OnDisk, Found
<1>3. Formatted' = Formatted
  BY <1>1 DEF Formatted
<1>4. Flushed'
  BY <1>1 DEF Guarded, Consistent, Flushed, Unwritten
<1>5. Unsigned'
  BY <1>1 DEF Guarded, Consistent, Unsigned
<1>6. Consistent'
  BY <1>1, <1>2, <1>3, <1>4, <1>5 DEF Guarded, Consistent
<1>7. Watched'
  BY <1>1, <1>2, <1>3 DEF Guarded, Watched
<1>. QED BY <1>6, <1>7 DEF Guarded

\* A call that is refused, or reads.
LEMMA GuardedIdle ==
  ASSUME Guarded, UNCHANGED <<fat, disk, dirs, diskVars>>,
         ret' \in -1 .. 3, overrun' \in BOOLEAN
  PROVE  Guarded'
<1>1. UNCHANGED <<fat, disk, dirs>> /\ UNCHANGED <<signed, platterFat, platter, pending, call, torn>>
  BY DEF diskVars
<1>2. OnDisk' = OnDisk
  BY <1>1 DEF OnDisk, Found
<1>3. Formatted' = Formatted
  BY <1>1 DEF Formatted
<1>4. /\ Flushed' /\ (Unsigned => Unsigned') /\ (FilePending => FilePending')
  BY <1>1, <1>3 DEF Guarded, Consistent, Flushed, Unsigned, FilePending, Unwritten
<1>5. Consistent'
  BY <1>1, <1>2, <1>3, <1>4 DEF Guarded, Consistent
<1>6. FolderPending' = FolderPending
  BY <1>1, <1>3 DEF FolderPending, FolderOwed
<1>7. DeletePending' = DeletePending
  BY <1>1, <1>3 DEF DeletePending
<1>8. Watched'
  BY <1>1, <1>2, <1>3, <1>6, <1>7 DEF Guarded, Watched
<1>. QED BY <1>5, <1>8 DEF Guarded

(***************************************************************************)
(* The shell's file.                                                       *)
(***************************************************************************)
LEMMA HeldEntry ==
  ASSUME NEW f, NEW dk, NEW s, NEW n, Holds(f, dk, s, n)
  PROVE  /\ s \in Slots
         /\ dk[RootCluster][s].name = shell /\ dk[RootCluster][s].ext = NoExt
         /\ dk[RootCluster][s].attr = "file" /\ shell # NoName
         /\ {Content(dk, f, dk[RootCluster][s].cluster, k) :
               k \in ChainLengths(f, dk[RootCluster][s].cluster)} = {Stored(Code, n)}
<1>1. s \in KeyedSlots(dk[RootCluster], shell, NoExt)
  BY DEF Holds
<1>2. PICK e : e = dk[RootCluster][s]
  OBVIOUS
<1>3. <<e.name, e.ext, e.attr,
        IF e.attr = "file"
          THEN {Content(dk, f, e.cluster, k) : k \in ChainLengths(f, e.cluster)}
          ELSE {}>> = <<shell, NoExt, "file", {Stored(Code, n)}>>
  BY <1>2 DEF Holds, Shown
<1>4. shell # NoName
  BY MachineAssumption, NameAssumption
<1>. QED BY <1>1, <1>2, <1>3, <1>4 DEF KeyedSlots

\* Where it begins is no directory's, and neither free nor an end.
LEMMA HeldCluster ==
  ASSUME NEW f, NEW dk, NEW ds, Volume(f, dk, ds),
         NEW s \in ChildSlots, NEW n, Holds(f, dk, s, n)
  PROVE  /\ dk[RootCluster][s].cluster \in DataClusters
         /\ f[dk[RootCluster][s].cluster] \in DataClusters
         /\ dk[RootCluster][s].cluster \notin ds
         /\ RootCluster \in ds
BY HeldEntry, VolumeDirs, FileOf

\* It is found, and stands for itself, under the tables of another volume that
\* has its entry and its first cluster.
LEMMA HeldOn ==
  ASSUME NEW f, NEW dk, NEW ds, Volume(f, dk, ds),
         NEW g, NEW dk2, NEW ds2, Volume(g, dk2, ds2),
         NEW s \in ChildSlots, NEW n, Holds(f, dk, s, n),
         KeyedSlots(dk2[RootCluster], shell, NoExt) = {s},
         Same(dk2[RootCluster][s], dk[RootCluster][s]),
         dk2[dk[RootCluster][s].cluster] = dk[dk[RootCluster][s].cluster]
  PROVE  Holds(g, dk2, s, n)
<1>1. PICK e : e = <<RootCluster, s>>
  OBVIOUS
<1>2. RootCluster \in ds /\ RootCluster \in ds2
  BY VolumeDirs
<1>3. dk[RootCluster][s].attr = "file" /\ dk2[RootCluster][s].attr = "file"
  BY HeldEntry DEF Same
<1>4. /\ FileAt(f, dk, dk[RootCluster][s].cluster, dk[RootCluster][s].size)
      /\ FileAt(g, dk2, dk2[RootCluster][s].cluster, dk2[RootCluster][s].size)
  BY <1>2, <1>3, FileOf
<1>5. Shown(g, dk2, e) = Shown(f, dk, e)
  <2>1. e[1] = RootCluster /\ e[2] = s /\ Lead(dk, e) = dk[RootCluster][s].cluster
    BY <1>1 DEF Lead
  <2>2. FileAt(g, dk2, dk[RootCluster][s].cluster, dk[RootCluster][s].size)
    BY <1>4 DEF Same
  <2>. QED BY <1>4, <2>1, <2>2, ShownKept
<1>. QED BY <1>1, <1>5 DEF Holds, Same

LEMMA HeldSlot ==
  ASSUME NEW t, NEW u, NEW s, KeyedSlots(t, shell, NoExt) = {s},
         \A r \in Slots :
           \/ Same(u[r], t[r])
           \/ /\ <<t[r].name, t[r].ext>> # ShellKey
              /\ <<u[r].name, u[r].ext>> # ShellKey
  PROVE  KeyedSlots(u, shell, NoExt) = {s}
<1>1. \A r \in Slots : (u[r].name = shell /\ u[r].ext = NoExt) <=> (t[r].name = shell /\ t[r].ext = NoExt)
  BY DEF Same, ShellKey
<1>. QED BY <1>1 DEF KeyedSlots

(***************************************************************************)
(* A call leaves the shell where it is in the driver's memory.             *)
(***************************************************************************)
\* A slot that is free is not the shell's, and what write() makes is not it.
LEMMA NotTheShell ==
  ASSUME NEW s, KeyedSlots(disk[RootCluster], shell, NoExt) = {s}, s \in ChildSlots,
         NEW name, NEW ext, NEW size, WriteCode(RootCluster, name, ext, size) = 0
  PROVE  <<name, ext>> # ShellKey
<1>. SUFFICES ASSUME <<name, ext>> = ShellKey PROVE FALSE
  OBVIOUS
<1>1. name = shell /\ ext = NoExt
  BY DEF ShellKey
<1>2. s \in First({s})
  BY SlotAssumption DEF First, ChildSlots, Slots
<1>3. Exists(RootCluster, name, ext)
  BY <1>1, <1>2 DEF Exists, dir_table_search
<1>. QED BY <1>3 DEF WriteCode

LEMMA FileHolds ==
  ASSUME Misuse \subseteq CarefulKinds, Orderly,
         NEW p \in dirs, NEW name \in Names, NEW ext \in Exts,
         NEW size \in FileSizes, NEW d \in Datas,
         WriteFile(p, name, ext, size, d),
         NEW s \in ChildSlots, NEW n, Holds(fat, disk, s, n)
  PROVE  Holds(fat', disk', s, n)
<1>1. Volume(fat, disk, dirs) /\ Sound /\ Tables(disk, dirs)
  BY OrderlyVolume DEF Orderly
<1>2. p \in Parents /\ name \in Callable
  BY <1>1, DirsAreParents DEF Callable
<1>3. Volume(fat', disk', dirs')
  <2>1. [Next]_vars
    BY <1>2 DEF Next, Call
  <2>. QED BY <2>1, CallVolume
<1>4. PICK lead : lead = disk[RootCluster][s].cluster
  OBVIOUS
<1>5. /\ lead \in DataClusters /\ fat[lead] \in DataClusters /\ lead \notin dirs
      /\ RootCluster \in dirs
  BY <1>1, <1>4, HeldCluster
<1>6. PICK ch \in Chains(fat, Needed(size)), q \in ChildSlots :
        /\ disk[p][q].name = NoName
        /\ disk'[p][q] = FileEntry(name, ext, ch[1], size)
        /\ \A r \in Slots : r # q => Same(disk'[p][r], disk[p][r])
        /\ \A c \in Clusters :
             c # p /\ (\A i \in 1 .. size : c # ch[i]) => disk'[c] = disk[c]
  BY <1>1, <1>2, FileTables
<1>7. size \in Nat \ {0} /\ Needed(size) = size + 1
  BY <1>1, <1>2, FileTables
<1>8. \A i \in 1 .. size : ch[i] \in DataClusters /\ fat[ch[i]] = EMPTY
  <2>1. \A i \in 1 .. size + 1 : ch[i] \in DataClusters /\ fat[ch[i]] = EMPTY
    <3>1. size + 1 \in Nat \ {0} /\ ch \in Chains(fat, size + 1)
      BY <1>6, <1>7
    <3>. QED BY <3>1, ChainClusters
  <2>2. \A i \in 1 .. size : i \in 1 .. size + 1
    BY <1>7
  <2>. QED BY <2>1, <2>2
<1>9. disk'[lead] = disk[lead]
  <2>1. EMPTY \notin DataClusters /\ lead \in Clusters
    BY <1>5 DEF EMPTY, DataClusters, Clusters, FirstCluster
  <2>2. lead # p /\ \A i \in 1 .. size : lead # ch[i]
    BY <1>5, <1>8, <2>1
  <2>. QED BY <1>6, <2>1, <2>2
<1>10. KeyedSlots(disk[RootCluster], shell, NoExt) = {s} /\ shell # NoName
  BY HeldEntry DEF Holds
<1>11. KeyedSlots(disk'[RootCluster], shell, NoExt) = {s}
  <2>1. CASE p = RootCluster
    <3>1. WriteCode(RootCluster, name, ext, size) = 0
      BY <2>1 DEF WriteFile
    <3>2. <<name, ext>> # ShellKey
      BY <1>10, <3>1, NotTheShell
    <3>3. /\ <<disk[p][q].name, disk[p][q].ext>> # ShellKey
          /\ <<disk'[p][q].name, disk'[p][q].ext>> # ShellKey
      BY <1>6, <1>10, <3>2 DEF FileEntry, ShellKey
    <3>4. \A r \in Slots :
            \/ Same(disk'[RootCluster][r], disk[RootCluster][r])
            \/ /\ <<disk[RootCluster][r].name, disk[RootCluster][r].ext>> # ShellKey
               /\ <<disk'[RootCluster][r].name, disk'[RootCluster][r].ext>> # ShellKey
      BY <1>6, <2>1, <3>3
    <3>. QED BY <1>10, <3>4, HeldSlot
  <2>2. CASE p # RootCluster
    <3>1. RootCluster \in Clusters /\ RootCluster \notin DataClusters
      BY ClusterMapAssumption DEF RootCluster, Clusters, DataClusters, FirstCluster
    <3>2. disk'[RootCluster] = disk[RootCluster]
      BY <1>6, <1>8, <2>2, <3>1
    <3>. QED BY <1>10, <3>2
  <2>. QED BY <2>1, <2>2
<1>12. Same(disk'[RootCluster][s], disk[RootCluster][s])
  <2>1. s \in Slots /\ disk[RootCluster][s].name = shell
    BY HeldEntry
  <2>2. CASE p = RootCluster
    <3>1. s # q
      BY <1>6, <1>10, <2>1, <2>2
    <3>. QED BY <1>6, <2>1, <2>2, <3>1
  <2>3. CASE p # RootCluster
    <3>1. RootCluster \in Clusters /\ RootCluster \notin DataClusters
      BY ClusterMapAssumption DEF RootCluster, Clusters, DataClusters, FirstCluster
    <3>2. disk'[RootCluster] = disk[RootCluster]
      BY <1>6, <1>8, <2>3, <3>1
    <3>. QED BY <3>2 DEF Same
  <2>. QED BY <2>2, <2>3
<1>. QED BY <1>1, <1>3, <1>4, <1>9, <1>11, <1>12, HeldOn

LEMMA FolderHolds ==
  ASSUME Misuse \subseteq CarefulKinds, Orderly,
         NEW p \in dirs, NEW name \in Names, NEW ext \in Exts,
         WriteFolder(p, name, ext),
         NEW s \in ChildSlots, NEW n, Holds(fat, disk, s, n)
  PROVE  Holds(fat', disk', s, n)
<1>1. Volume(fat, disk, dirs) /\ Sound /\ Tables(disk, dirs)
  BY OrderlyVolume DEF Orderly
<1>2. p \in Parents /\ name \in Callable
  BY <1>1, DirsAreParents DEF Callable
<1>3. Volume(fat', disk', dirs')
  <2>1. [Next]_vars
    BY <1>2 DEF Next, Call
  <2>. QED BY <2>1, CallVolume
<1>4. PICK lead : lead = disk[RootCluster][s].cluster
  OBVIOUS
<1>5. /\ lead \in DataClusters /\ fat[lead] \in DataClusters /\ lead \notin dirs
      /\ RootCluster \in dirs
  BY <1>1, <1>4, HeldCluster
<1>6. PICK ch \in Chains(fat, 1), q \in ChildSlots :
        /\ ch[1] \notin dirs /\ fat[ch[1]] = EMPTY
        /\ disk[p][q].name = NoName
        /\ disk'[p][q] = DirEntry(name, ext, ch[1])
        /\ \A r \in Slots : r # q => disk'[p][r] = disk[p][r]
        /\ \A c \in Clusters : c # p /\ c # ch[1] => disk'[c] = disk[c]
  BY <1>1, <1>2, FolderTables
<1>7. disk'[lead] = disk[lead]
  <2>1. EMPTY \notin DataClusters /\ lead \in Clusters
    BY <1>5 DEF EMPTY, DataClusters, Clusters, FirstCluster
  <2>2. lead # p /\ lead # ch[1]
    BY <1>5, <1>6, <2>1
  <2>. QED BY <1>6, <2>1, <2>2
<1>8. KeyedSlots(disk[RootCluster], shell, NoExt) = {s} /\ shell # NoName
  BY HeldEntry DEF Holds
<1>9. p # RootCluster => disk'[RootCluster] = disk[RootCluster]
  <2>1. RootCluster \in Clusters
    BY ClusterMapAssumption DEF RootCluster, Clusters, FirstCluster
  <2>. QED BY <1>5, <1>6, <2>1
<1>10. KeyedSlots(disk'[RootCluster], shell, NoExt) = {s}
  <2>1. CASE p = RootCluster
    <3>1. WriteCode(RootCluster, name, ext, 0) = 0
      BY <2>1 DEF WriteFolder
    <3>2. <<name, ext>> # ShellKey
      BY <1>8, <3>1, NotTheShell
    <3>3. /\ <<disk[p][q].name, disk[p][q].ext>> # ShellKey
          /\ <<disk'[p][q].name, disk'[p][q].ext>> # ShellKey
      BY <1>6, <1>8, <3>2 DEF DirEntry, BlankEntry, ShellKey
    <3>4. \A r \in Slots : r # q => Same(disk'[p][r], disk[p][r])
      BY <1>6 DEF Same
    <3>5. \A r \in Slots :
            \/ Same(disk'[RootCluster][r], disk[RootCluster][r])
            \/ /\ <<disk[RootCluster][r].name, disk[RootCluster][r].ext>> # ShellKey
               /\ <<disk'[RootCluster][r].name, disk'[RootCluster][r].ext>> # ShellKey
      BY <2>1, <3>3, <3>4
    <3>. QED BY <1>8, <3>5, HeldSlot
  <2>2. CASE p # RootCluster
    BY <1>8, <1>9, <2>2
  <2>. QED BY <2>1, <2>2
<1>11. disk'[RootCluster][s] = disk[RootCluster][s]
  <2>1. s \in Slots /\ disk[RootCluster][s].name = shell
    BY HeldEntry
  <2>2. p = RootCluster => s # q
    BY <1>6, <1>8, <2>1
  <2>. QED BY <1>6, <1>9, <2>1, <2>2
<1>12. Same(disk'[RootCluster][s], disk[RootCluster][s])
  BY <1>11 DEF Same
<1>. QED BY <1>1, <1>3, <1>4, <1>7, <1>10, <1>12, HeldOn

\* delete() goes by the name alone, so it takes another key with that name to
\* be the shell's.
LEMMA DeleteHolds ==
  ASSUME Misuse \subseteq CarefulKinds, Orderly,
         NEW p \in dirs, NEW name \in Names, NEW ext \in Exts,
         DeleteEntry(p, name, ext), ~ (p = RootCluster /\ name = shell),
         NEW s \in ChildSlots, NEW n, Holds(fat, disk, s, n)
  PROVE  Holds(fat', disk', s, n)
<1>1. Volume(fat, disk, dirs) /\ Sound /\ Tables(disk, dirs)
  BY OrderlyVolume DEF Orderly
<1>2. p \in Parents /\ name \in Callable
  BY <1>1, DirsAreParents DEF Callable
<1>3. Volume(fat', disk', dirs')
  <2>1. [Next]_vars
    BY <1>2 DEF Next, Call
  <2>. QED BY <2>1, CallVolume
<1>4. PICK lead : lead = disk[RootCluster][s].cluster
  OBVIOUS
<1>5. /\ lead \in DataClusters /\ lead \notin dirs
      /\ RootCluster \in dirs
  BY <1>1, <1>4, HeldCluster
<1>6. PICK q \in ChildSlots :
        /\ disk[p][q].name = name
        /\ disk' = [disk EXCEPT ![p] = [disk[p] EXCEPT ![q] = BlankEntry]]
  <2>1. Misuse \subseteq BenignKinds
    BY DEF CarefulKinds
  <2>2. Aimed(p, name, ext)
    BY <2>1, BenignCalls
  <2>3. \E q \in ChildSlots :
          LET x == disk[p][q].cluster
          IN  /\ p \in dirs /\ <<p, q>> \in Entries /\ disk[p][q].name = name
              /\ x \in DataClusters
              /\ fat' = [fat EXCEPT ![x] = EMPTY]
              /\ dirs' = dirs \ {x}
              /\ disk' = [disk EXCEPT ![p] = [disk[p] EXCEPT ![q] = BlankEntry]]
              /\ Filled(disk[p][q]) => "filled_folder" \in Misuse
    BY <1>1, <1>2, <2>2, DeleteTables
  <2>. QED BY <2>3
<1>7. disk \in [Clusters -> Table]
  BY <1>1 DEF Volume
<1>8. disk'[lead] = disk[lead]
  <2>1. lead # p /\ lead \in Clusters
    BY <1>5 DEF DataClusters, Clusters, FirstCluster
  <2>. QED BY <1>6, <1>7, <2>1
<1>9. /\ KeyedSlots(disk[RootCluster], shell, NoExt) = {s} /\ shell # NoName
      /\ s \in Slots /\ disk[RootCluster][s].name = shell
  BY HeldEntry DEF Holds
<1>10. RootCluster \in Clusters /\ disk[RootCluster] \in Table
  BY <1>7, ClusterMapAssumption DEF RootCluster, Clusters, FirstCluster
<1>11. p # RootCluster => disk'[RootCluster] = disk[RootCluster]
  BY <1>6, <1>7, <1>10
<1>12. p = RootCluster => \A r \in Slots : disk'[RootCluster][r] = IF r = q THEN BlankEntry ELSE disk[RootCluster][r]
  BY <1>6, <1>7, <1>10 DEF Table
<1>13. KeyedSlots(disk'[RootCluster], shell, NoExt) = {s}
  <2>1. CASE p = RootCluster
    <3>1. /\ <<disk[p][q].name, disk[p][q].ext>> # ShellKey
          /\ <<BlankEntry.name, BlankEntry.ext>> # ShellKey
      BY <1>6, <1>9, <2>1 DEF BlankEntry, ShellKey
    <3>2. \A r \in Slots : r # q => Same(disk'[p][r], disk[p][r])
      BY <1>12, <2>1 DEF Same
    <3>3. \A r \in Slots :
            \/ Same(disk'[RootCluster][r], disk[RootCluster][r])
            \/ /\ <<disk[RootCluster][r].name, disk[RootCluster][r].ext>> # ShellKey
               /\ <<disk'[RootCluster][r].name, disk'[RootCluster][r].ext>> # ShellKey
      BY <1>12, <2>1, <3>1, <3>2
    <3>. QED BY <1>9, <3>3, HeldSlot
  <2>2. CASE p # RootCluster
    BY <1>9, <1>11, <2>2
  <2>. QED BY <2>1, <2>2
<1>14. disk'[RootCluster][s] = disk[RootCluster][s]
  <2>1. p = RootCluster => s # q
    BY <1>6, <1>9
  <2>. QED BY <1>9, <1>11, <1>12, <2>1
<1>15. Same(disk'[RootCluster][s], disk[RootCluster][s])
  BY <1>14 DEF Same
<1>. QED BY <1>1, <1>3, <1>4, <1>8, <1>13, <1>15, HeldOn

(***************************************************************************)
(* A cluster write leaves it where it is on the disk.                      *)
(***************************************************************************)
LEMMA WriteHolds ==
  ASSUME Guarded, WriteCluster, call \in {"file", "folder", "delete"}, Formatted,
         NEW s \in ChildSlots, NEW n,
         Holds(platterFat, platter, s, n), Holds(fat, disk, s, n)
  PROVE  Formatted' /\ Holds(platterFat', platter', s, n)
<1>1. Consistent /\ Watched /\ ~ torn
  BY DEF Guarded, Consistent
<1>2. PICK e : e = <<RootCluster, s>>
  OBVIOUS
<1>3. /\ e[1] = RootCluster /\ e[2] = s
      /\ platter[RootCluster][s].name # NoName /\ disk[RootCluster][s].name # NoName
  BY <1>2, HeldEntry
<1>4. e \in Used(platter, OnDisk)
  BY <1>2, <1>3, RootOnDisk DEF Used
<1>5. ~ Concerned(e)
  <2>1. call = "delete" => ~ Concerned(e)
    BY <1>3 DEF Concerned, BlankEntry
  <2>2. ASSUME call = "folder"
        PROVE  e[1] # Last(pending)
    <3>1. FolderPending
      BY <1>1, <2>2 DEF Watched
    <3>2. pending[Len(pending)] \in DataClusters
      BY <3>1 DEF FolderPending, FolderOwed
    <3>. QED BY <1>3, <3>2 DEF Last, DataClusters, RootCluster, FirstCluster
  <2>. QED BY <2>1, <2>2 DEF Concerned
<1>6. Undisturbed(e)
  <2>1. CASE call = "file"
    BY <1>4, <2>1, FileKeepsAll, FileKeepsLast
  <2>2. CASE call = "folder"
    BY <1>3, <1>4, <1>5, <2>2, FolderKeeps
  <2>3. CASE call = "delete"
    BY <1>4, <1>5, <2>3, DeleteKeeps
  <2>. QED BY <2>1, <2>2, <2>3
<1>7. PICK c \in Clusters :
        /\ Len(pending) \in Nat \ {0} /\ pending[1] = c
        /\ signed' = IF c = BOOT_SECTOR THEN call = "format" ELSE signed
        /\ platterFat' = IF c = FAT_CLUSTER_NUMBER THEN FatToWrite ELSE platterFat
        /\ platter' = IF c = FAT_CLUSTER_NUMBER
                        THEN platter ELSE [platter EXCEPT ![c] = disk[c]]
  BY <1>1, ClusterWritten
<1>8. Formatted'
  <2>1. FatToWrite = fat /\ fat # Junk
    BY <1>1, FatIsNoJunk DEF FatToWrite
  <2>2. Unwritten(c)
    BY <1>7 DEF Unwritten
  <2>3. c # BOOT_SECTOR
    BY <1>1, <2>2 DEF Consistent, Flushed
  <2>. QED BY <1>7, <2>1, <2>3 DEF Formatted
<1>9. platter'[RootCluster] \in {platter[RootCluster], disk[RootCluster]}
  <2>1. platter \in [Clusters -> Table]
    BY <1>1 DEF Consistent, Flushed
  <2>. QED BY <1>7, <2>1
<1>10. Shown(platterFat', platter', e) = <<shell, NoExt, "file", {Stored(Code, n)}>>
  BY <1>2, <1>6 DEF Undisturbed, Holds
<1>11. /\ KeyedSlots(platter'[RootCluster], shell, NoExt) = {s}
       /\ platter'[RootCluster][s].size \in 1 .. ClusterMapSize
       /\ platter'[RootCluster][s].cluster # 0
  BY <1>9 DEF Holds
<1>. QED BY <1>2, <1>8, <1>10, <1>11 DEF Holds

(***************************************************************************)
(* The inserter.                                                           *)
(***************************************************************************)
LEMMA BlankBarren ==
  ASSUME NEW dk, dk = [BlankDisk EXCEPT ![BOOT_SECTOR] = BootSector, ![RootCluster] = RootTable]
  PROVE  /\ dk \in [Clusters -> Table] /\ dk[RootCluster] = RootTable
         /\ Barren(dk, {RootCluster})
<1>1. /\ BlankDisk \in [Clusters -> Table] /\ RootTable \in Table /\ BootSector \in Table
      /\ RootCluster \in Clusters /\ RootCluster # BOOT_SECTOR
  BY BlankTableType, RootTableType, BootSectorAssumption, ClusterMapAssumption
  DEF BlankDisk, Clusters, FirstCluster, RootCluster, BOOT_SECTOR
<1>2. dk \in [Clusters -> Table] /\ dk[RootCluster] = RootTable
  BY <1>1
<1>3. ASSUME NEW c \in Clusters \ {RootCluster}, NEW s \in ChildSlots
      PROVE  dk[c][s].attr # "dir"
  <2>1. s \in Slots
    BY SlotNumbers
  <2>2. dk[c] = BlankTable \/ dk[c] = BootSector
    BY <1>1 DEF BlankDisk
  <2>. QED BY <2>1, <2>2, BlankFields, BootSectorAssumption DEF BlankTable
<1>. QED BY <1>2, <1>3 DEF Barren, Childless

LEMMA OpenVolume ==
  ASSUME Guarded, call = "off", ~ torn, HostMount
  PROVE  Volume(fat', disk', dirs') /\ Barren(disk', dirs')
<1>1. CASE signed
  <2>1. Formatted
    BY <1>1 DEF HostMount, Formatted
  <2>2. Volume(platterFat, platter, OnDisk) /\ Barren(platter, OnDisk)
    BY <2>1 DEF Guarded, Consistent, Watched
  <2>3. fat' = platterFat /\ disk' = platter /\ dirs' = OnDisk
    BY <1>1 DEF HostMount
  <2>. QED BY <2>2, <2>3
<1>2. CASE ~ signed
  <2>1. platter = BlankDisk
    BY <1>2 DEF Guarded, Consistent, Unsigned
  <2>2. /\ fat' = FormattedFat /\ dirs' = {RootCluster}
        /\ disk' = [platter EXCEPT ![BOOT_SECTOR] = BootSector, ![RootCluster] = RootTable]
    BY <1>2 DEF HostMount
  <2>3. PICK dk : dk = disk'
    OBVIOUS
  <2>4. /\ dk \in [Clusters -> Table] /\ dk[RootCluster] = RootTable
        /\ Barren(dk, {RootCluster})
    BY <2>1, <2>2, <2>3, BlankBarren
  <2>. QED BY <2>2, <2>3, <2>4, FormattedVolume
<1>. QED BY <1>1, <1>2

LEMMA HostOpenLived == Lived /\ HostOpen => Guarded' /\ Hosting' /\ Installed'
<1>. SUFFICES ASSUME Lived, HostOpen PROVE Guarded' /\ Hosting' /\ Installed'
  OBVIOUS
<1>1. /\ Guarded /\ call = "off" /\ ~ torn /\ HostMount /\ at = "off" /\ at' = "host"
      /\ UNCHANGED <<ret, overrun, inserted>> /\ UNCHANGED diskVars
  BY DEF Lived, HostOpen, historyVars
<1>2. Volume(fat', disk', dirs') /\ Barren(disk', dirs')
  BY <1>1, OpenVolume
<1>3. Guarded'
  <2>1. disk' \in [Clusters -> Table] /\ ret' \in -1 .. 3 /\ overrun' \in BOOLEAN
    BY <1>1, <1>2 DEF Volume, Guarded, Consistent
  <2>. QED BY <1>1, <2>1, GuardedOff
<1>4. UNCHANGED <<signed, platterFat, platter, call, torn>>
  BY <1>1 DEF diskVars
<1>5. signed => fat' = platterFat /\ disk' = platter
  BY <1>1 DEF HostMount
<1>6. Hosting'
  BY <1>1, <1>2, <1>4, <1>5 DEF Hosting
<1>7. ASSUME inserted' > 0
      PROVE  /\ call' # "format" /\ Formatted'
             /\ \E s \in ChildSlots :
                  Holds(platterFat', platter', s, inserted') /\ Holds(fat', disk', s, inserted')
  <2>1. ~ Inserting /\ inserted > 0
    BY <1>1, <1>7 DEF Inserting
  <2>2. Formatted /\ \E s \in ChildSlots : Holds(platterFat, platter, s, inserted)
    BY <2>1 DEF Lived, Installed
  <2>3. signed
    BY <2>2 DEF Formatted
  <2>4. fat' = platterFat' /\ disk' = platter'
    BY <1>4, <1>5, <2>3
  <2>5. Formatted' /\ call' # "format"
    BY <1>1, <1>4, <2>2 DEF Formatted
  <2>6. PICK s \in ChildSlots : Holds(platterFat, platter, s, inserted)
    BY <2>2
  <2>7. Holds(platterFat', platter', s, inserted')
    BY <1>1, <1>4, <2>6
  <2>8. Holds(fat', disk', s, inserted')
    BY <2>4, <2>7
  <2>. QED BY <2>5, <2>7, <2>8
<1>8. Installed'
  BY <1>7 DEF Installed
<1>. QED BY <1>3, <1>6, <1>8

\* The file that is inserted is one the kernel will find.
LEMMA InsertedHolds ==
  ASSUME Misuse \subseteq CarefulKinds, Orderly, NEW size \in FileSizes,
         RootCluster \in dirs, WriteFile(RootCluster, shell, NoExt, size, Code)
  PROVE  size \in Nat /\ \E s \in ChildSlots : Holds(fat', disk', s, size)
<1>1. Volume(fat, disk, dirs) /\ Sound /\ Tables(disk, dirs)
  BY OrderlyVolume DEF Orderly
<1>2. /\ shell \in Names /\ shell \in Callable /\ shell # NoName /\ NoExt \in Exts /\ Code \in Datas
      /\ RootCluster \in Parents
  BY <1>1, DirsAreParents, MachineAssumption, NameAssumption DEF Callable
<1>3. Volume(fat', disk', dirs')
  <2>1. [Next]_vars
    BY <1>2 DEF Next, Call
  <2>. QED BY <2>1, CallVolume
<1>4. PICK ch \in Chains(fat, Needed(size)), q \in ChildSlots :
        /\ disk[RootCluster][q].name = NoName
        /\ disk'[RootCluster][q] = FileEntry(shell, NoExt, ch[1], size)
        /\ \A r \in Slots : r # q => Same(disk'[RootCluster][r], disk[RootCluster][r])
        /\ \A i \in 1 .. size : disk'[ch[i]] = DataTable(Code, i)
  BY <1>1, <1>2, FileTables
<1>5. size \in Nat \ {0} /\ dirs' = dirs
  BY <1>1, <1>2, FileTables
<1>6. KeyedSlots(disk'[RootCluster], shell, NoExt) = {q}
  <2>1. KeyedSlots(disk[RootCluster], shell, NoExt) = {}
    <3>1. WriteCode(RootCluster, shell, NoExt, size) = 0
      BY DEF WriteFile
    <3>2. ~ Exists(RootCluster, shell, NoExt)
      BY <3>1, <1>2 DEF WriteCode
    <3>. QED BY <3>2, SearchFails DEF Exists
  <2>2. \A r \in Slots : ~ (disk[RootCluster][r].name = shell /\ disk[RootCluster][r].ext = NoExt)
    BY <2>1 DEF KeyedSlots
  <2>3. \A r \in Slots : r # q =>
          ~ (disk'[RootCluster][r].name = shell /\ disk'[RootCluster][r].ext = NoExt)
    BY <1>4, <2>2 DEF Same
  <2>4. q \in Slots /\ disk'[RootCluster][q].name = shell /\ disk'[RootCluster][q].ext = NoExt
    BY <1>4, SlotNumbers DEF FileEntry
  <2>. QED BY <2>3, <2>4 DEF KeyedSlots
<1>7. /\ disk'[RootCluster][q].name = shell /\ disk'[RootCluster][q].ext = NoExt
      /\ disk'[RootCluster][q].attr = "file"
      /\ disk'[RootCluster][q].cluster = ch[1] /\ disk'[RootCluster][q].size = size
  BY <1>4 DEF FileEntry
<1>8. ch[1] \in DataClusters /\ FileAt(fat', disk', ch[1], size)
  <2>1. RootCluster \in dirs'
    BY <1>5
  <2>. QED BY <1>3, <1>7, <2>1, FileOf
<1>9. /\ size \in 1 .. ClusterMapSize
      /\ ChainLengths(fat', ch[1]) = {size}
      /\ Content(disk', fat', ch[1], size) = Stored(Code, size)
  <2>1. PICK d \in Datas : Content(disk', fat', ch[1], size) = Stored(d, size) /\ Begins(disk'[ch[1]], d)
    BY <1>8, StoredContent
  <2>2. disk'[ch[1]] = DataTable(Code, 1)
    BY <1>4, <1>5
  <2>3. disk'[ch[1]][SelfSlot].unread = <<Code, 1>>
    <3>1. 1 \in 1 .. MaxFileClusters
      BY <1>5, SizeAssumption DEF FileSizes
    <3>2. Reading[<<Code, 1>>] \in Table
      BY <1>2, <3>1, ReadingAssumption DEF Pieces
    <3>3. DataTable(Code, 1)[SelfSlot] = [Reading[<<Code, 1>>][SelfSlot] EXCEPT !.unread = <<Code, 1>>]
      BY <3>2, SlotNumbers DEF DataTable, Table
    <3>4. Reading[<<Code, 1>>][SelfSlot] \in Entry
      BY <3>2, SlotNumbers DEF Table
    <3>. QED BY <2>2, <3>3, <3>4 DEF Entry
  <2>4. d = Code
    BY <2>1, <2>3 DEF Begins
  <2>. QED BY <1>8, <2>1, <2>4, StoredContent
<1>10. {Content(disk', fat', ch[1], k) : k \in ChainLengths(fat', ch[1])} = {Stored(Code, size)}
  BY <1>9
<1>11. PICK e : e = <<RootCluster, q>>
  OBVIOUS
<1>12. Shown(fat', disk', e) = <<shell, NoExt, "file", {Stored(Code, size)}>>
  BY <1>7, <1>10, <1>11 DEF Shown
<1>13. ch[1] # 0
  BY <1>8 DEF DataClusters, FirstCluster
<1>14. Holds(fat', disk', q, size)
  BY <1>6, <1>7, <1>9, <1>11, <1>12, <1>13 DEF Holds
<1>. QED BY <1>5, <1>14

\* What a refused write answers.
LEMMA RefusedCode ==
  ASSUME NEW p, NEW name, NEW ext, NEW size, WriteRefused(p, name, ext, size)
  PROVE  ret' \in -1 .. 3 /\ ret' # 0 /\ UNCHANGED <<fat, disk, dirs, overrun>>
<1>1. WriteCode(p, name, ext, size) \in {-1, 0, 1, 2}
  BY DEF WriteCode
<1>2. ret' \in {-1, 1, 2}
  BY <1>1 DEF WriteRefused
<1>3. ret' \in -1 .. 3 /\ ret' # 0
  BY <1>2
<1>. QED BY <1>3 DEF WriteRefused

LEMMA HostWriteLived ==
  ASSUME Misuse \subseteq CarefulKinds, NEW size \in Binaries, Lived, HostWrite(size)
  PROVE  Guarded' /\ Hosting' /\ Installed' /\ inserted' \in Nat
<1>1. /\ Guarded /\ at = "host" /\ at' = "save" /\ call = "off" /\ UNCHANGED diskVars
      /\ Hosting /\ Installed /\ inserted \in Nat /\ size \in FileSizes
  BY MachineAssumption DEF Lived, HostWrite, Hosted
<1>2. Hosted /\ Hosted' /\ ~ Inserting
  BY <1>1 DEF Hosted, Inserting
<1>3. /\ ~ torn /\ Volume(fat, disk, dirs) /\ Barren(disk, dirs)
      /\ signed => fat = platterFat /\ disk = platter
  BY <1>1, <1>2 DEF Hosting
<1>4. UNCHANGED <<signed, platterFat, platter, call, torn>>
  BY <1>1 DEF diskVars
<1>5. ret \in -1 .. 3 /\ overrun \in BOOLEAN /\ disk \in [Clusters -> Table]
  BY <1>1, <1>3 DEF Guarded, Consistent, Volume
<1>6. ASSUME UNCHANGED <<fat, disk, dirs>>, ret' \in -1 .. 3, overrun' \in BOOLEAN,
             ret' # 0 \/ overrun'
      PROVE  Guarded' /\ Hosting' /\ Installed' /\ inserted' \in Nat
  <2>1. inserted' = inserted
    BY <1>6 DEF HostWrite
  <2>2. Guarded'
    BY <1>1, <1>5, <1>6, GuardedOff
  <2>3. Hosting'
    BY <1>3, <1>4, <1>6 DEF Hosting
  <2>4. ASSUME inserted > 0
        PROVE  /\ call' # "format" /\ Formatted'
               /\ \E s \in ChildSlots :
                    /\ Holds(platterFat', platter', s, inserted')
                    /\ Holds(fat', disk', s, inserted')
    <3>1. /\ call # "format" /\ Formatted
          /\ \E s \in ChildSlots :
               Holds(platterFat, platter, s, inserted) /\ Holds(fat, disk, s, inserted)
      BY <1>1, <1>2, <2>4 DEF Installed
    <3>2. Formatted'
      BY <1>4, <3>1 DEF Formatted
    <3>. QED BY <1>4, <1>6, <2>1, <3>1, <3>2
  <2>5. Installed'
    BY <2>1, <2>4 DEF Installed
  <2>. QED BY <1>1, <2>1, <2>2, <2>3, <2>5
<1>7. Orderly
  BY <1>3, <1>5, OrderlyVolume
<1>8. /\ RootCluster \in dirs /\ RootCluster \in Parents
      /\ shell \in Names /\ shell \in Callable /\ NoExt \in Exts /\ Code \in Datas
  BY <1>3, DirsAreParents, MachineAssumption, NameAssumption DEF Callable
<1>9. ASSUME Volume(fat', disk', dirs'), Barren(disk', dirs'), ret' = 0, overrun' = overrun
      PROVE  Guarded' /\ Hosting'
  <2>1. disk' \in [Clusters -> Table] /\ ret' \in -1 .. 3 /\ overrun' \in BOOLEAN
    BY <1>5, <1>9 DEF Volume
  <2>2. Guarded'
    BY <1>1, <2>1, GuardedOff
  <2>3. Inserting'
    BY <1>1, <1>9 DEF Inserting
  <2>4. Hosting'
    BY <1>3, <1>4, <1>9, <2>3 DEF Hosting
  <2>. QED BY <2>2, <2>4
<1>10. CASE WriteRefused(RootCluster, shell, NoExt, size)
  BY <1>5, <1>6, <1>10, RefusedCode
<1>11. CASE WriteOverrun(RootCluster, shell, NoExt, size)
  <2>1. UNCHANGED <<fat, disk, dirs, ret>> /\ overrun' = TRUE
    BY <1>11 DEF WriteOverrun
  <2>. QED BY <1>5, <1>6, <2>1
<1>12. CASE size = 0 /\ WriteFolder(RootCluster, shell, NoExt)
  <2>1. ret' = 0 /\ overrun' = overrun /\ ~ overrun
    BY <1>12 DEF WriteFolder, MayWrite
  <2>2. inserted' = 0
    BY <1>12, <2>1 DEF HostWrite
  <2>3. [Next]_vars
    BY <1>8, <1>12 DEF Next, Call
  <2>4. Volume(fat', disk', dirs')
    BY <1>7, <2>3, CallVolume
  <2>5. Barren(disk', dirs')
    BY <1>3, <1>7, <1>8, <1>12, FolderBarren DEF Orderly
  <2>6. Guarded' /\ Hosting'
    BY <1>9, <2>1, <2>4, <2>5
  <2>7. Installed'
    BY <2>2 DEF Installed
  <2>. QED BY <2>2, <2>6, <2>7
<1>13. CASE WriteFile(RootCluster, shell, NoExt, size, Code)
  <2>1. ret' = 0 /\ overrun' = overrun /\ ~ overrun
    BY <1>13 DEF WriteFile, MayWrite
  <2>2. inserted' = size
    BY <1>13, <2>1 DEF HostWrite
  <2>3. [Next]_vars
    BY <1>1, <1>8, <1>13 DEF Next, Call
  <2>4. Volume(fat', disk', dirs')
    BY <1>7, <2>3, CallVolume
  <2>5. Barren(disk', dirs')
    BY <1>1, <1>3, <1>7, <1>8, <1>13, FileBarren DEF Orderly
  <2>6. Guarded' /\ Hosting'
    BY <1>9, <2>1, <2>4, <2>5
  <2>7. size \in Nat /\ \E s \in ChildSlots : Holds(fat', disk', s, size)
    BY <1>1, <1>7, <1>8, <1>13, InsertedHolds
  <2>8. call' # "format" /\ Inserting'
    BY <1>1, <1>4, <2>1 DEF Inserting
  <2>9. Installed'
    BY <2>2, <2>7, <2>8 DEF Installed
  <2>. QED BY <2>2, <2>6, <2>7, <2>9
<1>. QED BY <1>10, <1>11, <1>12, <1>13 DEF HostWrite

LEMMA SavedDirs == Lived /\ HostSave => OnDisk' = dirs
<1>. SUFFICES ASSUME Lived, HostSave PROVE OnDisk' = dirs
  OBVIOUS
<1>1. platter' = disk /\ Volume(fat, disk, dirs)
  BY DEF Lived, HostSave, SaveImage, Hosting, Hosted
<1>2. (\A ds \in SUBSET Clusters : Tree(platter, ds) => OnDisk = ds)'
  BY FoundAll, PTL
<1>3. dirs \in SUBSET Clusters /\ Tree(platter', dirs)
  BY <1>1 DEF Volume
<1>. QED BY <1>2, <1>3

LEMMA HostSaveLived == Lived /\ HostSave => Guarded' /\ Hosting' /\ Installed'
<1>. SUFFICES ASSUME Lived, HostSave PROVE Guarded' /\ Hosting' /\ Installed'
  OBVIOUS
<1>1. /\ Guarded /\ Hosting /\ Installed /\ at = "save" /\ call = "off" /\ at' = "off"
      /\ signed' = TRUE /\ platter' = disk
      /\ platterFat' = (IF ret = 0 THEN fat ELSE TableBefore)
      /\ UNCHANGED <<disk, ret, overrun, pending, call, torn, inserted>>
  BY DEF Lived, HostSave, SaveImage, Hosted, historyVars
<1>2. Hosted /\ (Inserting <=> ret = 0) /\ ~ Hosted' /\ ~ Inserting'
  BY <1>1 DEF Hosted, Inserting
<1>3. /\ ~ torn /\ Volume(fat, disk, dirs) /\ Barren(disk, dirs)
      /\ (signed /\ ret # 0) => fat = platterFat /\ disk = platter
  BY <1>1, <1>2 DEF Hosting
<1>4. Formatted' => platterFat' = fat
  BY <1>1, <1>3 DEF Formatted, TableBefore
<1>5. OnDisk' = dirs
  BY SavedDirs
<1>6. Flushed'
  <2>1. disk' \in [Clusters -> Table] /\ platter' \in [Clusters -> Table]
    BY <1>1, <1>3 DEF Volume
  <2>2. pending' = <<>> /\ pending' \in Seq(Clusters)
    BY <1>1 DEF Guarded, Consistent, Flushed
  <2>3. \A x : ~ Unwritten(x)'
    BY <2>2 DEF Unwritten
  <2>. QED BY <1>1, <2>1, <2>2, <2>3 DEF Flushed
<1>7. Consistent'
  <2>1. Unsigned'
    BY <1>1 DEF Unsigned
  <2>2. Formatted' => Volume(platterFat', platter', OnDisk')
    BY <1>1, <1>3, <1>4, <1>5
  <2>3. ret' \in -1 .. 3 /\ overrun' \in BOOLEAN
    BY <1>1 DEF Guarded, Consistent
  <2>. QED BY <1>1, <1>6, <2>1, <2>2, <2>3 DEF Consistent
<1>8. Watched'
  BY <1>1, <1>3, <1>5 DEF Watched
<1>9. ASSUME inserted' > 0
      PROVE  /\ call' # "format" /\ Formatted'
             /\ \E s \in ChildSlots : Holds(platterFat', platter', s, inserted')
  <2>1. /\ ret # 0 => Formatted
        /\ \E s \in ChildSlots : Holds(fat, disk, s, inserted)
    BY <1>1, <1>2, <1>9 DEF Installed
  <2>2. fat # Junk
    BY <1>3, JunkAssumption DEF Volume
  <2>3. Formatted'
    BY <1>1, <2>1, <2>2 DEF Formatted, TableBefore
  <2>4. platterFat' = fat
    BY <1>4, <2>3
  <2>. QED BY <1>1, <2>1, <2>3, <2>4
<1>10. Installed'
  BY <1>1, <1>2, <1>9 DEF Installed
<1>11. Hosting'
  BY <1>2 DEF Hosting
<1>. QED BY <1>7, <1>8, <1>10, <1>11 DEF Guarded

(***************************************************************************)
(* The kernel.                                                             *)
(***************************************************************************)
LEMMA ScriptParts ==
  /\ InRoot \in Seq(Steps) /\ FindHome \in Seq(Steps) /\ InHome \in Seq(Steps)
  /\ FindNested \in Seq(Steps) /\ <<WriteOf("table3", KernelFile, 1)>> \in Seq(Steps)
<1>1. Home \in Keys /\ Nested \in Keys /\ KernelFile \in Keys /\ <<cakcok, NoExt>> \in Keys
  BY MachineAssumption, NameAssumption DEF Home, Nested, KernelFile, Keys
<1>2. /\ WriteOf("root", Home, 0) \in Steps /\ WriteOf("root", KernelFile, 1) \in Steps
      /\ WriteOf("table", KernelFile, 1) \in Steps
      /\ WriteOf("table", <<cakcok, NoExt>>, 0) \in Steps
      /\ WriteOf("table", Nested, 0) \in Steps
      /\ WriteOf("table3", KernelFile, 1) \in Steps
  BY <1>1 DEF WriteOf, Steps
<1>3. LookAt("root", Home, "table") \in Steps /\ LookAt("table", Nested, "table3") \in Steps
  BY <1>1 DEF LookAt, Steps
<1>. QED BY <1>2, <1>3 DEF InRoot, FindHome, InHome, FindNested

LEMMA ScriptSteps == BootScript \in Seq(Steps)
<1>1. InRoot \o FindHome \in Seq(Steps)
  BY ScriptParts, ConcatProperties
<1>2. InRoot \o FindHome \o InHome \in Seq(Steps)
  BY ScriptParts, <1>1, ConcatProperties
<1>3. InRoot \o FindHome \o InHome \o FindNested \in Seq(Steps)
  BY ScriptParts, <1>2, ConcatProperties
<1>4. InRoot \o FindHome \o InHome \o FindNested \o <<WriteOf("table3", KernelFile, 1)>> \in Seq(Steps)
  BY ScriptParts, <1>3, ConcatProperties
<1>. QED BY <1>4 DEF BootScript

\* What the next step asks for is what a caller may ask for.
LEMMA StepAsks ==
  ASSUME Scripted, at = "boot", script # <<>>
  PROVE  /\ Step.key[1] \in Names /\ Step.key[2] \in Exts /\ Step.size \in FileSizes
         /\ Tail(script) \in Seq(Steps)
<1>1. script \in Seq(Steps)
  BY DEF Scripted
<1>2. Head(script) \in Steps /\ Tail(script) \in Seq(Steps)
  BY <1>1, HeadTailProperties
<1>3. Step.key \in Keys /\ Step.size \in {0, 1}
  BY <1>2 DEF Step, Steps
<1>4. {0, 1} \subseteq FileSizes
  BY MachineAssumption, SizeAssumption DEF FileSizes
<1>. QED BY <1>2, <1>3, <1>4 DEF Keys

\* The tables stay as they are, in memory and on the disk.
LEMMA IdleLived ==
  ASSUME Lived, UNCHANGED <<fat, disk, dirs>>, UNCHANGED diskVars, inserted' = inserted,
         ret' \in -1 .. 3, overrun' \in BOOLEAN,
         at \in {"load", "boot", "user"}, at' \in {"load", "boot", "user"}
  PROVE  Guarded' /\ Hosting' /\ Installed'
<1>1. Guarded'
  BY GuardedIdle DEF Lived
<1>2. UNCHANGED <<signed, platterFat, platter, call, torn>>
  BY DEF diskVars
<1>3. ~ Hosted /\ ~ Hosted' /\ ~ Inserting /\ ~ Inserting'
  BY DEF Hosted, Inserting
<1>4. Hosting'
  BY <1>3 DEF Hosting
<1>5. ASSUME inserted' > 0
      PROVE  /\ call' # "format" /\ Formatted'
             /\ \E s \in ChildSlots :
                  /\ Holds(platterFat', platter', s, inserted')
                  /\ call' # "off" => Holds(fat', disk', s, inserted')
  <2>1. /\ call # "format" /\ Formatted
        /\ \E s \in ChildSlots :
             /\ Holds(platterFat, platter, s, inserted)
             /\ call # "off" => Holds(fat, disk, s, inserted)
    BY <1>3, <1>5 DEF Lived, Installed
  <2>2. Formatted'
    BY <1>2, <2>1 DEF Formatted
  <2>. QED BY <1>2, <2>1, <2>2
<1>6. Installed'
  BY <1>3, <1>5 DEF Installed
<1>. QED BY <1>1, <1>4, <1>6

LEMMA PowerOnLived ==
  ASSUME Misuse \subseteq CarefulKinds
  PROVE  Lived /\ PowerOn => Guarded' /\ Hosting' /\ Installed'
<1>. SUFFICES ASSUME Lived, PowerOn PROVE Guarded' /\ Hosting' /\ Installed'
  OBVIOUS
<1>1. /\ Guarded /\ Installed /\ at = "off" /\ at' = "load" /\ (Format \/ Mount)
      /\ inserted' = inserted
  BY DEF Lived, PowerOn, historyVars
<1>2. ~ Hosted' /\ ~ Inserting /\ ~ Inserting'
  BY <1>1 DEF Hosted, Inserting
<1>3. Guarded'
  BY <1>1, GuardedStep DEF DiskNext
<1>4. Hosting'
  BY <1>2 DEF Hosting
<1>5. ASSUME inserted' > 0
      PROVE  /\ call' # "format" /\ Formatted'
             /\ \E s \in ChildSlots :
                  Holds(platterFat', platter', s, inserted') /\ Holds(fat', disk', s, inserted')
  <2>1. Formatted /\ \E s \in ChildSlots : Holds(platterFat, platter, s, inserted)
    BY <1>1, <1>2, <1>5 DEF Installed
  <2>2. Mount
    BY <1>1, <2>1 DEF Formatted, Format
  <2>3. /\ fat' = platterFat /\ disk' = platter /\ call' = "idle"
        /\ UNCHANGED <<signed, platterFat, platter>>
    BY <2>2 DEF Mount
  <2>4. Formatted' /\ call' # "format"
    BY <2>1, <2>3 DEF Formatted
  <2>. QED BY <1>1, <2>1, <2>3, <2>4
<1>6. Installed'
  BY <1>2, <1>5 DEF Installed
<1>. QED BY <1>3, <1>4, <1>6

\* The read finds the whole file: there is room, and its chain has an end.
LEMMA LoadReads ==
  ASSUME NEW s, NEW n, Holds(fat, disk, s, n),
         ReadFile(RootCluster, shell, NoExt, ClusterMapSize)
           \/ ReadRefused(RootCluster, shell, NoExt, ClusterMapSize)
           \/ ReadOverrun(RootCluster, shell, NoExt, ClusterMapSize)
  PROVE  ret' = 0 /\ ~ overrun' /\ got'.data = Stored(Code, n)
<1>1. PICK e : e = disk[RootCluster][s]
  OBVIOUS
<1>2. dir_table_search(disk[RootCluster], shell, NoExt) = {s}
  <2>1. KeyedSlots(disk[RootCluster], shell, NoExt) = {s} /\ s \in Slots
    BY HeldEntry DEF Holds
  <2>2. First({s}) = {s}
    BY <2>1, SlotAssumption DEF First, Slots
  <2>. QED BY <2>1, <2>2 DEF dir_table_search
<1>3. e.attr = "file" /\ e.size \in 1 .. ClusterMapSize /\ e.cluster # 0
  BY <1>1, HeldEntry DEF Holds
<1>4. ReadCode(e, ClusterMapSize) = 0
  BY <1>3, ClusterMapAssumption DEF ReadCode
<1>5. ~ ReadRefused(RootCluster, shell, NoExt, ClusterMapSize)
  BY <1>1, <1>2, <1>4 DEF ReadRefused, Exists
<1>6. {Content(disk, fat, e.cluster, k) : k \in ChainLengths(fat, e.cluster)} = {Stored(Code, n)}
  BY <1>1, HeldEntry
<1>7. \A k \in ChainLengths(fat, e.cluster) : k <= ClusterMapSize + 1
  <2>1. \A k \in ChainLengths(fat, e.cluster) : k \in 1 .. ClusterMapSize
    BY ChainWalked
  <2>. QED BY <2>1, ClusterMapAssumption
<1>8. ~ ReadOverrun(RootCluster, shell, NoExt, ClusterMapSize)
  <2>1. PICK k \in ChainLengths(fat, e.cluster) : TRUE
    BY <1>6
  <2>2. k <= ClusterMapSize + 1 /\ k \in 1 .. ClusterMapSize
    BY <1>7, ChainWalked
  <2>3. ~ (k > ClusterMapSize + 1)
    BY <2>2, ClusterMapAssumption
  <2>. QED BY <1>1, <1>2, <2>1, <2>3 DEF ReadOverrun
<1>9. ReadFile(RootCluster, shell, NoExt, ClusterMapSize)
  BY <1>5, <1>8
<1>10. ret' = 0 /\ ~ overrun'
  BY <1>9 DEF ReadFile, MayRead
<1>11. PICK k \in ChainLengths(fat, e.cluster) : got' = Data(Content(disk, fat, e.cluster, k))
  BY <1>1, <1>2, <1>9 DEF ReadFile
<1>12. Content(disk, fat, e.cluster, k) = Stored(Code, n)
  BY <1>6, <1>11
<1>13. got'.data = Stored(Code, n)
  BY <1>11, <1>12 DEF Data, Nothing
<1>. QED BY <1>10, <1>13

LEMMA LoadLived ==
  Lived /\ Load => Guarded' /\ Hosting' /\ Installed' /\ Scripted' /\ ProgramLoads'
<1>. SUFFICES ASSUME Lived, Load
              PROVE  Guarded' /\ Hosting' /\ Installed' /\ Scripted' /\ ProgramLoads'
  OBVIOUS
<1>1. /\ Guarded /\ at = "load" /\ at' = "boot" /\ call = "idle" /\ UNCHANGED diskVars
      /\ inserted' = inserted /\ script' = BootScript
      /\ program' = (IF ret' = 0 /\ ~ overrun' THEN got'.data ELSE <<>>)
      /\ \/ ReadFile(RootCluster, shell, NoExt, ClusterMapSize)
         \/ ReadRefused(RootCluster, shell, NoExt, ClusterMapSize)
         \/ ReadOverrun(RootCluster, shell, NoExt, ClusterMapSize)
  BY DEF Lived, Load, LoadInto, historyVars
<1>2. UNCHANGED <<fat, disk, dirs>> /\ ret' \in -1 .. 3 /\ overrun' \in BOOLEAN
  <2>1. ret \in -1 .. 3 /\ overrun \in BOOLEAN
    BY <1>1 DEF Guarded, Consistent
  <2>2. CASE ReadFile(RootCluster, shell, NoExt, ClusterMapSize)
    BY <2>1, <2>2 DEF ReadFile
  <2>3. CASE ReadRefused(RootCluster, shell, NoExt, ClusterMapSize)
    <3>1. ret' \in {-1, 1, 2, 3}
      BY <2>3 DEF ReadRefused, ReadCode
    <3>2. ret' \in -1 .. 3
      BY <3>1
    <3>. QED BY <2>1, <2>3, <3>2 DEF ReadRefused
  <2>4. CASE ReadOverrun(RootCluster, shell, NoExt, ClusterMapSize)
    BY <2>1, <2>4 DEF ReadOverrun
  <2>. QED BY <1>1, <2>2, <2>3, <2>4
<1>3. Guarded' /\ Hosting' /\ Installed'
  BY <1>1, <1>2, IdleLived
<1>4. Scripted'
  BY <1>1, ScriptSteps DEF Scripted
<1>5. ASSUME inserted' > 0
      PROVE  program' = [i \in 1 .. inserted' |-> <<Code, i>>]
  <2>1. PICK s \in ChildSlots : Holds(fat, disk, s, inserted)
    BY <1>1, <1>5 DEF Lived, Installed
  <2>2. program' = Stored(Code, inserted)
    BY <1>1, <2>1, LoadReads
  <2>. QED BY <1>1, <2>2 DEF Stored
<1>6. ProgramLoads'
  BY <1>5 DEF ProgramLoads
<1>. QED BY <1>3, <1>4, <1>6

\* A call is begun.  Its effect is in the driver's memory, not on the disk yet.
LEMMA CallLived ==
  ASSUME Misuse \subseteq CarefulKinds, Lived, Ready, at \in {"boot", "user"}, at' = at,
         NEW p \in dirs, NEW name \in Names, NEW ext \in Exts,
         NEW size \in FileSizes, NEW d \in Datas,
         StartFile(p, name, ext, size, d) \/ StartFolder(p, name, ext) \/ StartDelete(p, name, ext),
         inserted' \in {0, inserted},
         StartDelete(p, name, ext) /\ p = RootCluster /\ name = shell => inserted' = 0
  PROVE  Guarded' /\ Hosting' /\ Installed'
<1>1. Guarded /\ Consistent /\ Installed
  BY DEF Lived, Guarded
<1>2. Guarded'
  <2>1. DiskNext
    BY DEF DiskNext
  <2>. QED BY <1>1, <2>1, GuardedStep
<1>3. ~ Hosted' /\ ~ Inserting /\ ~ Inserting' /\ call # "off"
  BY DEF Hosted, Inserting, Ready
<1>4. Hosting'
  BY <1>3 DEF Hosting
<1>5. Orderly
  BY <1>1, ReadyVolume
<1>6. UNCHANGED <<signed, platterFat, platter>> /\ call' # "format"
  BY DEF StartFile, StartFolder, StartDelete
<1>7. ASSUME inserted' > 0
      PROVE  /\ Formatted'
             /\ \E s \in ChildSlots :
                  Holds(platterFat', platter', s, inserted') /\ Holds(fat', disk', s, inserted')
  <2>1. inserted' = inserted
    BY <1>7
  <2>2. /\ Formatted
        /\ \E s \in ChildSlots :
             Holds(platterFat, platter, s, inserted) /\ Holds(fat, disk, s, inserted)
    BY <1>1, <1>3, <1>7, <2>1 DEF Installed
  <2>3. PICK s \in ChildSlots :
          Holds(platterFat, platter, s, inserted) /\ Holds(fat, disk, s, inserted)
    BY <2>2
  <2>4. Holds(fat', disk', s, inserted)
    <3>1. CASE StartFile(p, name, ext, size, d)
      <4>1. WriteFile(p, name, ext, size, d)
        BY <3>1 DEF StartFile
      <4>. QED BY <1>5, <2>3, <4>1, FileHolds
    <3>2. CASE StartFolder(p, name, ext)
      <4>1. WriteFolder(p, name, ext)
        BY <3>2 DEF StartFolder
      <4>. QED BY <1>5, <2>3, <4>1, FolderHolds
    <3>3. CASE StartDelete(p, name, ext)
      <4>1. DeleteEntry(p, name, ext) /\ ~ (p = RootCluster /\ name = shell)
        BY <1>7, <3>3 DEF StartDelete
      <4>. QED BY <1>5, <2>3, <4>1, DeleteHolds
    <3>. QED BY <3>1, <3>2, <3>3
  <2>5. Formatted'
    BY <1>6, <2>2 DEF Formatted
  <2>. QED BY <1>6, <2>1, <2>3, <2>4, <2>5
<1>8. Installed'
  BY <1>3, <1>6, <1>7 DEF Installed
<1>. QED BY <1>2, <1>4, <1>8

LEMMA BootWriteLived ==
  ASSUME Misuse \subseteq CarefulKinds
  PROVE  Lived /\ WriteInside => Guarded' /\ Hosting' /\ Installed'
<1>. SUFFICES ASSUME Lived, WriteInside PROVE Guarded' /\ Hosting' /\ Installed'
  OBVIOUS
<1>1. /\ at = "boot" /\ script # <<>> /\ Ready /\ Parent \in dirs
      /\ at' = at /\ inserted' = inserted
  BY DEF WriteInside, Doing, Trusted, Ready, historyVars
<1>2. PICK p, name, ext, size :
        p = Parent /\ name = Step.key[1] /\ ext = Step.key[2] /\ size = Step.size
  OBVIOUS
<1>3. p \in dirs /\ name \in Names /\ ext \in Exts /\ size \in FileSizes /\ Letters \in Datas
  BY <1>1, <1>2, StepAsks, MachineAssumption DEF Lived
<1>4. \/ StartFile(p, name, ext, size, Letters)
      \/ StartFolder(p, name, ext)
      \/ /\ WriteRefused(p, name, ext, size) \/ WriteOverrun(p, name, ext, size)
         /\ UNCHANGED diskVars
  BY <1>2 DEF WriteInside
<1>5. ret \in -1 .. 3 /\ overrun \in BOOLEAN
  BY DEF Lived, Guarded, Consistent
<1>6. CASE StartFile(p, name, ext, size, Letters) \/ StartFolder(p, name, ext)
  <2>1. ~ (StartDelete(p, name, ext) /\ p = RootCluster /\ name = shell)
    BY <1>6 DEF StartFile, StartFolder, StartDelete
  <2>. QED BY <1>1, <1>3, <1>6, <2>1, CallLived
<1>7. CASE WriteRefused(p, name, ext, size) /\ UNCHANGED diskVars
  BY <1>1, <1>5, <1>7, RefusedCode, IdleLived
<1>8. CASE WriteOverrun(p, name, ext, size) /\ UNCHANGED diskVars
  <2>1. UNCHANGED <<fat, disk, dirs, ret>> /\ overrun' = TRUE
    BY <1>8 DEF WriteOverrun
  <2>. QED BY <1>1, <1>5, <1>8, <2>1, IdleLived
<1>. QED BY <1>4, <1>6, <1>7, <1>8

LEMMA BootLookLived == Lived /\ LookInside => Guarded' /\ Hosting' /\ Installed'
<1>. SUFFICES ASSUME Lived, LookInside PROVE Guarded' /\ Hosting' /\ Installed'
  OBVIOUS
<1>1. /\ at = "boot" /\ at' = at /\ inserted' = inserted /\ UNCHANGED diskVars
      /\ ReadDirectory(Parent, Step.key[1], Step.key[2])
  BY DEF LookInside, Doing, historyVars
<1>2. UNCHANGED <<fat, disk, dirs, overrun>> /\ ret' \in {0, 1, 2}
  BY <1>1 DEF ReadDirectory
<1>3. ret' \in -1 .. 3 /\ overrun' \in BOOLEAN
  BY <1>2 DEF Lived, Guarded, Consistent
<1>. QED BY <1>1, <1>2, <1>3, IdleLived

LEMMA UserLived ==
  ASSUME Misuse \subseteq CarefulKinds,
         \A key \in Typed : key[1] = shell => key[2] = NoExt
  PROVE  Lived /\ User => Guarded' /\ Hosting' /\ Installed' /\ inserted' \in Nat
<1>. SUFFICES ASSUME Lived, User
              PROVE  Guarded' /\ Hosting' /\ Installed' /\ inserted' \in Nat
  OBVIOUS
<1>1. at = "user" /\ at' = at /\ inserted \in Nat
  BY DEF User, Lived
<1>2. PICK p \in dirs, key \in Typed :
        MakeFile(p, key) \/ MakeFolder(p, key) \/ RemoveKey(p, key)
  BY DEF User
<1>3. PICK name, ext : name = key[1] /\ ext = key[2]
  OBVIOUS
<1>4. /\ name \in Names /\ ext \in Exts /\ 1 \in FileSizes /\ Letters \in Datas
      /\ key = <<name, ext>>
      /\ name = shell => ext = NoExt
  BY <1>2, <1>3, MachineAssumption DEF Keys
<1>5. CASE MakeFile(p, key)
  <2>1. StartFile(p, name, ext, 1, Letters) /\ inserted' = inserted
    BY <1>3, <1>5 DEF MakeFile
  <2>2. Ready /\ ~ StartDelete(p, name, ext)
    BY <2>1 DEF StartFile, StartDelete
  <2>. QED BY <1>1, <1>4, <2>1, <2>2, CallLived
<1>6. CASE MakeFolder(p, key)
  <2>1. StartFolder(p, name, ext) /\ inserted' = inserted
    BY <1>3, <1>6 DEF MakeFolder
  <2>2. Ready /\ ~ StartDelete(p, name, ext)
    BY <2>1 DEF StartFolder, StartDelete
  <2>. QED BY <1>1, <1>4, <2>1, <2>2, CallLived
<1>7. CASE RemoveKey(p, key)
  <2>1. /\ StartDelete(p, name, ext)
        /\ inserted' = IF p = RootCluster /\ key = ShellKey THEN 0 ELSE inserted
    BY <1>3, <1>7 DEF RemoveKey
  <2>2. Ready
    BY <2>1 DEF StartDelete
  <2>3. p = RootCluster /\ name = shell => inserted' = 0
    BY <1>4, <2>1 DEF ShellKey
  <2>4. inserted' \in {0, inserted}
    BY <2>1
  <2>. QED BY <1>1, <1>4, <2>1, <2>2, <2>3, <2>4, CallLived
<1>. QED BY <1>2, <1>5, <1>6, <1>7

(***************************************************************************)
(* The disk.                                                               *)
(***************************************************************************)
LEMMA DiskWriteLived ==
  ASSUME Misuse \subseteq CarefulKinds
  PROVE  /\ Lived /\ DiskWrite => Guarded' /\ Hosting' /\ Installed'
         /\ Lived /\ DiskWrite => at \in {"load", "boot", "user"}
<1>. SUFFICES ASSUME Lived, DiskWrite
              PROVE  Guarded' /\ Hosting' /\ Installed' /\ at \in {"load", "boot", "user"}
  OBVIOUS
<1>1. /\ WriteCluster /\ at' = at /\ inserted' = inserted
      /\ Guarded /\ Consistent /\ Installed
  BY DEF DiskWrite, Lived, Guarded, historyVars
<1>2. call \in {"format", "file", "folder", "delete"}
  BY <1>1 DEF WriteCluster, Consistent, Flushed
<1>3. at \in {"load", "boot", "user"}
  BY <1>2 DEF Lived
<1>4. ~ Hosted' /\ ~ Inserting /\ ~ Inserting'
  BY <1>1, <1>3 DEF Hosted, Inserting
<1>5. Guarded'
  BY <1>1, GuardedStep DEF DiskNext
<1>6. Hosting'
  BY <1>4 DEF Hosting
<1>7. UNCHANGED <<fat, disk>> /\ call' \in {"idle", call}
  BY <1>1 DEF WriteCluster, vars
<1>8. ASSUME inserted' > 0
      PROVE  /\ call' # "format" /\ Formatted'
             /\ \E s \in ChildSlots :
                  Holds(platterFat', platter', s, inserted') /\ Holds(fat', disk', s, inserted')
  <2>1. /\ call # "format" /\ Formatted
        /\ \E s \in ChildSlots :
             Holds(platterFat, platter, s, inserted) /\ Holds(fat, disk, s, inserted)
    BY <1>1, <1>2, <1>4, <1>8 DEF Installed
  <2>2. PICK s \in ChildSlots :
          Holds(platterFat, platter, s, inserted) /\ Holds(fat, disk, s, inserted)
    BY <2>1
  <2>3. Formatted' /\ Holds(platterFat', platter', s, inserted)
    BY <1>1, <1>2, <2>1, <2>2, WriteHolds
  <2>. QED BY <1>1, <1>7, <2>1, <2>2, <2>3
<1>9. Installed'
  BY <1>4, <1>8 DEF Installed
<1>. QED BY <1>3, <1>5, <1>6, <1>9

LEMMA PowerOffLived ==
  ASSUME Misuse \subseteq CarefulKinds
  PROVE  Lived /\ PowerOff => Guarded' /\ Hosting' /\ Installed'
<1>. SUFFICES ASSUME Lived, PowerOff PROVE Guarded' /\ Hosting' /\ Installed'
  OBVIOUS
<1>1. /\ PowerLoss /\ at \in {"load", "boot", "user"} /\ at' = "off" /\ inserted' = inserted
      /\ Guarded /\ Installed
  BY DEF PowerOff, Lived, historyVars
<1>2. ~ Hosted' /\ ~ Inserting /\ ~ Inserting'
  BY <1>1 DEF Hosted, Inserting
<1>3. Guarded'
  BY <1>1, GuardedStep DEF DiskNext
<1>4. Hosting'
  BY <1>2 DEF Hosting
<1>5. call' = "off" /\ UNCHANGED <<signed, platterFat, platter>>
  BY <1>1 DEF PowerLoss
<1>6. ASSUME inserted' > 0
      PROVE  Formatted' /\ \E s \in ChildSlots : Holds(platterFat', platter', s, inserted')
  <2>1. Formatted /\ \E s \in ChildSlots : Holds(platterFat, platter, s, inserted)
    BY <1>1, <1>2, <1>6 DEF Installed
  <2>. QED BY <1>1, <1>5, <2>1 DEF Formatted
<1>7. Installed'
  BY <1>2, <1>5, <1>6 DEF Installed
<1>. QED BY <1>3, <1>4, <1>7

(***************************************************************************)
(* Every step.                                                             *)
(***************************************************************************)
LEMMA InitLived == MachineInit => Lived
<1>. SUFFICES ASSUME MachineInit PROVE Lived
  OBVIOUS
<1>1. Guarded /\ call = "off" /\ at = "off" /\ inserted = 0 /\ astray = 0
  BY InitGuarded DEF MachineInit, DiskInit
<1>. QED BY <1>1 DEF Lived, Hosting, Installed, Scripted, ProgramLoads, Hosted

\* What follows from where a step leads.
LEMMA PlaceLived ==
  ASSUME Lived, Guarded', Hosting', Installed', inserted' \in Nat, astray' = 0,
         at' \in {"off", "host", "save", "load", "user"}, at' \in {"off", "host", "save"} => call' = "off"
  PROVE  Lived'
<1>1. Hosted' <=> at' \in {"host", "save"}
  BY DEF Hosted
<1>2. Scripted' /\ ProgramLoads'
  BY DEF Scripted, ProgramLoads
<1>. QED BY <1>1, <1>2 DEF Lived

\* A step of the boot.
LEMMA BootLived ==
  ASSUME Lived, Guarded', Hosting', Installed', at = "boot", at' = "boot",
         inserted' = inserted, program' = program, astray' = 0, script' \in Seq(Steps)
  PROVE  Lived'
<1>1. ~ Hosted'
  BY DEF Hosted
<1>2. Scripted' /\ ProgramLoads'
  BY DEF Lived, Scripted, ProgramLoads
<1>3. inserted' \in Nat
  BY DEF Lived
<1>. QED BY <1>1, <1>2, <1>3 DEF Lived

\* The kernel makes a call on a torn volume, or for a parent that is none.
Strayed ==
  /\ at = "boot" /\ script # <<>> /\ call = "idle" /\ ~ Trusted
  /\ astray' = astray + 1 /\ torn' = torn

LEMMA LivedStep ==
  ASSUME Misuse \subseteq CarefulKinds,
         \A key \in Typed : key[1] = shell => key[2] = NoExt
  PROVE  Lived /\ [MachineNext]_machineVars => Lived' \/ Strayed
<1>. SUFFICES ASSUME Lived, [MachineNext]_machineVars, ~ Strayed PROVE Lived'
  OBVIOUS
<1>0. astray = 0
  BY DEF Lived
<1>1. inserted \in Nat /\ (at = "off" \/ Hosted => call = "off") /\ Scripted
  BY DEF Lived
<1>2. CASE HostOpen
  <2>1. at' = "host" /\ call' = "off" /\ inserted' = inserted /\ astray' = astray
    BY <1>1, <1>2 DEF HostOpen, diskVars, historyVars
  <2>. QED BY <1>0, <1>1, <1>2, <2>1, HostOpenLived, PlaceLived
<1>3. ASSUME NEW size \in Binaries, HostWrite(size)
      PROVE  Lived'
  <2>1. at' = "save" /\ call' = "off" /\ astray' = astray
    BY <1>1, <1>3 DEF HostWrite, Hosted, diskVars
  <2>. QED BY <1>0, <1>3, <2>1, HostWriteLived, PlaceLived
<1>4. CASE HostSave
  <2>1. at' = "off" /\ call' = "off" /\ inserted' = inserted /\ astray' = astray
    BY <1>1, <1>4 DEF HostSave, SaveImage, Hosted, historyVars
  <2>. QED BY <1>0, <1>1, <1>4, <2>1, HostSaveLived, PlaceLived
<1>5. CASE PowerOn
  <2>1. at' = "load" /\ inserted' = inserted /\ astray' = astray
    BY <1>5 DEF PowerOn, historyVars
  <2>. QED BY <1>0, <1>1, <1>5, <2>1, PowerOnLived, PlaceLived
<1>6. CASE Load
  <2>1. at' = "boot" /\ inserted' = inserted /\ astray' = astray
    BY <1>6 DEF Load, LoadInto, historyVars
  <2>2. ~ Hosted'
    BY <2>1 DEF Hosted
  <2>3. Guarded' /\ Hosting' /\ Installed' /\ Scripted' /\ ProgramLoads'
    BY <1>6, LoadLived
  <2>. QED BY <1>0, <1>1, <2>1, <2>2, <2>3 DEF Lived
<1>7. CASE BootWrite
  <2>0. WriteInside
    <3>1. WriteAstray => Strayed
      BY DEF WriteAstray, Doing, Strayed, diskVars
    <3>. QED BY <1>7, <3>1 DEF BootWrite
  <2>1. /\ at = "boot" /\ at' = "boot" /\ script # <<>> /\ astray' = astray
        /\ inserted' = inserted /\ program' = program /\ script' = Tail(script)
    BY <2>0 DEF WriteInside, Doing, historyVars
  <2>2. script' \in Seq(Steps)
    BY <1>1, <2>1, StepAsks
  <2>. QED BY <1>0, <2>0, <2>1, <2>2, BootWriteLived, BootLived
<1>8. CASE BootLook
  <2>0. LookInside
    <3>1. LookAstray => Strayed
      BY DEF LookAstray, Doing, Strayed, diskVars
    <3>. QED BY <1>8, <3>1 DEF BootLook
  <2>1. /\ at = "boot" /\ at' = "boot" /\ script # <<>> /\ astray' = astray
        /\ inserted' = inserted /\ program' = program /\ script' = Tail(script)
    BY <2>0 DEF LookInside, Doing, historyVars
  <2>2. script' \in Seq(Steps)
    BY <1>1, <2>1, StepAsks
  <2>. QED BY <1>0, <2>0, <2>1, <2>2, BootLookLived, BootLived
<1>9. CASE BootDone
  <2>1. /\ at = "boot" /\ at' = "user" /\ inserted' = inserted /\ astray' = astray
        /\ UNCHANGED <<fat, disk, dirs, ret, overrun>> /\ UNCHANGED diskVars
    BY <1>9 DEF BootDone, vars, historyVars
  <2>2. ret' \in -1 .. 3 /\ overrun' \in BOOLEAN
    BY <2>1 DEF Lived, Guarded, Consistent
  <2>3. Guarded' /\ Hosting' /\ Installed'
    BY <2>1, <2>2, IdleLived
  <2>. QED BY <1>0, <1>1, <2>1, <2>3, PlaceLived
<1>10. CASE User
  <2>1. at' = "user" /\ astray' = astray
    BY <1>10 DEF User
  <2>. QED BY <1>0, <1>10, <2>1, UserLived, PlaceLived
<1>11. CASE DiskWrite
  <2>1. /\ at \in {"load", "boot", "user"} /\ at' = at
        /\ UNCHANGED <<script, program, inserted, astray>>
    BY <1>11, DiskWriteLived DEF DiskWrite, bootVars, historyVars
  <2>2. Guarded' /\ Hosting' /\ Installed'
    BY <1>11, DiskWriteLived
  <2>3. CASE at = "boot"
    <3>1. script' \in Seq(Steps)
      BY <1>1, <2>1, <2>3 DEF Scripted
    <3>. QED BY <1>0, <2>1, <2>2, <2>3, <3>1, BootLived
  <2>4. CASE at # "boot"
    BY <1>0, <1>1, <2>1, <2>2, <2>4, PlaceLived
  <2>. QED BY <2>3, <2>4
<1>12. CASE PowerOff
  <2>1. at' = "off" /\ call' = "off" /\ inserted' = inserted /\ astray' = astray
    BY <1>12 DEF PowerOff, PowerLoss, historyVars
  <2>. QED BY <1>0, <1>1, <1>12, <2>1, PowerOffLived, PlaceLived
<1>13. CASE UNCHANGED machineVars
  <2>1. UNCHANGED <<vars, diskVars, at, bootVars, historyVars>>
    BY <1>13 DEF machineVars
  <2>2. /\ UNCHANGED <<fat, disk, dirs, ret, overrun>> /\ UNCHANGED diskVars
        /\ UNCHANGED <<signed, platterFat, platter, pending, call, torn>>
        /\ UNCHANGED <<at, script, program, inserted, astray>>
    BY <2>1 DEF vars, diskVars, bootVars, historyVars
  <2>3. ret' \in -1 .. 3 /\ overrun' \in BOOLEAN
    BY <2>2 DEF Lived, Guarded, Consistent
  <2>4. Guarded'
    BY <2>2, <2>3, GuardedIdle DEF Lived
  <2>5. (Hosted <=> Hosted') /\ (Inserting <=> Inserting') /\ (Formatted <=> Formatted')
    BY <2>2 DEF Hosted, Inserting, Formatted
  <2>6. Hosting'
    BY <2>2, <2>5 DEF Lived, Hosting
  <2>7. Installed'
    BY <2>2, <2>5 DEF Lived, Installed
  <2>8. Scripted' /\ ProgramLoads'
    BY <2>2 DEF Lived, Scripted, ProgramLoads
  <2>. QED BY <2>2, <2>4, <2>5, <2>6, <2>7, <2>8 DEF Lived
<1>. QED
  BY <1>2, <1>3, <1>4, <1>5, <1>6, <1>7, <1>8, <1>9, <1>10, <1>11, <1>12, <1>13 DEF MachineNext

\* Neither history goes back.
LEMMA HistoryKept ==
  [MachineNext]_machineVars => astray' \in {astray, astray + 1} /\ (torn => torn')
<1>. SUFFICES ASSUME [MachineNext]_machineVars
              PROVE  astray' \in {astray, astray + 1} /\ (torn => torn')
  OBVIOUS
<1>1. CASE HostOpen \/ HostSave \/ PowerOn \/ Load \/ BootDone \/ DiskWrite
  BY <1>1 DEF HostOpen, HostSave, SaveImage, PowerOn, Format, Mount, Load, LoadInto, BootDone,
              DiskWrite, WriteCluster, diskVars, historyVars
<1>2. CASE \E size \in Binaries : HostWrite(size)
  BY <1>2 DEF HostWrite, diskVars
<1>3. CASE WriteInside
  BY <1>3 DEF WriteInside, StartFile, StartFolder, diskVars, historyVars
<1>4. CASE WriteAstray
  BY <1>4 DEF WriteAstray, diskVars
<1>5. CASE BootLook
  BY <1>5 DEF BootLook, LookInside, LookAstray, diskVars, historyVars
<1>6. CASE User
  BY <1>6 DEF User, MakeFile, MakeFolder, RemoveKey, StartFile, StartFolder, StartDelete
<1>7. CASE PowerOff
  BY <1>7 DEF PowerOff, PowerLoss, historyVars
<1>8. CASE UNCHANGED machineVars
  BY <1>8 DEF machineVars, diskVars, historyVars
<1>. QED BY <1>1, <1>2, <1>3, <1>4, <1>5, <1>6, <1>7, <1>8 DEF MachineNext, BootWrite

(***************************************************************************)
(* The theorems.  Two hypotheses: the calls are careful ones, and nothing  *)
(* the user types has the shell's name with another extension, for         *)
(* delete() goes by the name alone and would remove the shell for it.      *)
(* What holds, holds until the kernel makes a call on a torn volume.       *)
(***************************************************************************)
LivedSoFar == astray \in Nat /\ (astray = 0 => Lived)

LEMMA LivedSoFarStep ==
  ASSUME Misuse \subseteq CarefulKinds,
         \A key \in Typed : key[1] = shell => key[2] = NoExt
  PROVE  LivedSoFar /\ [MachineNext]_machineVars => LivedSoFar'
<1>. SUFFICES ASSUME LivedSoFar, [MachineNext]_machineVars PROVE LivedSoFar'
  OBVIOUS
<1>1. astray \in Nat /\ astray' \in {astray, astray + 1}
  BY HistoryKept DEF LivedSoFar
<1>2. astray' = 0 => Lived'
  <2>. SUFFICES ASSUME astray' = 0 PROVE Lived'
    OBVIOUS
  <2>1. astray = 0 /\ ~ Strayed
    BY <1>1 DEF Strayed
  <2>. QED BY <2>1, LivedStep DEF LivedSoFar
<1>. QED BY <1>1, <1>2 DEF LivedSoFar

LEMMA InitLivedSoFar == MachineInit => LivedSoFar
BY InitLived DEF LivedSoFar, MachineInit

\* A shell that was inserted is loaded whole at every start, until the user
\* removes it or the kernel has been at work on a torn volume (or for a parent
\* that is no directory, which MachineKnowsParents excludes on others): no boot,
\* no call of the user on anything else and no power loss takes it away or
\* changes it.
THEOREM MachineLoads ==
  ASSUME Misuse \subseteq CarefulKinds,
         \A key \in Typed : key[1] = shell => key[2] = NoExt
  PROVE  MachineSpec => []ProgramLoads
<1>1. LivedSoFar => ProgramLoads
  BY DEF LivedSoFar, Lived, ProgramLoads
<1>. QED BY <1>1, InitLivedSoFar, LivedSoFarStep, PTL DEF MachineSpec

\* What the inserter saves can be mounted, whatever was on the image before, and
\* stays so until the kernel has been at work on a torn volume or for a parent
\* that is no directory: a boot, a call and a power loss leave the allocation
\* table a proper one.
THEOREM MachineBootable ==
  ASSUME Misuse \subseteq CarefulKinds,
         \A key \in Typed : key[1] = shell => key[2] = NoExt
  PROVE  MachineSpec => []ImageBootable
<1>1. LivedSoFar => ImageBootable
  BY DEF LivedSoFar, Lived, Installed, Inserting, ImageBootable
<1>. QED BY <1>1, InitLivedSoFar, LivedSoFarStep, PTL DEF MachineSpec

(***************************************************************************)
(* What a boot finds and leaves.  The answers of the driver are ignored,   *)
(* so a request is as good as fulfilled only because of what the volume    *)
(* can hold: a write that is refused has found what it was to make.  That  *)
(* takes that a folder's key leads to no file, nor a file's to a folder.   *)
(***************************************************************************)
\* What has no extension in a directory is a folder, but for the shell, and what
\* has one is none.
KindedEntry(e) ==
  e.name # NoName =>
    /\ e.attr = "dir" => e.ext = NoExt
    /\ e.attr = "file" => e.ext # NoExt \/ e.name = shell

Kinded(dk, ds) == \A d \in ds, s \in Slots : KindedEntry(dk[d][s])

\* The directories in memory when there are any, or else those on the disk.
AllKinded ==
  ~ torn =>
    /\ Hosted \/ call # "off" => Kinded(disk, dirs)
    /\ call = "off" /\ Formatted => Kinded(platter, OnDisk)

FolderAt(dk, d, key, c) ==
  \E s \in Slots : /\ dk[d][s].name = key[1] /\ dk[d][s].ext = key[2]
                   /\ dk[d][s].attr = "dir" /\ dk[d][s].cluster = c

FileIn(dk, d, key) ==
  \E s \in Slots : /\ dk[d][s].name = key[1] /\ dk[d][s].ext = key[2]
                   /\ dk[d][s].attr = "file"

\* What the request b was for.
Fulfilled(b) ==
  /\ parent[b.where] \in dirs
  /\ b.op = "look" =>
       parent[b.into] \in dirs /\ FolderAt(disk, parent[b.where], b.key, parent[b.into])
  /\ b.op = "write" /\ b.size = 0 =>
       \E c \in dirs : FolderAt(disk, parent[b.where], b.key, c)
  /\ b.op = "write" /\ b.size = 1 =>
       (FreeClusters(fat) # {} => FileIn(disk, parent[b.where], b.key))

Requests == 8
Places == {"root", "table", "table3"}

\* An overrun is the last that happens in a boot.
Progress ==
  /\ Len(script) \in 0 .. Requests
  /\ \A i \in 1 .. Len(script) : script[i] = BootScript[(Requests - Len(script)) + i]
  /\ \A i \in 1 .. Requests - Len(script) :
       Fulfilled(BootScript[i]) \/ (overrun /\ BootScript[i].op = "write")

Booted ==
  /\ AllKinded
  /\ parent \in [Places -> Int] /\ parent["root"] = RootCluster
  /\ at \notin {"boot", "user"} => parent = NoParents
  /\ at = "boot" /\ ~ torn => Progress

\* The kernel's names are no shell's, its files have an extension, and the user
\* makes no file that has none.
OwnNames ==
  /\ shell \notin {ikanaide, cakcok, cicak} /\ exe # NoExt
  /\ "kernels_name" \notin Slips

(***************************************************************************)
(* The script.                                                             *)
(***************************************************************************)
\* What a sequence put after another has where.
LEMMA Appended ==
  ASSUME NEW S, NEW u \in Seq(S), NEW v \in Seq(S)
  PROVE  /\ Len(u \o v) = Len(u) + Len(v)
         /\ \A i \in 1 .. Len(u) : (u \o v)[i] = u[i]
         /\ \A i \in 1 .. Len(v) : (u \o v)[Len(u) + i] = v[i]
<1>1. PICK n, m \in Nat : n = Len(u) /\ m = Len(v)
  BY LenProperties
<1>2. \A i \in 1 .. m : n + i \in 1 .. n + m /\ ~ (n + i <= n) /\ (n + i) - n = i
  OBVIOUS
<1>3. \A i \in 1 .. n : i \in 1 .. n + m /\ i <= n
  OBVIOUS
<1>4. /\ Len(u \o v) = n + m
      /\ \A i \in 1 .. n + m : (u \o v)[i] = IF i <= n THEN u[i] ELSE v[i - n]
  BY <1>1, ConcatProperties
<1>. QED BY <1>1, <1>2, <1>3, <1>4

LEMMA BootRequests ==
  /\ Len(BootScript) = Requests
  /\ BootScript[1] = WriteOf("root", Home, 0)
  /\ BootScript[2] = WriteOf("root", KernelFile, 1)
  /\ BootScript[3] = LookAt("root", Home, "table")
  /\ BootScript[4] = WriteOf("table", KernelFile, 1)
  /\ BootScript[5] = WriteOf("table", <<cakcok, NoExt>>, 0)
  /\ BootScript[6] = WriteOf("table", Nested, 0)
  /\ BootScript[7] = LookAt("table", Nested, "table3")
  /\ BootScript[8] = WriteOf("table3", KernelFile, 1)
<1>. DEFINE A == InRoot \o FindHome
            B == A \o InHome
            C == B \o FindNested
            InNested == <<WriteOf("table3", KernelFile, 1)>>
<1>1. /\ Len(InRoot) = 2 /\ Len(FindHome) = 1 /\ Len(InHome) = 3
      /\ Len(FindNested) = 1 /\ Len(InNested) = 1
  BY DEF InRoot, FindHome, InHome, FindNested
<1>2. A \in Seq(Steps) /\ B \in Seq(Steps) /\ C \in Seq(Steps) /\ InNested \in Seq(Steps)
  BY ScriptParts, ConcatProperties
<1>3. BootScript = C \o InNested
  BY DEF BootScript
<1>. HIDE DEF A, B, C, InNested
<1>4. Len(A) = 3 /\ A[1] = InRoot[1] /\ A[2] = InRoot[2] /\ A[2 + 1] = FindHome[1]
  <2>1. 1 \in 1 .. 2 /\ 2 \in 1 .. 2 /\ 1 \in 1 .. 1 /\ 2 + 1 = 3
    OBVIOUS
  <2>2. /\ Len(A) = Len(InRoot) + Len(FindHome)
        /\ \A i \in 1 .. Len(InRoot) : A[i] = InRoot[i]
        /\ \A i \in 1 .. Len(FindHome) : A[Len(InRoot) + i] = FindHome[i]
    BY ScriptParts, Appended DEF A
  <2>. QED BY <1>1, <2>1, <2>2
<1>5. /\ Len(B) = 6 /\ B[1] = A[1] /\ B[2] = A[2] /\ B[3] = A[3]
      /\ B[3 + 1] = InHome[1] /\ B[3 + 2] = InHome[2] /\ B[3 + 3] = InHome[3]
  <2>1. /\ 1 \in 1 .. 3 /\ 2 \in 1 .. 3 /\ 3 \in 1 .. 3 /\ 3 + 3 = 6
    OBVIOUS
  <2>2. /\ Len(B) = Len(A) + Len(InHome)
        /\ \A i \in 1 .. Len(A) : B[i] = A[i]
        /\ \A i \in 1 .. Len(InHome) : B[Len(A) + i] = InHome[i]
    BY <1>2, ScriptParts, Appended DEF B
  <2>. QED BY <1>1, <1>4, <2>1, <2>2
<1>6. Len(C) = 7 /\ (\A i \in 1 .. 6 : C[i] = B[i]) /\ C[6 + 1] = FindNested[1]
  <2>1. 1 \in 1 .. 1 /\ 6 + 1 = 7
    OBVIOUS
  <2>2. /\ Len(C) = Len(B) + Len(FindNested)
        /\ \A i \in 1 .. Len(B) : C[i] = B[i]
        /\ \A i \in 1 .. Len(FindNested) : C[Len(B) + i] = FindNested[i]
    BY <1>2, ScriptParts, Appended DEF C
  <2>. QED BY <1>1, <1>5, <2>1, <2>2
<1>7. /\ Len(BootScript) = 8 /\ (\A i \in 1 .. 7 : BootScript[i] = C[i])
      /\ BootScript[7 + 1] = InNested[1]
  <2>1. 1 \in 1 .. 1 /\ 7 + 1 = 8
    OBVIOUS
  <2>2. /\ Len(BootScript) = Len(C) + Len(InNested)
        /\ \A i \in 1 .. Len(C) : BootScript[i] = C[i]
        /\ \A i \in 1 .. Len(InNested) : BootScript[Len(C) + i] = InNested[i]
    BY <1>2, <1>3, Appended
  <2>. QED BY <1>1, <1>6, <2>1, <2>2
<1>8. /\ BootScript[1] = InRoot[1] /\ BootScript[2] = InRoot[2] /\ BootScript[3] = FindHome[1]
      /\ BootScript[4] = InHome[1] /\ BootScript[5] = InHome[2] /\ BootScript[6] = InHome[3]
      /\ BootScript[7] = FindNested[1] /\ BootScript[8] = InNested[1]
  BY <1>4, <1>5, <1>6, <1>7
<1>9. /\ InRoot[1] = WriteOf("root", Home, 0) /\ InRoot[2] = WriteOf("root", KernelFile, 1)
      /\ FindHome[1] = LookAt("root", Home, "table")
      /\ InHome[1] = WriteOf("table", KernelFile, 1)
      /\ InHome[2] = WriteOf("table", <<cakcok, NoExt>>, 0)
      /\ InHome[3] = WriteOf("table", Nested, 0)
      /\ FindNested[1] = LookAt("table", Nested, "table3")
      /\ InNested[1] = WriteOf("table3", KernelFile, 1)
  BY DEF InRoot, FindHome, InHome, FindNested, InNested
<1>. QED BY <1>7, <1>8, <1>9 DEF Requests

\* Each request by itself, and the directories the ones before it were for.
LEMMA RequestKinds ==
  ASSUME OwnNames, NEW i \in 1 .. Requests, NEW b, b = BootScript[i]
  PROVE  /\ b.op \in {"write", "look"} /\ b.where \in Places /\ b.into \in Places
         /\ b.key \in Keys /\ b.size \in {0, 1}
         /\ b.op = "look" => b.size = 0
         /\ b.op = "write" => b.into = b.where
         /\ b.size = 0 => b.key[2] = NoExt /\ b.key[1] # shell
         /\ b.size = 1 => b.key[2] # NoExt
<1>1. Home \in Keys /\ Nested \in Keys /\ KernelFile \in Keys /\ <<cakcok, NoExt>> \in Keys
  BY MachineAssumption, NameAssumption DEF Home, Nested, KernelFile, Keys
<1>2. i \in {1, 2, 3, 4, 5, 6, 7, 8}
  BY DEF Requests
<1>3. \/ b = WriteOf("root", Home, 0)
      \/ b = WriteOf("root", KernelFile, 1)
      \/ b = LookAt("root", Home, "table")
      \/ b = WriteOf("table", KernelFile, 1)
      \/ b = WriteOf("table", <<cakcok, NoExt>>, 0)
      \/ b = WriteOf("table", Nested, 0)
      \/ b = LookAt("table", Nested, "table3")
      \/ b = WriteOf("table3", KernelFile, 1)
  BY <1>2, BootRequests
<1>. QED BY <1>1, <1>3 DEF WriteOf, LookAt, Places, Home, Nested, KernelFile, OwnNames

LEMMA LookOrder ==
  ASSUME NEW i \in 1 .. Requests, BootScript[i].op = "look"
  PROVE  /\ \E j \in 1 .. i - 1 :
              /\ BootScript[j].op = "write" /\ BootScript[j].size = 0
              /\ BootScript[j].where = BootScript[i].where
              /\ BootScript[j].key = BootScript[i].key
         /\ \A j \in 1 .. i - 1 : /\ BootScript[j].where # BootScript[i].into
                                  /\ BootScript[j].into # BootScript[i].into
         /\ BootScript[i].where # BootScript[i].into
         /\ BootScript[i].into # "root"
<1>1. i \in {1, 2, 3, 4, 5, 6, 7, 8}
  BY DEF Requests
<1>2. i \in {3, 7}
  BY <1>1, BootRequests DEF WriteOf
<1>3. CASE i = 3
  <2>1. \A j \in 1 .. i - 1 : j \in {1, 2}
    BY <1>3
  <2>2. 1 \in 1 .. i - 1
    BY <1>3
  <2>. QED BY <1>3, <2>1, <2>2, BootRequests DEF WriteOf, LookAt
<1>4. CASE i = 7
  <2>1. \A j \in 1 .. i - 1 : j \in {1, 2, 3, 4, 5, 6}
    BY <1>4
  <2>2. 6 \in 1 .. i - 1
    BY <1>4
  <2>. QED BY <1>4, <2>1, <2>2, BootRequests DEF WriteOf, LookAt
<1>. QED BY <1>2, <1>3, <1>4

LEMMA WhereOrder ==
  ASSUME NEW i \in 1 .. Requests, BootScript[i].where # "root"
  PROVE  \E j \in 1 .. i - 1 :
           BootScript[j].op = "look" /\ BootScript[j].into = BootScript[i].where
<1>1. i \in {1, 2, 3, 4, 5, 6, 7, 8}
  BY DEF Requests
<1>2. i \in {4, 5, 6, 7, 8}
  BY <1>1, BootRequests DEF WriteOf, LookAt
<1>3. 3 \in 1 .. i - 1 /\ (i = 8 => 7 \in 1 .. i - 1)
  BY <1>2
<1>4. CASE i = 8
  BY <1>3, <1>4, BootRequests DEF WriteOf, LookAt
<1>5. CASE i # 8
  <2>1. BootScript[i].where = "table"
    BY <1>2, <1>5, BootRequests DEF WriteOf, LookAt
  <2>. QED BY <1>3, <2>1, BootRequests DEF LookAt
<1>. QED BY <1>4, <1>5

\* The next request, and where it goes.
LEMMA ParentKnown ==
  ASSUME Booted, Progress, Scripted, at = "boot", script # <<>>, RootCluster \in dirs,
         OwnNames
  PROVE  \E i \in 1 .. Requests :
           /\ i = (Requests - Len(script)) + 1
           /\ Step = BootScript[i]
           /\ Parent = parent[BootScript[i].where] /\ Parent \in dirs
<1>1. PICK n \in 1 .. Requests : n = Len(script)
  <2>1. Len(script) # 0 /\ Len(script) \in Nat
    BY EmptySeq DEF Scripted
  <2>. QED BY <2>1 DEF Progress, Requests
<1>2. PICK i \in 1 .. Requests : i = (Requests - n) + 1
  BY DEF Requests
<1>3. Step = BootScript[i]
  <2>1. script[1] = BootScript[(Requests - n) + 1]
    BY <1>1 DEF Progress
  <2>2. Head(script) = script[1]
    BY DEF Scripted
  <2>. QED BY <1>2, <2>1, <2>2 DEF Step
<1>4. Parent = parent[BootScript[i].where]
  BY <1>3 DEF Parent
<1>5. CASE BootScript[i].where = "root"
  BY <1>1, <1>2, <1>3, <1>4, <1>5 DEF Booted
<1>6. CASE BootScript[i].where # "root"
  <2>1. PICK j \in 1 .. i - 1 :
          BootScript[j].op = "look" /\ BootScript[j].into = BootScript[i].where
    BY <1>6, WhereOrder
  <2>2. j \in 1 .. Requests - n
    BY <1>2 DEF Requests
  <2>3. Fulfilled(BootScript[j])
    BY <1>1, <2>1, <2>2 DEF Progress
  <2>4. parent[BootScript[j].into] \in dirs
    BY <2>1, <2>3 DEF Fulfilled
  <2>. QED BY <1>1, <1>2, <1>3, <1>4, <2>1, <2>4
<1>. QED BY <1>5, <1>6

(***************************************************************************)
(* What a write leaves in the tables.                                      *)
(***************************************************************************)
LEMMA LinkedFree ==
  ASSUME NEW f, NEW length \in Nat \ {0}, NEW ch \in Chains(f, length)
  PROVE  FreeClusters(Linked(f, ch, length)) \subseteq FreeClusters(f)
<1>. SUFFICES ASSUME NEW c \in DataClusters, Linked(f, ch, length)[c] = EMPTY
              PROVE  f[c] = EMPTY
  BY DEF FreeClusters
<1>1. c \in Clusters
  BY ClusterMapAssumption DEF DataClusters, Clusters, FirstCluster
<1>2. ASSUME NEW i \in 1 .. length
      PROVE  c # ch[i]
  <2>1. i # length => i + 1 \in 1 .. length
    OBVIOUS
  <2>2. \A j \in 1 .. length : ch[j] # EMPTY
    BY ChainClusters DEF DataClusters, FirstCluster, EMPTY
  <2>3. Linked(f, ch, length)[ch[i]] # EMPTY
    BY <2>1, <2>2, LinkedEntries DEF EMPTY, EOF
  <2>. QED BY <2>3
<1>. QED BY <1>1, <1>2, LinkedEntries

\* What was in a directory is in it still.
EntriesStay ==
  /\ dirs \subseteq dirs' /\ FreeClusters(fat)' \subseteq FreeClusters(fat)
  /\ \A d \in dirs, s \in Slots :
       disk[d][s].name # NoName => Same(disk'[d][s], disk[d][s])

LEMMA FileStays ==
  ASSUME Orderly, NEW p \in dirs, NEW name \in Names, NEW ext \in Exts,
         NEW size \in FileSizes, NEW d \in Datas, WriteFile(p, name, ext, size, d)
  PROVE  EntriesStay /\ FileIn(disk', p, <<name, ext>>)
<1>0. name \in Callable
  BY DEF Callable
<1>1. size \in Nat \ {0} /\ Needed(size) = size + 1 /\ UNCHANGED dirs
  BY <1>0, FileTables DEF Orderly
<1>2. PICK ch \in Chains(fat, Needed(size)), s \in ChildSlots :
        /\ fat' = Linked(fat, ch, Needed(size))
        /\ disk[p][s].name = NoName
        /\ \A r \in Slots : r # s => Same(disk'[p][r], disk[p][r])
        /\ disk'[p][s] = FileEntry(name, ext, ch[1], size)
        /\ \A c \in Clusters :
             c # p /\ (\A i \in 1 .. size : c # ch[i]) => disk'[c] = disk[c]
  BY <1>0, FileTables DEF Orderly
<1>3. Needed(size) \in Nat \ {0} /\ \A i \in 1 .. size : i \in 1 .. Needed(size)
  BY <1>1
<1>4. FreeClusters(fat') \subseteq FreeClusters(fat)
  BY <1>2, <1>3, LinkedFree
<1>5. ASSUME NEW c \in dirs, c # p
      PROVE  disk'[c] = disk[c]
  <2>1. c \in Clusters /\ fat[c] # EMPTY
    BY DEF Orderly, Sound, TypeOK, DirsAreEnds, EMPTY, EOF
  <2>2. \A i \in 1 .. size : fat[ch[i]] = EMPTY
    BY <1>2, <1>3, ChainClusters
  <2>. QED BY <1>2, <1>5, <2>1, <2>2
<1>6. ASSUME NEW c \in dirs, NEW r \in Slots, disk[c][r].name # NoName
      PROVE  Same(disk'[c][r], disk[c][r])
  <2>1. CASE c = p
    BY <1>2, <1>6, <2>1
  <2>2. CASE c # p
    BY <1>5, <2>2 DEF Same
  <2>. QED BY <2>1, <2>2
<1>7. EntriesStay
  BY <1>1, <1>4, <1>6 DEF EntriesStay
<1>8. FileIn(disk', p, <<name, ext>>)
  BY <1>2, SlotNumbers DEF FileIn, FileEntry
<1>. QED BY <1>7, <1>8

LEMMA FolderStays ==
  ASSUME Orderly, NEW p \in dirs, NEW name \in Names, NEW ext \in Exts,
         WriteFolder(p, name, ext)
  PROVE  EntriesStay /\ \E c \in dirs' : FolderAt(disk', p, <<name, ext>>, c)
<1>0. name \in Callable
  BY DEF Callable
<1>1. PICK ch \in Chains(fat, 1), s \in ChildSlots :
        /\ fat' = Linked(fat, ch, 1)
        /\ ch[1] \notin dirs /\ dirs' = dirs \cup {ch[1]}
        /\ disk[p][s].name = NoName
        /\ disk'[p][s] = DirEntry(name, ext, ch[1])
        /\ \A r \in Slots : r # s => disk'[p][r] = disk[p][r]
        /\ \A c \in Clusters : c # p /\ c # ch[1] => disk'[c] = disk[c]
  BY <1>0, FolderTables DEF Orderly
<1>2. FreeClusters(fat') \subseteq FreeClusters(fat)
  <2>1. 1 \in Nat \ {0}
    OBVIOUS
  <2>. QED BY <1>1, <2>1, LinkedFree
<1>3. ASSUME NEW c \in dirs, NEW r \in Slots, disk[c][r].name # NoName
      PROVE  Same(disk'[c][r], disk[c][r])
  <2>1. CASE c = p
    BY <1>1, <1>3, <2>1 DEF Same
  <2>2. CASE c # p
    <3>1. c \in Clusters /\ c # ch[1]
      BY <1>1 DEF Orderly, Sound, TypeOK
    <3>. QED BY <1>1, <2>2, <3>1 DEF Same
  <2>. QED BY <2>1, <2>2
<1>4. EntriesStay
  BY <1>1, <1>2, <1>3 DEF EntriesStay
<1>5. /\ disk'[p][s].name = name /\ disk'[p][s].ext = ext
      /\ disk'[p][s].attr = "dir" /\ disk'[p][s].cluster = ch[1]
  BY <1>1 DEF DirEntry, BlankEntry
<1>6. ch[1] \in dirs' /\ FolderAt(disk', p, <<name, ext>>, ch[1])
  BY <1>1, <1>5, SlotNumbers DEF FolderAt
<1>. QED BY <1>4, <1>6

(***************************************************************************)
(* Every directory is kinded.                                              *)
(***************************************************************************)
LEMMA FileKinded ==
  ASSUME Orderly, Kinded(disk, dirs), NEW p \in dirs, NEW name \in Names, NEW ext \in Exts,
         NEW size \in FileSizes, NEW d \in Datas, WriteFile(p, name, ext, size, d),
         ext # NoExt \/ name = shell
  PROVE  Kinded(disk', dirs')
<1>0. name \in Callable
  BY DEF Callable
<1>1. size \in Nat \ {0} /\ Needed(size) = size + 1 /\ dirs' = dirs
  BY <1>0, FileTables DEF Orderly
<1>2. PICK ch \in Chains(fat, Needed(size)), s \in ChildSlots :
        /\ \A r \in Slots : r # s => Same(disk'[p][r], disk[p][r])
        /\ disk'[p][s] = FileEntry(name, ext, ch[1], size)
        /\ \A c \in Clusters :
             c # p /\ (\A i \in 1 .. size : c # ch[i]) => disk'[c] = disk[c]
  BY <1>0, FileTables DEF Orderly
<1>. SUFFICES ASSUME NEW c \in dirs, NEW r \in Slots
              PROVE  KindedEntry(disk'[c][r])
  BY <1>1 DEF Kinded
<1>3. CASE c = p /\ r = s
  BY <1>2, <1>3 DEF FileEntry, KindedEntry
<1>4. CASE c = p /\ r # s
  BY <1>2, <1>4 DEF Same, Kinded, KindedEntry
<1>5. CASE c # p
  <2>1. c \in Clusters /\ fat[c] # EMPTY
    BY DEF Orderly, Sound, TypeOK, DirsAreEnds, EMPTY, EOF
  <2>2. Needed(size) \in Nat \ {0} /\ \A i \in 1 .. size : i \in 1 .. Needed(size)
    BY <1>1
  <2>3. \A i \in 1 .. size : fat[ch[i]] = EMPTY
    BY <1>2, <2>2, ChainClusters
  <2>4. disk'[c] = disk[c]
    BY <1>2, <1>5, <2>1, <2>3
  <2>. QED BY <2>4 DEF Kinded
<1>. QED BY <1>3, <1>4, <1>5

LEMMA FolderKinded ==
  ASSUME Orderly, Kinded(disk, dirs), NEW p \in dirs, NEW name \in Names,
         WriteFolder(p, name, NoExt)
  PROVE  Kinded(disk', dirs')
<1>0. name \in Callable /\ NoExt \in Exts
  BY NameAssumption DEF Callable
<1>1. PICK ch \in Chains(fat, 1), s \in ChildSlots :
        /\ dirs' = dirs \cup {ch[1]}
        /\ disk'[ch[1]] = NewTable(name, ch[1])
        /\ disk'[p][s] = DirEntry(name, NoExt, ch[1])
        /\ \A r \in Slots : r # s => disk'[p][r] = disk[p][r]
        /\ \A c \in Clusters : c # p /\ c # ch[1] => disk'[c] = disk[c]
  BY <1>0, FolderTables DEF Orderly
<1>. SUFFICES ASSUME NEW c \in dirs', NEW r \in Slots
              PROVE  KindedEntry(disk'[c][r])
  BY DEF Kinded
<1>2. CASE c = ch[1]
  <2>1. NewTable(name, c)[r] = DirEntry(name, NoExt, c) \/ NewTable(name, c)[r] = BlankEntry
    BY DEF NewTable, BlankTable
  <2>2. /\ DirEntry(name, NoExt, c).ext = NoExt /\ DirEntry(name, NoExt, c).attr = "dir"
        /\ BlankEntry.attr = "none"
    BY DEF DirEntry, BlankEntry
  <2>3. disk'[c][r] = DirEntry(name, NoExt, c) \/ disk'[c][r] = BlankEntry
    BY <1>1, <1>2, <2>1
  <2>. QED BY <2>2, <2>3 DEF KindedEntry
<1>3. CASE c = p /\ r = s
  BY <1>1, <1>3 DEF DirEntry, BlankEntry, KindedEntry
<1>4. CASE c = p /\ r # s
  BY <1>1, <1>4 DEF Kinded
<1>5. CASE c # p /\ c # ch[1]
  <2>1. c \in dirs /\ c \in Clusters
    BY <1>1, <1>5 DEF Orderly, Sound, TypeOK
  <2>. QED BY <1>1, <1>5, <2>1 DEF Kinded
<1>. QED BY <1>2, <1>3, <1>4, <1>5

LEMMA DeleteKinded ==
  ASSUME Orderly, Kinded(disk, dirs), NEW p, NEW name, NEW ext, DeleteEntry(p, name, ext)
  PROVE  Kinded(disk', dirs')
<1>1. PICK c, s : disk' = [disk EXCEPT ![c] = [@ EXCEPT ![s] = BlankEntry]]
  BY DEF DeleteEntry
<1>2. disk \in [Clusters -> Table] /\ dirs' \subseteq dirs /\ dirs \subseteq Clusters
  BY DEF Orderly, Sound, TypeOK, DeleteEntry
<1>. SUFFICES ASSUME NEW b \in dirs, NEW r \in Slots
              PROVE  KindedEntry(disk'[b][r])
  BY <1>2 DEF Kinded
<1>3. disk'[b][r] = disk[b][r] \/ disk'[b][r] = BlankEntry
  <2>1. CASE b = c
    <3>1. disk[b] \in Table /\ disk'[b] = [disk[b] EXCEPT ![s] = BlankEntry]
      BY <1>1, <1>2, <2>1
    <3>. QED BY <3>1 DEF Table
  <2>2. CASE b # c
    BY <1>1, <1>2, <2>2
  <2>. QED BY <2>1, <2>2
<1>. QED BY <1>3 DEF Kinded, KindedEntry, BlankEntry

LEMMA RootKinded ==
  ASSUME NEW dk, dk[RootCluster] = RootTable
  PROVE  Kinded(dk, {RootCluster})
<1>1. \A s \in Slots : RootTable[s].ext = NoExt /\ RootTable[s].attr \in {"dir", "none"}
  BY DEF RootTable, BlankTable, DirEntry, BlankEntry
<1>. QED BY <1>1 DEF Kinded, KindedEntry

\* Neither the disk nor what is in memory changes.
LEMMA IdleKinded ==
  ASSUME AllKinded, UNCHANGED <<disk, dirs>>, UNCHANGED diskVars, Hosted' => Hosted
  PROVE  AllKinded'
<1>1. UNCHANGED <<signed, platterFat, platter, call, torn>>
  BY DEF diskVars
<1>2. OnDisk' = OnDisk /\ Formatted' = Formatted
  BY <1>1 DEF OnDisk, Found, Formatted
<1>. QED BY <1>1, <1>2 DEF AllKinded

\* What a start or the inserter reads.
LEMMA OpenKinded ==
  ASSUME AllKinded, ~ torn, call = "off",
         \/ Formatted /\ disk' = platter /\ dirs' = OnDisk
         \/ /\ disk' = [platter EXCEPT ![BOOT_SECTOR] = BootSector, ![RootCluster] = RootTable]
            /\ platter \in [Clusters -> Table] /\ dirs' = {RootCluster}
  PROVE  Kinded(disk', dirs')
<1>1. CASE Formatted /\ disk' = platter /\ dirs' = OnDisk
  BY <1>1 DEF AllKinded
<1>2. CASE /\ disk' = [platter EXCEPT ![BOOT_SECTOR] = BootSector, ![RootCluster] = RootTable]
           /\ platter \in [Clusters -> Table] /\ dirs' = {RootCluster}
  <2>1. RootCluster \in Clusters
    BY ClusterMapAssumption DEF Clusters, FirstCluster, RootCluster
  <2>2. PICK dk : dk = disk'
    OBVIOUS
  <2>3. dk[RootCluster] = RootTable
    BY <1>2, <2>1, <2>2
  <2>. QED BY <1>2, <2>2, <2>3, RootKinded
<1>. QED BY <1>1, <1>2

\* What a power failure leaves: while a file is written, the directories on the
\* disk have the entries they had.
LEMMA LeftKinded ==
  ASSUME Guarded, ~ torn, Formatted, call \in {"idle", "file"}, Kinded(disk, dirs)
  PROVE  Kinded(platter, OnDisk)
<1>1. Consistent /\ Volume(platterFat, platter, dirs) /\ Volume(fat, disk, dirs)
  BY SafeVolume DEF Guarded, Consistent
<1>2. OnDisk = dirs
  BY <1>1, FoundTree
<1>3. CASE call = "idle"
  <2>1. platter = disk
    BY <1>1, <1>3, ReadyVolume DEF Ready
  <2>. QED BY <1>2, <2>1
<1>4. CASE call = "file"
  <2>1. FilePending
    BY <1>1, <1>4 DEF Consistent
  <2>2. PICK n : n = Len(pending)
    OBVIOUS
  <2>3. n \in Nat
    BY <1>1, <2>2 DEF Consistent, Flushed
  <2>4. PICK p \in dirs : p = pending[n] /\ Before(platter[p], disk[p])
    BY <2>1, <2>2 DEF FilePending
  <2>5. ASSUME NEW d \in dirs, d # p
        PROVE  platter[d] = disk[d]
    <3>1. /\ d \in Clusters /\ d # FAT_CLUSTER_NUMBER /\ platterFat[d] = EOF
      BY <1>1, DirsAreParents DEF Volume
    <3>2. ASSUME NEW i \in 1 .. n
          PROVE  pending[i] # d
      <4>1. i = n \/ (i = n - 1 /\ n > 1) \/ i \in 1 .. n - 2
        BY <2>3
      <4>2. CASE i = n
        BY <2>4, <2>5, <4>2
      <4>3. CASE i = n - 1 /\ n > 1
        BY <2>1, <2>2, <3>1, <4>3 DEF FilePending
      <4>4. CASE i \in 1 .. n - 2
        <5>1. platterFat[pending[i]] = EMPTY
          BY <2>1, <2>2, <4>4 DEF FilePending
        <5>. QED BY <3>1, <5>1 DEF EMPTY, EOF
      <4>. QED BY <4>1, <4>2, <4>3, <4>4
    <3>3. ~ Unwritten(d)
      BY <2>2, <3>2 DEF Unwritten
    <3>. QED BY <1>1, <1>4, <3>1, <3>3 DEF Consistent, Flushed
  <2>6. ASSUME NEW d \in dirs, NEW s \in Slots
        PROVE  KindedEntry(platter[d][s])
    <3>1. KindedEntry(disk[d][s])
      BY DEF Kinded
    <3>2. CASE d # p
      BY <2>5, <3>1, <3>2
    <3>3. CASE d = p
      <4>1. Same(platter[d][s], disk[d][s]) \/ platter[d][s].name = NoName
        BY <2>4, <3>3 DEF Before, ChildSlots
      <4>. QED BY <3>1, <4>1 DEF Same, KindedEntry
    <3>. QED BY <3>2, <3>3
  <2>. QED BY <1>2, <2>6 DEF Kinded
<1>. QED BY <1>3, <1>4

(***************************************************************************)
(* What a directory's entries can be.                                      *)
(***************************************************************************)
LEMMA FolderCluster ==
  ASSUME Orderly, NEW d \in dirs, NEW s \in Slots, NEW c, c = disk[d][s].cluster,
         disk[d][s].attr = "dir"
  PROVE  c \in dirs /\ disk[c][SelfSlot].cluster = c
<1>1. Tables(disk, dirs) /\ Tree(disk, dirs)
  BY OrderlyVolume DEF Volume
<1>2. c \in dirs
  <2>1. CASE s = SelfSlot
    BY <1>1, <2>1 DEF Tables
  <2>2. CASE s \in ChildSlots
    BY <1>1, <2>2, BelowIs DEF Tree, Closed
  <2>. QED BY <2>1, <2>2 DEF ChildSlots
<1>. QED BY <1>1, <1>2 DEF Tables

\* A key leads to a folder or to a file, by its extension.
LEMMA KeyLeads ==
  ASSUME Orderly, Kinded(disk, dirs), NEW d \in dirs, NEW s \in Slots,
         disk[d][s].name # NoName
  PROVE  /\ disk[d][s].ext = NoExt /\ disk[d][s].name # shell => disk[d][s].attr = "dir"
         /\ disk[d][s].ext # NoExt => disk[d][s].attr = "file"
<1>1. Tables(disk, dirs) /\ d \in Clusters
  BY OrderlyVolume DEF Volume
<1>2. disk[d][s].attr \in {"file", "dir"}
  BY <1>1 DEF Tables, ChildSlots
<1>. QED BY <1>1, <1>2 DEF Kinded, KindedEntry

LEMMA StaysFulfilled ==
  ASSUME NEW b, Fulfilled(b), EntriesStay, b.key[1] # NoName,
         parent'[b.where] = parent[b.where], parent'[b.into] = parent[b.into]
  PROVE  Fulfilled(b)'
<1>1. PICK p : p = parent[b.where] /\ parent'[b.where] = p /\ p \in dirs /\ p \in dirs'
  BY DEF Fulfilled, EntriesStay
<1>2. ASSUME NEW c, FolderAt(disk, p, b.key, c)
      PROVE  FolderAt(disk', p, b.key, c)
  BY <1>1, <1>2 DEF FolderAt, EntriesStay, Same
<1>3. ASSUME FileIn(disk, p, b.key)
      PROVE  FileIn(disk', p, b.key)
  BY <1>1, <1>3 DEF FileIn, EntriesStay, Same
<1>4. b.op = "look" =>
        parent'[b.into] \in dirs' /\ FolderAt(disk', p, b.key, parent'[b.into])
  BY <1>1, <1>2 DEF Fulfilled, EntriesStay
<1>5. b.op = "write" /\ b.size = 0 => \E c \in dirs' : FolderAt(disk', p, b.key, c)
  BY <1>1, <1>2 DEF Fulfilled, EntriesStay
<1>6. b.op = "write" /\ b.size = 1 => (FreeClusters(fat)' # {} => FileIn(disk', p, b.key))
  BY <1>1, <1>3 DEF Fulfilled, EntriesStay
<1>. QED BY <1>1, <1>4, <1>5, <1>6 DEF Fulfilled

\* A write is refused when what it was to make is there, or for want of room.
LEMMA RefusedFulfils ==
  ASSUME Orderly, Kinded(disk, dirs), NEW p \in dirs, NEW key \in Keys, NEW size \in {0, 1},
         size = 0 => key[2] = NoExt /\ key[1] # shell,
         size = 1 => key[2] # NoExt,
         WriteRefused(p, key[1], key[2], size)
  PROVE  /\ size = 0 => \E c \in dirs : FolderAt(disk, p, key, c)
         /\ size = 1 => (FreeClusters(fat) # {} => FileIn(disk, p, key))
<1>1. key[1] # NoName /\ WriteCode(p, key[1], key[2], size) # 0
  BY NameAssumption DEF WriteRefused, Keys
<1>2. Tables(disk, dirs)
  BY OrderlyVolume DEF Volume
<1>3. \A s \in find_empty_entry(disk[p]) : disk[p][s].attr # "dir"
  BY <1>2 DEF Tables, ChildSlots, find_empty_entry, First, FreeSlots
<1>4. Exists(p, key[1], key[2]) \/ (size > 0 /\ FreeClusters(fat) = {})
  BY <1>1, <1>3 DEF WriteCode
<1>5. CASE Exists(p, key[1], key[2])
  <2>1. PICK s \in Slots : disk[p][s].name = key[1] /\ disk[p][s].ext = key[2]
    BY <1>5 DEF Exists, dir_table_search, First, KeyedSlots
  <2>2. CASE size = 0
    <3>1. disk[p][s].attr = "dir"
      BY <1>1, <2>1, <2>2, KeyLeads
    <3>2. disk[p][s].cluster \in dirs
      BY <3>1, FolderCluster
    <3>. QED BY <2>1, <2>2, <3>1, <3>2 DEF FolderAt
  <2>3. CASE size = 1
    <3>1. disk[p][s].attr = "file"
      BY <1>1, <2>1, <2>3, KeyLeads
    <3>. QED BY <2>1, <2>3, <3>1 DEF FileIn
  <2>. QED BY <2>2, <2>3
<1>6. CASE size > 0 /\ FreeClusters(fat) = {}
  BY <1>6
<1>. QED BY <1>4, <1>5, <1>6

(***************************************************************************)
(* The steps of a boot.                                                    *)
(***************************************************************************)
LEMMA ProgressStep ==
  ASSUME Progress, ~ overrun, Scripted, at = "boot", script # <<>>, script' = Tail(script),
         NEW i \in 1 .. Requests, i = (Requests - Len(script)) + 1,
         \A j \in 1 .. i - 1 : Fulfilled(BootScript[j]) => Fulfilled(BootScript[j])',
         Fulfilled(BootScript[i])' \/ (overrun' /\ BootScript[i].op = "write")
  PROVE  Progress'
<1>1. PICK n \in 1 .. Requests : n = Len(script)
  <2>1. Len(script) # 0 /\ Len(script) \in Nat
    BY EmptySeq DEF Scripted
  <2>. QED BY <2>1 DEF Progress, Requests
<1>2. PICK q : q = script'
  OBVIOUS
<1>3. Len(q) = n - 1 /\ \A k \in 1 .. n - 1 : q[k] = script[k + 1]
  BY <1>1, <1>2 DEF Scripted
<1>4. /\ i = (Requests - n) + 1 /\ Len(q) \in 0 .. Requests /\ Requests - Len(q) = i
  <2>1. i = (Requests - n) + 1 /\ Len(q) = n - 1
    BY <1>1, <1>3
  <2>2. n - 1 \in 0 .. Requests /\ Requests - (n - 1) = (Requests - n) + 1
    BY DEF Requests
  <2>. QED BY <2>1, <2>2
<1>5. ASSUME NEW k \in 1 .. Len(q)
      PROVE  q[k] = BootScript[(Requests - Len(q)) + k]
  <2>1. k + 1 \in 1 .. n /\ (Requests - n) + (k + 1) = (Requests - Len(q)) + k
    BY <1>3, <1>4 DEF Requests
  <2>2. script[k + 1] = BootScript[(Requests - n) + (k + 1)]
    BY <1>1, <2>1 DEF Progress
  <2>. QED BY <1>3, <2>1, <2>2
<1>6. ASSUME NEW j \in 1 .. i
      PROVE  Fulfilled(BootScript[j])' \/ (overrun' /\ BootScript[j].op = "write")
  <2>1. CASE j = i
    BY <2>1
  <2>2. CASE j # i
    <3>1. j \in 1 .. i - 1 /\ j \in 1 .. Requests - n
      BY <1>4, <2>2 DEF Requests
    <3>2. Fulfilled(BootScript[j])
      BY <1>1, <3>1 DEF Progress
    <3>. QED BY <3>1, <3>2
  <2>. QED BY <2>1, <2>2
<1>. QED BY <1>2, <1>4, <1>5, <1>6 DEF Progress

LEMMA BootWriteBooted ==
  ASSUME Misuse \subseteq CarefulKinds, OwnNames
  PROVE  Lived /\ Booted /\ WriteInside => Booted'
<1>. SUFFICES ASSUME Lived, Booted, WriteInside PROVE Booted'
  OBVIOUS
<1>1. /\ at = "boot" /\ script # <<>> /\ Step.op = "write" /\ Ready /\ ~ torn
      /\ at' = at /\ parent' = parent /\ script' = Tail(script)
      /\ Consistent /\ Scripted /\ Progress /\ Kinded(disk, dirs)
  BY DEF WriteInside, Doing, Trusted, Ready, Lived, Guarded, Booted, AllKinded, historyVars
<1>2. Orderly /\ RootCluster \in dirs
  BY <1>1, ReadyVolume, OrderlyVolume, VolumeDirs
<1>3. PICK i \in 1 .. Requests :
        /\ i = (Requests - Len(script)) + 1 /\ Step = BootScript[i]
        /\ Parent = parent[BootScript[i].where] /\ Parent \in dirs
  BY <1>1, <1>2, ParentKnown
<1>4. PICK b, p : b = BootScript[i] /\ p = Parent
  OBVIOUS
<1>5. PICK key, size : key = b.key /\ size = b.size
  OBVIOUS
<1>6. /\ p \in dirs /\ p = parent[b.where] /\ key \in Keys /\ size \in {0, 1}
      /\ b.op = "write"
      /\ size = 0 => key[2] = NoExt /\ key[1] # shell
      /\ size = 1 => key[2] # NoExt
  BY <1>1, <1>3, <1>4, <1>5, RequestKinds
<1>7. /\ key[1] \in Names /\ key[2] \in Exts /\ key = <<key[1], key[2]>> /\ size \in FileSizes
      /\ Letters \in Datas
  BY <1>6, MachineAssumption, SizeAssumption DEF Keys, FileSizes
<1>8. \/ StartFile(p, key[1], key[2], size, Letters)
      \/ size = 0 /\ StartFolder(p, key[1], key[2])
      \/ /\ WriteRefused(p, key[1], key[2], size) \/ WriteOverrun(p, key[1], key[2], size)
         /\ UNCHANGED diskVars
  BY <1>3, <1>4, <1>5 DEF WriteInside
<1>9. ~ overrun /\ torn' = torn /\ call' # "off"
  BY <1>1, <1>8 DEF Ready, StartFile, StartFolder, WriteFile, WriteFolder, WriteRefused, WriteOverrun,
              MayWrite, diskVars
<1>10. ASSUME UNCHANGED <<fat, disk, dirs>>
       PROVE  EntriesStay /\ Kinded(disk', dirs')
  BY <1>1, <1>10 DEF EntriesStay, Same
<1>11. /\ EntriesStay /\ Kinded(disk', dirs')
       /\ \/ overrun'
          \/ /\ size = 0 => \E c \in dirs' : FolderAt(disk', p, key, c)
             /\ size = 1 => (FreeClusters(fat)' # {} => FileIn(disk', p, key))
  <2>1. CASE StartFile(p, key[1], key[2], size, Letters)
    <3>1. WriteFile(p, key[1], key[2], size, Letters)
      BY <2>1 DEF StartFile
    <3>2. size # 0
      <4>. SUFFICES ASSUME size = 0 PROVE FALSE
        OBVIOUS
      <4>1. size > 0
        BY <3>1 DEF WriteFile
      <4>. QED BY <4>1
    <3>. QED BY <1>1, <1>2, <1>6, <1>7, <3>1, <3>2, FileStays, FileKinded
  <2>2. CASE size = 0 /\ StartFolder(p, key[1], key[2])
    <3>1. WriteFolder(p, key[1], key[2]) /\ key[2] = NoExt
      BY <1>6, <2>2 DEF StartFolder
    <3>. QED BY <1>1, <1>2, <1>6, <1>7, <2>2, <3>1, FolderStays, FolderKinded
  <2>3. CASE WriteRefused(p, key[1], key[2], size)
    <3>1. UNCHANGED <<fat, disk, dirs>>
      BY <2>3 DEF WriteRefused
    <3>2. /\ size = 0 => \E c \in dirs : FolderAt(disk, p, key, c)
          /\ size = 1 => (FreeClusters(fat) # {} => FileIn(disk, p, key))
      BY <1>1, <1>2, <1>6, <2>3, RefusedFulfils
    <3>. QED BY <1>10, <3>1, <3>2
  <2>4. CASE WriteOverrun(p, key[1], key[2], size)
    <3>1. UNCHANGED <<fat, disk, dirs>> /\ overrun'
      BY <2>4 DEF WriteOverrun
    <3>. QED BY <1>10, <3>1
  <2>. QED BY <1>8, <2>1, <2>2, <2>3, <2>4
<1>12. Fulfilled(b)' \/ (overrun' /\ b.op = "write")
  <2>1. parent'[b.where] = p /\ p \in dirs'
    BY <1>1, <1>6, <1>11 DEF EntriesStay
  <2>. QED BY <1>5, <1>6, <1>11, <2>1 DEF Fulfilled
<1>13. ASSUME NEW j \in 1 .. i - 1, Fulfilled(BootScript[j])
       PROVE  Fulfilled(BootScript[j])'
  <2>1. j \in 1 .. Requests
    BY DEF Requests
  <2>2. BootScript[j].key[1] # NoName
    BY <2>1, RequestKinds, NameAssumption DEF Keys
  <2>. QED BY <1>1, <1>11, <1>13, <2>2, StaysFulfilled
<1>14. Progress'
  BY <1>1, <1>3, <1>4, <1>9, <1>12, <1>13, ProgressStep
<1>15. AllKinded'
  BY <1>9, <1>11 DEF AllKinded
<1>. QED BY <1>1, <1>9, <1>14, <1>15 DEF Booted

LEMMA BootLookBooted ==
  ASSUME Misuse \subseteq CarefulKinds, OwnNames
  PROVE  Lived /\ Booted /\ LookInside => Booted'
<1>. SUFFICES ASSUME Lived, Booted, LookInside PROVE Booted'
  OBVIOUS
<1>1. /\ at = "boot" /\ script # <<>> /\ Step.op = "look" /\ Ready /\ ~ torn
      /\ at' = at /\ script' = Tail(script) /\ UNCHANGED diskVars
      /\ Consistent /\ Scripted /\ Progress /\ Kinded(disk, dirs)
  BY DEF LookInside, Doing, Trusted, Ready, Lived, Guarded, Booted, AllKinded, historyVars
<1>2. Orderly /\ RootCluster \in dirs
  BY <1>1, ReadyVolume, OrderlyVolume, VolumeDirs
<1>3. PICK i \in 1 .. Requests :
        /\ i = (Requests - Len(script)) + 1 /\ Step = BootScript[i]
        /\ Parent = parent[BootScript[i].where] /\ Parent \in dirs
  BY <1>1, <1>2, ParentKnown
<1>4. PICK b, p : b = BootScript[i] /\ p = Parent
  OBVIOUS
<1>5. PICK key : key = b.key
  OBVIOUS
<1>6. /\ p \in dirs /\ p = parent[b.where] /\ key \in Keys /\ key[1] # NoName
      /\ b.op = "look" /\ b.into \in Places
      /\ key[2] = NoExt /\ key[1] # shell
  BY <1>1, <1>3, <1>4, <1>5, RequestKinds, NameAssumption DEF Keys
<1>7. ReadDirectory(p, key[1], key[2])
  BY <1>3, <1>4, <1>5 DEF LookInside
<1>8. /\ ~ overrun /\ UNCHANGED <<fat, disk, dirs, overrun>>
      /\ UNCHANGED <<torn, call, platter>>
  BY <1>1, <1>7 DEF ReadDirectory, MayList, MayRead, diskVars
<1>9. PICK T : T = dir_table_search(disk[p], key[1], key[2])
  OBVIOUS
<1>10. ASSUME NEW s \in T
       PROVE  /\ s \in Slots /\ disk[p][s].name = key[1] /\ disk[p][s].ext = key[2]
              /\ disk[p][s].attr = "dir"
  <2>1. s \in Slots /\ disk[p][s].name = key[1] /\ disk[p][s].ext = key[2]
    BY <1>9, <1>10 DEF dir_table_search, First, KeyedSlots
  <2>. QED BY <1>1, <1>2, <1>6, <2>1, KeyLeads
<1>11. T # {}
  <2>1. PICK j \in 1 .. i - 1 :
          /\ BootScript[j].op = "write" /\ BootScript[j].size = 0
          /\ BootScript[j].where = b.where /\ BootScript[j].key = key
    BY <1>4, <1>5, <1>6, LookOrder
  <2>2. j \in 1 .. Requests - Len(script)
    BY <1>3 DEF Requests
  <2>3. Fulfilled(BootScript[j])
    BY <1>1, <1>8, <2>2 DEF Progress
  <2>4. \E c \in dirs : FolderAt(disk, p, key, c)
    BY <1>6, <2>1, <2>3 DEF Fulfilled
  <2>5. KeyedSlots(disk[p], key[1], key[2]) # {}
    BY <2>4 DEF FolderAt, KeyedSlots
  <2>. QED BY <1>9, <2>5, SearchFails
<1>12. ret' = 0
  BY <1>7, <1>9, <1>10, <1>11 DEF ReadDirectory, MayList, Exists
<1>13. PICK s : s = CHOOSE x \in Slots : x \in T
  OBVIOUS
<1>14. s \in T
  BY <1>10, <1>11, <1>13
<1>15. PICK c : c = disk[p][s].cluster
  OBVIOUS
<1>16. c \in dirs /\ disk[c][SelfSlot].cluster = c /\ c \in Int
  <2>1. c \in dirs /\ disk[c][SelfSlot].cluster = c
    BY <1>2, <1>6, <1>10, <1>14, <1>15, FolderCluster
  <2>2. c \in Clusters
    BY <1>2, <2>1 DEF Orderly, Sound, TypeOK
  <2>. QED BY <2>1, <2>2 DEF Clusters
<1>17. parent' = [parent EXCEPT ![b.into] = c]
  <2>1. disk[disk[p][s].cluster][SelfSlot].cluster = c
    BY <1>15, <1>16
  <2>2. parent' = [parent EXCEPT ![b.into] = OwnNumber(p)]
    BY <1>3, <1>4, <1>12 DEF LookInside, Noted
  <2>3. OwnNumber(p) = disk[disk[p][s].cluster][SelfSlot].cluster
    BY <1>3, <1>4, <1>5, <1>9, <1>13 DEF OwnNumber
  <2>. QED BY <2>1, <2>2, <2>3
<1>18. /\ parent \in [Places -> Int] /\ parent["root"] = RootCluster
       /\ b.into # b.where /\ b.into # "root" /\ b.where \in Places
  BY <1>3, <1>4, <1>6, LookOrder, RequestKinds DEF Booted
<1>19. /\ parent' \in [Places -> Int] /\ parent'["root"] = RootCluster
       /\ parent'[b.into] = c /\ parent'[b.where] = p
       /\ \A x \in Places : x # b.into => parent'[x] = parent[x]
  BY <1>6, <1>16, <1>17, <1>18 DEF Places
<1>20. Fulfilled(b)'
  <2>1. FolderAt(disk, p, key, c)
    BY <1>10, <1>14, <1>15 DEF FolderAt
  <2>. QED BY <1>5, <1>6, <1>8, <1>16, <1>19, <2>1 DEF Fulfilled
<1>21. EntriesStay
  BY <1>8 DEF EntriesStay, Same
<1>22. ASSUME NEW j \in 1 .. i - 1, Fulfilled(BootScript[j])
       PROVE  Fulfilled(BootScript[j])'
  <2>1. j \in 1 .. Requests
    BY DEF Requests
  <2>2. /\ BootScript[j].key[1] # NoName
        /\ BootScript[j].where \in Places /\ BootScript[j].into \in Places
    BY <2>1, RequestKinds, NameAssumption DEF Keys
  <2>3. BootScript[j].where # b.into /\ BootScript[j].into # b.into
    BY <1>4, <1>6, LookOrder
  <2>4. /\ parent'[BootScript[j].where] = parent[BootScript[j].where]
        /\ parent'[BootScript[j].into] = parent[BootScript[j].into]
    BY <1>19, <2>2, <2>3
  <2>. QED BY <1>21, <1>22, <2>2, <2>4, StaysFulfilled
<1>23. Progress'
  BY <1>1, <1>3, <1>4, <1>8, <1>20, <1>22, ProgressStep
<1>24. AllKinded'
  BY <1>1, <1>8, IdleKinded DEF Booted, Hosted
<1>. QED BY <1>1, <1>19, <1>23, <1>24 DEF Booted

(***************************************************************************)
(* The other steps.                                                        *)
(***************************************************************************)
\* Outside a boot the kernel has no parents but the root, or is done with them.
LEMMA PlaceBooted ==
  ASSUME Booted, AllKinded', at' # "boot",
         parent' = NoParents \/ (parent' = parent /\ (at \in {"boot", "user"} => at' = "user"))
  PROVE  Booted'
<1>1. NoParents \in [Places -> Int] /\ NoParents["root"] = RootCluster
  BY DEF NoParents, Places, RootCluster, Unread
<1>. QED BY <1>1 DEF Booted

LEMMA HostWriteBooted ==
  ASSUME Misuse \subseteq CarefulKinds, NEW size \in Binaries, Lived, Booted, HostWrite(size)
  PROVE  Booted'
<1>1. /\ at = "host" /\ at' = "save" /\ UNCHANGED diskVars /\ UNCHANGED bootVars
      /\ Consistent /\ Hosting /\ size \in FileSizes
  BY MachineAssumption DEF Lived, Guarded, HostWrite
<1>2. Orderly /\ RootCluster \in dirs
  <2>1. Volume(fat, disk, dirs)
    BY <1>1 DEF Hosting, Hosted
  <2>. QED BY <1>1, <2>1, OrderlyVolume, VolumeDirs DEF Consistent
<1>3. shell \in Names /\ NoExt \in Exts /\ Code \in Datas
  BY MachineAssumption, NameAssumption
<1>4. Kinded(disk', dirs')
  <2>0. Kinded(disk, dirs)
    BY <1>1 DEF Hosting, Hosted, Booted, AllKinded
  <2>1. CASE WriteRefused(RootCluster, shell, NoExt, size) \/ WriteOverrun(RootCluster, shell, NoExt, size)
    BY <2>0, <2>1 DEF WriteRefused, WriteOverrun
  <2>2. CASE WriteFolder(RootCluster, shell, NoExt)
    BY <1>2, <1>3, <2>0, <2>2, FolderKinded
  <2>3. CASE WriteFile(RootCluster, shell, NoExt, size, Code)
    BY <1>1, <1>2, <1>3, <2>0, <2>3, FileKinded
  <2>. QED BY <2>1, <2>2, <2>3 DEF HostWrite
<1>5. UNCHANGED <<signed, platterFat, platter, call, torn>> /\ parent' = parent
  BY <1>1 DEF diskVars, bootVars
<1>6. OnDisk' = OnDisk /\ Formatted' = Formatted
  BY <1>5 DEF OnDisk, Found, Formatted
<1>7. AllKinded'
  BY <1>4, <1>5, <1>6 DEF Booted, AllKinded
<1>. QED BY <1>1, <1>5, <1>7, PlaceBooted

LEMMA LoadBooted == Lived /\ Booted /\ Load => Booted'
<1>. SUFFICES ASSUME Lived, Booted, Load PROVE Booted'
  OBVIOUS
<1>1. at = "load" /\ at' = "boot" /\ script' = BootScript /\ parent' = parent
  BY DEF Load, LoadInto
<1>2. AllKinded'
  <2>1. UNCHANGED <<disk, dirs>> /\ UNCHANGED diskVars
    BY DEF Load, LoadInto, ReadFile, ReadRefused, ReadOverrun
  <2>. QED BY <1>1, <2>1, IdleKinded DEF Booted, Hosted
<1>3. Progress'
  <2>1. Len(script') = Requests /\ Requests - Requests = 0 /\ Requests \in 0 .. Requests
    BY <1>1, BootRequests DEF Requests
  <2>2. \A i \in 1 .. Requests : script'[i] = BootScript[(Requests - Requests) + i]
    BY <1>1 DEF Requests
  <2>. QED BY <2>1, <2>2 DEF Progress
<1>. QED BY <1>1, <1>2, <1>3 DEF Booted

LEMMA UserBooted ==
  ASSUME Misuse \subseteq CarefulKinds, OwnNames
  PROVE  Lived /\ Booted /\ User => Booted'
<1>. SUFFICES ASSUME Lived, Booted, User PROVE Booted'
  OBVIOUS
<1>1. at = "user" /\ at' = at /\ parent' = parent
  BY DEF User, bootVars
<1>2. PICK p \in dirs, key \in Typed :
        MakeFile(p, key) \/ MakeFolder(p, key) \/ RemoveKey(p, key)
  BY DEF User
<1>3. PICK name, ext : name = key[1] /\ ext = key[2]
  OBVIOUS
<1>4. name \in Names /\ ext \in Exts /\ 1 \in FileSizes /\ Letters \in Datas
  BY <1>2, <1>3, MachineAssumption DEF Keys
<1>5. /\ \/ StartFile(p, name, ext, 1, Letters) /\ ext # NoExt
         \/ StartFolder(p, name, NoExt)
         \/ StartDelete(p, name, ext)
      /\ Ready
  BY <1>2, <1>3 DEF MakeFile, MakeFolder, RemoveKey, OwnNames, StartFile, StartFolder, StartDelete
<1>6. Orderly
  BY <1>5, ReadyVolume DEF Lived, Guarded
<1>7. Kinded(disk', dirs') /\ call' # "off"
  <2>0. Kinded(disk, dirs)
    BY <1>5 DEF Ready, Booted, AllKinded
  <2>1. CASE StartFile(p, name, ext, 1, Letters) /\ ext # NoExt
    <3>1. WriteFile(p, name, ext, 1, Letters)
      BY <2>1 DEF StartFile
    <3>. QED BY <1>4, <1>6, <2>0, <2>1, <3>1, FileKinded DEF StartFile
  <2>2. CASE StartFolder(p, name, NoExt)
    <3>1. WriteFolder(p, name, NoExt)
      BY <2>2 DEF StartFolder
    <3>. QED BY <1>4, <1>6, <2>0, <2>2, <3>1, FolderKinded DEF StartFolder
  <2>3. CASE StartDelete(p, name, ext)
    <3>1. DeleteEntry(p, name, ext)
      BY <2>3 DEF StartDelete
    <3>. QED BY <1>6, <2>0, <2>3, <3>1, DeleteKinded DEF StartDelete
  <2>. QED BY <1>5, <2>1, <2>2, <2>3
<1>8. AllKinded'
  BY <1>7 DEF AllKinded
<1>. QED BY <1>1, <1>8, PlaceBooted

LEMMA DiskWriteBooted == Lived /\ Booted /\ DiskWrite => Booted'
<1>. SUFFICES ASSUME Lived, Booted, DiskWrite PROVE Booted'
  OBVIOUS
<1>1. WriteCluster /\ Consistent /\ UNCHANGED <<at, script, parent>>
  BY DEF DiskWrite, bootVars, Lived, Guarded
<1>2. /\ call # "off" /\ call' # "off"
      /\ UNCHANGED <<fat, disk, dirs, overrun, torn>>
  BY <1>1 DEF WriteCluster, vars, Consistent, Flushed
<1>5. AllKinded'
  BY <1>2 DEF Booted, AllKinded
<1>6. Progress => Progress'
  <2>1. \A i \in 1 .. Requests : Fulfilled(BootScript[i]) => Fulfilled(BootScript[i])'
    BY <1>1, <1>2 DEF Fulfilled
  <2>. SUFFICES ASSUME Progress PROVE Progress'
    OBVIOUS
  <2>2. \A i \in 1 .. Requests - Len(script) : i \in 1 .. Requests
    BY DEF Progress, Requests
  <2>. QED BY <1>1, <1>2, <2>1, <2>2 DEF Progress
<1>. QED BY <1>1, <1>2, <1>5, <1>6 DEF Booted

LEMMA InitBooted == MachineInit => Booted
<1>. SUFFICES ASSUME MachineInit PROVE Booted
  OBVIOUS
<1>1. parent = NoParents /\ at = "off" /\ ~ Formatted /\ call = "off"
  BY DEF MachineInit, DiskInit, Formatted
<1>2. NoParents \in [Places -> Int] /\ NoParents["root"] = RootCluster
  BY DEF NoParents, Places, RootCluster, Unread
<1>. QED BY <1>1, <1>2 DEF Booted, AllKinded, Hosted

LEMMA BootedStep ==
  ASSUME Misuse \subseteq CarefulKinds, OwnNames
  PROVE  Lived /\ Booted /\ [MachineNext]_machineVars => Booted' \/ Strayed
<1>. SUFFICES ASSUME Lived, Booted, [MachineNext]_machineVars, ~ Strayed PROVE Booted'
  OBVIOUS
<1>1. /\ platter \in [Clusters -> Table] /\ AllKinded /\ Guarded
      /\ (at = "off" \/ Hosted => call = "off")
  BY DEF Lived, Guarded, Consistent, Flushed, Booted
<1>2. CASE HostOpen
  <2>1. /\ at = "off" /\ at' = "host" /\ parent' = parent /\ call = "off" /\ ~ torn
        /\ UNCHANGED <<signed, platterFat, platter, call, torn>>
        /\ \/ Formatted /\ disk' = platter /\ dirs' = OnDisk
           \/ /\ disk' = [platter EXCEPT ![BOOT_SECTOR] = BootSector, ![RootCluster] = RootTable]
              /\ dirs' = {RootCluster}
    BY <1>1, <1>2 DEF HostOpen, HostMount, Formatted, bootVars, diskVars
  <2>2. Kinded(disk', dirs')
    BY <1>1, <2>1, OpenKinded
  <2>3. OnDisk' = OnDisk /\ Formatted' = Formatted
    BY <2>1 DEF OnDisk, Found, Formatted
  <2>4. AllKinded'
    BY <1>1, <2>1, <2>2, <2>3 DEF AllKinded
  <2>. QED BY <2>1, <2>4, PlaceBooted
<1>3. ASSUME NEW size \in Binaries, HostWrite(size)
      PROVE  Booted'
  BY <1>3, HostWriteBooted
<1>4. CASE HostSave
  <2>1. /\ at = "save" /\ at' = "off" /\ parent' = parent /\ platter' = disk /\ disk' = disk
        /\ call = "off" /\ UNCHANGED <<call, torn>>
    BY <1>1, <1>4 DEF HostSave, SaveImage, bootVars, Hosted
  <2>2. Hosted /\ ~ Hosted' /\ OnDisk' = dirs
    BY <1>4, <2>1, SavedDirs DEF Hosted
  <2>3. AllKinded'
    BY <1>1, <2>1, <2>2 DEF AllKinded
  <2>. QED BY <2>1, <2>3, PlaceBooted
<1>5. CASE PowerOn
  <2>1. /\ at = "off" /\ at' = "load" /\ parent' = parent /\ call = "off" /\ call' # "off"
        /\ torn' = torn
        /\ \/ Formatted /\ disk' = platter /\ dirs' = OnDisk
           \/ /\ disk' = [platter EXCEPT ![BOOT_SECTOR] = BootSector, ![RootCluster] = RootTable]
              /\ dirs' = {RootCluster}
    BY <1>5 DEF PowerOn, Format, Mount, Formatted, bootVars
  <2>2. ~ torn => Kinded(disk', dirs')
    BY <1>1, <2>1, OpenKinded
  <2>3. AllKinded'
    BY <2>1, <2>2 DEF AllKinded
  <2>. QED BY <2>1, <2>3, PlaceBooted
<1>6. CASE Load
  BY <1>6, LoadBooted
<1>7. CASE BootWrite
  <2>1. WriteAstray => Strayed
    BY DEF WriteAstray, Doing, Strayed, diskVars
  <2>. QED BY <1>7, <2>1, BootWriteBooted DEF BootWrite
<1>8. CASE BootLook
  <2>1. LookAstray => Strayed
    BY DEF LookAstray, Doing, Strayed, diskVars
  <2>. QED BY <1>8, <2>1, BootLookBooted DEF BootLook
<1>9. CASE BootDone
  <2>1. /\ at = "boot" /\ at' = "user" /\ parent' = parent
        /\ UNCHANGED <<disk, dirs>> /\ UNCHANGED diskVars
    BY <1>9 DEF BootDone, bootVars, vars
  <2>2. AllKinded'
    BY <1>1, <2>1, IdleKinded DEF Hosted
  <2>. QED BY <2>1, <2>2, PlaceBooted
<1>10. CASE User
  BY <1>10, UserBooted
<1>11. CASE DiskWrite
  BY <1>11, DiskWriteBooted
<1>12. CASE PowerOff
  <2>1. /\ at' = "off" /\ parent' = NoParents /\ call # "off" /\ ~ Hosted'
        /\ torn' = (torn \/ call \in {"format", "folder", "delete"})
        /\ UNCHANGED <<signed, platterFat, platter>>
    BY <1>12 DEF PowerOff, PowerLoss, Hosted
  <2>2. OnDisk' = OnDisk /\ Formatted' = Formatted
    BY <2>1 DEF OnDisk, Found, Formatted
  <2>3. ASSUME ~ torn', Formatted
        PROVE  Kinded(platter', OnDisk')
    <3>1. ~ torn /\ call \in {"idle", "file"}
      BY <1>1, <2>1, <2>3 DEF Guarded, Consistent
    <3>2. Kinded(disk, dirs)
      BY <1>1, <2>1, <3>1 DEF AllKinded
    <3>. QED BY <1>1, <2>1, <2>2, <2>3, <3>1, <3>2, LeftKinded
  <2>4. AllKinded'
    <3>1. call' = "off"
      BY <1>12 DEF PowerOff, PowerLoss
    <3>. QED BY <2>1, <2>2, <2>3, <3>1 DEF AllKinded
  <2>. QED BY <2>1, <2>4, PlaceBooted
<1>13. CASE UNCHANGED machineVars
  <2>1. /\ UNCHANGED <<fat, disk, dirs, overrun>> /\ UNCHANGED <<platter, torn>>
        /\ UNCHANGED <<at, script, parent>> /\ UNCHANGED diskVars
    BY <1>13 DEF machineVars, vars, diskVars, bootVars
  <2>2. Progress => Progress'
    BY <2>1 DEF Progress, Fulfilled
  <2>3. AllKinded'
    BY <1>1, <2>1, IdleKinded DEF Hosted
  <2>. QED BY <2>1, <2>2, <2>3 DEF Booted
<1>. QED
  BY <1>2, <1>3, <1>4, <1>5, <1>6, <1>7, <1>8, <1>9, <1>10, <1>11, <1>12, <1>13 DEF MachineNext

(***************************************************************************)
(* The theorems on the boot.  They take one hypothesis more: the kernel's  *)
(* names are its own.  On a volume that is not torn the kernel never goes  *)
(* astray, so both say what it does on every such volume.                  *)
(***************************************************************************)
BootedSoFar ==
  /\ astray \in Nat
  /\ astray # 0 => torn
  /\ astray = 0 => Lived /\ Booted

\* Where the parent of a request is.
LEMMA ParentThere ==
  ASSUME Lived, Booted, OwnNames, at = "boot", script # <<>>, Ready
  PROVE  Parent \in dirs
<1>1. Consistent /\ Scripted /\ Progress
  BY DEF Lived, Guarded, Booted, Ready
<1>2. RootCluster \in dirs
  BY <1>1, ReadyVolume, OrderlyVolume, VolumeDirs
<1>. QED BY <1>1, <1>2, ParentKnown

LEMMA BootedSoFarStep ==
  ASSUME Misuse \subseteq CarefulKinds, OwnNames,
         \A key \in Typed : key[1] = shell => key[2] = NoExt
  PROVE  BootedSoFar /\ [MachineNext]_machineVars => BootedSoFar'
<1>. SUFFICES ASSUME BootedSoFar, [MachineNext]_machineVars PROVE BootedSoFar'
  OBVIOUS
<1>1. astray \in Nat /\ astray' \in {astray, astray + 1} /\ (torn => torn')
  BY HistoryKept DEF BootedSoFar
<1>2. CASE astray # 0
  <2>1. torn' /\ astray' \in Nat /\ astray' # 0
    BY <1>1, <1>2 DEF BootedSoFar
  <2>. QED BY <2>1 DEF BootedSoFar
<1>3. CASE astray = 0 /\ Strayed
  <2>1. Lived /\ Booted
    BY <1>3 DEF BootedSoFar
  <2>2. torn
    BY <1>3, <2>1, ParentThere DEF Strayed, Trusted, Ready
  <2>3. torn' /\ astray' \in Nat /\ astray' # 0
    BY <1>1, <1>3, <2>2 DEF Strayed
  <2>. QED BY <2>3 DEF BootedSoFar
<1>4. CASE astray = 0 /\ ~ Strayed
  <2>1. Lived' /\ Booted'
    BY <1>4, LivedStep, BootedStep DEF BootedSoFar
  <2>2. astray' = 0
    BY <2>1 DEF Lived
  <2>. QED BY <2>1, <2>2 DEF BootedSoFar
<1>. QED BY <1>2, <1>3, <1>4

LEMMA InitBootedSoFar == MachineInit => BootedSoFar
BY InitLived, InitBooted DEF BootedSoFar, MachineInit

\* On a volume that is not torn the kernel writes to directories only, whatever
\* it finds there and whichever of its requests are refused: no parent's number
\* is one that nothing was read into, or that of a cluster which is no directory.
THEOREM MachineKnowsParents ==
  ASSUME Misuse \subseteq CarefulKinds, OwnNames,
         \A key \in Typed : key[1] = shell => key[2] = NoExt
  PROVE  MachineSpec => []BootKnowsParents
<1>1. BootedSoFar => BootKnowsParents
  <2>. SUFFICES ASSUME BootedSoFar, at = "boot", script # <<>>, Ready
                PROVE  Parent \in dirs
    BY DEF BootKnowsParents
  <2>1. Lived /\ Booted
    BY DEF BootedSoFar, Ready
  <2>. QED BY <2>1, ParentThere
<1>. QED BY <1>1, InitBootedSoFar, BootedSoFarStep, PTL DEF MachineSpec

\* A boot that comes to its end on a volume with room has the kernel's six
\* objects on the disk, each in its place, whatever earlier starts and the user
\* have left, and wherever the power failed between calls or in a file's write.
\* A volume on which a folder's write, a delete or a format was cut short is
\* torn, and nothing is said of it.
THEOREM MachineRestores ==
  ASSUME Misuse \subseteq CarefulKinds, OwnNames,
         \A key \in Typed : key[1] = shell => key[2] = NoExt
  PROVE  MachineSpec => []BootRestores
<1>1. BootedSoFar => BootRestores
  <2>. SUFFICES ASSUME BootedSoFar,
                       at = "boot", script = <<>>, Ready, ~ overrun, FreeClusters(fat) # {}
                PROVE  \E home \in FoldersOn(RootCluster, Home) :
                         \E nested \in FoldersOn(home, Nested) :
                           /\ FoldersOn(home, <<cakcok, NoExt>>) # {}
                           /\ \A d \in {RootCluster, home, nested} : HasFile(d, KernelFile)
    BY DEF BootRestores
  <2>0. Lived /\ Booted
    BY DEF BootedSoFar, Ready
  <2>1. Progress /\ platter = disk
    BY <2>0, ReadyVolume DEF Lived, Guarded, Booted, Ready
  <2>2. Len(script) = 0 /\ Requests - 0 = Requests
    BY DEF Requests
  <2>3. \A i \in 1 .. Requests : Fulfilled(BootScript[i])
    BY <2>1, <2>2 DEF Progress
  <2>4. PICK root, home, nested :
          root = parent["root"] /\ home = parent["table"] /\ nested = parent["table3"]
    OBVIOUS
  <2>5. root = RootCluster
    BY <2>0, <2>4 DEF Booted
  <2>6. /\ Fulfilled(WriteOf("root", KernelFile, 1)) /\ Fulfilled(LookAt("root", Home, "table"))
        /\ Fulfilled(WriteOf("table", KernelFile, 1))
        /\ Fulfilled(WriteOf("table", <<cakcok, NoExt>>, 0))
        /\ Fulfilled(LookAt("table", Nested, "table3"))
        /\ Fulfilled(WriteOf("table3", KernelFile, 1))
    BY <2>3, BootRequests DEF Requests
  <2>7. /\ FileIn(disk, root, KernelFile) /\ FileIn(disk, home, KernelFile)
        /\ FileIn(disk, nested, KernelFile)
    BY <2>4, <2>6 DEF Fulfilled, WriteOf
  <2>8. FolderAt(disk, root, Home, home) /\ FolderAt(disk, home, Nested, nested)
    BY <2>4, <2>6 DEF Fulfilled, LookAt
  <2>9. PICK c : FolderAt(disk, home, <<cakcok, NoExt>>, c)
    BY <2>4, <2>6 DEF Fulfilled, WriteOf
  <2>10. ASSUME NEW d, NEW key, NEW x, FolderAt(disk, d, key, x)
         PROVE  x \in FoldersOn(d, key)
    BY <2>1, <2>10 DEF FolderAt, FoldersOn, KeyedSlots
  <2>11. ASSUME NEW d, FileIn(disk, d, KernelFile)
         PROVE  HasFile(d, KernelFile)
    BY <2>1, <2>11 DEF FileIn, HasFile, KeyedSlots
  <2>12. /\ home \in FoldersOn(RootCluster, Home) /\ nested \in FoldersOn(home, Nested)
         /\ c \in FoldersOn(home, <<cakcok, NoExt>>)
    BY <2>5, <2>8, <2>9, <2>10
  <2>13. \A d \in {RootCluster, home, nested} : HasFile(d, KernelFile)
    BY <2>5, <2>7, <2>11
  <2>. QED BY <2>12, <2>13
<1>. QED BY <1>1, InitBootedSoFar, BootedSoFarStep, PTL DEF MachineSpec
=============================================================================
