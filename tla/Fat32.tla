------------------------------- MODULE Fat32 -------------------------------
(***************************************************************************)
(* The CRUD calls of the file system driver (src/src/fat32.c): write,      *)
(* read, read_directory and delete, on a volume that create_fat32 has      *)
(* formatted.  A call is one step: the system call gate is an interrupt    *)
(* gate, so nothing runs in the kernel beside it.                          *)
(*                                                                         *)
(* What a caller may ask for is a parameter.  Misuse names the uses the    *)
(* interface does not rule out and the code does not survive unharmed; a   *)
(* call that is one of them is made only if its kind is in Misuse.  Nothing*)
(* is said of the system once a call has overrun its tables.               *)
(*                                                                         *)
(* Two of the calls the code accepts are left out.  Cluster 1 is no        *)
(* parent: as a table it is the bytes of the allocation table, which every *)
(* flush writes anew.  delete() does not start at cluster 0, for its scan  *)
(* would go on through cluster 1.  Numbers behind the map are no parents   *)
(* either.  "Any call" below is any but these.                             *)
(***************************************************************************)
EXTENDS Fat32Volume

CONSTANT Misuse

\* Uses after which the volume is still sound: the call is refused, answers
\* nonsense, stops the model, or removes more than a careful caller would.
BenignKinds ==
  { "full_volume",      \* too few free clusters for the object
    "full_directory",   \* no free slot in the parent
    "name_clash",       \* the name is in use in the parent, with another extension
    "filled_folder",    \* delete of a directory that still has entries
    "other_ext",        \* read_directory by an extension that is not the object's
    "odd_read" }        \* read from what is no directory, or of the empty name

\* Uses that break the volume.
HarmfulKinds ==
  { "stray_parent",     \* write or delete where the parent is no directory
    "no_name",          \* delete of the empty name
    "own_name",         \* delete of a directory through its own entry
    "absent_name" }     \* delete of what is not in the parent

ASSUME MisuseAssumption == Misuse \subseteq BenignKinds \cup HarmfulKinds

VARIABLES
  fat,       \* driver.fat_table: cluster -> EMPTY, EOF, or the next cluster
  disk,      \* cluster -> its content
  dirs,      \* history: clusters of the directories made and not deleted
  ret,       \* the code the last call returned
  got,       \* what the last call put in the caller's buffer
  overrun    \* a call ran off the end of fat_table, dir_table_buf or a buffer

vars == <<fat, disk, dirs, ret, got, overrun>>

Keys == Names \X Exts
FatEntry == {EMPTY, EOF, CLUSTER_0_VALUE} \cup DataClusters

\* The type invariant.
TypeOK ==
  /\ fat \in [Clusters -> FatEntry]
  /\ disk \in [Clusters -> Table]
  /\ dirs \subseteq Clusters
  /\ ret \in -1 .. 3
  /\ overrun \in BOOLEAN

FormattedFat ==
  [c \in Clusters |-> CASE c = 0 -> CLUSTER_0_VALUE
                        [] c \in {1, RootCluster} -> EOF
                        [] OTHER -> EMPTY]

Init ==
  /\ fat = FormattedFat
  /\ disk = [c \in Clusters |-> CASE c = BOOT_SECTOR -> BootSector
                                   [] c = RootCluster -> RootTable
                                   [] OTHER -> BlankTable]
  /\ dirs = {RootCluster}
  /\ ret = 0
  /\ got = Nothing
  /\ overrun = FALSE
-----------------------------------------------------------------------------
(***************************************************************************)
(* write: a folder when buffer_size is 0, else a file of that many         *)
(* clusters.                                                               *)
(***************************************************************************)
Exists(p, name, ext) == dir_table_search(disk[p], name, ext) # {}

\* Mutant: no terminator behind the data.
NeededForData(size) == IF size = 0 THEN 1 ELSE size

\* Clusters write() takes: a file gets one more, its terminator.
Needed(size) == size + 1

MayWrite(p, name, ext, size) ==
  /\ ~overrun
  /\ p \notin dirs => "stray_parent" \in Misuse
  /\ FreeSlots(disk[p]) = {} => "full_directory" \in Misuse
  /\ Cardinality(FreeClusters(fat)) < Needed(size) => "full_volume" \in Misuse
  /\ (NamedSlots(disk[p], name) # {} /\ ~Exists(p, name, ext))
       => "name_clash" \in Misuse

\* The early returns in their order; 0 when the call gets past them.  The test
\* for a parent that is no directory looks at the free slot, which has no type.
WriteCode(p, name, ext, size) ==
  IF name = NoName THEN -1
  ELSE IF \E s \in find_empty_entry(disk[p]) : disk[p][s].attr = "dir" THEN 2
  ELSE IF Exists(p, name, ext) THEN 1
  ELSE IF size > 0 /\ FreeClusters(fat) = {} THEN -1
  ELSE 0

WriteRefused(p, name, ext, size) ==
  /\ MayWrite(p, name, ext, size)
  /\ WriteCode(p, name, ext, size) # 0
  /\ ret' = WriteCode(p, name, ext, size)
  /\ got' = Nothing
  /\ UNCHANGED <<fat, disk, dirs, overrun>>

\* The parent's table is flushed first, the new table written after it.
WriteFolder(p, name, ext) ==
  /\ MayWrite(p, name, ext, 0)
  /\ WriteCode(p, name, ext, 0) = 0
  /\ \E ch \in Chains(fat, Needed(0)), s \in find_empty_entry(disk[p]) :
       /\ fat' = Linked(fat, ch, Needed(0))
       /\ disk' = [disk EXCEPT ![p]     = [@ EXCEPT ![s] = DirEntry(name, ext, ch[1])],
                               ![ch[1]] = NewTable(name, ch[1])]
       /\ dirs' = IF p \in dirs THEN dirs \cup {ch[1]} ELSE dirs
  /\ ret' = 0
  /\ got' = Nothing
  /\ UNCHANGED overrun

\* The data first, then the table of the parent.
WriteFile(p, name, ext, size, d) ==
  /\ size > 0
  /\ MayWrite(p, name, ext, size)
  /\ WriteCode(p, name, ext, size) = 0
  /\ \E ch \in Chains(fat, Needed(size)), s \in find_empty_entry(disk[p]) :
       /\ fat' = Linked(fat, ch, Needed(size))
       /\ disk' = [c \in Clusters |->
            IF c = p
              THEN MarkNotEmpty([disk[p] EXCEPT ![s] = FileEntry(name, ext, ch[1], size)], p)
            ELSE IF \E i \in 1 .. size : c = ch[i]
              THEN DataTable(d, CHOOSE i \in 1 .. size : c = ch[i])
            ELSE disk[c]]
  /\ ret' = 0
  /\ got' = Nothing
  /\ UNCHANGED <<dirs, overrun>>

\* The folder scan has no bound, the search for a file's next cluster neither,
\* and a full directory table is indexed with -1.
WriteOverrun(p, name, ext, size) ==
  /\ MayWrite(p, name, ext, size)
  /\ WriteCode(p, name, ext, size) = 0
  /\ \/ Cardinality(FreeClusters(fat)) < Needed(size)
     \/ FreeSlots(disk[p]) = {}
  /\ overrun' = TRUE
  /\ UNCHANGED <<fat, disk, dirs, ret, got>>
-----------------------------------------------------------------------------
(***************************************************************************)
(* read and read_directory.  size is the caller's buffer.                  *)
(***************************************************************************)
MayRead(p, name) ==
  /\ ~overrun
  /\ (p \notin dirs \/ name = NoName) => "odd_read" \in Misuse

ReadCode(e, size) ==
  IF e.attr # "file" THEN 1
  ELSE IF size < e.size THEN 2
  ELSE IF e.cluster = 0 THEN -1
  ELSE 0

ReadFile(p, name, ext, size) ==
  /\ MayRead(p, name)
  /\ \E s \in dir_table_search(disk[p], name, ext) :
       LET e == disk[p][s]
       IN  /\ ReadCode(e, size) = 0
           /\ \E k \in ChainLengths(fat, e.cluster) :
                /\ k <= size + 1
                /\ got' = Data(Content(disk, fat, e.cluster, k))
  /\ ret' = 0
  /\ UNCHANGED <<fat, disk, dirs, overrun>>

ReadRefused(p, name, ext, size) ==
  /\ MayRead(p, name)
  /\ \/ ~Exists(p, name, ext) /\ ret' = 3
     \/ \E s \in dir_table_search(disk[p], name, ext) :
          /\ ReadCode(disk[p][s], size) # 0
          /\ ret' = ReadCode(disk[p][s], size)
  /\ got' = Nothing
  /\ UNCHANGED <<fat, disk, dirs, overrun>>

\* A chain that leaves the table, or is longer than the buffer read() declares.
ReadOverrun(p, name, ext, size) ==
  /\ MayRead(p, name)
  /\ \E s \in dir_table_search(disk[p], name, ext) :
       /\ ReadCode(disk[p][s], size) = 0
       /\ \A k \in ChainLengths(fat, disk[p][s].cluster) : k > size + 1
  /\ overrun' = TRUE
  /\ UNCHANGED <<fat, disk, dirs, ret, got>>

\* The keys of the entries behind a directory's own.
Children(t) == {s \in ChildSlots : t[s].name # NoName}
Listing(t) == {<<t[s].name, t[s].ext>> : s \in Children(t)}

\* fat32.h has "ext is unused" for read_directory; the code compares it.
MayList(p, name, ext) ==
  /\ MayRead(p, name)
  /\ NamedSlots(disk[p], name) # KeyedSlots(disk[p], name, ext) => "other_ext" \in Misuse

ReadDirectory(p, name, ext) ==
  /\ MayList(p, name, ext)
  /\ \/ /\ ~Exists(p, name, ext)
        /\ ret' = 2 /\ got' = Nothing
     \/ \E s \in dir_table_search(disk[p], name, ext) :
          \/ /\ disk[p][s].attr = "dir"
             /\ ret' = 0 /\ got' = List(Listing(disk[disk[p][s].cluster]))
          \/ /\ disk[p][s].attr # "dir"
             /\ ret' = 1 /\ got' = Nothing
  /\ UNCHANGED <<fat, disk, dirs, overrun>>
-----------------------------------------------------------------------------
(***************************************************************************)
(* delete.  The scan goes up from the parent's cluster.  A cluster marked  *)
(* EOF is taken for a directory and searched by name alone; at a linked    *)
(* cluster the parent is searched, by name and extension.                  *)
(***************************************************************************)
\* Mutant: the scan starts at the root whatever the parent.
HitsFromRoot(p, name, ext) ==
  {c \in RootCluster .. ClusterMapSize - 1 :
     IF fat[c] = EOF
       THEN NamedSlots(disk[c], name) # {}
       ELSE fat[c] # EMPTY /\ KeyedSlots(disk[p], name, ext) # {}}

Hits(p, name, ext) ==
  {c \in p .. ClusterMapSize - 1 :
     IF fat[c] = EOF
       THEN NamedSlots(disk[c], name) # {}
       ELSE fat[c] # EMPTY /\ KeyedSlots(disk[p], name, ext) # {}}

Filled(e) == e.attr = "dir" /\ e.cluster \in dirs /\ Children(disk[e.cluster]) # {}

MayDelete(p, name, ext) ==
  /\ ~overrun
  /\ p # BOOT_SECTOR
  /\ p \notin dirs => "stray_parent" \in Misuse
  /\ name = NoName => "no_name" \in Misuse
  /\ disk[p][SelfSlot].name = name => "own_name" \in Misuse
  /\ KeyedSlots(disk[p], name, ext) \cap ChildSlots = {} => "absent_name" \in Misuse
  /\ NamedSlots(disk[p], name) # KeyedSlots(disk[p], name, ext)
       => "name_clash" \in Misuse
  /\ (\E s \in NamedSlots(disk[p], name) : Filled(disk[p][s]))
       => "filled_folder" \in Misuse

DeleteMissing(p, name, ext) ==
  /\ MayDelete(p, name, ext)
  /\ Hits(p, name, ext) = {}
  /\ ret' = 1
  /\ got' = Nothing
  /\ UNCHANGED <<fat, disk, dirs, overrun>>

DeleteRefused(p, name, ext) ==
  /\ MayDelete(p, name, ext)
  /\ \E c \in First(Hits(p, name, ext)) :
       /\ fat[c] = EOF
       /\ \E s \in First(NamedSlots(disk[c], name)) : disk[c][s].notEmpty
  /\ ret' = 2
  /\ got' = Nothing
  /\ UNCHANGED <<fat, disk, dirs, overrun>>

\* Only the entry's first cluster is freed, whatever its kind.
DeleteEntry(p, name, ext) ==
  /\ MayDelete(p, name, ext)
  /\ \E c \in First(Hits(p, name, ext)) :
       /\ fat[c] = EOF
       /\ \E s \in First(NamedSlots(disk[c], name)) :
            /\ ~disk[c][s].notEmpty
            /\ fat' = [fat EXCEPT ![disk[c][s].cluster] = EMPTY]
            /\ disk' = [disk EXCEPT ![c] = [@ EXCEPT ![s] = BlankEntry]]
            /\ dirs' = IF c \in dirs /\ s # SelfSlot
                         THEN dirs \ {disk[c][s].cluster}
                         ELSE dirs
  /\ ret' = 0
  /\ got' = Nothing
  /\ UNCHANGED overrun

\* The whole chain but its terminator is freed, and the parent's table goes
\* to the cluster the scan has reached.
DeleteChain(p, name, ext) ==
  /\ MayDelete(p, name, ext)
  /\ \E c \in First(Hits(p, name, ext)) :
       /\ fat[c] # EOF
       /\ \E s \in First(KeyedSlots(disk[p], name, ext)) :
            LET head == disk[p][s].cluster
            IN  /\ \E k \in ChainLengths(fat, head) :
                     fat' = [x \in Clusters |->
                               IF \E j \in 0 .. k - 1 : x = Walk(fat, head)[j]
                                 THEN EMPTY ELSE fat[x]]
                /\ disk' = [disk EXCEPT ![c] = [disk[p] EXCEPT ![s] = BlankEntry]]
  /\ ret' = 0
  /\ got' = Nothing
  /\ UNCHANGED <<dirs, overrun>>

\* The chain has no terminator, or is one.
DeleteOverrun(p, name, ext) ==
  /\ MayDelete(p, name, ext)
  /\ \E c \in First(Hits(p, name, ext)) :
       /\ fat[c] # EOF
       /\ \E s \in First(KeyedSlots(disk[p], name, ext)) :
            ChainLengths(fat, disk[p][s].cluster) = {}
  /\ overrun' = TRUE
  /\ UNCHANGED <<fat, disk, dirs, ret, got>>
-----------------------------------------------------------------------------
Parents == {BOOT_SECTOR} \cup RootCluster .. ClusterMapSize - 1
Callable == Names \cup {NoName}
FileSizes == 0 .. MaxFileClusters

Call(p, name, ext) ==
  \/ \E size \in FileSizes : WriteRefused(p, name, ext, size)
  \/ WriteFolder(p, name, ext)
  \/ \E size \in FileSizes, d \in Datas : WriteFile(p, name, ext, size, d)
  \/ \E size \in FileSizes : WriteOverrun(p, name, ext, size)
  \/ \E size \in FileSizes : ReadFile(p, name, ext, size)
  \/ \E size \in FileSizes : ReadRefused(p, name, ext, size)
  \/ \E size \in FileSizes : ReadOverrun(p, name, ext, size)
  \/ ReadDirectory(p, name, ext)
  \/ DeleteMissing(p, name, ext)
  \/ DeleteRefused(p, name, ext)
  \/ DeleteEntry(p, name, ext)
  \/ DeleteChain(p, name, ext)
  \/ DeleteOverrun(p, name, ext)

Next == \E p \in Parents, name \in Callable, ext \in Exts : Call(p, name, ext)

Spec == Init /\ [][Next]_vars
-----------------------------------------------------------------------------
(***************************************************************************)
(* Properties.  An entry below is <<d, s>>: a used slot behind the own     *)
(* entry of a live directory.                                              *)
(***************************************************************************)
Entries == {e \in dirs \X ChildSlots : disk[e[1]][e[2]].name # NoName}
Target(e) == disk[e[1]][e[2]].cluster

\* Every link of the allocation table leads upwards, so no chain has a loop
\* and the do-while loops of read() and delete() come to an end, whatever
\* sequence of calls, well or badly made, has shaped the table.
LinksAscend == \A c \in Clusters : fat[c] \in DataClusters => fat[c] > c

\* The root directory stays allocated, whatever is asked of delete() and of the
\* other calls, as long as no file's bytes hold the root's number where an entry
\* would (NoRootInData): a delete() that takes such bytes for a table frees the
\* number they hold.  Elsewhere that number is in the root's own entry and in
\* copies of it, and delete() gives up at the not-empty mark they carry.
RootIntact == NoRootInData => fat[RootCluster] = EOF /\ RootCluster \in dirs

\* No two things share a cluster: one link or one entry leads to it at most.
\* Neither write() over clusters that delete() has freed, nor the chains that
\* delete() leaves behind, may cross the chain of a live file or a directory.
UniqueOwner ==
  /\ \A b, c \in Clusters : fat[b] \in DataClusters /\ fat[b] = fat[c] => b = c
  /\ \A e, f \in Entries : Target(e) = Target(f) => e = f
  /\ \A e \in Entries : \A c \in Clusters : fat[c] # Target(e)

\* No entry of a live directory leads to a cluster the allocator may hand out,
\* and no link of a chain, of a file or of what delete() left behind, does.
NoDangling ==
  /\ \A e \in Entries : Target(e) \in DataClusters /\ fat[Target(e)] # EMPTY
  /\ \A c \in Clusters : fat[c] \in DataClusters => fat[fat[c]] # EMPTY

\* Directories one entry away from those in D.
Subfolders(D) ==
  {Target(e) : e \in {e \in Entries : e[1] \in D /\ disk[e[1]][e[2]].attr = "dir"}}

Reached[n \in Nat] ==
  IF n = 0 THEN {RootCluster}
  ELSE LET nearer == Reached[n - 1] IN nearer \cup Subfolders(nearer)

\* The live directories are those a walk from the root finds: none is cut off
\* and none is deleted behind the back of an entry.  Each has its own cluster
\* number in its first entry, which is what cd, ls and the not-empty mark of
\* write() go by, and is a chain of one cluster.
Rooted ==
  /\ dirs = Reached[ClusterMapSize]
  /\ \A d \in dirs : /\ fat[d] = EOF
                      /\ disk[d][SelfSlot].cluster = d
                      /\ disk[d][SelfSlot].attr = "dir"

\* A live file is whole: the chain from its entry holds as many clusters as
\* the entry says, each with the piece of the content written there, however
\* many files and directories have come and gone around it.
FilesWhole ==
  \A e \in Entries :
    LET entry == disk[e[1]][e[2]]
    IN  entry.attr = "file" =>
          /\ ChainLengths(fat, entry.cluster) = {entry.size}
          /\ \E d \in Datas :
               Content(disk, fat, entry.cluster, entry.size)
                 = [i \in 1 .. entry.size |-> <<d, i>>]
-----------------------------------------------------------------------------
(***************************************************************************)
(* What the header and the comments say, and the code does not do.         *)
(***************************************************************************)
\* fat32.h, delete: "delete a file or empty directory", "2 folder is not
\* empty".  The mark delete() looks for is on the directory's own entry, not on
\* the entry in its parent, and write() of a folder sets none at all.
OnlyEmptyFoldersDeleted == [][\A d \in dirs \ dirs' : Children(disk[d]) = {}]_vars

\* fat32.h, delete: "1 not found".  The search goes on through every cluster
\* marked EOF above the parent.
AbsentIsNotFound ==
  [][\A p \in dirs, name \in Callable, ext \in Exts :
       KeyedSlots(disk[p], name, ext) = {} => ~DeleteEntry(p, name, ext)]_vars
=============================================================================
