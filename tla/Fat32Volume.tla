---------------------------- MODULE Fat32Volume ----------------------------
(***************************************************************************)
(* The data structures of the FAT32-like file system of ntarAja OS, and    *)
(* the pure part of its driver (src/src/fat32.c): the allocation table,    *)
(* the directory table that fills one cluster, the searches over it, the   *)
(* allocation scan of write() and the chain walk of read().                *)
(*                                                                         *)
(* A cluster is CLUSTER_SIZE bytes that the driver reads either as file    *)
(* data or as a directory table, depending on who asks; nothing on disk    *)
(* says which.  The model keeps that: every cluster holds a table, and     *)
(* Reading, a constant, is the table each cluster of a content looks like  *)
(* to whoever takes it for one: any names, marks and numbers.  Sizes count *)
(* clusters.                                                               *)
(***************************************************************************)
EXTENDS Integers, Sequences, FiniteSets

CONSTANTS
  ClusterMapSize,   \* CLUSTER_MAP_SIZE, entries of the allocation table
  SlotCount,        \* entries of a directory table
  Names,            \* eight-byte names a caller may use
  RootName,         \* "ROOT", the name in the root's own entry
  OtherName,        \* eight bytes that are none of these
  NoName,           \* eight zero bytes: the slot is free
  Exts,             \* extensions, NoExt among them
  NoExt,            \* three zero bytes
  Datas,            \* contents a caller may store
  Reading,          \* what each cluster of a content reads as
  BootSector,       \* what the boot sector with its signature reads as
  MaxFileClusters   \* bound: the longest file a caller writes, in clusters

EMPTY == 0                      \* FAT32_FAT_EMPTY_ENTRY
EOF   == 268435455              \* FAT32_FAT_END_OF_FILE, and CLUSTER_1_VALUE
CLUSTER_0_VALUE == 268435440

BOOT_SECTOR  == 0
RootCluster  == 2               \* ROOT_CLUSTER_NUMBER
FirstCluster == 3               \* where every allocation scan starts

ASSUME ClusterMapAssumption ==
  /\ ClusterMapSize \in Nat
  /\ FirstCluster < ClusterMapSize
  /\ ClusterMapSize <= 512

ASSUME SlotAssumption == SlotCount \in Nat \ {0}

ASSUME NameAssumption ==
  /\ RootName # NoName
  /\ NoName \notin Names
  /\ OtherName \notin Names \cup {NoName}
  /\ NoExt \in Exts

ASSUME SizeAssumption == MaxFileClusters \in Nat

Clusters     == 0 .. ClusterMapSize - 1
DataClusters == FirstCluster .. ClusterMapSize - 1
Slots        == 0 .. SlotCount - 1
SelfSlot     == 0
ChildSlots   == Slots \ {SelfSlot}

(***************************************************************************)
(* struct FAT32DirectoryEntry: the fields the driver reads back, and in    *)
(* unread the bytes of the others, by which contents differ.               *)
(***************************************************************************)
Pieces == Datas \X (1 .. MaxFileClusters)
NoPiece == <<>>

Entry ==
  [ name     : Names \cup {RootName, OtherName, NoName},
    ext      : Exts,
    attr     : {"none", "file", "dir", "other"},
    notEmpty : BOOLEAN,         \* user_attribute = UATTR_NOT_EMPTY
    cluster  : Nat,
    size     : Nat,
    unread   : Pieces \cup {NoPiece} ]

Table == [Slots -> Entry]

BlankEntry ==
  [ name |-> NoName, ext |-> NoExt, attr |-> "none", notEmpty |-> FALSE,
    cluster |-> 0, size |-> 0, unread |-> NoPiece ]

BlankTable == [s \in Slots |-> BlankEntry]

DirEntry(name, ext, cluster) ==
  [BlankEntry EXCEPT !.name = name, !.ext = ext, !.attr = "dir", !.cluster = cluster]

FileEntry(name, ext, cluster, size) ==
  [ name |-> name, ext |-> ext, attr |-> "file", notEmpty |-> FALSE,
    cluster |-> cluster, size |-> size, unread |-> NoPiece ]

\* Mutant: the number of the parent, as fat32.h words it.
NewTableOfParent(name, cluster) ==
  [BlankTable EXCEPT ![SelfSlot] = DirEntry(name, NoExt, RootCluster)]

\* A new directory holds one entry, its own: own name and own cluster number.
NewTable(name, cluster) ==
  [BlankTable EXCEPT ![SelfSlot] = DirEntry(name, NoExt, cluster)]

\* Mutant: the root's own entry without its mark.
RootTableUnmarked ==
  [BlankTable EXCEPT ![SelfSlot] = DirEntry(RootName, NoExt, RootCluster)]

RootTable ==
  [BlankTable EXCEPT ![SelfSlot] =
     [DirEntry(RootName, NoExt, RootCluster) EXCEPT !.notEmpty = TRUE]]

\* The i-th cluster of the content d, seen through the eyes of a table reader.
DataTable(d, i) == [Reading[<<d, i>>] EXCEPT ![SelfSlot].unread = <<d, i>>]

\* Numbers in a content are bounded by the map; a number beyond it would have
\* the driver leave its tables.
ASSUME ReadingAssumption ==
  /\ Reading \in [Pieces -> Table]
  /\ \A x \in Pieces, s \in Slots : Reading[x][s].cluster \in Clusters

\* The signature is text and zeros: three entries with names nobody asks for,
\* and free slots behind them; no byte of it is the mark of a directory.
ASSUME BootSectorAssumption ==
  /\ BootSector \in Table
  /\ \A s \in Slots : /\ BootSector[s].name \in {OtherName, NoName}
                      /\ BootSector[s].attr # "dir"
                      /\ BootSector[s].cluster # RootCluster

(***************************************************************************)
(* Two conditions on the contents, for the properties that need them: none *)
(* looks like a directory's entry, none has the root's cluster number      *)
(* where an entry would have one.                                          *)
(***************************************************************************)
NoFolderInData == \A x \in Pieces, s \in Slots : Reading[x][s].attr # "dir"
NoRootInData == \A x \in Pieces, s \in Slots : Reading[x][s].cluster # RootCluster

\* The caller's buffer: the data of a file, the keys in a directory, or neither.
Nothing == [data |-> <<>>, list |-> {}]
Data(content) == [Nothing EXCEPT !.data = content]
List(keys) == [Nothing EXCEPT !.list = keys]

(***************************************************************************)
(* The searches.  Each scans upwards and stops at the first match: First   *)
(* is the set of that match, empty when there is none.                     *)
(***************************************************************************)
First(S) == {x \in S : \A y \in S : x <= y}

FreeSlots(t) == {s \in Slots : t[s].name = NoName}
NamedSlots(t, name) == {s \in Slots : t[s].name = name}
KeyedSlots(t, name, ext) == {s \in Slots : t[s].name = name /\ t[s].ext = ext}

find_empty_entry(t) == First(FreeSlots(t))
dir_table_search(t, name, ext) == First(KeyedSlots(t, name, ext))

\* write() flags the first entry that carries the parent's own cluster number.
MarkNotEmpty(t, parent) ==
  [s \in Slots |->
     IF s \in First({r \in Slots : t[r].cluster = parent})
       THEN [t[s] EXCEPT !.notEmpty = TRUE]
       ELSE t[s]]

(***************************************************************************)
(* Allocation.  The scan goes up from FirstCluster and takes every free    *)
(* cluster it meets until it holds as many as it needs.                    *)
(***************************************************************************)
\* Mutant: with the condition write() has commented out, which also takes a
\* cluster marked EOF when the next one is free.
FreeOrLastClusters(fat) ==
  {c \in DataClusters : \/ fat[c] = EMPTY
                        \/ fat[c] = EOF /\ c + 1 \in Clusters /\ fat[c + 1] = EMPTY}

FreeClusters(fat) == {c \in DataClusters : fat[c] = EMPTY}

Chains(fat, length) ==
  {ch \in [1 .. length -> FreeClusters(fat)] :
     /\ \A i, j \in 1 .. length : i < j => ch[i] < ch[j]
     /\ \A c \in FreeClusters(fat) :
          c <= ch[length] => \E i \in 1 .. length : c = ch[i]}

\* Mutants: the cluster behind the last takes its place, each cluster is linked
\* to the one before it, the last cluster is not marked.
LinkedPastEnd(fat, ch, length) ==
  [c \in Clusters |->
     IF \E i \in 1 .. length : c = ch[i] THEN c + 1 ELSE fat[c]]

LinkedBackwards(fat, ch, length) ==
  [c \in Clusters |->
     IF c = ch[1] THEN EOF
     ELSE IF \E i \in 2 .. length : c = ch[i]
       THEN ch[(CHOOSE i \in 2 .. length : c = ch[i]) - 1]
     ELSE fat[c]]

LinkedUnmarked(fat, ch, length) ==
  [c \in Clusters |->
     IF \E i \in 1 .. length - 1 : c = ch[i]
       THEN ch[(CHOOSE i \in 1 .. length - 1 : c = ch[i]) + 1]
       ELSE fat[c]]

\* The table with the clusters of the chain linked, its last marked EOF.
Linked(fat, ch, length) ==
  [c \in Clusters |->
     IF \E i \in 1 .. length : c = ch[i]
       THEN LET i == CHOOSE i \in 1 .. length : c = ch[i]
            IN  IF i = length THEN EOF ELSE ch[i + 1]
       ELSE fat[c]]

(***************************************************************************)
(* Following a chain: Walk(fat, c)[k] is the cluster after k links.  It    *)
(* stays put once it has left the table.                                   *)
(***************************************************************************)
Walk(fat, c) ==
  LET w[k \in 0 .. ClusterMapSize] ==
        IF k = 0 THEN c
        ELSE LET x == w[k - 1] IN IF x \in Clusters THEN fat[x] ELSE x
  IN  w

\* The data clusters of the chain that starts at c: the links followed up to
\* the cluster marked EOF, the terminator that write() reserves behind the
\* last data cluster.  read() and delete() both take the first link without
\* looking; neither has an end when the set is empty.
ChainLengths(fat, c) ==
  First({k \in 1 .. ClusterMapSize :
           /\ Walk(fat, c)[k] \in Clusters
           /\ fat[Walk(fat, c)[k]] = EOF
           /\ \A j \in 0 .. k - 1 : Walk(fat, c)[j] \in Clusters})

Content(disk, fat, c, k) == [j \in 1 .. k |-> disk[Walk(fat, c)[j - 1]][SelfSlot].unread]
=============================================================================
