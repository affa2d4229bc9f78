----------------------------- MODULE Fat32Disk -----------------------------
(***************************************************************************)
(* The calls of Fat32 as the disk sees them: each is a sequence of cluster *)
(* writes, between which the power may fail.  A call reads what it needs   *)
(* before its first write and nothing runs beside it, so its effect on the *)
(* driver's tables is the one step of Fat32; disk is then the content it   *)
(* is about to leave and platter the content that has reached the disk.    *)
(* Formatting and mounting are here too.  A cluster write is one step; the *)
(* driver's loop over its four sectors (src/src/disk.c) is not modelled.   *)
(***************************************************************************)
EXTENDS Fat32, SequencesExt

CONSTANT Junk   \* what create_fat32 puts where the allocation table belongs

\* It begins with the address of the table, which is no entry of a table.
ASSUME JunkAssumption == Junk \notin [Clusters -> FatEntry]

VARIABLES
  signed,      \* fs_signature is in the boot sector
  platterFat,  \* the allocation table in cluster 1
  platter,     \* the other clusters
  pending,     \* numbers of the clusters the running call has yet to write
  call,        \* the running call; "idle" between calls, "off" without power
  torn         \* history: the power failed in a call the code does not protect

diskVars == <<signed, platterFat, platter, pending, call, torn>>

FAT_CLUSTER_NUMBER == 1

BlankDisk == [c \in Clusters |-> BlankTable]
ZeroFat == [c \in Clusters |-> EMPTY]

DiskInit ==
  /\ Init
  /\ signed = FALSE
  /\ platterFat = ZeroFat
  /\ platter = BlankDisk
  /\ pending = <<>>
  /\ call = "off"
  /\ torn = FALSE
-----------------------------------------------------------------------------
(***************************************************************************)
(* initialize_filesystem_fat32.                                            *)
(***************************************************************************)
\* The signature goes first.
FormatWrites == <<BOOT_SECTOR, FAT_CLUSTER_NUMBER, RootCluster>>

Format ==
  /\ call = "off" /\ ~signed
  /\ fat' = FormattedFat
  /\ disk' = [platter EXCEPT ![BOOT_SECTOR] = BootSector, ![RootCluster] = RootTable]
  /\ dirs' = {RootCluster}
  /\ pending' = FormatWrites
  /\ call' = "format"
  /\ UNCHANGED <<ret, got, overrun, signed, platterFat, platter, torn>>

\* The directories a walk from the root finds on the disk.
Found[n \in Nat] ==
  IF n = 0 THEN {RootCluster}
  ELSE LET nearer == Found[n - 1]
       IN  nearer \cup {platter[e[1]][e[2]].cluster :
             e \in {e \in nearer \X ChildSlots : platter[e[1]][e[2]].attr = "dir"}}

OnDisk == Found[ClusterMapSize]

Mount ==
  /\ call = "off" /\ signed
  /\ platterFat # Junk
  /\ fat' = platterFat
  /\ disk' = platter
  /\ dirs' = OnDisk
  /\ call' = "idle"
  /\ UNCHANGED <<ret, got, overrun, signed, platterFat, platter, pending, torn>>
-----------------------------------------------------------------------------
(***************************************************************************)
(* The writes of each call, in order.                                      *)
(***************************************************************************)
\* Mutant: the directory table before the allocation table.
FlushTableFirst(d) == <<d, FAT_CLUSTER_NUMBER>>

Flush(d) == <<FAT_CLUSTER_NUMBER, d>>

\* The cluster numbers in S, lowest first.
Ascending(S) ==
  CHOOSE q \in [1 .. Cardinality(S) -> S] : \A i, j \in DOMAIN q : i < j => q[i] < q[j]

\* The clusters that receive data: those the call has linked onwards.
Filling == {c \in FreeClusters(fat) : fat'[c] \in DataClusters}

\* Mutant: the tables before the data.
FlushedBeforeData(d) == Flush(d) \o Ascending(Filling)

FileWrites(d) == Ascending(Filling) \o Flush(d)

\* Machine follows the kernel's calls on a torn volume; others are left out.
Ready == call = "idle" /\ ~torn

StartFile(p, name, ext, size, d) ==
  /\ Ready
  /\ WriteFile(p, name, ext, size, d)
  /\ pending' = FileWrites(p)
  /\ call' = "file"
  /\ UNCHANGED <<signed, platterFat, platter, torn>>

\* Mutant: the new directory's own table is never written.
FolderTableLost(d) == Flush(d)

\* The cluster a new directory takes.
Made == {c \in FreeClusters(fat) : fat'[c] = EOF}

FolderWrites(d) == Flush(d) \o Ascending(Made)

StartFolder(p, name, ext) ==
  /\ Ready
  /\ WriteFolder(p, name, ext)
  /\ pending' = FolderWrites(p)
  /\ call' = "folder"
  /\ UNCHANGED <<signed, platterFat, platter, torn>>

StartDelete(p, name, ext) ==
  /\ Ready
  /\ DeleteEntry(p, name, ext)
  /\ pending' = Flush(p)
  /\ call' = "delete"
  /\ UNCHANGED <<signed, platterFat, platter, torn>>

\* create_fat32 copies from the address of the pointer fat_table, not from the
\* table it points to.
FatToWrite == IF call = "format" THEN Junk ELSE fat

\* What a call other than the format puts in the boot sector is an entry more,
\* and the signature is none then.
WriteCluster ==
  /\ pending # <<>>
  /\ LET c == Head(pending)
     IN  /\ signed' = IF c = BOOT_SECTOR THEN call = "format" ELSE signed
         /\ platterFat' = IF c = FAT_CLUSTER_NUMBER THEN FatToWrite ELSE platterFat
         /\ platter' = IF c = FAT_CLUSTER_NUMBER
                         THEN platter ELSE [platter EXCEPT ![c] = disk[c]]
  /\ pending' = Tail(pending)
  /\ call' = IF Len(pending) = 1 THEN "idle" ELSE call
  /\ UNCHANGED <<vars, torn>>

\* Between calls or in any of them.  The driver's memory is gone.
PowerLoss ==
  /\ call # "off"
  /\ fat' = ZeroFat /\ disk' = platter /\ dirs' = {RootCluster}
  /\ pending' = <<>>
  /\ call' = "off"
  /\ torn' = (torn \/ call \in {"format", "folder", "delete"})
  /\ UNCHANGED <<ret, got, overrun, signed, platterFat, platter>>

DiskNext ==
  \/ Format
  \/ Mount
  \/ \E p \in dirs, name \in Names, ext \in Exts :
       \/ \E size \in FileSizes, d \in Datas : StartFile(p, name, ext, size, d)
       \/ StartFolder(p, name, ext)
       \/ StartDelete(p, name, ext)
  \/ WriteCluster
  \/ PowerLoss

DiskSpec == DiskInit /\ [][DiskNext]_<<vars, diskVars>>
-----------------------------------------------------------------------------
(***************************************************************************)
(* Properties.                                                             *)
(***************************************************************************)
Durable == INSTANCE Fat32 WITH fat <- platterFat, disk <- platter, dirs <- OnDisk

Formatted == signed /\ platterFat # Junk

\* What the next mount would find is sound if the power fails while a file is
\* written or no call is running: no cluster has two owners, no entry leads to
\* a free one, and every file that is listed is whole.
CrashSafe ==
  Formatted /\ ~torn /\ call \in {"idle", "off", "file"} =>
    Durable!UniqueOwner /\ Durable!NoDangling /\ Durable!FilesWhole

\* Whatever a call that has returned did is on the disk, and nothing else.
AcknowledgedIsDurable ==
  Formatted /\ call = "idle" => platterFat = fat /\ platter = disk

\* The files and directories on the disk, each with its content.
Visible ==
  [e \in Durable!Entries |->
     LET entry == platter[e[1]][e[2]]
     IN  <<entry.name, entry.ext, entry.attr,
           IF entry.attr = "file"
             THEN {Content(platter, platterFat, entry.cluster, k) :
                     k \in ChainLengths(platterFat, entry.cluster)}
             ELSE {}>>]

\* A file appears on the disk in one write, the last of the call that makes it,
\* and no other file changes by it.
FileAppearsAtOnce ==
  [][(call = "file" /\ Visible' # Visible) => Len(pending) = 1]_<<vars, diskVars>>

\* What the running call is about: the entry delete() removes, and whatever the
\* cluster of a new directory seems to hold until its table is written.
Concerned(e) ==
  /\ call \in {"folder", "delete"}
  /\ e[1] = Last(pending)
  /\ call = "delete" => disk[e[1]][e[2]] = BlankEntry

\* Wherever the power fails, in whatever call, everything else that was on the
\* disk is on it still, with its content: no cluster write takes away or changes
\* a file or a directory that the call was not asked to.  (Of what a new
\* directory's cluster seems to hold until its table is written, only entries of
\* directories would matter; NoFolderInData rules them out.)
OthersUntouched ==
  [][NoFolderInData /\ <<platterFat, platter>>' # <<platterFat, platter>> =>
       LET before == Visible
           after  == Visible'
       IN  \A e \in DOMAIN before :
             Concerned(e) \/ (e \in DOMAIN after /\ after[e] = before[e])]_<<vars, diskVars>>

\* fat32.h, create_fat32: "Will write fs_signature into boot sector and proper
\* FileAllocationTable".
FormatIsProper == call = "idle" => platterFat = fat
=============================================================================
