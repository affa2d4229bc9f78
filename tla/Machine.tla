------------------------------ MODULE Machine ------------------------------
(***************************************************************************)
(* The life of a disk image.  On the host the inserter                     *)
(* (src/src/external-inserter.c with the driver's copy fat32-no-cmos.c)    *)
(* puts the shell on it; the kernel (src/src/kernel.c) mounts or formats   *)
(* it, loads the shell, writes its own files and folders, and leaves the   *)
(* rest to the user, whose calls are those of Fat32Disk.  The power fails  *)
(* at any moment, and the machine is started again.                        *)
(*                                                                         *)
(* A host that fails is left out: the inserter works on a copy in memory.  *)
(* After a torn call (Fat32Disk) the kernel is followed start after start, *)
(* wherever its writes go; the user and the host are not.                  *)
(***************************************************************************)
EXTENDS Fat32Disk

CONSTANTS
  shell, ikanaide, filefile, cakcok, cicak, exe,   \* what the kernel asks for
  Code,       \* the content of the shell's binary
  Letters,    \* the content of the kernel's files
  Binaries,   \* sizes of the file given to the inserter, 0 if there is none
  Typed,      \* bound: the keys of the user's calls
  MaxCalls,   \* bound: calls of the user
  MaxAstray,  \* bound: calls of the kernel on a torn volume
  Slips       \* "kernels_name": the user makes a file with the key of a folder

ASSUME MachineAssumption ==
  /\ {shell, ikanaide, filefile, cakcok, cicak} \subseteq Names /\ exe \in Exts
  /\ {Code, Letters} \subseteq Datas
  /\ Binaries \subseteq FileSizes
  /\ 1 \in FileSizes   \* that of the kernel's and the user's files
  /\ Typed \subseteq Keys
  /\ MaxCalls \in Nat /\ MaxAstray \in Nat
  /\ Slips \subseteq {"kernels_name"}

VARIABLES
  at,         \* "off"; "host" and "save" in the inserter; "load", "boot", "user"
  script,     \* what kernel_setup has yet to do
  parent,     \* the cluster numbers it has: of the root, in table and in table3
  program,    \* what it has loaded
  inserted,   \* history: clusters of the shell's file, 0 when it is not there
  calls,      \* calls the user has made
  astray      \* history: calls the kernel has made on a torn volume, or for a
              \* parent that is no directory

bootVars == <<script, parent, program>>
historyVars == <<inserted, calls, astray>>
machineVars == <<vars, diskVars, at, bootVars, historyVars>>

ShellKey == <<shell, NoExt>>
Unread == -1   \* an array on the stack nothing was read into
NoParents == [root |-> RootCluster, table |-> Unread, table3 |-> Unread]

MachineInit ==
  /\ DiskInit
  /\ at = "off"
  /\ script = <<>> /\ parent = NoParents /\ program = <<>>
  /\ inserted = 0 /\ calls = 0 /\ astray = 0
-----------------------------------------------------------------------------
(***************************************************************************)
(* The inserter.  The image is in memory from HostOpen to HostSave.        *)
(***************************************************************************)
HostMount ==
  IF signed
    THEN /\ platterFat # Junk
         /\ fat' = platterFat /\ disk' = platter /\ dirs' = OnDisk
    ELSE /\ fat' = FormattedFat
         /\ disk' = [platter EXCEPT ![BOOT_SECTOR] = BootSector, ![RootCluster] = RootTable]
         /\ dirs' = {RootCluster}

HostOpen ==
  /\ at = "off" /\ ~torn
  /\ HostMount
  /\ at' = "host"
  /\ UNCHANGED <<ret, got, overrun, diskVars, bootVars, historyVars>>

\* A file that cannot be opened has no bytes, and makes a folder.
HostWrite(size) ==
  /\ at = "host"
  /\ \/ WriteRefused(RootCluster, shell, NoExt, size)
     \/ size = 0 /\ WriteFolder(RootCluster, shell, NoExt)
     \/ WriteFile(RootCluster, shell, NoExt, size, Code)
     \/ WriteOverrun(RootCluster, shell, NoExt, size)
  /\ inserted' = IF ret' = 0 /\ ~overrun' THEN size ELSE inserted
  /\ at' = "save"
  /\ UNCHANGED <<diskVars, bootVars, calls, astray>>

SaveImage(table) ==
  /\ at = "save" /\ ~overrun
  /\ signed' = TRUE
  /\ platterFat' = table
  /\ platter' = disk
  /\ fat' = ZeroFat /\ dirs' = {RootCluster}
  /\ at' = "off"
  /\ UNCHANGED <<disk, ret, got, overrun, pending, call, torn, bootVars, historyVars>>

TableBefore == IF signed THEN platterFat ELSE Junk

\* Mutant: write() does not flush, so that what create_fat32 has left stays.
HostSaveUnflushed == SaveImage(TableBefore)

\* A write that has returned 0 has flushed the allocation table.
HostSave == SaveImage(IF ret = 0 THEN fat ELSE TableBefore)
-----------------------------------------------------------------------------
(***************************************************************************)
(* kernel_setup.                                                           *)
(***************************************************************************)
PowerOn ==
  /\ at = "off"
  /\ Format \/ Mount
  /\ at' = "load"
  /\ UNCHANGED <<bootVars, historyVars>>

WriteOf(where, key, size) ==
  [op |-> "write", where |-> where, key |-> key, size |-> size, into |-> where]
LookAt(where, key, into) ==
  [op |-> "look", where |-> where, key |-> key, size |-> 0, into |-> into]

Home == <<ikanaide, NoExt>>
Nested == <<cicak, NoExt>>
KernelFile == <<filefile, exe>>

InRoot == <<WriteOf("root", Home, 0), WriteOf("root", KernelFile, 1)>>
InHome == << WriteOf("table", KernelFile, 1),
             WriteOf("table", <<cakcok, NoExt>>, 0),
             WriteOf("table", Nested, 0) >>
FindHome == <<LookAt("root", Home, "table")>>
FindNested == <<LookAt("table", Nested, "table3")>>

\* Mutants: the folder's table is read before the folder is made; the last
\* request is left with the parent of the one before it.
BootScriptLooksFirst ==
  FindHome \o InRoot \o InHome \o FindNested \o <<WriteOf("table3", KernelFile, 1)>>
BootScriptOldParent ==
  InRoot \o FindHome \o InHome \o FindNested \o <<WriteOf("table", KernelFile, 1)>>

BootScript ==
  InRoot \o FindHome \o InHome \o FindNested \o <<WriteOf("table3", KernelFile, 1)>>

LoadInto(size) ==
  /\ at = "load" /\ call = "idle"
  /\ \/ ReadFile(RootCluster, shell, NoExt, size)
     \/ ReadRefused(RootCluster, shell, NoExt, size)
     \/ ReadOverrun(RootCluster, shell, NoExt, size)
  /\ program' = IF ret' = 0 /\ ~overrun' THEN got'.data ELSE <<>>
  /\ at' = "boot" /\ script' = BootScript
  /\ UNCHANGED <<diskVars, parent, historyVars>>

\* Mutant: room for one cluster.
LoadOneCluster == LoadInto(1)

\* There is room for as many clusters as a volume has.  The answer is ignored.
Load == LoadInto(ClusterMapSize)

Step == Head(script)
Parent == parent[Step.where]
Doing(op) == at = "boot" /\ script # <<>> /\ Step.op = op /\ call = "idle"

\* As far as the driver's directories can be trusted.
Trusted == ~torn /\ Parent \in dirs

\* The answers are ignored.
WriteInside ==
  /\ Doing("write") /\ Trusted
  /\ \/ StartFile(Parent, Step.key[1], Step.key[2], Step.size, Letters)
     \/ Step.size = 0 /\ StartFolder(Parent, Step.key[1], Step.key[2])
     \/ /\ \/ WriteRefused(Parent, Step.key[1], Step.key[2], Step.size)
           \/ WriteOverrun(Parent, Step.key[1], Step.key[2], Step.size)
        /\ UNCHANGED diskVars
  /\ script' = Tail(script)
  /\ UNCHANGED <<at, parent, program, historyVars>>

\* The number in the own entry of the table that was read.
OwnNumber(p) ==
  LET s == CHOOSE s \in Slots :
             s \in dir_table_search(disk[p], Step.key[1], Step.key[2])
  IN  disk[disk[p][s].cluster][SelfSlot].cluster

\* The answer is looked at no more than here: the array stays as it is when
\* there is none.
Noted(p) == parent' = [parent EXCEPT ![Step.into] = IF ret' # 0 THEN @ ELSE OwnNumber(p)]

LookInside ==
  /\ Doing("look") /\ Trusted
  /\ ReadDirectory(Parent, Step.key[1], Step.key[2])
  /\ Noted(Parent)
  /\ script' = Tail(script)
  /\ UNCHANGED <<diskVars, at, program, historyVars>>

\* The same calls where the directories cannot be trusted: no use of the driver
\* is ruled out.  A parent that was not read is whatever the stack held.
AnyUse == INSTANCE Fat32 WITH Misuse <- BenignKinds \cup HarmfulKinds

Targets == IF Parent = Unread THEN Parents ELSE Parents \cap {Parent}

WriteAstray ==
  /\ Doing("write") /\ ~Trusted /\ astray < MaxAstray
  /\ \E p \in Targets :
       \/ /\ AnyUse!WriteFile(p, Step.key[1], Step.key[2], Step.size, Letters)
          /\ pending' = FileWrites(p) /\ call' = "file"
          /\ UNCHANGED <<signed, platterFat, platter, torn>>
       \/ /\ Step.size = 0 /\ AnyUse!WriteFolder(p, Step.key[1], Step.key[2])
          /\ pending' = FolderWrites(p) /\ call' = "folder"
          /\ UNCHANGED <<signed, platterFat, platter, torn>>
       \/ /\ \/ AnyUse!WriteRefused(p, Step.key[1], Step.key[2], Step.size)
             \/ AnyUse!WriteOverrun(p, Step.key[1], Step.key[2], Step.size)
          /\ UNCHANGED diskVars
  /\ script' = Tail(script)
  /\ astray' = astray + 1
  /\ UNCHANGED <<at, parent, program, inserted, calls>>

LookAstray ==
  /\ Doing("look") /\ ~Trusted /\ astray < MaxAstray
  /\ \E p \in Targets :
       /\ AnyUse!ReadDirectory(p, Step.key[1], Step.key[2])
       /\ Noted(p)
  /\ script' = Tail(script)
  /\ astray' = astray + 1
  /\ UNCHANGED <<diskVars, at, program, inserted, calls>>

BootWrite == WriteInside \/ WriteAstray
BootLook == LookInside \/ LookAstray

BootDone ==
  /\ at = "boot" /\ script = <<>> /\ Ready
  /\ at' = "user"
  /\ UNCHANGED <<vars, diskVars, bootVars, historyVars>>
-----------------------------------------------------------------------------
\* What the user asks for through the shell.
MakeFile(p, key) ==
  /\ key[2] = NoExt => "kernels_name" \in Slips
  /\ StartFile(p, key[1], key[2], 1, Letters)
  /\ UNCHANGED inserted

MakeFolder(p, key) ==
  /\ key[2] = NoExt
  /\ StartFolder(p, key[1], key[2])
  /\ UNCHANGED inserted

RemoveKey(p, key) ==
  /\ StartDelete(p, key[1], key[2])
  /\ inserted' = IF p = RootCluster /\ key = ShellKey THEN 0 ELSE inserted

User ==
  /\ at = "user" /\ calls < MaxCalls
  /\ \E p \in dirs, key \in Typed :
       \/ MakeFile(p, key)
       \/ MakeFolder(p, key)
       \/ RemoveKey(p, key)
  /\ calls' = calls + 1
  /\ UNCHANGED <<at, bootVars, astray>>

DiskWrite == WriteCluster /\ UNCHANGED <<at, bootVars, historyVars>>

PowerOff ==
  /\ at \in {"load", "boot", "user"}
  /\ PowerLoss
  /\ at' = "off"
  /\ script' = <<>> /\ parent' = NoParents /\ program' = <<>>
  /\ UNCHANGED historyVars

MachineNext ==
  \/ HostOpen
  \/ \E size \in Binaries : HostWrite(size)
  \/ HostSave
  \/ PowerOn \/ Load
  \/ BootWrite \/ BootLook \/ BootDone
  \/ User
  \/ DiskWrite
  \/ PowerOff

MachineSpec == MachineInit /\ [][MachineNext]_machineVars
-----------------------------------------------------------------------------
(***************************************************************************)
(* Properties.                                                             *)
(***************************************************************************)
\* A shell that was inserted is loaded whole at every start, until the user
\* removes it: no boot, no call of the user on anything else and no power loss
\* takes it away or changes it, the start after a folder or a delete cut short
\* included.  What the kernel does to a torn volume in that start may: it reads
\* the parent 0 from a folder's table that was never written, writes over the
\* signature, and the start after it formats the disk.
ProgramLoads ==
  at = "boot" /\ inserted > 0 /\ astray = 0 =>
    program = [i \in 1 .. inserted |-> <<Code, i>>]

\* The inserter leaves an image that can be mounted, and it stays so until the
\* kernel writes to a torn volume.  create_fat32 alone does not leave one: it is
\* the write after it that puts a proper table there.
ImageBootable == at = "off" /\ inserted > 0 /\ astray = 0 => Formatted

\* The clusters of the folders, and the files, with that key in directory d.
FoldersOn(d, key) ==
  {platter[d][s].cluster :
     s \in {s \in KeyedSlots(platter[d], key[1], key[2]) : platter[d][s].attr = "dir"}}
HasFile(d, key) ==
  \E s \in KeyedSlots(platter[d], key[1], key[2]) : platter[d][s].attr = "file"

\* Whatever earlier starts and the user have left, and wherever the power failed
\* in a file's write, a boot that comes to its end has the kernel's six objects
\* on the disk, each in its place, unless the volume is full: a file that was cut
\* short between its two tables keeps its clusters for good.  A boot that follows
\* a folder's write cut short (Ready excludes it) need not.
BootRestores ==
  at = "boot" /\ script = <<>> /\ Ready /\ ~overrun /\ FreeClusters(fat) # {} =>
    \E home \in FoldersOn(RootCluster, Home) : \E nested \in FoldersOn(home, Nested) :
      /\ FoldersOn(home, <<cakcok, NoExt>>) # {}
      /\ \A d \in {RootCluster, home, nested} : HasFile(d, KernelFile)

\* On a volume that is not torn the kernel writes to directories only: no parent's
\* number comes from an array that nothing was read into, or from a table that is
\* none.  On a torn one it does not (WriteAstray).
BootKnowsParents == at = "boot" /\ script # <<>> /\ Ready => Parent \in dirs
=============================================================================
