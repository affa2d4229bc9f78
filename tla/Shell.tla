------------------------------- MODULE Shell -------------------------------
(***************************************************************************)
(* The shell (src/src/user-shell.c), the one user program and the caller   *)
(* of the driver: cd, ls, cat, mkdir, rm, cp and mv.  A command is a       *)
(* sequence of system calls; each of them is a step, and an action of      *)
(* Fat32, with what the shell computes from its answer.  The shell keeps   *)
(* a copy of the current directory's table, one of the root's, and the     *)
(* path it believes to be in; the driver knows of none of them.            *)
(*                                                                         *)
(* A file name is a key, <<name, ext>>; the parsing of the command line    *)
(* and what is printed are left out; whereis is in the module Whereis.     *)
(***************************************************************************)
EXTENDS Fat32

CONSTANTS
  Longer,     \* pairs of names, the first the beginning of the second
  Zeros,      \* the content of a buffer nothing was read into
  ikanaide, filefile, cakcok, cicak, exe, Letters,   \* what the kernel stores at boot
  MaxDepth,   \* bound: components of curDirName
  MaxTyped,   \* bound: components of a path that is typed
  MaxLines,   \* bound: command lines typed
  Typing,     \* bound: the names typed, the empty one apart
  Slips       \* what the person at the keyboard may do, see below

ASSUME ShellAssumption ==
  /\ {Zeros, Letters} \subseteq Datas /\ MaxFileClusters >= 1
  /\ MaxDepth \in Nat /\ MaxTyped \in Nat /\ MaxLines \in Nat
  /\ Typing \subseteq Keys
  /\ {ikanaide, filefile, cakcok, cicak} \subseteq Names /\ exe \in Exts

\* "remove_here": rm or mv of the name of the current directory itself, from
\* inside.  "remove_nothing": rm or mv without a name.  "enter_alike": cd to a
\* directory that has an extension or whose name is how the path begins.
SlipKinds == {"remove_here", "remove_nothing", "enter_alike"}
ASSUME SlipAssumption == Slips \subseteq SlipKinds

VARIABLES
  currenDir,    \* cluster of the current directory
  curTable,     \* its table, when it was last read
  rootTable,    \* the root's table, when it was last read
  curDirName,   \* the path: a sequence of keys
  at,           \* where the program is: "prompt", or the next system call
  cmd,          \* the running command and its local variables
  lines         \* command lines read

shellVars == <<currenDir, curTable, rootTable, curDirName, at, cmd, lines>>
allVars == <<vars, shellVars>>

\* Local variables of a command: the buffer cl, the object, the target, what cp
\* takes for the object (from), and for a walk the table it has reached and the
\* components before and behind it.
\* due is the cluster of the directory mv is meant to move to, if the move can
\* succeed at all, and 0 otherwise; it is no variable of the program.
NoCommand ==
  [ name |-> "none", cl |-> Zeros,
    src |-> <<NoName, NoExt>>, dst |-> <<NoName, NoExt>>, from |-> <<NoName, NoExt>>,
    table |-> BlankTable, path |-> <<>>, rest |-> <<>>, due |-> 0 ]
-----------------------------------------------------------------------------
(***************************************************************************)
(* System calls.                                                           *)
(***************************************************************************)
NoKey == <<NoName, NoExt>>
ArgKeys == Typing \cup {NoKey}

ClusterOf(t) == t[SelfSlot].cluster

\* The table a successful read_directory copies to the buffer, as a set.
TableNamed(p, key) ==
  {disk[disk[p][s].cluster] :
     s \in {s \in dir_table_search(disk[p], key[1], key[2]) : disk[p][s].attr = "dir"}}

\* Directories that the path leads to from directory c.
Leads(c, path) ==
  LET w[i \in 0 .. Len(path)] ==
        IF i = 0 THEN {c}
        ELSE UNION {{disk[d][s].cluster :
                       s \in {s \in dir_table_search(disk[d], path[i][1], path[i][2]) :
                                disk[d][s].attr = "dir"}} : d \in w[i - 1]}
  IN  w[Len(path)]

CallReadDirectory(p, key) == ReadDirectory(p, key[1], key[2])

CallRead(p, key) ==
  \/ ReadFile(p, key[1], key[2], 1)
  \/ ReadRefused(p, key[1], key[2], 1)
  \/ ReadOverrun(p, key[1], key[2], 1)

CallWrite(p, key, size, d) ==
  \/ WriteRefused(p, key[1], key[2], size)
  \/ size = 0 /\ WriteFolder(p, key[1], key[2])
  \/ WriteFile(p, key[1], key[2], size, d)
  \/ WriteOverrun(p, key[1], key[2], size)

CallDelete(p, key) ==
  \/ DeleteMissing(p, key[1], key[2])
  \/ DeleteRefused(p, key[1], key[2])
  \/ DeleteEntry(p, key[1], key[2])
  \/ DeleteChain(p, key[1], key[2])
  \/ DeleteOverrun(p, key[1], key[2])

\* A command line is read; the program has come to a system call.
Line == at = "prompt" /\ lines < MaxLines /\ lines' = lines + 1
Point(point) == at = point /\ UNCHANGED lines

\* The top of the main loop comes next.
Return == at' = "refresh" /\ cmd' = NoCommand
SamePlace == UNCHANGED <<currenDir, curTable, rootTable, curDirName>>
-----------------------------------------------------------------------------
(***************************************************************************)
(* Boot, and the main loop.                                                *)
(***************************************************************************)
\* The writes of kernel_setup: the parent's path, the key and the size.  It
\* reads the cluster of a parent from the parent's table.
BootScript ==
  LET home   == <<ikanaide, NoExt>>
      nested == <<cicak, NoExt>>
      file   == <<filefile, exe>>
  IN  << <<<<>>, home, 0>>, <<<<>>, file, 1>>, <<<<home>>, file, 1>>,
         <<<<home>>, <<cakcok, NoExt>>, 0>>, <<<<home>>, nested, 0>>,
         <<<<home, nested>>, file, 1>> >>

ShellInit ==
  /\ Init
  /\ currenDir = RootCluster
  /\ curTable = BlankTable /\ rootTable = BlankTable
  /\ curDirName = <<>>
  /\ at = "boot"
  /\ cmd = [NoCommand EXCEPT !.rest = BootScript]
  /\ lines = 0

Boot ==
  /\ Point("boot")
  /\ LET next == Head(cmd.rest)
     IN  \E p \in Leads(RootCluster, next[1]) : CallWrite(p, next[2], next[3], Letters)
  /\ cmd' = [cmd EXCEPT !.rest = Tail(@)]
  /\ at' = IF Len(cmd.rest) = 1 THEN "start" ELSE at
  /\ SamePlace

Start ==
  /\ Point("start")
  /\ CallReadDirectory(RootCluster, <<RootName, NoExt>>)
  /\ curTable' = disk[RootCluster]
  /\ rootTable' = curTable'
  /\ at' = "refresh"
  /\ UNCHANGED <<currenDir, curDirName, cmd>>

Refresh ==
  /\ Point("refresh")
  /\ CallReadDirectory(RootCluster, <<RootName, NoExt>>)
  /\ \E t \in TableNamed(RootCluster, <<RootName, NoExt>>) : rootTable' = t
  /\ at' = "prompt"
  /\ UNCHANGED <<currenDir, curTable, curDirName, cmd>>
-----------------------------------------------------------------------------
(***************************************************************************)
(* cd.                                                                     *)
(***************************************************************************)
\* The path begins like the name: it is then taken to be in the path already.
Alike(key) ==
  curDirName # <<>> /\ (key[1] = curDirName[1][1] \/ <<key[1], curDirName[1][1]>> \in Longer)

EnterChild(key) ==
  /\ Line
  /\ Len(curDirName) < MaxDepth
  /\ Alike(key) \/ key[2] # NoExt => "enter_alike" \in Slips
  /\ CallReadDirectory(currenDir, key)
  /\ \/ \E t \in TableNamed(currenDir, key) :
          /\ curTable' = t
          /\ currenDir' = ClusterOf(t)
          /\ curDirName' = IF Alike(key) THEN curDirName
                           ELSE Append(curDirName, <<key[1], NoExt>>)
     \/ /\ TableNamed(currenDir, key) = {}
        /\ UNCHANGED <<currenDir, curTable, curDirName>>
  /\ Return
  /\ UNCHANGED rootTable

\* A walk reads one table after the other and gives up at the first error; what
\* it does next depends on the command.
Walking(name, table, rest) ==
  [cmd EXCEPT !.name = name, !.table = table, !.rest = rest]

\* A name that is missing is the empty one.
NextName == IF cmd.rest = <<>> THEN NoKey ELSE Head(cmd.rest)

WalkOn ==
  /\ CallReadDirectory(ClusterOf(cmd.table), NextName)
  /\ \/ \E t \in TableNamed(ClusterOf(cmd.table), NextName) :
          /\ cmd' = [cmd EXCEPT !.table = t,
                                !.path = Append(@, NextName),
                                !.rest = IF @ = <<>> THEN @ ELSE Tail(@)]
          /\ UNCHANGED at
     \/ TableNamed(ClusterOf(cmd.table), NextName) = {} /\ Return
  /\ SamePlace

\* Mutants: curTable, or curDirName, is left as it was.
ArriveWithOldTable(path) ==
  /\ currenDir' = ClusterOf(cmd.table)
  /\ curDirName' = path
  /\ Return
  /\ UNCHANGED <<vars, curTable, rootTable>>

ArriveWithOldPath(path) ==
  /\ curTable' = cmd.table
  /\ currenDir' = ClusterOf(cmd.table)
  /\ Return
  /\ UNCHANGED <<vars, rootTable, curDirName>>

\* The walk has come to its end: cd takes over its table and its path.
Arrive(path) ==
  /\ curTable' = cmd.table
  /\ currenDir' = ClusterOf(cmd.table)
  /\ curDirName' = path
  /\ Return
  /\ UNCHANGED <<vars, rootTable>>

\* Mutant: the walk starts at the current directory, as that of a path does.
GoUpFromHere ==
  /\ Line
  /\ IF currenDir = RootCluster
       THEN Return
       ELSE at' = "up" /\ cmd' = Walking("cd", curTable, curDirName)
  /\ SamePlace /\ UNCHANGED vars

GoUp ==
  /\ Line
  /\ IF currenDir = RootCluster
       THEN Return
       ELSE at' = "up" /\ cmd' = Walking("cd", rootTable, curDirName)
  /\ SamePlace /\ UNCHANGED vars

clusterExist(t, c) == \E s \in ChildSlots : t[s].cluster = c

WalkUp == Point("up") /\ ~clusterExist(cmd.table, currenDir) /\ WalkOn
ArriveUp == Point("up") /\ clusterExist(cmd.table, currenDir) /\ Arrive(cmd.path)

\* The components of a path on the command line.
Paths == UNION {[1 .. n -> Typing] : n \in 0 .. MaxTyped}

\* A path with a leading slash starts at the current directory.
GoDown ==
  /\ Line
  /\ \E path \in Paths :
       /\ Len(curDirName) + Len(path) <= MaxDepth
       /\ cmd' = Walking("cd", curTable, path)
  /\ at' = "down"
  /\ SamePlace /\ UNCHANGED vars

WalkDown == Point("down") /\ cmd.rest # <<>> /\ WalkOn
ArriveDown == Point("down") /\ cmd.rest = <<>> /\ Arrive(curDirName \o cmd.path)
-----------------------------------------------------------------------------
(***************************************************************************)
(* ls, cat and mkdir.                                                      *)
(***************************************************************************)
Ls ==
  LET own == <<curTable[SelfSlot].name, NoExt>>
  IN  /\ Line
      /\ CallReadDirectory(currenDir, own)
      /\ \/ curTable' \in TableNamed(currenDir, own)
         \/ TableNamed(currenDir, own) = {} /\ UNCHANGED curTable
      /\ Return
      /\ UNCHANGED <<currenDir, rootTable, curDirName>>

Cat(key) ==
  /\ Line
  /\ CallRead(currenDir, key)
  /\ Return /\ SamePlace

\* A directory whose name begins with the new one is in the shell's own copy of
\* the table.
Duplicate(key) ==
  /\ key[2] = NoExt
  /\ \E s \in ChildSlots :
       LET e == curTable[s]
       IN  /\ e.attr # "none" \/ e.cluster # 0
           /\ key[1] \in {NoName, e.name} \/ <<key[1], e.name>> \in Longer
           /\ e.ext = NoExt

\* The extension is dropped.
Mkdir(key) ==
  /\ Line
  /\ IF Duplicate(key)
       THEN UNCHANGED vars
       ELSE CallWrite(currenDir, <<key[1], NoExt>>, 0, Zeros)
  /\ Return /\ SamePlace
-----------------------------------------------------------------------------
(***************************************************************************)
(* rm: read_directory of the name, then delete() if it is no directory, or *)
(* one whose first slot behind its own is free.                            *)
(***************************************************************************)
\* Mutant: an unknown name is passed on to delete().
LookAndGoOn(key, command) ==
  /\ CallReadDirectory(currenDir, key)
  /\ at' = "delete" /\ cmd' = command
  /\ SamePlace

Look(key, command) ==
  /\ CallReadDirectory(currenDir, key)
  /\ IF \/ ret' = 1
        \/ \E t \in TableNamed(currenDir, key) : t[1].name = NoName /\ t[1].ext = NoExt
       THEN at' = "delete" /\ cmd' = command
       ELSE Return
  /\ SamePlace

MayRemove(key) ==
  /\ key[1] = NoName => "remove_nothing" \in Slips
  /\ key[1] = curTable[SelfSlot].name => "remove_here" \in Slips

Rm(key) ==
  /\ Line
  /\ MayRemove(key)
  /\ Look(key, [cmd EXCEPT !.name = "rm", !.src = key])

Delete ==
  /\ Point("delete")
  /\ CallDelete(currenDir, cmd.src)
  /\ Return /\ SamePlace
-----------------------------------------------------------------------------
(***************************************************************************)
(* cp, which goes on after every answer of its read but 2.  A name with an *)
(* extension is a file's, one without a directory's.  cp copies its two    *)
(* names to buffers it has not cleared, and reads on into what the stack   *)
(* holds behind them, up to the third character of an extension.           *)
(***************************************************************************)
IsFileName(key) == key[2] # NoExt
SizeFor(key) == IF IsFileName(key) THEN 1 ELSE 0

\* What a name may be taken for.  Extensions are of three characters.
Heard(key) ==
  {k \in Keys : \/ k = key
                \/ key[2] = NoExt /\ (k[1] = key[1] \/ <<key[1], k[1]>> \in Longer)}

\* The buffer after a read of one cluster.
Buffer == IF ret' = 0 /\ got'.data # <<>> THEN got'.data[1][1] ELSE Zeros

\* Back from cp: mv goes on with rm.
AfterCopy(command) ==
  IF command.name = "mv" THEN at' = "look" /\ cmd' = command ELSE Return

CopyRead(command) ==
  /\ IF IsFileName(command.from)
       THEN CallRead(currenDir, command.from)
       ELSE CallReadDirectory(currenDir, command.from)
  /\ IF ret' = 2
       THEN AfterCopy(command)
       ELSE at' = "copy" /\ cmd' = [command EXCEPT !.cl = Buffer]
  /\ SamePlace

Cp(src, dst) ==
  /\ Line
  /\ \E from \in Heard(src), to \in Heard(dst) :
       CopyRead([cmd EXCEPT !.name = "cp", !.from = from, !.dst = to])

CopyWrite ==
  /\ Point("copy")
  /\ CallWrite(currenDir, cmd.dst, SizeFor(cmd.from), cmd.cl)
  /\ AfterCopy(cmd) /\ SamePlace
-----------------------------------------------------------------------------
(***************************************************************************)
(* mv: cp and rm within a directory; to another one the same by hand, and  *)
(* none of the answers is looked at before rm.                             *)
(***************************************************************************)
\* A move to directory h that nothing stands in the way of.
CanMove(src, h, dst) ==
  /\ IsFileName(src)
  /\ \E s \in dir_table_search(disk[currenDir], src[1], src[2]) :
       disk[currenDir][s].attr = "file" /\ disk[currenDir][s].size = 1
  /\ dst[1] # NoName /\ ~Exists(h, dst[1], dst[2])
  /\ FreeSlots(disk[h]) # {}
  /\ Cardinality(FreeClusters(fat)) >= Needed(1)

Due(src, H, dst) ==
  LET good == {h \in H : CanMove(src, h, dst)}
  IN  IF good = {} THEN 0 ELSE CHOOSE h \in good : TRUE

Move(src, dst, H) ==
  [cmd EXCEPT !.name = "mv", !.src = src, !.dst = dst, !.due = Due(src, H, dst)]

MvHere(src, dst) ==
  /\ Line
  /\ MayRemove(src)
  /\ \E from \in Heard(src), to \in Heard(dst) :
       CopyRead([Move(src, to, {currenDir}) EXCEPT !.from = from])

\* Directories with an entry for the current one.
ParentDirs ==
  {d \in dirs : \E s \in ChildSlots : /\ disk[d][s].cluster = currenDir
                                       /\ disk[d][s].attr = "dir"}

\* The walk down to the parent takes as many steps as there are slashes in the
\* target, one in "../name", none in "..": from deeper down it stops short.
MvUp(src, dst, slashes) ==
  /\ Line
  /\ MayRemove(src)
  /\ IF currenDir = RootCluster THEN Return
     ELSE
       /\ at' = "mv_up"
       /\ cmd' = [Move(src, dst, IF Len(curDirName) <= slashes + 1 THEN ParentDirs ELSE {})
                    EXCEPT !.table = rootTable,
                           !.rest = [i \in 1 .. slashes |->
                              IF i <= Len(curDirName) THEN curDirName[i] ELSE NoKey]]
  /\ SamePlace /\ UNCHANGED vars

MvDown(src, dst, path) ==
  /\ Line
  /\ MayRemove(src)
  /\ at' = "mv_down"
  /\ cmd' = [Move(src, dst, Leads(currenDir, path))
                EXCEPT !.table = curTable, !.rest = path]
  /\ SamePlace /\ UNCHANGED vars

WalkDone ==
  \/ at = "mv_up" /\ (clusterExist(cmd.table, currenDir) \/ cmd.rest = <<>>)
  \/ at = "mv_down" /\ cmd.rest = <<>>

MvWalk == at \in {"mv_up", "mv_down"} /\ ~WalkDone /\ WalkOn /\ UNCHANGED lines

MvRead ==
  /\ WalkDone /\ UNCHANGED lines
  /\ CallRead(currenDir, cmd.src)
  /\ at' = "mv_probe"
  /\ cmd' = [cmd EXCEPT !.cl = Buffer]
  /\ SamePlace

\* A directory of the target's name would fill cl with its table; the write
\* that follows is refused then.
MvProbe ==
  /\ Point("mv_probe")
  /\ CallReadDirectory(ClusterOf(cmd.table), cmd.dst)
  /\ at' = "mv_write"
  /\ UNCHANGED cmd /\ SamePlace

\* Mutant: the copy goes to the current directory.
MvWriteHere ==
  /\ Point("mv_write")
  /\ CallWrite(currenDir, cmd.dst, SizeFor(cmd.src), cmd.cl)
  /\ at' = "look"
  /\ UNCHANGED cmd /\ SamePlace

MvWrite ==
  /\ Point("mv_write")
  /\ CallWrite(ClusterOf(cmd.table), cmd.dst, SizeFor(cmd.src), cmd.cl)
  /\ at' = "look"
  /\ UNCHANGED cmd /\ SamePlace

MvLook == Point("look") /\ Look(cmd.src, cmd)
-----------------------------------------------------------------------------
\* A line is read and its command begins.
Typed ==
  \/ GoUp \/ GoDown \/ Ls
  \/ \E key \in ArgKeys : EnterChild(key) \/ Cat(key) \/ Mkdir(key) \/ Rm(key)
  \/ \E src \in ArgKeys : MvUp(src, NoKey, 0)
  \/ \E src, dst \in Typing :
       \/ Cp(src, dst) \/ MvHere(src, dst) \/ MvUp(src, dst, 1)
       \/ \E path \in Paths : MvDown(src, dst, path)

Running ==
  \/ WalkUp \/ ArriveUp \/ WalkDown \/ ArriveDown
  \/ Delete \/ CopyWrite
  \/ MvWalk \/ MvRead \/ MvProbe \/ MvWrite \/ MvLook

ShellNext ==
  \/ Boot \/ Start \/ Refresh
  \/ Typed
  \/ Running

ShellSpec == ShellInit /\ [][ShellNext]_allVars
-----------------------------------------------------------------------------
(***************************************************************************)
(* Properties.                                                             *)
(***************************************************************************)
Up == at \notin {"boot", "start"}

\* The current directory exists and keeps its cluster as long as the shell is in
\* it, and the copy of its table that cd and mv start from is one of it: no
\* command removes it, or leaves the shell in a directory another way than the
\* driver knows it.
HomeIsLive ==
  Up => /\ currenDir \in dirs /\ fat[currenDir] = EOF
        /\ ClusterOf(curTable) = currenDir

\* Read from the root, the path in the prompt leads to the current directory.
PathLeadsHome == Up => currenDir \in Leads(RootCluster, curDirName)

\* cd .. from below the root always succeeds, and ends in the directory that has
\* an entry for the one it left.
UpSucceeds == [][at = "up" /\ at' = "refresh" => currenDir' \in ParentDirs]_allVars

\* Whatever is typed, short of the slips, the shell changes the volume by calls
\* of the kinds that leave it sound: what is shown, and proved, of Fat32 under
\* those holds of the running system.  Sound is not the same as intended: a folder
\* that rm takes for empty is among them, and so is a copy of zeros.
Driver == INSTANCE Fat32 WITH Misuse <- BenignKinds

ShellIsBenign ==
  ~overrun =>
    /\ at = "delete" => Driver!MayDelete(currenDir, cmd.src[1], cmd.src[2])
    /\ at = "copy" => Driver!MayWrite(currenDir, cmd.dst[1], cmd.dst[2], SizeFor(cmd.from))
    /\ at = "mv_write" =>
         Driver!MayWrite(ClusterOf(cmd.table), cmd.dst[1], cmd.dst[2], SizeFor(cmd.src))
    /\ at = "prompt" =>
         \A key \in ArgKeys : Driver!MayWrite(currenDir, key[1], NoExt, 0)

FileContents(d, key) ==
  {Content(disk, fat, disk[d][s].cluster, disk[d][s].size) :
     s \in {s \in dir_table_search(disk[d], key[1], key[2]) : disk[d][s].attr = "file"}}

\* mv asks for the source to be removed only when the target holds its content,
\* if nothing stood in the way of the move at the time it was typed.  It leaves
\* out copies that are refused, and targets mv takes for another directory.
MoveCopiesFirst ==
  (at \in {"look", "delete"} /\ cmd.name = "mv" /\ cmd.due # 0) =>
    /\ FileContents(cmd.due, cmd.dst) # {}
    /\ FileContents(cmd.due, cmd.dst) = FileContents(currenDir, cmd.src)
=============================================================================
