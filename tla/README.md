# A verification of ntarAja OS

TLA+ models of the operating system in `src/` (a small 32-bit kernel in C with a
FAT32-like file system, a keyboard driver and a shell), checked with TLC on small
instances, and theorems about them proved with TLAPS for every instance.

Paths below are relative to `src/src/` unless they start otherwise.

## 1. The system

One processor, one user program. On the host, the inserter
(`external-inserter.c` with its own copy of the driver, `fat32-no-cmos.c`) puts
the shell's binary on the disk image. The kernel (`kernel.c`) sets up segments, the
PIC, the IDT, paging and the file system, loads the shell from the disk, writes a
few demonstration files and jumps to the shell, which never ends. The shell talks
to the kernel by interrupt 0x30 only: calls 0 to 3 are the file system's `read`,
`read_directory`, `write` and `delete`, 4 waits for a line from the keyboard, 5
prints. The gates are interrupt gates, so the kernel runs with interrupts off but
in one place: call 4 executes `sti` and spins until the keyboard's service routine
turns input off. The kernel's state is static: it is shared between the service
routine and call 4 (the keyboard), and outlives a call (the file system).

| component | state | operations | interacts with | what makes it correct |
|---|---|---|---|---|
| file system driver, `fat32.c` | `driver.fat_table`, buffers for one directory table and one cluster; on the disk the allocation table (cluster 1), directories, data | `initialize_filesystem_fat32`, `create_fat32`; `write`, `read`, `read_directory`, `delete` | called by the shell through calls 0-3 and by the kernel at boot; calls `read_clusters`, `write_clusters` | every cluster has one owner; entries lead to allocated clusters; a file reads back what was written; links have no loop; what is acknowledged is on the disk |
| line input, `keyboard.c` and call 4 in `interrupt.c` | `keyboard_state`: input on, two `uint8_t` indices, 256 characters | service routine (insert, erase, cursor, Enter), activate, copy and clear | IRQ 1 at any time interrupts are on; shared memory with call 4; draws through `framebuffer.c` | the line is delivered as edited; the wait ends; indices stay in the text |
| terminal and frame buffer, `terminal.c`, `framebuffer.c` | the cursor's register, 80x25 cells | `puts`, scrolling, cursor | call 5 and the service routine, both of which compute from the register | the screen shows the line being edited; the cursor stays on the screen |
| shell, `user-shell.c` | current cluster, a copy of its table and of the root's, the path | `cd`, `ls`, `cat`, `mkdir`, `rm`, `cp`, `mv`, `whereis` | one system call after the other; its copies go stale | its idea of where it is agrees with the disk; it does not call the driver in ways that break the volume; `mv` loses nothing; a search ends and finds everything |
| boot, `kernel.c`, `kernel_loader.s` | tables on the stack filled by look-ups | mount or format, load of the shell, six writes, jump | driver, paging; volumes that earlier starts, the user and power losses have shaped | the shell is loaded whole; each object goes to its place |
| host-side copy and inserter, `fat32-no-cmos.c`, `external-inserter.c` | a copy of the driver and, in memory, of a disk image | mount or format, write the shell, save | the disk image the machine starts from | the image can be mounted |
| disk, `disk.c` | none (the drive's) | PIO read and write of blocks | called by the driver | a write has reached the drive when it returns |
| interrupts, `interrupt.c`, `intsetup.s`, `idt.c` | PIC masks, IDT | dispatch of IRQ and system calls | everything | gates clear the interrupt flag; an IRQ is acknowledged once |
| memory management, `paging.c`, `gdt.c` | page directory, GDT, TSS | map one 4 MiB user page, once | boot | the page is mapped before the jump |
| support, `stdmem.c`, `portio.c` | none | byte loops, port instructions | all | - |

What is hard here, with its place in the source, is the list "hazards" of
`PROJECT.json`. In short: the driver trusts its caller almost everywhere and its
`delete` searches by its own lights; a call is several disk writes, and power may
fail between any two; the kernel writes its objects again at every start, whatever
it finds, and looks at no answer; the shell works from copies and ignores answers;
the keyboard's routine runs in the middle of call 4, with indices, rows and columns
of eight bits.

## 2. The modules

    FileStore      what the CRUD interface promises: a tree of named objects
    Fat32Volume    tables, entries, chains: the data and the pure helpers
      Fat32          write, read, read_directory, delete: one step for each call
        Fat32Store     Fat32 implements FileStore (refinement mapping)
        Fat32Disk      the same calls as sequences of cluster writes; power loss, format, mount
          Machine        the life of a disk image: inserter, starts, user, power losses
        Shell          the shell and the kernel's boot writes, over Fat32
        Whereis        the shell's recursive search, over Fat32
        Fat32Proofs    theorems: types, links, the root, one owner, nothing dangling, whole files
          Fat32RootProofs   theorem: the tree of directories; lemmas on searches and paths
            Fat32StoreProofs  theorem: Fat32 implements FileStore (over Fat32Store)
            Fat32DiskProofs   theorems: power failures (over Fat32Disk)
              MachineProofs     theorems: shell and kernel objects survive (over Machine)
            ShellProofs       theorems: the shell and its volume (over Shell)
            WhereisProofs     theorems: what a search finds (over Whereis)
    LineEditor     what the keyboard promises: a text edited at a cursor
      Keyboard       controller, service routine and call 4
        Console        the same with the screen: cursor, scrolling, puts
          KeyboardProofs    theorems: types, indices, screen; Console implements LineEditor
    MCFat32, MCFat32Store, MCFat32Disk, MCMachine, MCShell, MCWhereis,
    MCKeyboard, MCConsole      instances for TLC

### Fat32Volume, Fat32

`fat` is `driver.fat_table`, a function from cluster numbers to `EMPTY`, `EOF`,
the mark of cluster 0 or the next cluster. `disk` is the content of every
cluster. A cluster is always read as a table, since nothing on the disk says what
it is and `delete`, `whereis` or a wrong parent make the code take data for one. `dirs` is a
history variable, the directories made and not deleted; no guard of the code
depends on it. `ret` and `got` are what the last call returned and put in the
caller's buffer.

File contents are a value and an index for each cluster, and the constant
`Reading` says what each of these clusters looks like to whoever takes it for a
table: any names, marks and numbers up to the map's size. (`unread` stands for the
bytes no reader of tables looks at; it tells contents apart that look alike.)
`BootSector` is the same for cluster 0: text in the first entries, free slots
behind. A property that is false for some contents says for which it holds:
`NoFolderInData` (no content looks like a directory's entry) or `NoRootInData`
(none has the number 2 where an entry would have its cluster); section 5 says what
happens otherwise. All other properties, and their theorems, hold for any contents.

Each of the four calls is a group of actions, one for each way out: for `write`
refused (`WriteRefused`, in the order of the early returns), a folder
(`WriteFolder`), a file (`WriteFile`), and an access beyond a table
(`WriteOverrun`); for `read`, `read_directory` and `delete` alike. `delete` keeps the code's
search exactly: it scans every cluster from the parent's upwards, takes each one
marked EOF for a directory, and treats a match at a linked cluster differently
(`DeleteEntry`, `DeleteChain`).

After an access beyond a table or a buffer (`overrun`) no further call is
modelled. What the code does then depends on memory that follows the driver's
state, and nothing is claimed of it.

What a caller may ask is a constant, `Misuse`. Each kind names a use of the
interface that the driver does not refuse: too few clusters, a full directory, a
name that differs in its extension only, a folder that has entries, a directory
listed by another extension, an odd read (`BenignKinds`: the volume is still sound afterwards); a parent that is no
directory, the empty name, a directory's own name, a name the parent does not
hold (`HarmfulKinds`). With `Misuse = {}` a caller keeps to the interface; with
all kinds any call is made at any time, with three exceptions: cluster 1 is no parent (as a
table it is the bytes of the allocation table, which the model does not spell out), `delete` does
not start at cluster 0, from where its scan would go on through cluster 1, and no parent is behind
the map. A run or a theorem says under which kinds it holds, so that no property hides the calls
that break it.

### FileStore, Fat32Store

`FileStore` is the promise of `lib-header/filesystem/fat32.h`: a tree of
directories, known by a handle, holding files and folders by name and extension;
`read_directory` goes by the name alone, for the header calls its `ext` unused. The
code compares it (`fat32.c:182`), so the kind `other_ext` is a misuse: the
refinement is claimed for callers who give the extension the directory has, and
others are answered "not found" where the header has them find it (section 5).
`Fat32Store` reads that tree off the tables and chains (`TreeOnDisk`) and claims
that every step of `Fat32` with `Misuse = {}` is one of `FileStore`, including
each return code and what is read back (`ImplementsStore`). The mapping is kept
in a history variable so that TLC computes it once for each state.

### Fat32Disk

The same calls as sequences of cluster writes, in the code's order: data,
allocation table, directory table for a file; allocation table, directory table,
new table for a folder; allocation table, directory table for `delete`.
`platter` and `platterFat` are what has reached the disk; `disk` and `fat` the
content the running call is about to leave. `PowerLoss` stops any call between two
writes or comes between calls, `Mount` reads the disk back, `Format` is
`create_fat32` with the bytes it really writes (`FatToWrite`). A cluster write is one
step. In `disk.c` it is a loop over four sectors, and a power failure in that loop, which
leaves a cluster half old and half new, is not modelled.

The order of the writes protects a file's write, and nothing else. A folder, a
delete or a format cut short can leave an entry that leads to a cluster of
anybody's content, or to a free one. `torn` says that this may have happened: the
disk is still mounted and looked at, but no call of a user on it is followed (`Ready`);
what the kernel does to it at the next starts is, in `Machine`. What
holds of every power loss, torn or not, is `OthersUntouched`.

### Machine

The disk's whole life over `Fat32Disk`. The inserter is three steps: `HostOpen`
reads the image and mounts or formats it, `HostWrite` is the driver copy's
`write` of the shell (a binary that cannot be opened has no bytes, which makes a
folder), `HostSave` puts the image back, with the allocation table only if the
write has flushed it. `PowerOn` mounts or formats, `Load` reads the shell with
whatever the disk holds, and `BootScript` is `kernel_setup`'s list of six writes
and two look-ups. `parent` is the pair of tables on its stack: a look-up that
fails leaves them as they were, unread bytes included. Writes are made of several
cluster writes (`DiskWrite`) and the power may fail between them. `User` makes and
removes files and folders, and the machine is switched off and on. A host that crashes is
left out: the image is in memory until the save.

The kernel goes on whatever it finds. On a torn volume, and wherever its parent is no
directory, its calls are those of `Fat32` with every misuse allowed (`WriteAstray`,
`LookAstray`): a folder cut short before its table was written reads as a table of zeros, the parent is
0, the file goes into the boot sector's table, the signature is gone
(`WriteCluster`), and the next start formats the disk (`PowerOn`). `astray` counts these
calls. The user's and the inserter's calls on a torn volume are left out.

The slip `kernels_name` lets the user make a file with a folder's key of the kernel;
it is off in the run (section 5).

### Shell

A command is a sequence of system calls, each a step (`at` says which one comes
next); in between the shell keeps `curTable`, `rootTable`, `currenDir` and
`curDirName`, and `cmd` holds the local variables of the command. Calls are the
actions of `Fat32` with every kind of misuse allowed: what the shell may not do
is shown, not assumed. The starting volume is what the six writes of `kernel.c`
leave on a formatted disk (`Boot`). `cp` reads its arguments from arrays that are
neither cleared nor terminated: a name without extension may be heard as any
longer one (`Heard`). A file's content is one cluster, all the shell's buffers hold.

`Slips` are things a person may type that the shell does not survive in good
order: `rm` of the current directory's own name from inside it, `rm` without a
name, and `cd` to a directory that has an extension or is called like the start of the path.
They are part of the model and switched off in the run; section 5 says what
TLC shows when they are on.

### Whereis

`dfsPath`, one turn of its loop a step. `frames` are the calls that have not
returned, each with the copy of the table it goes through, its position and its
path. Every entry that has a cluster is asked of the driver as a directory, files
included, and the driver's answer decides between `Descend` and `Skip`;
`Return` resets the caller's path. A match appends its name to the path of the
call it is found in, as the code does. `path` is an array on the stack of which
two characters are set: `clean` says that the rest happened to be zero. Between
searches a caller who keeps to the interface changes the volume (`Change`).

### Keyboard, LineEditor

The service routine, the controller's one-byte port and pending interrupt, and
the steps of call 4: `Activate`, spin, `CopyLine`, `keyboard_clear_buffer`. The
routine may run before, between and after them, since interrupts stay on.
Indices are reduced modulo the buffer's size, as `uint8_t` indices of a buffer of
256 characters are (`Wrap`). `LineEditor` says what this amounts to: a
text and a cursor, and at Enter the part before the cursor. `Habits` names what
the person at the keyboard may do that the code does not expect: type while
nobody waits (`type_ahead`), erase from a full buffer (`erase_when_full`).

### Console

`Keyboard`'s steps, each with what it draws. `pos` is the cursor's register, from
which the routine and `puts` compute row and column at every character, in
eight bits (`Byte`); `cells` is what the screen shows, `start` where the line
begins. A tab is four calls of `keyboard_insert`, each of which draws the rest of
the line. Three situations leave the arithmetic the code gets right (`Beyond`):
the rest of the line reaches further than a byte counts from the
beginning of the row, a backspace at the first column of a wrapped line, and Enter
behind the last row. From there on (`lost`) the line is followed, the screen is not.

## 3. The runs

| run | who acts | properties | shows |
|---|---|---|---|
| `search` | a caller who keeps to the interface, `whereis` in between | `FilesWhole`, `Rooted`, `FindsEvery`, `LonePathIsRight`, `SearchEnds` | every listed file has its length and content; the live directories are those reached from the root, each one cluster with its own number in its table; a search ends, misses nothing and reports nothing twice if no content looks like a directory's entry |
| `store` | keeps to the interface and lists directories by their own extension | `ImplementsStore` | the driver implements `FileStore` |
| `any_call` | makes any call | `TypeOK`, `LinksAscend`, `RootIntact` | links lead upwards (so every loop of the driver over a chain ends) and the root directory cannot be removed, if no content has its number |
| `shell` | the shell | `HomeIsLive`, `PathLeadsHome`, `UpSucceeds`, `MoveCopiesFirst`, `ShellIsBenign`, `UniqueOwner`, `NoDangling` | the shell is where it thinks it is, `cd ..` always works, `mv` copies before it removes, every call on the volume is of a benign kind, and the volume is sound |
| `disk` | keeps to the interface, power may fail anywhere | `CrashSafe`, `AcknowledgedIsDurable`, `FileAppearsAtOnce`, `OthersUntouched` | after a file's write cut short the next mount finds a sound volume with the file whole or absent; in any call, nothing is touched but what the call is about |
| `machine` | inserter, kernel, user, power | `ProgramLoads`, `ImageBootable`, `BootRestores`, `BootKnowsParents` | the inserted shell is loaded whole and the image can be mounted until the kernel has worked on a torn volume; on others each boot leaves the kernel's objects in their places |
| `console` | all habits | `TypeOK`, `CursorInText`, `EchoShowsLine`, `CursorOnScreen`, `DeliversLine`, `InputEndsUnlessStuck` | the line is delivered as edited and as the screen shows it, and the wait ends unless one of two things happened |

`ShellIsBenign` joins the file system's results to the shell's: each call the
shell is about to make is one `Fat32` permits with `Misuse = BenignKinds`.
`UniqueOwner` and `NoDangling` are checked on the shell's own volume too, and section 4
proves all of these for the shell.

Five more runs end in a counterexample; each states what a header or a comment
says and finds the code doing otherwise (section 5).

### Bounds

- `ClusterMapSize` (clusters 3 and up hold data) for 512: 5 in `any_call`, 6 in
  `store`, 7 in `search` and `disk`, 16 in `shell` and `machine`; `SlotCount` 2 to 5
  for 64 entries; files of up to 2 clusters, 1 for
  the shell and for `any_call`. Two data clusters are enough for a file or two folders; four for a
  file of two clusters with its terminator and a folder, two files, or nested
  folders with a file between them, a hole left by a delete and filled by another
  object, and a full volume. Three slots give a directory that is full with two
  children. Nothing in the code depends on larger numbers: a cluster number
  fits into the two 16-bit halves an entry has for it, a size into its 32 bits.
- Contents: what they look like is chosen in each instance so that it could do harm: an unmarked
  root with another number (`any_call`), with the root's own (`store`, `shell`, the latter with free slots besides), the
  very file that is looked for (`search`), files (`disk`, `machine`). In `any_call` one of the two names is
  the root's, so that `delete` can ask for it. That a content with the number 2 lets
  `delete` free the root takes a file of two clusters' chain left behind and one data cluster more: with
  six clusters TLC finds it in 7 states. The theorem `SpecRootIntact` covers all sizes.
- Two names and one or two extensions tell a match, a clash and a miss apart;
  names and contents are symmetric (no operator of the code orders them).
- Under `VIEW Volume` states that differ in the last answer only are counted once:
  no guard reads the answer. `VIEW Life` of `machine` leaves out the answer except
  where the inserter's save depends on it.
- Search: `whereis` for one of two interchangeable names, on every volume a caller
  can make with four data clusters, so that a match is a file, an empty folder, a
  folder with a match in it, or is missing.
- Shell: four command lines over three names and depth 3, on a volume that has
  a directory in a directory; a cycle (make or enter a directory, go down, go up, remove or move)
  fits into four lines. Paths that are typed have one component at most.
- Machine: a shell of two clusters or none, two calls of the user between the
  first start and the last over the kernel's keys and the shell's, any number of
  starts and power losses. The volume has room for the kernel's objects, the shell, and
  files that power losses have cut short; it may fill up. `MaxAstray` is 4: on a volume torn in the first
  write of a boot the fourth call is the one that writes to cluster 0, and every disjunct of the
  kernel's steps is taken. Without `astray = 0` in it `ProgramLoads` is violated in this instance, in 28
  states.
- Console: a buffer of 5, so that it fills and wraps; a screen of two rows of three
  columns, so that a line wraps and scrolls and can be longer than the screen; tab
  width 2; two characters. The buffer's size is the modulus of a byte in the
  program, and is here; the screen is narrower than that, as 80 is less than 256.

Deadlock is not checked where the system really may stop: after an overrun
(`any_call`, `machine`), after the last of `MaxLines` lines (`shell`), when power
is off and the disk has no usable table (`disk`, `machine`), and in a hung service
routine (`console`).

### Fairness

- `Keyboard` and `Console`: weak fairness of the service routine, since the processor
  takes a pending interrupt while interrupts are on, and nothing disables them in
  call 4 after `sti`. Weak fairness of `CopyLine` and `keyboard_clear_buffer`:
  there is one program and nothing preempts it for ever. Strong fairness of
  pressing Enter: the person asked for a line ends it; strong, since every other
  key also makes the port busy for a moment.
- `Whereis`: weak fairness of the search. It is the one program, and a system
  call returns; nothing is assumed of the changes between searches.

## 4. The proofs

All theorems hold for every size of volume, table, file, buffer and screen, and every set of
names and contents. What differs is what the caller may do: `Misuse` in the
hypothesis of a theorem says which misuse it allows, and none in the hypothesis
means all of it.

### The tables: Fat32Proofs

- `SpecTypeOK`, whatever calls are made (but for the three exceptions of section 2).
- `SpecLinksAscend`, whatever calls are made: chains are taken first-fit from the
  bottom and linked upwards, and `delete` only erases links.
- `SpecRootIntact`, whatever calls are made, if no content has the root's number
  (`NoRootInData`). `delete` frees a cluster only through
  an entry, and the root's cluster number is in no entry of an object: a new
  entry has a number taken from the free clusters, and cluster 2 is never free.
  The only entry that does have it is the root's own, or a copy of it made by a
  `delete` that flushes one table to another's cluster; that entry carries the
  not-empty mark, at which `delete` gives up. The invariant is that every entry
  with that number, on any cluster, has the mark. What a cluster of data looks like is
  any table, so the hypothesis is needed: `delete` takes the terminator of
  a file for a directory, and it holds what an earlier file has left there.
- `BenignSound`, if `Misuse \subseteq BenignKinds`: the conjunction `Sound` of `TypeOK`,
  `DirsAreEnds` (the root is live, and every live directory's cluster is marked EOF), `NoDangling` and `UniqueOwner` is an invariant;
  `BenignUniqueOwner` and `BenignNoDangling` follow.
- `BenignFilesWhole`, for the same callers: every live file has the chain and the content
  it was written with.

`UniqueOwner` alone is not inductive: a `delete` could free a cluster that another
entry leads to (hence `NoDangling`: free clusters have no owner, so that handing
one out creates no second), and it could pick its victim at a cluster that is no
directory. `DirsAreEnds` says that the scan of `delete` stops at the parent itself
when the parent has the name, since the parent is marked EOF. That is the step
that fails for a caller who names what is not there. The lemmas before say what
allocation does (`ChainClusters`, `LinkedEntries`, `AllocationSound`), and two lemmas
each what a folder, a file and a delete do to the volume and to `Sound`. They do not speak of
`Misuse`: `Harmless` says of a call that it names a directory, and if it deletes,
something that is there and not the directory itself (`Aimed`). `BenignHarmless` derives
that from `Misuse`; for the shell it is derived from what the shell does.

`FilesWhole` follows chains, which the model defines recursively. `WalkExists` and
`WalkLinks` unfold that recursion once and for all, by the least-number principle
(`LeastOf`, from the library's well-founded minimum). Then a live file's chain
consists of clusters that are neither free nor a directory's (`LiveChain`); a call
writes and links free clusters, or frees one that an entry leads to, or edits a
directory's table; so the chain and what is on it stay (`ChainKept`, `FileKept`).
A new file's chain is the sorted list of the free clusters taken (`LinkedChain`, `NewFile`).

### The tree: Fat32RootProofs

- `CarefulRooted`, if `Misuse \subseteq CarefulKinds`, the benign kinds without
  `filled_folder`: a walk from the root finds the live directories and no others, each
  one cluster long with its own number in its table.

The kind left out is one under which `Rooted` is false: deleting a folder that still
has folders in it cuts them off. The invariant is `Orderly`, which adds to `Sound` and `FilesWhole`

- `Tables`: what the table of a live directory looks like (its own number in the first
  entry, attributes that agree with names, and each entry of a directory leading to a live one);
- `Tree`: the live directories are finitely many, and the only set of them that has the root and
  all directories its members list is the set of all. This is reachability without a path: it can be shown
  of one step without following a walk (`TreeKept`, `TreeGrows`, `TreePruned`).

`TreeFound` goes back from `Tree` to the walk `Rooted` describes: each level of the
walk either adds a directory or is the last, so that after as many levels as
there are directories none is missing; the levels are a recursive function, whose
existence `LevelsExist` shows once.

### The promise: Fat32StoreProofs

- `StoreImplemented`, if `Misuse = {}` (no listing by another extension, in particular): every step of `Fat32` is a step of `FileStore` or
  leaves the tree as it is, with the same return code, and what is read
  is what the tree holds.

The invariant `Tidy` adds two things to `Orderly`. `Keyed`: no key
occurs twice in a table, the directory's own included; so the first match, which is what
the code takes, is the match. `Unmarked`: no entry of an object has the not-empty
mark; so `delete` never refuses for it, which is why a caller must not ask it to remove a
folder with entries. `TreeIs` writes the tree as a function of
the tables; `KidsPut`, `KidsDrop`, `DirectoryKept` and `ObjectKept` say what one entry
more or less does to it. That the files beside the new one keep their content in
the tree rests on `WholeContent`: the first cluster of a file tells which content
it has. `FileMade`, `FolderMade` and `EntryRemoved` do one kind of call each. The ways out
of a call that the promise has no step for (a match in a linked cluster, an access beyond
a table, a full volume noticed too late) are shown not to occur (`NeverSo`).

### Power failures: Fat32DiskProofs

- `CarefulAcknowledged`, if `Misuse \subseteq CarefulKinds`: the disk has the driver's tables and clusters
  whenever no call is running.
- `CarefulCrashSafe`, for the same callers: if the power fails between two calls or
  between any two writes of a file, the next mount finds one owner for each cluster,
  nothing dangling, and every listed file whole.

- `CarefulAppearsAtOnce`, for the same callers: of the writes that make a file, only the
  last changes what a mount would list or read.
- `CarefulOthersUntouched`, for the same callers, if no content looks like a directory's entry: no
  write of any call takes away or changes anything on the disk that the call is not about.

All are about the disk, and what a write does to it depends on what the call has
yet to write. `Consistent` has a part for each: `Flushed` (a cluster
that is not going to be written is on the disk as the driver has it, and so
is the allocation table), `Unsigned` (a disk without signature is blank or being
formatted), `FilePending` (before the last write, the parent on the disk is the table
as it was before the entry was added; before the one but last, so is
the allocation table; all writes before go to clusters that are free on the disk), and that
the tables on the disk are themselves a `Volume`, the state part of `Orderly` as a
predicate of any tables. So a write of data goes to a cluster no one on the disk owns
(`SpareWritten`), and the tables without the new entry are a volume with the new links already in
the allocation table (`EntryUnlisted`). `FoundTree` says that a mount recovers `dirs` from
the disk. `torn` volumes are left out as in the run: there the claims are false (section 5).

The last two theorems compare the disk before and after every write, so they need
to know what is on it in the middle of a folder or a `delete` too. That is `Watched`:

- `FolderPending`, `DeletePending`: with the writes that are left, what the disk
  has and what it lacks. A folder's entry is on the disk one write before its table, so
  for one write the entry leads to whatever the cluster held before. `Barren` says why this
  adds no directory to what a mount finds, under `NoFolderInData`: no cluster outside the live directories
  has an entry of a directory in it. A directory that `delete` removes is empty.
- Before the first call that writes the table, a format has left `Junk` there,
  and nothing is visible: the root is bare.

`FileKeepsAll`, `FileKeepsLast`, `TableKeeps`, `FolderKeeps` and `DeleteKeeps` take one kind of
write each. A file may be reached by its chain in the old table and the new one;
`ShownKept` tells its content by its first cluster.

`Junk` is assumed not to be an allocation table (`JunkAssumption`): it begins with
the address of the table, which is no value of an entry.

### The life of the image: MachineProofs

All hold if `Misuse \subseteq CarefulKinds` and the user types no key that has the shell's
name and another extension (`\A key \in Typed : key[1] = shell => key[2] = NoExt`); the last two
if, besides, the shell is not called like one of the kernel's objects, their files have an
extension, and the slip `kernels_name` is not made (`OwnNames`).

- `MachineLoads`: a shell that was inserted is loaded whole at every start, until the user removes it or the
  kernel has gone astray: it has made a call on a torn volume, or (which the third theorem excludes on others)
  for a parent that is no directory.
- `MachineBootable`: whenever the machine is off and the shell has been inserted, the image can be mounted, until
  the kernel has gone astray.
- `MachineKnowsParents`: on a volume that is not torn every write of a boot goes to a live directory.
- `MachineRestores`: a boot that comes to its end on a volume with room that is not torn has the kernel's six
  objects on the disk, each in its place.

None of them says anything of a volume that a folder's write, a `delete` or a format cut
short has left, but for the one start after it, in which the first two hold up to the kernel's first
call. What comes then is in the model, and section 5 says what TLC finds.

The second hypothesis is needed: `delete` goes by the name alone, so that removing a `shell.exe` of
the user's from the root removes the shell if its entry comes first (TLC shows it with `shell.exe`
among `Typed` and a volume of 18 clusters). The first leaves out what the run permits
besides, the removal of a filled folder, after which the volume is no tree.

What is loaded comes from the tables in the driver's memory; these come from the disk
at a start, and the disk's from the inserter's memory at a save. So `Holds` says in terms of any tables that the
shell is in a slot of the root, with its size and its content, and `Installed` that it is so on the disk and in
memory. It is the same slot in both, for in the middle of a call the disk is behind: the last write of the root's
table must leave the entry where it was. `Inserting` is the exception, between the inserter's
write and its save. What a call does to the tables in memory follows from what is proved of `Fat32`
(`FileHolds`, `FolderHolds`, `DeleteHolds`: the first cluster stays, and with `HeldOn`
the content); what a cluster write does to the disk, from the lemmas behind `CarefulOthersUntouched`
(`WriteHolds`): the running call is never about the shell. `InsertedHolds` is the inserter's write,
`LoadReads` the kernel's read: the buffer is large enough for any file, and the chain has an end.
`Guarded`, the invariant of the disk, is part of `Lived`; the inserter's steps are none of
`Fat32Disk`'s, so `Hosting` says what it works on is a volume, and as good as the disk's
until it writes. All this is the invariant as long as `astray = 0` (`LivedSoFar`); the
history does not go back (`HistoryKept`), so what a stray call does need not be followed.

A boot ignores what the driver answers, so the last two are about what a refusal
means. `Progress` says that each request that is done is `Fulfilled`: after a look-up the number kept is
that of a live directory with that name; after a write the object is there. A refused write of a folder has
found the name, and `Kinded` makes that a folder: no file but the shell is without an
extension, and no folder has one (`RefusedFulfils`). This holds of the live directories in memory and of
those a mount would find (`AllKinded`), since a power failure brings back the latter, and it is what
`kernels_name` breaks. The invariant of these two theorems is kept while the volume is not torn
(`BootedSoFar`).
A file is refused, too, on a full volume, hence `FreeClusters(fat) # {}` in
`BootRestores`. On any other lack of room `write` runs past its tables (`overrun`), after
which nothing is said.
A boot only adds, so what was fulfilled stays so (`StaysFulfilled`). What is in memory at
the end is on the disk because no call is running (`ReadyVolume`).

### The shell: ShellProofs

`Misuse` is left open in all of these: what the shell asks of the driver is a conclusion. The
first five hold if nobody types a removal of nothing or of the directory the shell is in
(`Slips \subseteq {"enter_alike"}`), the last three without any slip. TLC shows both
hypotheses to be needed (section 5).

- `ShellMakesBenignCalls`: no `write` to what is no directory, no `delete` of what is not
  in the directory or is the directory itself.
- `ShellStaysInALiveDirectory`: the current directory is live, and `curTable` is of it.
- `ShellUniqueOwner`, `ShellNoDangling`, `ShellFilesWhole`: the running system's volume is sound and
  its files whole.
- `ShellPathLeadsHome`: read from the root, the path leads to the current directory.
- `ShellUpSucceeds`: `cd ..` always ends, in a directory that has an entry for the one left.
- `ShellMovesCopiesFirst`: `mv`, if nothing stood in its way when it was typed, asks for the
  removal of its source only when the target holds the source's content.

The invariant of the first five is `Homed`, of four parts.

- `Settled`: `Sound`, `FilesWhole` and the `Shape` of the volume. `Rooted` is not
  among them: `rm` removes a directory whose first entry is free though others are not, and what
  lies below is cut off but stays as it is. What remains true is `Grounded`: no set of directories is one whose members all
  lie in each other, so no directory is below itself. `Entered` and `Removed` say what a
  call does to the tables, `EnteredShape` and `RemovedShape` that `Shape` survives it.
- `Answered`: a buffer that was read into holds a file's content.
- `Housed`: the copies of tables are of live directories (`Copied`: an older table
  of the directory, with its name).
- `Errand`: in the middle of a command, the table a walk has reached is one of a live directory, and what is
  about to be removed is not the directory's own name (`Removable`) and, at `delete`, is in it. The
  check of the name is made on the shell's copy of the table, one or more calls before the
  `delete`; it still holds then because nothing renames a directory.

Each call is done once (`CallReadDirectoryKeeps`, `CallReadKeeps`, `CallWriteKeeps`,
`CallDeleteKeeps`), then each action. All but `Delete` are `Spared`: what was found under a
name is found there afterwards.

For the path, `Pathed` adds a `Trail`, a sequence of directories each of which is what the next
name finds in the one before. A trail stays when nothing is removed
(`TrailSpared`) and when something is removed from the directory it ends in
(`TrailRemoved`): were that something on the trail, the directory would be below
itself, which `Grounded` excludes. On the way up (`Climbing`) there is a trail behind and
one ahead, from the table reached to the directory left; a table without an entry for that directory
cannot be the last on it, so the next step finds a directory and comes nearer
(`WalkUpPathed`). `TrailLeads` connects trails with `Leads`, a recursive function (`PacedExists`).

`mv` looks at none of the driver's answers, so `Carried` says what they are. Up to the write
to the target, everything that let it pass at the prompt is still so (`CanMoveKept`): its own
reads change no table. On the way to the directory meant there is
what is left of a trail: of the path typed (`MvWalkCarried`, `WalkArrives`), or for a move up
of the prompt's path, whole or without its last name (`Rising`), so that the first table with an
entry for the current directory is the parent's. From the read on, `cmd.cl` is what the source holds (`Holds`); after
the write, what the target holds too, and the write has left the source alone.

### The search: WhereisProofs

All hold if `Misuse \subseteq CarefulKinds`: the search's own questions are of the kind
`odd_read`, which is among them, and the changes between searches remove no
directory that has entries.

- `WhereisFindsEvery`, if no content looks like a directory's entry: a search that has ended has reported
  every match of every live directory, each once, and nothing else.
- `WhereisLonePathIsRight`, for the same contents: the path of a match before which nothing was found in its directory
  or above it leads to it.
- `WhereisVolume`: `Rooted` and `FilesWhole` hold throughout, for any contents.

The search knows a directory by one thing: `read_directory` of an entry's name in the
entry's own cluster succeeds. `Charted` says of the volume what makes that right
(`AskAnswers`): besides `Orderly`, no key twice in a table (`Distinct`), a directory's own
entry has the name its parent has for it (`Named`), no cluster a file begins with has an entry of a
directory in it (`Plain`, which says nothing where `NoFolderInData` does not hold), and a free entry leads nowhere (`Blanks`). `FolderCharted`,
`FileCharted` and `DeleteCharted` show that the changes keep it.

`Searched` is the invariant of the recursion. It exists for a set `H` of
entries gone through: the frames are a chain of directories, none twice, each
the one the frame before has stopped at (`Stacked`); the directories opened are the
root and those that entries of `H` lead to, and of those without a frame all entries are in
`H` (`Walked`); the lines are those of the matches in `H`, one each
(`Noted`). That a directory is opened once rests on `UniqueOwner`: a second opening
would need a second entry that leads to it. At the end no frame is left, so what was opened is closed
under the entries of directories, and `Tree` makes it all live directories (`AllOpened`).

For the paths, `Retraced` adds that while nothing was found in the directories of the frames before
the i-th (`Bare`), the path that frame began with is a `Trail` to its directory, and that the path
is still that one while nothing was found in the i-th either. A match spoils its own frame's path and those
opened below before the return, and `Bare` is exactly what excludes them.
`FirstLineRight` gives each line its trail, and `TrailPaced` turns the trail into
the recursive function the property is written with.

### The line: KeyboardProofs

- `ConsoleTypeOK`: indices stay bytes, the buffer and what is delivered stay
  sequences of characters.
- `ConsoleCursorInText`: types, and the cursor within the text, the text
  within the buffer. `CursorInText` speaks of open lines only, so the
  invariant `Edited` adds `Ready`: input is on in the wait only, and whenever the
  program may ask for a line the indices are back at 0. Without it the next line
  could start from the index that Enter in a full buffer has wrapped.
- `ConsoleDeliversLine`: every step of the routine and of call 4 is a step of `LineEditor` or
  a stutter under the mapping `Text`, `Cursor`, `Finished`. `Splice` and `Cut` say
  what inserting and erasing do to the text as a sequence, `CStringEnds` that the
  string handed over ends at the NUL Enter has put at the cursor. `ConsoleStep`
  (every step of `Console` is one of `Keyboard` as far as its variables go) carries both
  over from `Keyboard`.
- `ConsoleShowsLine`: the screen shows the line that is going to be delivered, each character in its
  cell and nothing of an erased one behind the end.
- `ConsoleCursorStays`: while the line fits, the cursor is on the screen.

The last two assume `Roomy`: a line that begins on the screen ends on a row that a byte
numbers. It is so of 80 columns, 25 rows and 256 characters (2256 places of 20480); without it
the row that `framebuffer_set_cursor` takes would wrap. `Split` and `PlaceIs` are the
arithmetic of rows and columns, `TypeShows`, `DeleteShows` and `MoveShows` what a key does to
the cells. The invariant `Echoed` has besides the
echo that a line begins on the screen from a buffer with nothing in it, and `Vacant`:
behind the text the buffer holds NULs and blanks only. `Vacant` is needed because
an erasure draws the cell behind the text from the buffer.

The assumptions are those the modules state of their constants (`ClusterMapSize`,
`SlotCount`, the names, `Misuse`, what contents and the boot sector look like, `Junk`, the buffer, its characters, which are
none of the other keys, the screen), which TLC evaluates in every run.

Only model-checked: all liveness (`SearchEnds`, `InputEndsUnlessStuck`), which is out of the
prover's reach, and the runs with a counterexample.

## 5. Where code and documents disagree

Each has a run with a counterexample, and is quoted in `PROJECT.json`, "findings".

1. `delete` removes a folder that still has entries (`deletes_filled`); `fat32.h`
   says it returns 2. The not-empty mark is on another entry than the one `delete` looks at.
2. `delete` of a name the parent does not hold removes an object of that name in
   another directory (`deletes_elsewhere`); `fat32.h` says it returns 1.
3. `create_fat32` writes the bytes around the pointer instead of the allocation
   table (`format`); `fat32.h` says it writes a proper table. The running system does not
   notice; the next boot does.
4. A key pressed while nobody waits silences the keyboard, and the next wait does
   not end (`typed_ahead`); `keyboard.h` describes it as blocking input.
5. `whereis` prints later matches of a directory with the name of the first in their paths
   (`paths`); a comment says the list is of the paths of all files found.
   `LonePathIsRight` says which lines are right.

One more has no run, because it is one comparison: `fat32.h:226` says of `read_directory` that
"ext is unused", and the code (`fat32.c:182`) answers "not found" when it is not the directory's.
`FileStore` says what the header says; the use is the kind `other_ext`, and with it permitted `ImplementsStore`
is false.

No document rules out or describes the following, so no run states it; it is in the hazards or
follows from them.

- Contents: `delete` takes every cluster marked EOF above the parent for a directory, the
  terminator of a file included, and that holds what an earlier file has left there. If it is an unmarked entry
  with the number 2, a `delete` of its name frees the root. `whereis` asks for the first
  cluster of a file as a directory; if the file's bytes have an entry with the file's name, the mark of a directory and the
  cluster's number, it goes through the file, and without end if the entry is not the first. `RootIntact`,
  `FindsEvery`, `LonePathIsRight`, `SearchEnds` and `OthersUntouched` say which contents they exclude.
- Power: a folder or a `delete` cut short leaves an entry that leads to a free
  cluster or to old content (`CrashSafe` fails in these calls, hence `torn`). If
  the folder is the kernel's own and its table was not written, the next boot reads the parent number 0
  from it and puts a file's entry into cluster 0, over the boot sector's signature; the boot after that formats
  the disk, and the inserted shell is gone. `Machine` has these steps; `ProgramLoads` and `ImageBootable`
  hold until then (`astray = 0`). A disk whose format was cut short is
  signed and has no table. Clusters that a file's write has
  taken, cut short after the table, and all clusters of a deleted file but
  the first, are never free again.
- Boot: with the slip `kernels_name`, a file where the kernel expects its folder,
  `BootKnowsParents` fails: the answer of the look-up is ignored and the parent is
  read from an array nothing was read into. A binary the inserter cannot open
  becomes a folder named `shell`; a `shell` that is already there is kept.
- Shell: with the slip `remove_here`, `HomeIsLive` fails (the
  shell's directory is freed under it), with that or `remove_nothing`, `ShellIsBenign`;
  with `enter_alike`, `PathLeadsHome`. `mv` removes its source even if the copy was
  refused, and from the third level on copies `mv x ../x` to a directory that is not
  the parent; `MoveCopiesFirst` is about moves that nothing stands in the way of.
- Screen: in the three situations of `Beyond`, what is shown is not what is typed.

## 6. Not modelled

- Hardware set-up: PIC, IDT, GDT, TSS, paging and the order in which they are
  initialised (interrupts come on before the gates are set). It runs once, in a
  straight line, and what goes wrong there is a processor reset. The PIO handshake of `disk.c`.
- The user's and the inserter's calls on a volume that a folder's write, a `delete` or a format cut
  short has left; a power failure between the four sectors of a cluster.
- Calls with cluster 1 for a parent, and `delete` from cluster 0.
- Time stamps and unused fields of entries; colours; `framebuffer_clear`,
  `init_terminal`; `flip a coin`; what the shell prints, but for the
  lines of `whereis`.
- The parsing of command lines and the overflow of fixed buffers by long lines or
  long paths: contents and names are values here, not bytes. For the same reason,
  the bytes `write` copies from behind a short buffer.
- `read`, `delete` and `read_directory` of the host-side copy, which nothing in the repository
  calls; a host that crashes while the inserter saves.

"components" in `PROJECT.json` has the reason for each part.

## 7. Plan

Done: the file system with its abstract specification, its behaviour under power
loss, its callers (shell, search, kernel, inserter); line input with
the screen; the theorems of section 4, which cover every safety property of the passing runs.
What is left, in this order:

1. The safety half of `SearchEnds`: a measure of what a search has still to visit, which every
   step of it decreases, as an action property of `Whereis`.
2. The safety half of `InputEndsUnlessStuck`: a wait the keyboard is silent in was begun with
   a code in the controller.
3. The hypotheses: which of the theorems that ask for `CarefulKinds` also hold with the
   removal of a filled folder, at least for the files outside it.
