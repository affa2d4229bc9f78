------------------------------ MODULE Whereis ------------------------------
(***************************************************************************)
(* The shell's whereis (src/src/user-shell.c): a recursive search of the   *)
(* volume for a name, one read_directory call after the other, and the     *)
(* paths it collects.  Between searches files and folders are made and     *)
(* removed by a caller who keeps to the interface.                         *)
(*                                                                         *)
(* A path is the sequence of the keys in it.  The overflow of the shell's  *)
(* fixed buffers by long paths is left out, and directories have no        *)
(* extension, as mkdir makes them.                                         *)
(***************************************************************************)
EXTENDS Fat32

CONSTANTS
  Longer,   \* pairs of names, the first the beginning of the second
  Sought    \* the keys looked for

ASSUME SoughtAssumption ==
  /\ Sought \subseteq Names \X Exts
  /\ Longer \subseteq Names \X Names

VARIABLES
  at,       \* "prompt", "search" or "done"
  sought,   \* filename
  frames,   \* the calls of dfsPath that have not returned, the innermost last
  found,    \* the lines collected, each with the entry it is for
  clean     \* history: path[] held zeros when this search began

searchVars == <<at, sought, frames, found, clean>>
allVars == <<vars, searchVars>>

NoKey == <<NoName, NoExt>>
KeyOf(e) == <<e.name, e.ext>>

\* One call: the table it goes through, the entry it is at, its path, the copy
\* of the path it began with, and whether zeros follow the path in its array.
\* dir is the cluster the table came from.
Frame(dir, table, path, zeros) ==
  [ dir |-> dir, table |-> table, slot |-> 1,
    path |-> path, savedPath |-> path, zeros |-> zeros ]

WhereisInit ==
  /\ Init
  /\ at = "prompt" /\ sought = NoKey
  /\ frames = <<>> /\ found = <<>> /\ clean = TRUE
-----------------------------------------------------------------------------
\* What the volume goes through between searches.
Change ==
  /\ at = "prompt"
  /\ \E p \in dirs, name \in Names :
       \/ WriteFolder(p, name, NoExt)
       \/ \E ext \in Exts, size \in FileSizes, d \in Datas : WriteFile(p, name, ext, size, d)
       \/ \E ext \in Exts : DeleteEntry(p, name, ext)
  /\ UNCHANGED searchVars

\* The main loop has just read the root's table.  path[] is an array on the
\* stack of which only the first two characters are set.
Begin ==
  /\ at = "prompt"
  /\ at' = "search"
  /\ sought' \in Sought
  /\ clean' \in BOOLEAN
  /\ frames' = <<Frame(RootCluster, disk[RootCluster], <<>>, clean')>>
  /\ found' = <<>>
  /\ UNCHANGED vars
-----------------------------------------------------------------------------
(***************************************************************************)
(* dfsPath, one turn of its loop at a time.                                *)
(***************************************************************************)
Top == frames[Len(frames)]
Callers == SubSeq(frames, 1, Len(frames) - 1)
Here == Top.table[Top.slot]

\* Names are compared as far as the one looked for goes, extensions too.
Matches(e) ==
  /\ e.name = sought[1] \/ <<sought[1], e.name>> \in Longer
  /\ sought[2] \in {NoExt, e.ext}

\* The name of a match is appended to the path of the call itself.  What comes
\* of the path is anybody's guess where no zeros follow it.
PathHere ==
  IF ~Matches(Here) THEN Top.path
  ELSE Append(Top.path, IF Top.zeros THEN KeyOf(Here) ELSE NoKey)

Line == [ path |-> PathHere, entry |-> <<Top.dir, Top.slot>>,
          above |-> {frames[i].dir : i \in DOMAIN frames} ]

Report == found' = IF Matches(Here) THEN Append(found, Line) ELSE found

\* Mutant: a match is not searched.
LeadsUnlessMatch(e) == (e.attr # "none" \/ e.cluster # 0) /\ ~Matches(e)

PathOf(e) == Append(PathHere, KeyOf(e))

\* Files are taken for directories too: the answer of the driver tells.
Leads(e) == e.attr # "none" \/ e.cluster # 0

Advance(frame) == Callers \o <<[frame EXCEPT !.slot = @ + 1]>>

Pass ==
  /\ at = "search" /\ Top.slot \in Slots
  /\ ~Leads(Here)
  /\ Report
  /\ frames' = Advance([Top EXCEPT !.path = PathHere])
  /\ UNCHANGED <<vars, at, sought, clean>>

\* read_directory of the entry's own name in the entry's own cluster.
Ask == ReadDirectory(Here.cluster, Here.name, Here.ext)

Descend ==
  /\ at = "search" /\ Top.slot \in Slots
  /\ Leads(Here)
  /\ Ask /\ ret' = 0
  /\ Report
  /\ \E s \in dir_table_search(disk[Here.cluster], Here.name, Here.ext) :
       LET c == disk[Here.cluster][s].cluster
       IN  frames' = Callers \o << [Top EXCEPT !.path = PathHere],
                                   Frame(c, disk[c], PathOf(Here), TRUE) >>
  /\ UNCHANGED <<at, sought, clean>>

Skip ==
  /\ at = "search" /\ Top.slot \in Slots
  /\ Leads(Here)
  /\ Ask /\ ret' # 0
  /\ Report
  /\ frames' = Advance([Top EXCEPT !.path = PathHere])
  /\ UNCHANGED <<at, sought, clean>>

\* Mutants: the caller stays at the entry; both calls share one path, and it is
\* not reset.
ResumeHere(frame) == [frame EXCEPT !.path = frame.savedPath, !.zeros = TRUE]
ResumeWithCalleesPath(frame) ==
  [frame EXCEPT !.path = Top.path, !.zeros = TRUE, !.slot = @ + 1]

\* Back in the caller: its path is reset, to the end of the array.
Resume(frame) ==
  [frame EXCEPT !.path = frame.savedPath, !.zeros = TRUE, !.slot = @ + 1]

Return ==
  /\ at = "search" /\ Top.slot \notin Slots
  /\ frames' = IF Callers = <<>> THEN <<>>
               ELSE [Callers EXCEPT ![Len(Callers)] = Resume(@)]
  /\ at' = IF Callers = <<>> THEN "done" ELSE "search"
  /\ UNCHANGED <<vars, sought, found, clean>>

\* The lines are printed, and the main loop starts again.  What the driver last
\* answered no longer matters.
PrintFound ==
  /\ at = "done"
  /\ at' = "prompt"
  /\ sought' = NoKey /\ found' = <<>> /\ clean' = TRUE
  /\ ret' = 0 /\ got' = Nothing
  /\ UNCHANGED <<fat, disk, dirs, overrun, frames>>

Search == Pass \/ Descend \/ Skip \/ Return

WhereisNext ==
  \/ Change
  \/ Begin
  \/ Pass \/ Descend \/ Skip \/ Return
  \/ PrintFound

\* Nothing preempts the one program there is.
WhereisSpec == WhereisInit /\ [][WhereisNext]_allVars /\ WF_allVars(Search)
-----------------------------------------------------------------------------
(***************************************************************************)
(* Properties.                                                             *)
(***************************************************************************)
\* A search reports every matching entry of every live directory, and each of
\* them once, whatever calls have shaped the volume before: no directory is
\* missed or gone through twice.  Every file's data is asked to be one as well;
\* that none of it contains what looks like a directory's entry is assumed, for
\* a file that lists itself would be gone through.
FindsEvery ==
  NoFolderInData /\ at = "done" =>
    LET Matching == {e \in Entries : Matches(disk[e[1]][e[2]])}
    IN  /\ {found[i].entry : i \in DOMAIN found} = Matching
        /\ Len(found) = Cardinality(Matching)

\* The search comes back to the prompt's main loop: it never goes round in
\* circles through the directories' own entries or through stale tables.  It
\* would through a file that lists itself as a directory behind its first entry.
SearchEnds == (NoFolderInData /\ at = "search") ~> (at = "done")

\* The directories below the root that the first i components lead to.
LedTo(path) ==
  LET w[i \in 0 .. Len(path)] ==
        IF i = 0 THEN {RootCluster}
        ELSE UNION {{disk[d][s].cluster :
                       s \in {s \in dir_table_search(disk[d], path[i][1], path[i][2]) :
                                disk[d][s].attr = "dir"}} : d \in w[i - 1]}
  IN  w

\* A line's path leads to the entry it was reported for.
Right(line) ==
  LET n == Len(line.path)
  IN  /\ line.entry[1] \in LedTo(line.path)[n - 1]
      /\ KeyOf(disk[line.entry[1]][line.entry[2]]) = line.path[n]

\* A path is right when nothing was found before it in its directory or in one
\* above, the array did hold zeros, and no file's data looks like a directory's
\* entry: going down into directories and coming back from them keeps the path.
LonePathIsRight ==
  NoFolderInData /\ at = "done" /\ clean =>
    \A j \in DOMAIN found :
      (\A i \in 1 .. j - 1 : found[i].entry[1] \notin found[j].above) => Right(found[j])

\* user-shell.c, whereis: "list to store all the paths found (for multiple file
\* with same name)".
EveryPathIsRight == at = "done" /\ clean => \A j \in DOMAIN found : Right(found[j])
=============================================================================
