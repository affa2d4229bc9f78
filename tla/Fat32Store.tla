----------------------------- MODULE Fat32Store -----------------------------
(***************************************************************************)
(* The driver implements FileStore for a caller who keeps to the           *)
(* interface and to what the code makes of it (Misuse: in particular, who  *)
(* lists a directory by its own extension, which fat32.h calls unused and  *)
(* read_directory compares).  The tree is read off the tables of the live  *)
(* directories, the contents of a file off the chain read() would follow.  *)
(***************************************************************************)
EXTENDS Fat32

KeyOf(entry) == <<entry.name, entry.ext>>

ContentOf(entry) ==
  LET lengths == ChainLengths(fat, entry.cluster)
  IN  Content(disk, fat, entry.cluster,
              IF lengths = {} THEN 0 ELSE CHOOSE k \in lengths : TRUE)

ObjectOf(entry) ==
  IF entry.attr = "dir"
    THEN [kind |-> "folder", handle |-> entry.cluster]
    ELSE [kind |-> "file", content |-> ContentOf(entry)]

DirectoryOf(t) ==
  [ self |-> KeyOf(t[SelfSlot]),
    kids |-> [key \in Listing(t) |->
                ObjectOf(t[CHOOSE s \in Children(t) : KeyOf(t[s]) = key])] ]

TreeOnDisk == [d \in dirs |-> DirectoryOf(disk[d])]

\* The refinement mapping, kept in a history variable: a function of the state
\* that TLC then computes once for each of them.
VARIABLE tree

MappedInit == Init /\ tree = TreeOnDisk
MappedNext ==
  /\ Next
  /\ tree' = IF UNCHANGED <<fat, disk, dirs>> THEN tree ELSE TreeOnDisk'
MappedSpec == MappedInit /\ [][MappedNext]_<<vars, tree>>

Store == INSTANCE FileStore WITH
  Handles <- Clusters, Root <- RootCluster, MaxSize <- MaxFileClusters

\* Every call that is none of the uses in Misuse does what the interface says:
\* it creates or removes exactly the one thing it names, a read hands back what
\* the last write of that name stored, and a directory is found by its name.
\* The last is so for a caller only who gives the right extension with it: any
\* other is answered 2, "not found", where fat32.h says that ext is unused.
ImplementsStore == Store!Spec
=============================================================================
