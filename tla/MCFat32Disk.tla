---------------------------- MODULE MCFat32Disk ----------------------------
(***************************************************************************)
(* A small disk for TLC.                                                   *)
(***************************************************************************)
EXTENDS Fat32Disk

CONSTANTS a, b, ROOT, txt, d1, d2

NoMisuse == {}

\* A content looks like a file's entry, of whatever name.
FileInData ==
  [x \in Pieces |-> [BlankTable EXCEPT ![SelfSlot] = FileEntry(OtherName, NoExt, 4, 1)]]
Signature ==
  [BlankTable EXCEPT ![SelfSlot].name = OtherName, ![SelfSlot].attr = "other",
                     ![SelfSlot].cluster = ClusterMapSize]

SymmetricNames == Permutations(Names)
=============================================================================
