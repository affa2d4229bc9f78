------------------------------ MODULE MCFat32Store ------------------------------
(***************************************************************************)
(* Small volumes for TLC: what the instances share.                        *)
(***************************************************************************)
EXTENDS Fat32Store, TLC

CONSTANTS a, b, ROOT, txt, d1, d2

NoMisuse == {}

\* A content looks like the root's table without its mark.
RootInData ==
  [x \in Pieces |-> [BlankTable EXCEPT ![SelfSlot] = DirEntry(ROOT, NoExt, RootCluster)]]
Signature ==
  [BlankTable EXCEPT ![SelfSlot].name = OtherName, ![SelfSlot].attr = "other",
                     ![SelfSlot].cluster = ClusterMapSize]

\* Names are compared with each other and with nothing else.
SymmetricNames == Permutations(Names)
=============================================================================
