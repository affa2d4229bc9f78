------------------------------ MODULE MCFat32 ------------------------------
(***************************************************************************)
(* Small volumes for TLC: what the instances share.                        *)
(***************************************************************************)
EXTENDS Fat32

CONSTANTS a, b, ROOT, txt, d1, d2

NoMisuse == {}
DeletesFilled == {"filled_folder"}
DeletesAbsent == {"absent_name"}
AnyMisuse == BenignKinds \cup HarmfulKinds

\* Every content looks like a table with an unmarked root in it, of another
\* number.
FolderInData ==
  [x \in Pieces |-> [BlankTable EXCEPT ![SelfSlot] = DirEntry(ROOT, NoExt, FirstCluster)]]

\* Text in the first entry, free slots behind it.
Signature ==
  [BlankTable EXCEPT ![SelfSlot].name = OtherName, ![SelfSlot].attr = "other",
                     ![SelfSlot].cluster = ClusterMapSize]

\* No guard reads ret or got, and no invariant checked under this view does but
\* TypeOK: states that differ in the last answer alone are counted once.
Volume == <<fat, disk, dirs, overrun>>
=============================================================================
