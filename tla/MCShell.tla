------------------------------ MODULE MCShell ------------------------------
(***************************************************************************)
(* The volume as the kernel leaves it, and a few names, for TLC.           *)
(***************************************************************************)
EXTENDS Shell

CONSTANTS zeros, letters, ROOT

AnyMisuse == BenignKinds \cup HarmfulKinds
NothingLonger == {}

\* Zeros look like free slots, letters like the root's table without its mark.
RootInLetters ==
  [x \in Pieces |->
     IF x[1] = zeros THEN BlankTable
     ELSE [BlankTable EXCEPT ![SelfSlot] = DirEntry(ROOT, NoExt, RootCluster)]]
Signature ==
  [BlankTable EXCEPT ![SelfSlot].name = OtherName, ![SelfSlot].attr = "other",
                     ![SelfSlot].cluster = ClusterMapSize]
TypedNames == {<<ikanaide, NoExt>>, <<cicak, NoExt>>, <<filefile, exe>>}
NoSlips == {}
=============================================================================
