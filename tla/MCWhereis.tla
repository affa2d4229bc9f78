----------------------------- MODULE MCWhereis -----------------------------
(***************************************************************************)
(* A small volume for TLC.                                                 *)
(***************************************************************************)
EXTENDS Whereis

CONSTANTS a, b, ROOT, d1, d2

ReadsOfAnything == {"odd_read", "other_ext"}
NothingLonger == {}

\* One content looks like the entry of the file the search asks for, the other
\* like entries of neither kind.
FileInData ==
  [x \in Pieces |->
     IF x[1] = d1
       THEN [BlankTable EXCEPT ![SelfSlot] = FileEntry(a, NoExt, RootCluster, 1)]
       ELSE [s \in Slots |-> [BlankEntry EXCEPT !.name = b, !.attr = "other", !.cluster = 4]]]
Signature ==
  [BlankTable EXCEPT ![SelfSlot].name = OtherName, ![SelfSlot].attr = "other",
                     ![SelfSlot].cluster = ClusterMapSize]

\* The names are interchangeable: it is enough to look for one of them.
OneName == {<<a, NoExt>>}
=============================================================================
