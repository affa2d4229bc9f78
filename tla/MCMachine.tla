----------------------------- MODULE MCMachine -----------------------------
(***************************************************************************)
(* A volume that holds the kernel's objects and a few more, for TLC.       *)
(***************************************************************************)
EXTENDS Machine

CONSTANTS ROOT, code, letters

UserKeys == {<<ikanaide, NoExt>>, <<cicak, NoExt>>, <<filefile, exe>>, <<shell, NoExt>>}
NoSlips == {}

\* Every content looks like a file's entry.
FileInData ==
  [x \in Pieces |-> [BlankTable EXCEPT ![SelfSlot] = FileEntry(filefile, exe, 4, 1)]]

\* Text in two entries, the second with the number 0, free slots behind them.
Signature ==
  LET text == [BlankEntry EXCEPT !.name = OtherName, !.attr = "other"]
  IN  [BlankTable EXCEPT ![0] = [text EXCEPT !.cluster = ClusterMapSize], ![1] = text]

\* got is read by no guard, and ret by HostSave alone.
Life == <<fat, disk, dirs, overrun, IF at = "save" THEN ret ELSE 0,
          diskVars, at, bootVars, historyVars>>
=============================================================================
