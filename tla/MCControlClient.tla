-------------------------- MODULE MCControlClient --------------------------
(***************************************************************************)
(* ControlClient for TLC: the settings that a connection restores, and the *)
(* lists that users put, one of them too short.                            *)
(***************************************************************************)
EXTENDS ControlClient

SavedWindows ==
  [limit \in Limits |-> [chan \in Channels |-> IF limit = "low" THEN 0 ELSE 1]]
PutLists == {<<1, 0>>, <<0, 1>>, <<1>>}
=============================================================================
