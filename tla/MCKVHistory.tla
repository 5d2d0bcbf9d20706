---------------------------- MODULE MCKVHistory ----------------------------
(* Instances of KVHistory for TLC. *)
EXTENDS KVHistory

CONSTANTS c1, c2, k1, s1, s2

MCClients == {c1, c2}
MCKeys == {k1}
MCTwoStrings == {s1, s2}
=============================================================================
