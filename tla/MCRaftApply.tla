----------------------------- MODULE MCRaftApply -----------------------------
(***************************************************************************)
(* An instance of RaftApply for TLC: four distinct commands of two terms.  *)
(***************************************************************************)
EXTENDS RaftApply, TLC

CONSTANTS s1, c1, c2, c3, c4

MCEntry(term, command) == [Term |-> term, Command |-> command]

MCAgreedLog == <<MCEntry(2, c1), MCEntry(2, c2), MCEntry(2, c3), MCEntry(3, c4)>>
=============================================================================
