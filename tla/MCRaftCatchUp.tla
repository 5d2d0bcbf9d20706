---------------------------- MODULE MCRaftCatchUp ----------------------------
(***************************************************************************)
(* An instance of RaftCatchUp for TLC.                                     *)
(***************************************************************************)
EXTENDS RaftCatchUp, TLC

CONSTANTS o1, o2, o3, a, b, c, d

MCEntry(term, command) == [Term |-> term, Command |-> command]

(* The leader of term 1 had an entry that the leader of term 2 lacked. *)
MCOldLog ==
    << <<MCEntry(1, a), MCEntry(1, b), MCEntry(1, c)>>,
       <<MCEntry(1, a), MCEntry(1, b)>> >>
MCNewCommands == <<d>>
=============================================================================
