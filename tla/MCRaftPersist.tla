---------------------------- MODULE MCRaftPersist ----------------------------
(***************************************************************************)
(* An instance of RaftPersist for TLC: this peer and two others.           *)
(***************************************************************************)
EXTENDS RaftPersist, TLC

CONSTANTS s2, s3, c1

(* Search only behaviours that avoid every race window: the properties     *)
(* that assume it hold trivially in all others.                            *)
NoWindow == windows = {}

OtherSymmetry == Permutations({s2, s3})
=============================================================================
