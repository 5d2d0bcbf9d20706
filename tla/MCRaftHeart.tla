----------------------------- MODULE MCRaftHeart -----------------------------
(***************************************************************************)
(* The instances of RaftCluster with the heartbeat loops of RaftHeart.     *)
(***************************************************************************)
EXTENDS MCRaftCluster, RaftHeart
=============================================================================
