--------------------------- MODULE MCRaftCluster ---------------------------
(***************************************************************************)
(* Instances of RaftCluster for TLC: who can reach whom, how often each    *)
(* peer campaigns, how many heartbeat rounds it sends, and which symmetry  *)
(* that leaves.                                                            *)
(***************************************************************************)
EXTENDS RaftCluster, TLC

CONSTANTS s1, s2, s3

AllLinks == {l \in SUBSET Server : Cardinality(l) = 2}

(* s1 and s3 are cut off from each other: s2 decides every majority. *)
ChainLinks == {{s1, s2}, {s2, s3}}

Bound(n1, n2, n3) ==
    [s \in Server |-> CASE s = s1 -> n1 [] s = s2 -> n2 [] s = s3 -> n3]

Zero == Bound(0, 0, 0)
Two == Bound(2, 2, 2)
OneTwo == Bound(1, 2, 0)
ThreeOne == Bound(3, 1, 0)
OneThenTwo == Bound(1, 0, 2)
TwoThenOne == Bound(2, 0, 1)

(* Search only behaviours that avoid every race window: the properties     *)
(* that assume it hold trivially in all others.                            *)
NoWindow == windows = {}

ServerSymmetry == Permutations(Server)

CommandSymmetry == Permutations(Command)
=============================================================================
