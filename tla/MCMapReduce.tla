---------------------------- MODULE MCMapReduce ----------------------------
(* Instances of MapReduce for TLC. *)
EXTENDS MapReduce

CONSTANTS w1, w2

MCWorkers == {w1, w2}
=============================================================================
