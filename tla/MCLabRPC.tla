------------------------------ MODULE MCLabRPC ------------------------------
(***************************************************************************)
(* A small instance of LabRPC: two calls in progress at the same time on   *)
(* one ClientEnd, to one server name.                                      *)
(***************************************************************************)
EXTENDS LabRPC, TLC

CONSTANTS c1, c2, e1, s1

OneEnd == c1 :> e1 @@ c2 :> e1
=============================================================================
