----------------------------- MODULE MCCatchUp -----------------------------
(* Instances of CatchUp with two connections.                              *)
EXTENDS CatchUp
=============================================================================
