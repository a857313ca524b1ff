------------------------------ MODULE MCSwarm ------------------------------
(* Instance of Swarm for TLC. *)
EXTENDS Swarm, TLC
=============================================================================
