---------------------------- MODULE MCBlockSync ----------------------------
(* BlockSync on small instances. *)
EXTENDS BlockSync
=============================================================================
