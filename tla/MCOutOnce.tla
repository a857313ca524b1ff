----------------------------- MODULE MCOutOnce -----------------------------
(* OutOnce on small instances.  No symmetry: one run checks liveness. *)
EXTENDS OutOnce
=============================================================================
