---------------------------- MODULE MCOrderStore ----------------------------
(* Instance of OrderStore for TLC; its properties are of safety, and none    *)
(* tells ids, versions or goroutines apart.                                  *)
EXTENDS OrderStore, TLC

Symmetry == Permutations(Ids) \cup Permutations(Versions) \cup Permutations(Procs)
=============================================================================
