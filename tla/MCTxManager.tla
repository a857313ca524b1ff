---------------------------- MODULE MCTxManager ----------------------------
(* TxManager on small instances. *)
EXTENDS TxManager, TLC

\* CrossIDs are hashes: nothing in the code tells two of them apart.
Symmetry == Permutations(Ids)
=============================================================================
