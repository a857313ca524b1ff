---------------------------- MODULE MCCrossDemo ----------------------------
(* CrossDemo on small instances. *)
EXTENDS CrossDemo, TLC

CONSTANTS a1, a2, a3, a4, u1, u2, h1, h2, c1

MCBatches == {<<a1, a2>>, <<a1, a2, a3>>}

\* the two transactions name different takers
MCTakerOf == h1 :> u1 @@ h2 :> u2

\* an order that u1 made for anyone
MCForeign == c1 :> [from |-> u1, to |-> Anyone, value |-> 1]

\* one signature, a repeated one, one of an address that need not be an anchor
MCSignatures == {<<a1, a1>>, <<a1, a2>>, <<a3, a4>>}

\* Order ids are hashes: nothing in the contract tells two of them apart.
Symmetry == Permutations(Orders)
=============================================================================
