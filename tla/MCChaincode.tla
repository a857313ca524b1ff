---------------------------- MODULE MCChaincode ----------------------------
(* Instance of Chaincode for TLC. *)
EXTENDS Chaincode

CONSTANTS a, b, c1, c2, r1

Pay(from, to, value) == [from |-> from, to |-> to, value |-> value]

MCOpening   == (a :> 5) @@ (b :> 1)
MCTerms     == (c1 :> [call |-> "invoke", args |-> Pay(a, b, 2)])
                 @@ (c2 :> [call |-> "other", args |-> Pay(b, a, 1)])
MCTransfers == {Pay(b, a, 1), Pay(b, b, 1)}
MCRequests  == r1 :> Pay(a, b, 1)
=============================================================================
