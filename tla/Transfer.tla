------------------------------ MODULE Transfer ------------------------------
(***************************************************************************)
(* What the network of hubs promises about money.  A maker order of        *)
(* SimpleChain is paid out for a transfer that was made on Fabric for it;  *)
(* a contract of Fabric is finished when it was taken on SimpleChain.      *)
(* The promise leaves open how often Fabric moves money for one order.     *)
(***************************************************************************)
EXTENDS Naturals

CONSTANTS
  Makes,  \* maker orders of SimpleChain
  Pres    \* contracts of Fabric

VARIABLES
  order,     \* each maker order: "none", "open" or "paid"
  moved,     \* transfers made on Fabric for it
  proof,     \* the transfer it was paid for, 0 before
  contract,  \* each contract: "none", "Init" or "Finished"
  taken      \* contracts taken on SimpleChain

money == <<order, moved, proof, contract, taken>>

Init ==
  /\ order = [m \in Makes |-> "none"] /\ moved = [m \in Makes |-> 0]
  /\ proof = [m \in Makes |-> 0]
  /\ contract = [p \in Pres |-> "none"] /\ taken = {}

Open(m) ==
  /\ order[m] = "none" /\ order' = [order EXCEPT ![m] = "open"]
  /\ UNCHANGED <<moved, proof, contract, taken>>

Move(m) ==
  /\ order[m] # "none" /\ moved' = [moved EXCEPT ![m] = @ + 1]
  /\ UNCHANGED <<order, proof, contract, taken>>

Pay(m) ==
  /\ order[m] = "open" /\ order' = [order EXCEPT ![m] = "paid"]
  /\ \E n \in 1 .. moved[m] : proof' = [proof EXCEPT ![m] = n]
  /\ UNCHANGED <<moved, contract, taken>>

Precommit(p) ==
  /\ contract[p] = "none" /\ contract' = [contract EXCEPT ![p] = "Init"]
  /\ UNCHANGED <<order, moved, proof, taken>>

Take(p) ==
  /\ contract[p] # "none" /\ p \notin taken /\ taken' = taken \cup {p}
  /\ UNCHANGED <<order, moved, proof, contract>>

Finish(S) ==
  /\ \A p \in S : contract[p] = "Init" /\ p \in taken
  /\ contract' = [p \in Pres |-> IF p \in S THEN "Finished" ELSE contract[p]]
  /\ UNCHANGED <<order, moved, proof, taken>>

Next ==
  \/ \E m \in Makes : Open(m) \/ Move(m) \/ Pay(m)
  \/ \E p \in Pres : Precommit(p) \/ Take(p)
  \/ \E S \in SUBSET Pres : Finish(S)

Spec == Init /\ [][Next]_money

=============================================================================
