----------------------------- MODULE Agreement -----------------------------
(***************************************************************************)
(* What the chaincode promises: calls take effect one after the other,     *)
(* each on what the one before left.  A contract is written down once, it  *)
(* is finished once, and its payment is made in that same step.            *)
(***************************************************************************)
EXTENDS Integers

CONSTANTS
  Accounts, Contracts,
  Opening,   \* what is in each account at first
  Terms,     \* the call of each contract
  Orders,    \* payments that are asked for without a contract
  Gone       \* the balance of an account that was deleted

VARIABLES
  status,    \* each contract: "none", "Init" or "Finished"
  payments,  \* payments made for it
  balance    \* each account

deal == <<status, payments>>

Init ==
  /\ status = [c \in Contracts |-> "none"] /\ payments = [c \in Contracts |-> 0]
  /\ balance = Opening

\* A payment to oneself adds the value: the second of two writes wins.
Pay(t) ==
  /\ balance[t.from] # Gone /\ balance[t.to] # Gone
  /\ balance' = [a \in Accounts |->
                   IF a = t.to THEN balance[a] + t.value
                   ELSE IF a = t.from THEN balance[a] - t.value ELSE balance[a]]

Precommit(c) ==
  /\ status[c] = "none" /\ status' = [status EXCEPT ![c] = "Init"]
  /\ UNCHANGED <<payments, balance>>

Commit(c) ==
  /\ status[c] = "Init" /\ status' = [status EXCEPT ![c] = "Finished"]
  /\ payments' = [payments EXCEPT ![c] = @ + 1]
  /\ Terms[c].call = "invoke" /\ Pay(Terms[c].args)

Transfer(t) == Pay(t) /\ UNCHANGED deal
Delete(a)   == balance' = [balance EXCEPT ![a] = Gone] /\ UNCHANGED deal

Next ==
  \/ \E c \in Contracts : Precommit(c) \/ Commit(c)
  \/ \E t \in Orders : Transfer(t)
  \/ \E a \in Accounts : Delete(a)

Spec == Init /\ [][Next]_<<deal, balance>>

=============================================================================
