----------------------------- MODULE Chaincode -----------------------------
(***************************************************************************)
(* The chaincode (fabric/chaincode/chaincode_example02/go) on the channel  *)
(* it runs on, and what a courier reads of it (fabric/courier/filter.go).  *)
(*                                                                         *)
(* A call is endorsed on the committed state: it records the version of    *)
(* each key it reads, what it writes and the last event it sets.  The      *)
(* orderer puts endorsed transactions into blocks in any order, or never;  *)
(* a transaction takes effect if the versions it read are still current    *)
(* when its turn comes.  No call is endorsed while a block is committed.   *)
(***************************************************************************)
EXTENDS Integers, FiniteSets, FiniteSetsExt, SequencesExt

CONSTANTS
  Accounts,   \* entities
  Opening,    \* what Init gives each of them
  Contracts,  \* contract ids, one for each precommit transaction
  Terms,      \* what a contract calls when it is committed
  Transfers,  \* payments users ask for with "invoke"
  Requests,   \* payments outchainCommit is asked for, by request id
  Gone,       \* the value of a key that is not there
  MaxCalls,   \* bound on calls endorsed
  MaxBlock    \* bound on the transactions of a block

Transfer == [from : Accounts, to : Accounts, value : Int]

ASSUME ChaincodeAssumption ==
  /\ IsFiniteSet(Accounts) /\ Accounts \cap Contracts = {} /\ Opening \in [Accounts -> Int]
  /\ \A c \in Contracts : Terms[c].call = "invoke" => Terms[c].args \in Transfer
  /\ Transfers \subseteq Transfer /\ \A r \in DOMAIN Requests : Requests[r] \in Transfer
  /\ Gone \notin Int \cup {"Init", "Finished"}
  /\ MaxCalls \in Nat /\ MaxBlock \in Nat \ {0}

VARIABLES
  state,    \* world state
  version,  \* version of each key, 0 if it is not there
  height,   \* transactions the chain holds
  calls,    \* calls endorsed so far; the transaction ids
  pool,     \* endorsed transactions that no block holds yet
  block,    \* what is left to validate of the block being committed
  chain,    \* blocks: their transactions, each with its validation flag
  paid,     \* history: transactions that read each contract and moved money
  drift     \* money that came into being by a transfer to oneself, less what was deleted

world == <<state, version, height>>
vars  == <<world, calls, pool, block, chain, paid, drift>>

Keys == Accounts \cup Contracts

-----------------------------------------------------------------------------
(* Endorsement. *)

NoEvent == [name |-> "none", id |-> Gone, status |-> "none"]
Named(name) == [NoEvent EXCEPT !.name = name]
ContractEvent(name, id, status) == [name |-> name, id |-> id, status |-> status]

\* moves is the money the writes bring into being when they are made
Endorse(reads, writes, event, moves) ==
  /\ block = <<>> /\ calls < MaxCalls
  /\ calls' = calls + 1
  /\ pool' = pool \cup {[id |-> calls, reads |-> [k \in reads |-> version[k]],
                         writes |-> writes, event |-> event, moves |-> moves]}
  /\ UNCHANGED <<world, block, chain, paid, drift>>

\* the last write to a key is the one a call makes; to delete is to write Gone
PutState(k, value, writes) ==
  [x \in {k} \cup DOMAIN writes |-> IF x = k THEN value ELSE writes[x]]

\* doInvoke: GetState sees no write of the same transaction, so the second of two
\* writes to one account wins
Found(t) == state[t.from] # Gone /\ state[t.to] # Gone
Reads_PayerOnly(t) == {t.from}
Reads(t) == IF state[t.from] = Gone THEN {t.from} ELSE {t.from, t.to}
Writes(t) == PutState(t.to, state[t.to] + t.value,
                      PutState(t.from, state[t.from] - t.value, <<>>))
Minted(t) == IF t.from = t.to THEN t.value ELSE 0

\* invoke answers Success when doInvoke fails, and nothing is written
Invoke(t) ==
  IF Found(t) THEN Endorse(Reads(t), Writes(t), Named("evtTransfer"), Minted(t))
              ELSE Endorse(Reads(t), <<>>, NoEvent, 0)

Delete(a) == Endorse({}, PutState(a, Gone, <<>>), NoEvent, 0)

\* the id is a hash of the call and of its transaction id: it is new
Fresh(c) ==
  /\ state[c] = Gone
  /\ \A tx \in pool : c \notin DOMAIN tx.writes
Precommit(c) == Fresh(c) /\ Endorse({}, PutState(c, "Init", <<>>), ContractEvent("precommit", c, "Init"), 0)

\* outchainCommit: the event of the request replaces the one of doInvoke
OutchainCommit(r) ==
  LET t == Requests[r]
  IN Found(t) /\ Endorse(Reads(t), Writes(t), ContractEvent("commit", r, "OutOnceCompleted"), Minted(t))

\* what a stored contract is read as
RebuildIContract_Precommit(status) == "precommit"
RebuildIContract(status) ==
  IF status \in {"Finished", "OutOnceCompleted"} THEN "commit" ELSE "precommit"

\* regularCommit: a second commit succeeds without effect; a call that fails, or
\* that is not "invoke", is refused
CommitReads(c) == {c} \cup Reads(Terms[c].args)
RegularCommit(c) ==
  /\ state[c] # Gone
  /\ \/ state[c] = "Finished" /\ Endorse({c}, <<>>, NoEvent, 0)
     \/ /\ RebuildIContract(state[c]) = "precommit"
        /\ Terms[c].call = "invoke" /\ Found(Terms[c].args)
        /\ Endorse(CommitReads(c), PutState(c, "Finished", Writes(Terms[c].args)),
                   ContractEvent("commit", c, "Finished"), Minted(Terms[c].args))

-----------------------------------------------------------------------------
(* Ordering and validation. *)

CutBlock ==
  /\ block = <<>>
  /\ \E txs \in UNION {kSubset(n, pool) : n \in 1 .. MaxBlock} :
       /\ block' \in SetToSeqs(txs)
       /\ pool' = pool \ txs
  /\ chain' = Append(chain, <<>>)
  /\ UNCHANGED <<world, calls, paid, drift>>

Current(tx) == \A k \in DOMAIN tx.reads : version[k] = tx.reads[k]

\* the money in an account and in several
Amount(balance) == IF balance = Gone THEN 0 ELSE balance
Money(balances, accounts) == MapThenSumSet(LAMBDA a : Amount(balances[a]), accounts)
Deleted(tx) == Money(state, {a \in Accounts \cap DOMAIN tx.writes : tx.writes[a] = Gone})

Validate ==
  /\ block # <<>> /\ block' = Tail(block)
  /\ height' = height + 1
  /\ LET tx == Head(block)
         n == Len(chain)
     IN /\ chain' = [chain EXCEPT ![n] = Append(@, [event |-> tx.event, valid |-> Current(tx)])]
        /\ IF Current(tx)
           THEN /\ state' = [k \in Keys |-> IF k \in DOMAIN tx.writes THEN tx.writes[k] ELSE state[k]]
                /\ version' = [k \in Keys |-> IF k \in DOMAIN tx.writes
                                             THEN IF tx.writes[k] = Gone THEN 0 ELSE height'
                                             ELSE version[k]]
                /\ paid' = [c \in Contracts |->
                              IF c \in DOMAIN tx.reads /\ DOMAIN tx.writes \cap Accounts # {}
                              THEN paid[c] + 1 ELSE paid[c]]
                /\ drift' = drift + tx.moves - Deleted(tx)
           ELSE UNCHANGED <<state, version, paid, drift>>
  /\ UNCHANGED <<calls, pool>>

Init ==
  /\ state = [k \in Keys |-> IF k \in Accounts THEN Opening[k] ELSE Gone]
  /\ version = [k \in Keys |-> IF k \in Accounts THEN 1 ELSE 0] /\ height = 1
  /\ calls = 0 /\ pool = {} /\ block = <<>>
  /\ chain = << <<[event |-> NoEvent, valid |-> TRUE]>> >>
  /\ paid = [c \in Contracts |-> 0] /\ drift = 0

Next ==
  \/ \E t \in Transfers : Invoke(t)
  \/ \E a \in Accounts : Delete(a)
  \/ \E c \in Contracts : Precommit(c) \/ RegularCommit(c)
  \/ \E r \in DOMAIN Requests : OutchainCommit(r)
  \/ CutBlock \/ Validate

Spec == Init /\ [][Next]_vars

-----------------------------------------------------------------------------
(* What a courier reads of a block: the events it filters for, of the       *)
(* transactions that are valid.                                             *)

FilterEvents == {"precommit", "commit"}

\* a transaction has one action, which may bear an event
FilteredActions(tx) == {tx.event} \ {NoEvent}

\* the entries of a list at these places, in order
Picked(list, places) ==
  LET some[n \in 0 .. Len(list)] ==
        IF n = 0 THEN <<>>
        ELSE IF n \in places THEN Append(some[n - 1], list[n]) ELSE some[n - 1]
  IN some[Len(list)]

GetPrepareCrossTxs_All(b) == Picked(b, {i \in DOMAIN b : b[i].event.name \in FilterEvents})
GetPrepareCrossTxs(b) ==
  Picked(b, {i \in DOMAIN b :
               b[i].valid /\ \E e \in FilteredActions(b[i]) : e.name \in FilterEvents})

Delivered == FlattenSeq([n \in DOMAIN chain |-> GetPrepareCrossTxs(chain[n])])

-----------------------------------------------------------------------------
(* Properties. *)

\* Contracts and accounts as module Agreement speaks of them
Status   == [c \in Contracts |-> IF state[c] = Gone THEN "none" ELSE state[c]]
Balances == [a \in Accounts |-> state[a]]
Promised ==
  INSTANCE Agreement WITH status <- Status, payments <- paid, balance <- Balances,
                          Orders <- Transfers \cup Range(Requests)

\* Calls compute with a state of an earlier time, overlap and are put in any order,
\* and yet each that is validated takes effect as if it had run alone at that moment:
\* it writes a new contract down, finishes one with the payment of its terms and no
\* other, pays what was asked for, or deletes an account (invoke, precommit,
\* regularCommit, outchainCommit, delete).
KeepsAgreement == Promised!Spec

\* A courier that reads the chain from its first block is told of each contract
\* what its state is, once for each change and in order (GetPrepareCrossTxs).
EventsTellState ==
  \A c \in Contracts :
    LET told == Picked(Delivered, {i \in DOMAIN Delivered : Delivered[i].event.id = c})
    IN [i \in DOMAIN told |-> told[i].event.status] =
         CASE state[c] = Gone       -> <<>>
           [] state[c] = "Init"     -> <<"Init">>
           [] state[c] = "Finished" -> <<"Init", "Finished">>

\* Transfers that overlap lose no payment: the accounts hold what Init gave them
\* but for transfers to oneself, which add money, and for deletions (doInvoke,
\* delete).
MoneyAccounted == Money(state, Accounts) = Money(Opening, Accounts) + drift

=============================================================================
