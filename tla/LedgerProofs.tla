---------------------------- MODULE LedgerProofs ----------------------------
(***************************************************************************)
(* What the chaincode promises, for every set of accounts and contracts,   *)
(* however many calls overlap and in whatever order they are put into      *)
(* blocks: a contract is paid for once, when it becomes Finished, and      *)
(* couriers are told so; calls are as good as made one by one, and the     *)
(* money is accounted for.                                                 *)
(*                                                                         *)
(* The argument is that of optimistic transactions.  Of the calls that are *)
(* endorsed and not validated yet several may pay for one contract; each   *)
(* read it at the version it had then, and each writes it.  The first that *)
(* is validated gives it a new version, and the others are stale.  So does *)
(* a payment with the accounts.                                            *)
(*                                                                         *)
(* For the courier's synchroniser (BlockSync), which walks the blocks:     *)
(* they are handled in order, and each death or failure loses at most one. *)
(*                                                                         *)
(* What a fold or a recursive function computes is proved by induction,    *)
(* which is had from the least element of a set of numbers.                *)
(***************************************************************************)
EXTENDS Chaincode, BlockSync, FiniteSetTheorems, WellFoundedInduction, SequenceTheorems, TLAPS

\* The calls that are endorsed and not validated.
Waiting == pool \cup {block[i] : i \in 1 .. Len(block)}

\* A call moves money, writes a contract down, or finishes it.
Pays(tx)       == DOMAIN tx.writes \cap Accounts # {}
Creates(tx, c) == c \in DOMAIN tx.writes /\ tx.writes[c] = "Init"
Finishes(tx, c) ==
  c \in DOMAIN tx.writes /\ tx.writes[c] = "Finished" /\ c \in DOMAIN tx.reads /\ Pays(tx)

\* A contract is paid for once, when it becomes Finished.
PaidWithContract ==
  \A c \in Contracts : paid[c] = IF state[c] = "Finished" THEN 1 ELSE 0

\* The values of the world state: doInvoke computes with the accounts' numbers only.
Balance == Int \cup {Gone}
WorldOK ==
  /\ height \in Nat
  /\ state = [k \in Keys |-> state[k]]
  /\ \A a \in Accounts : state[a] \in Balance
  /\ \A c \in Contracts : state[c] \in {Gone, "Init", "Finished"}
  /\ version = [k \in Keys |-> version[k]]
  /\ \A k \in Keys : version[k] \in 0 .. height
  /\ paid = [c \in Contracts |-> paid[c]]

\* Which keys a call touches, and what it writes to accounts.
CallOK(tx) ==
  /\ DOMAIN tx.writes \subseteq Keys
  /\ \A a \in Accounts \cap DOMAIN tx.writes : tx.writes[a] \in Balance
  /\ \A c, d \in Contracts \cap DOMAIN tx.writes : c = d

\* What a call does to a contract: it is not there when it is written down, and a
\* call that pays finishes it, and read it as it was while it is neither.
ContractOK(tx, c) ==
  /\ c \in DOMAIN tx.writes => Finishes(tx, c) \/ (Creates(tx, c) /\ state[c] = Gone /\ ~Pays(tx))
  /\ c \in DOMAIN tx.reads => tx.reads[c] \in 0 .. height
  /\ c \in DOMAIN tx.reads /\ Pays(tx) =>
       Finishes(tx, c) /\ (tx.reads[c] = version[c] => state[c] = "Init")

CallsOK == \A tx \in Waiting : CallOK(tx) /\ \A c \in Contracts : ContractOK(tx, c)

\* A contract is written down by one call.
CreatedOnce == \A c \in Contracts : \A tx, ty \in Waiting : Creates(tx, c) /\ Creates(ty, c) => tx = ty

\* A call is in one place.
BlockOK ==
  /\ block \in Seq(Waiting)
  /\ \A i, j \in 1 .. Len(block) : block[i] = block[j] => i = j
  /\ \A i \in 1 .. Len(block) : block[i] \notin pool

IInv == WorldOK /\ CallsOK /\ CreatedOnce /\ BlockOK /\ PaidWithContract

\* The chain that Init leaves: the accounts are there, the contracts are not.
LEMMA InitIInv == Init => IInv
<1> SUFFICES ASSUME Init PROVE IInv
  OBVIOUS
<1>1. WorldOK
  <2>1. \A a \in Accounts : Opening[a] \in Int
    BY ChaincodeAssumption DEF ChaincodeAssumption
  <2> QED BY <2>1, ChaincodeAssumption DEF Init, WorldOK, Keys, Balance, ChaincodeAssumption
<1>2. Waiting = {}
  BY DEF Init, Waiting
<1>3. CallsOK /\ CreatedOnce /\ BlockOK
  BY <1>2 DEF Init, CallsOK, CreatedOnce, BlockOK
<1>4. PaidWithContract
  BY ChaincodeAssumption DEF Init, PaidWithContract, Keys, ChaincodeAssumption
<1> QED BY <1>1, <1>3, <1>4 DEF IInv

-----------------------------------------------------------------------------
(* Endorsement. *)

\* What a call reads and writes when it is endorsed.
NewCallOK(reads, writes) ==
  /\ DOMAIN writes \subseteq Keys
  /\ \A a \in Accounts \cap DOMAIN writes : writes[a] \in Balance
  /\ \A c, d \in Contracts \cap DOMAIN writes : c = d
  /\ \A c \in Contracts \cap DOMAIN writes :
       \/ writes[c] = "Init" /\ Fresh(c) /\ DOMAIN writes \cap Accounts = {}
       \/ writes[c] = "Finished" /\ c \in reads /\ DOMAIN writes \cap Accounts # {}
  /\ \A c \in Contracts \cap reads : DOMAIN writes \cap Accounts # {} =>
       c \in DOMAIN writes /\ writes[c] = "Finished" /\ state[c] = "Init"

\* A call that is endorsed finds the contracts as they are, and is alone if it
\* writes one down.
LEMMA EndorseInv ==
  \A reads, writes, event, moves :
    IInv /\ NewCallOK(reads, writes) /\ Endorse(reads, writes, event, moves) => IInv'
<1> SUFFICES ASSUME NEW reads, NEW writes, NEW event, NEW moves,
                    IInv, NewCallOK(reads, writes), Endorse(reads, writes, event, moves)
             PROVE  IInv'
  OBVIOUS
<1>0. PICK new : new = [id |-> calls, reads |-> [k \in reads |-> version[k]],
                        writes |-> writes, event |-> event, moves |-> moves]
  OBVIOUS
<1>1. /\ block = <<>> /\ block' = <<>> /\ pool' = pool \cup {new}
      /\ UNCHANGED <<state, version, height, paid>>
  BY <1>0 DEF Endorse, world
<1>2. Waiting = pool /\ Waiting' = pool \cup {new}
  BY <1>1 DEF Waiting
<1>3. /\ new.writes = writes /\ new.reads = [k \in reads |-> version[k]]
      /\ DOMAIN new.reads = reads /\ \A k \in reads : new.reads[k] = version[k]
  BY <1>0
<1>4. WorldOK' /\ PaidWithContract'
  BY <1>1 DEF IInv, WorldOK, PaidWithContract
<1>5. CallsOK'
  <2>1. \A tx \in pool : CallOK(tx)' /\ \A c \in Contracts : ContractOK(tx, c)'
    BY <1>1, <1>2 DEF IInv, CallsOK, CallOK, ContractOK, Finishes, Creates, Pays, Keys, Balance
  <2>2. CallOK(new)'
    BY <1>3 DEF NewCallOK, CallOK, Keys, Balance
  <2>3. ASSUME NEW c \in Contracts PROVE ContractOK(new, c)'
    <3>1. version[c] \in 0 .. height
      BY DEF IInv, WorldOK, Keys
    <3> QED BY <1>1, <1>3, <3>1 DEF NewCallOK, ContractOK, Finishes, Creates, Pays, Fresh
  <2> QED BY <1>2, <2>1, <2>2, <2>3 DEF CallsOK
<1>6. CreatedOnce'
  <2>1. ASSUME NEW c \in Contracts, Creates(new, c)
        PROVE  \A tx \in pool : ~Creates(tx, c)
    BY <1>3, <2>1 DEF NewCallOK, Fresh, Creates
  <2> QED BY <1>2, <2>1 DEF IInv, CreatedOnce, Creates
<1>7. BlockOK'
  BY <1>1 DEF BlockOK
<1> QED BY <1>4, <1>5, <1>6, <1>7 DEF IInv

\* doInvoke reads and writes the two accounts.
LEMMA TransferFacts ==
  ASSUME IInv, NEW t \in Transfer, Found(t)
  PROVE  /\ DOMAIN Writes(t) = {t.from, t.to} /\ {t.from, t.to} \subseteq Accounts
         /\ \A a \in DOMAIN Writes(t) : Writes(t)[a] \in Balance
         /\ Writes(t)[t.to] = state[t.to] + t.value
         /\ t.from # t.to => Writes(t)[t.from] = state[t.from] - t.value
         /\ Reads(t) \subseteq Accounts
<1>1. t.from \in Accounts /\ t.to \in Accounts /\ t.value \in Int
  BY DEF Transfer
<1>2. state[t.from] \in Int /\ state[t.to] \in Int
  BY <1>1 DEF IInv, WorldOK, Balance, Found
<1>3. state[t.to] + t.value \in Int /\ state[t.from] - t.value \in Int
  BY <1>1, <1>2
<1> DEFINE first == PutState(t.from, state[t.from] - t.value, <<>>)
<1>4. DOMAIN first = {t.from} /\ first[t.from] = state[t.from] - t.value
  BY DEF PutState
<1>5. /\ DOMAIN Writes(t) = {t.from, t.to} /\ Writes(t)[t.to] = state[t.to] + t.value
      /\ t.from # t.to => Writes(t)[t.from] = first[t.from]
  <2>1. Writes(t) = PutState(t.to, state[t.to] + t.value, first)
    BY DEF Writes
  <2> HIDE DEF first
  <2> QED BY <1>4, <2>1 DEF PutState
<1>6. \A a \in {t.from, t.to} : Writes(t)[a] \in Int
  BY <1>3, <1>4, <1>5
<1> QED BY <1>1, <1>4, <1>5, <1>6 DEF Balance, Reads

\* Accounts are no contracts.
LEMMA Apart == Accounts \cap Contracts = {}
BY ChaincodeAssumption DEF ChaincodeAssumption

\* Calls that read and write accounts only ("invoke", outchainCommit).
LEMMA AccountsOnly ==
  ASSUME NEW t \in Transfer, IInv, Found(t)
  PROVE  NewCallOK(Reads(t), Writes(t))
<1>1. /\ DOMAIN Writes(t) = {t.from, t.to} /\ {t.from, t.to} \subseteq Accounts
      /\ \A a \in DOMAIN Writes(t) : Writes(t)[a] \in Balance
      /\ Reads(t) \subseteq Accounts
  BY TransferFacts
<1> QED BY <1>1, Apart DEF NewCallOK, Keys

\* Calls that write nothing (a payment that fails, a commit of a Finished contract).
LEMMA NothingWritten == \A reads : NewCallOK(reads, <<>>)
BY DEF NewCallOK

\* doInvoke, called by "invoke".
LEMMA InvokeInv == \A t \in Transfers : IInv /\ Invoke(t) => IInv'
<1> SUFFICES ASSUME NEW t \in Transfers, IInv, Invoke(t) PROVE IInv'
  OBVIOUS
<1>1. t \in Transfer
  BY ChaincodeAssumption DEF ChaincodeAssumption
<1>2. CASE Found(t)
  BY <1>1, <1>2, AccountsOnly, EndorseInv DEF Invoke
<1>3. CASE ~Found(t)
  BY <1>3, NothingWritten, EndorseInv DEF Invoke
<1> QED BY <1>2, <1>3

\* "delete" takes an account away.
LEMMA DeleteInv == \A a \in Accounts : IInv /\ Delete(a) => IInv'
<1> SUFFICES ASSUME NEW a \in Accounts, IInv, Delete(a) PROVE IInv'
  OBVIOUS
<1>1. DOMAIN PutState(a, Gone, <<>>) = {a} /\ PutState(a, Gone, <<>>)[a] = Gone
  BY DEF PutState
<1>2. NewCallOK({}, PutState(a, Gone, <<>>))
  BY <1>1, Apart DEF NewCallOK, Keys, Balance
<1> QED BY <1>2, EndorseInv DEF Delete

\* precommit writes a new contract down.
LEMMA PrecommitInv == \A c \in Contracts : IInv /\ Precommit(c) => IInv'
<1> SUFFICES ASSUME NEW c \in Contracts, IInv, Precommit(c) PROVE IInv'
  OBVIOUS
<1>1. DOMAIN PutState(c, "Init", <<>>) = {c} /\ PutState(c, "Init", <<>>)[c] = "Init"
  BY DEF PutState
<1>2. NewCallOK({}, PutState(c, "Init", <<>>))
  BY <1>1, Apart DEF Precommit, NewCallOK, Keys
<1> QED BY <1>2, EndorseInv DEF Precommit

\* outchainCommit pays for a request of another chain.
LEMMA OutchainCommitInv == \A r \in DOMAIN Requests : IInv /\ OutchainCommit(r) => IInv'
<1> SUFFICES ASSUME NEW r \in DOMAIN Requests, IInv, OutchainCommit(r) PROVE IInv'
  OBVIOUS
<1>1. Requests[r] \in Transfer
  BY ChaincodeAssumption DEF ChaincodeAssumption
<1>2. NewCallOK(Reads(Requests[r]), Writes(Requests[r]))
  BY <1>1, AccountsOnly DEF OutchainCommit
<1> QED BY <1>2, EndorseInv DEF OutchainCommit

\* What a commit writes: the contract and the two accounts.
LEMMA CommitWrites ==
  ASSUME IInv, NEW c \in Contracts, NEW t \in Transfer, Found(t)
  PROVE  LET writes == PutState(c, "Finished", Writes(t))
         IN /\ DOMAIN writes = {c, t.from, t.to} /\ {t.from, t.to} \subseteq Accounts
            /\ writes[c] = "Finished" /\ \A a \in {t.from, t.to} : writes[a] \in Balance
            /\ Reads(t) \subseteq Accounts /\ c \notin Accounts
<1> DEFINE writes == PutState(c, "Finished", Writes(t))
<1>1. /\ DOMAIN Writes(t) = {t.from, t.to} /\ {t.from, t.to} \subseteq Accounts
      /\ \A a \in DOMAIN Writes(t) : Writes(t)[a] \in Balance
      /\ Reads(t) \subseteq Accounts
  BY TransferFacts
<1>2. c \notin Accounts
  BY Apart
<1>3. DOMAIN writes = {c} \cup DOMAIN Writes(t) /\ writes[c] = "Finished"
  BY DEF PutState
<1>4. \A a \in DOMAIN Writes(t) : a # c => writes[a] = Writes(t)[a]
  BY DEF PutState
<1> HIDE DEF writes
<1>5. /\ DOMAIN writes = {c, t.from, t.to} /\ {t.from, t.to} \subseteq Accounts
      /\ writes[c] = "Finished" /\ \A a \in {t.from, t.to} : writes[a] \in Balance
      /\ Reads(t) \subseteq Accounts /\ c \notin Accounts
  BY <1>1, <1>2, <1>3, <1>4
<1> QED BY <1>5 DEF writes

\* regularCommit finishes a contract that it finds in state Init, and pays for it.
LEMMA RegularCommitInv == \A c \in Contracts : IInv /\ RegularCommit(c) => IInv'
<1> SUFFICES ASSUME NEW c \in Contracts, IInv, RegularCommit(c) PROVE IInv'
  OBVIOUS
<1>1. CASE Endorse({c}, <<>>, NoEvent, 0)
  BY <1>1, NothingWritten, EndorseInv
<1>2. CASE /\ RebuildIContract(state[c]) = "precommit"
           /\ Terms[c].call = "invoke" /\ Found(Terms[c].args)
           /\ Endorse(CommitReads(c), PutState(c, "Finished", Writes(Terms[c].args)),
                      ContractEvent("commit", c, "Finished"), Minted(Terms[c].args))
  <2> DEFINE t      == Terms[c].args
             writes == PutState(c, "Finished", Writes(t))
  <2>1. t \in Transfer
    BY <1>2, ChaincodeAssumption DEF ChaincodeAssumption
  <2>2. state[c] = "Init"
    BY <1>2 DEF RegularCommit, RebuildIContract, IInv, WorldOK
  <2>3. /\ DOMAIN writes = {c, t.from, t.to} /\ {t.from, t.to} \subseteq Accounts
        /\ writes[c] = "Finished" /\ \A a \in {t.from, t.to} : writes[a] \in Balance
        /\ Reads(t) \subseteq Accounts /\ c \notin Accounts
    BY <1>2, <2>1, CommitWrites
  <2>4. NewCallOK(CommitReads(c), writes)
    <3> HIDE DEF t, writes
    <3> QED BY <2>2, <2>3, Apart DEF NewCallOK, CommitReads, Keys, t
  <2> QED BY <1>2, <2>4, EndorseInv
<1> QED BY <1>1, <1>2 DEF RegularCommit

-----------------------------------------------------------------------------
(* Ordering and validation. *)

\* The orderer moves endorsed calls from the pool into a block, each once.
LEMMA CutBlockFacts ==
  ASSUME CutBlock
  PROVE  \E n \in Nat, txs \in SUBSET pool :
           /\ block' \in Seq(txs) /\ Len(block') = n
           /\ \A i, j \in 1 .. n : block'[i] = block'[j] => i = j
           /\ pool' = pool \ txs /\ Waiting = pool /\ Waiting' \subseteq pool
<1>1. PICK n \in 1 .. MaxBlock : \E txs \in kSubset(n, pool) :
        block' \in SetToSeqs(txs) /\ pool' = pool \ txs
  BY DEF CutBlock
<1>2. PICK txs \in SUBSET pool :
        /\ Cardinality(txs) = n
        /\ block' \in [1 .. n -> txs]
        /\ \A i, j \in 1 .. n : i # j => block'[i] # block'[j]
        /\ pool' = pool \ txs
  BY <1>1 DEF kSubset, SetToSeqs
<1>3. n \in Nat
  BY ChaincodeAssumption DEF ChaincodeAssumption
<1>4. block' \in Seq(txs) /\ Len(block') = n
  BY <1>2, <1>3
<1>5. Waiting = pool /\ Waiting' \subseteq pool
  BY <1>2, <1>4 DEF Waiting, CutBlock
<1> QED BY <1>2, <1>3, <1>4, <1>5

\* A call that is in a block has not changed.
LEMMA CutBlockInv == IInv /\ CutBlock => IInv'
<1> SUFFICES ASSUME IInv, CutBlock PROVE IInv'
  OBVIOUS
<1>1. PICK n \in Nat, txs \in SUBSET pool :
        /\ block' \in Seq(txs) /\ Len(block') = n
        /\ \A i, j \in 1 .. n : block'[i] = block'[j] => i = j
        /\ pool' = pool \ txs /\ Waiting = pool /\ Waiting' \subseteq pool
  BY CutBlockFacts
<1>2. UNCHANGED <<state, version, height, paid>>
  BY DEF CutBlock, world
<1>3. WorldOK' /\ PaidWithContract'
  BY <1>2 DEF IInv, WorldOK, PaidWithContract
<1>4. CallsOK'
  BY <1>1, <1>2 DEF IInv, CallsOK, CallOK, ContractOK, Finishes, Creates, Pays, Keys, Balance
<1>5. CreatedOnce'
  BY <1>1 DEF IInv, CreatedOnce, Creates
<1>6. BlockOK'
  <2>1. \A i \in 1 .. n : block'[i] \in txs /\ block'[i] \in Waiting'
    BY <1>1 DEF Waiting
  <2>2. block' \in Seq(Waiting')
    BY <1>1, <2>1
  <2> QED BY <1>1, <2>1, <2>2 DEF BlockOK
<1> QED BY <1>3, <1>4, <1>5, <1>6 DEF IInv

\* The call whose turn it is leaves the waiting ones.
LEMMA HeadFacts ==
  ASSUME IInv, Validate
  PROVE  /\ Head(block) \in Waiting
         /\ Waiting' \subseteq Waiting \ {Head(block)}
         /\ BlockOK'
<1>1. block # <<>> /\ block' = Tail(block) /\ pool' = pool
  BY DEF Validate
<1>2. block \in Seq(Waiting) /\ Len(block) \in Nat \ {0}
  BY <1>1 DEF IInv, BlockOK
<1>3. /\ Head(block) = block[1] /\ block' \in Seq(Waiting) /\ Len(block') = Len(block) - 1
      /\ \A i \in 1 .. Len(block') : i + 1 \in 1 .. Len(block) /\ block'[i] = block[i + 1]
  BY <1>1, <1>2
<1>4. \A i \in 1 .. Len(block') : block'[i] # block[1]
  BY <1>2, <1>3 DEF IInv, BlockOK
<1>5. Waiting' \subseteq Waiting \ {Head(block)}
  <2>1. 1 \in 1 .. Len(block)
    BY <1>2
  <2>2. block[1] \notin pool
    BY <2>1 DEF IInv, BlockOK
  <2> QED BY <1>1, <1>3, <1>4, <2>2 DEF Waiting
<1>6. BlockOK'
  <2>1. block' \in Seq(Waiting')
    BY <1>3 DEF Waiting
  <2>2. \A i, j \in 1 .. Len(block') : block'[i] = block'[j] => i = j
    BY <1>2, <1>3 DEF IInv, BlockOK
  <2>3. \A i \in 1 .. Len(block') : block'[i] \notin pool'
    BY <1>1, <1>3 DEF IInv, BlockOK
  <2> QED BY <2>1, <2>2, <2>3 DEF BlockOK
<1>7. Head(block) \in Waiting
  BY <1>2, <1>3 DEF Waiting
<1> QED BY <1>5, <1>6, <1>7

\* What a call that is current does to a contract: it writes it down, finishes it
\* and pays for it, or leaves it alone.
LEMMA ContractStep ==
  ASSUME IInv, Validate, Current(Head(block)), NEW c \in Contracts
  PROVE  \/ /\ Creates(Head(block), c)
            /\ state[c] = Gone /\ state'[c] = "Init" /\ paid'[c] = paid[c]
         \/ /\ Finishes(Head(block), c)
            /\ state[c] = "Init" /\ state'[c] = "Finished" /\ paid'[c] = paid[c] + 1
         \/ /\ c \notin DOMAIN Head(block).writes
            /\ state'[c] = state[c] /\ paid'[c] = paid[c]
<1> DEFINE tx == Head(block)
<1>1. /\ state' = [k \in Keys |-> IF k \in DOMAIN tx.writes THEN tx.writes[k] ELSE state[k]]
      /\ paid' = [d \in Contracts |-> IF d \in DOMAIN tx.reads /\ DOMAIN tx.writes \cap Accounts # {}
                                      THEN paid[d] + 1 ELSE paid[d]]
      /\ \A k \in DOMAIN tx.reads : version[k] = tx.reads[k]
  BY DEF Validate, Current
<1>2. CallOK(tx) /\ ContractOK(tx, c)
  BY HeadFacts DEF IInv, CallsOK
<1> HIDE DEF tx
<1>3. CASE Creates(tx, c)
  <2>1. tx.writes[c] # "Finished"
    BY <1>3 DEF Creates
  <2>2. state[c] = Gone /\ ~Pays(tx)
    BY <1>2, <1>3, <2>1 DEF ContractOK, Finishes, Creates
  <2> QED BY <1>1, <1>3, <2>2 DEF Creates, Pays, Keys, tx
<1>4. CASE Finishes(tx, c)
  <2>1. tx.reads[c] = version[c]
    BY <1>1, <1>4 DEF Finishes
  <2>2. state[c] = "Init"
    BY <1>2, <1>4, <2>1 DEF ContractOK, Finishes
  <2> QED BY <1>1, <1>4, <2>2 DEF Finishes, Pays, Keys, tx
<1>5. CASE c \notin DOMAIN tx.writes
  <2>1. ~(c \in DOMAIN tx.reads /\ Pays(tx))
    BY <1>2, <1>5 DEF ContractOK, Finishes
  <2> QED BY <1>1, <1>5, <2>1 DEF Pays, Keys, tx
<1> QED BY <1>2, <1>3, <1>4, <1>5 DEF ContractOK

\* A contract that is written gets a version nobody read before: what was read of it
\* is stale.  A call that is still to come finds its contracts as ContractOK says.
LEMMA ValidateInv == IInv /\ Validate => IInv'
<1> SUFFICES ASSUME IInv, Validate PROVE IInv'
  OBVIOUS
<1> DEFINE tx == Head(block)
<1>1. tx \in Waiting /\ Waiting' \subseteq Waiting \ {tx} /\ BlockOK'
  BY HeadFacts
<1>2. height \in Nat /\ height' = height + 1
  BY DEF Validate, IInv, WorldOK
<1>3. CreatedOnce'
  BY <1>1 DEF IInv, CreatedOnce, Creates
<1>4. CASE ~Current(tx)
  <2>1. UNCHANGED <<state, version, paid>>
    BY <1>4 DEF Validate
  <2>2. WorldOK' /\ PaidWithContract'
    BY <1>2, <2>1 DEF IInv, WorldOK, PaidWithContract
  <2>3. CallsOK'
    BY <1>1, <1>2, <2>1 DEF IInv, CallsOK, CallOK, ContractOK, Finishes, Creates, Pays, Keys, Balance
  <2> QED BY <1>1, <1>3, <2>2, <2>3 DEF IInv
<1>5. CASE Current(tx)
  <2>1. /\ state' = [k \in Keys |-> IF k \in DOMAIN tx.writes THEN tx.writes[k] ELSE state[k]]
        /\ version' = [k \in Keys |-> IF k \in DOMAIN tx.writes
                                      THEN IF tx.writes[k] = Gone THEN 0 ELSE height'
                                      ELSE version[k]]
        /\ paid' = [c \in Contracts |-> paid'[c]]
    BY <1>5 DEF Validate
  <2>2. \A c \in Contracts :
          \/ /\ Creates(tx, c)
             /\ state[c] = Gone /\ state'[c] = "Init" /\ paid'[c] = paid[c]
          \/ /\ Finishes(tx, c)
             /\ state[c] = "Init" /\ state'[c] = "Finished" /\ paid'[c] = paid[c] + 1
          \/ /\ c \notin DOMAIN tx.writes
             /\ state'[c] = state[c] /\ paid'[c] = paid[c]
    BY <1>5, ContractStep
  <2>3. CallOK(tx)
    BY <1>1 DEF IInv, CallsOK
  <2> HIDE DEF tx
  <2>4. Gone \notin {"Init", "Finished"}
    BY ChaincodeAssumption DEF ChaincodeAssumption
  <2>5. WorldOK'
    <3>1. \A a \in Accounts : state'[a] \in Balance
      BY <2>1, <2>3 DEF IInv, WorldOK, CallOK, Keys
    <3>2. \A c \in Contracts : state'[c] \in {Gone, "Init", "Finished"}
      BY <2>2 DEF IInv, WorldOK
    <3>3. \A k \in Keys : version'[k] \in 0 .. height'
      BY <1>2, <2>1 DEF IInv, WorldOK
    <3> QED BY <1>2, <2>1, <3>1, <3>2, <3>3 DEF WorldOK, Keys, Balance
  <2>6. PaidWithContract'
    BY <2>2, <2>4 DEF IInv, PaidWithContract
  <2>7. CallsOK'
    <3>1. ASSUME NEW ty \in Waiting, ty # tx, NEW c \in Contracts PROVE ContractOK(ty, c)'
      <4>1. ContractOK(ty, c)
        BY DEF IInv, CallsOK
      <4>2. c \in DOMAIN ty.reads => ty.reads[c] \in 0 .. height /\ ty.reads[c] # height'
        BY <1>2, <4>1 DEF ContractOK
      <4>3. CASE c \notin DOMAIN tx.writes
        <5>1. state'[c] = state[c] /\ version'[c] = version[c]
          BY <2>1, <4>3 DEF Keys
        <5> QED BY <1>2, <4>1, <4>2, <5>1 DEF ContractOK, Finishes, Creates, Pays
      <4>4. CASE c \in DOMAIN tx.writes
        <5>1. tx.writes[c] \in {"Init", "Finished"}
          BY <2>2, <4>4 DEF Creates, Finishes
        <5>2. version'[c] = height'
          BY <2>1, <2>4, <4>4, <5>1 DEF Keys
        <5>3. ~(c \in DOMAIN ty.writes /\ state[c] = Gone /\ Creates(ty, c))
          BY <1>1, <2>2, <2>4, <4>4, <3>1 DEF IInv, CreatedOnce
        <5> QED BY <1>2, <4>1, <4>2, <5>2, <5>3 DEF ContractOK, Finishes, Creates, Pays
      <4> QED BY <4>3, <4>4
    <3>2. \A ty \in Waiting : CallOK(ty)'
      BY DEF IInv, CallsOK, CallOK, Keys, Balance
    <3> QED BY <1>1, <3>1, <3>2 DEF CallsOK
  <2> QED BY <1>1, <1>3, <2>5, <2>6, <2>7 DEF IInv
<1> QED BY <1>4, <1>5

-----------------------------------------------------------------------------
(* Theorems. *)

\* Every step of the chaincode keeps the invariant.
LEMMA NextIInv == IInv /\ [Next]_vars => IInv'
<1> SUFFICES ASSUME IInv, [Next]_vars PROVE IInv'
  OBVIOUS
<1>1. ASSUME NEW t \in Transfers, Invoke(t) PROVE IInv'
  BY <1>1, InvokeInv
<1>2. ASSUME NEW a \in Accounts, Delete(a) PROVE IInv'
  BY <1>2, DeleteInv
<1>3. ASSUME NEW c \in Contracts, Precommit(c) \/ RegularCommit(c) PROVE IInv'
  BY <1>3, PrecommitInv, RegularCommitInv
<1>4. ASSUME NEW r \in DOMAIN Requests, OutchainCommit(r) PROVE IInv'
  BY <1>4, OutchainCommitInv
<1>5. CASE CutBlock
  BY <1>5, CutBlockInv
<1>6. CASE Validate
  BY <1>6, ValidateInv
<1>7. CASE UNCHANGED vars
  <2>1. UNCHANGED <<state, version, height, pool, block, paid>>
    BY <1>7 DEF vars, world
  <2>2. Waiting' = Waiting
    BY <2>1 DEF Waiting
  <2> QED BY <2>1, <2>2, ZenonT(60) DEF IInv, WorldOK, CallsOK, CallOK, ContractOK, Finishes, Creates, Pays,
                            CreatedOnce, BlockOK, PaidWithContract, Keys, Balance
<1> QED BY <1>1, <1>2, <1>3, <1>4, <1>5, <1>6, <1>7 DEF Next

\* The invariant holds of every behaviour of the chaincode.
LEMMA Invariance == Spec => []IInv
<1>1. Init => IInv
  BY InitIInv
<1>2. IInv /\ [Next]_vars => IInv'
  BY NextIInv
<1> QED BY <1>1, <1>2, PTL DEF Spec

\* A contract is paid for once, when it becomes Finished, however many couriers
\* commit it at the same time (regularCommit).
THEOREM Chaincode_PaidWithContract == Spec => []PaidWithContract
<1>1. IInv => PaidWithContract
  BY DEF IInv
<1> QED BY <1>1, Invariance, PTL

\* The chaincode computes with numbers only: an account holds one or is not there,
\* and what is stored under a contract's id is never taken for an account (doInvoke).
THEOREM Chaincode_WorldOK == Spec => []WorldOK
<1>1. IInv => WorldOK
  BY DEF IInv
<1> QED BY <1>1, Invariance, PTL

-----------------------------------------------------------------------------
(* Induction. *)

\* Every nonempty set of numbers has a least one.
LEMMA NatMin ==
  ASSUME NEW T \in SUBSET Nat, T # {}
  PROVE  \E x \in T : \A y \in T : x <= y
<1>1. PICK R : R = OpToRel(<, Nat)
  OBVIOUS
<1>2. IsWellFoundedOn(R, Nat)
  BY <1>1, NatLessThanWellFounded
<1>3. PICK x \in T : \A y \in T : ~ (<<y, x>> \in R)
  BY <1>2, WFMin
<1>4. R = {ss \in Nat \X Nat : ss[1] < ss[2]}
  BY <1>1, Zenon DEF OpToRel
<1>5. ASSUME NEW y \in Nat, NEW z \in Nat, y < z
      PROVE  <<y, z>> \in R
  <2>1. PICK p : p = <<y, z>>
    OBVIOUS
  <2>2. p \in Nat \X Nat /\ p[1] = y /\ p[2] = z
    BY <2>1
  <2>3. p[1] < p[2]
    BY <2>2, <1>5
  <2>4. p \in {ss \in Nat \X Nat : ss[1] < ss[2]}
    BY <2>2, <2>3, Zenon
  <2>5. QED BY <2>1, <2>4, <1>4
<1>6. \A y \in T : y \in Nat /\ x \in Nat /\ ~ (y < x)
  BY <1>3, <1>5, Zenon
<1>7. QED BY <1>6

\* Induction over the numbers, for a set.
LEMMA Induction ==
  ASSUME NEW G \in SUBSET Nat, 0 \in G, \A n \in G : n + 1 \in G
  PROVE  \A n \in Nat : n \in G
<1>1. SUFFICES ASSUME Nat \ G # {} PROVE FALSE
  OBVIOUS
<1>2. PICK n \in Nat \ G : \A m \in Nat \ G : n <= m
  BY <1>1, NatMin
<1>3. n # 0 /\ n - 1 \in Nat
  BY <1>2
<1>4. PICK m \in Nat : m = n - 1
  BY <1>3
<1>5. m \in G
  BY <1>2, <1>4
<1>6. m + 1 \in G /\ m + 1 = n
  BY <1>4, <1>5, <1>2
<1>7. QED BY <1>6

-----------------------------------------------------------------------------
(* The lists that a recursive function joins together. *)

\* g joins the first n of these parts, one more at each step.
Joins(g, parts, n) ==
  g[0] = <<>> /\ \A i \in 1 .. n : g[i] = g[i - 1] \o parts[i]

\* The step that joins the last part, and the steps before it.
LEMMA JoinsStep ==
  ASSUME NEW g, NEW parts, NEW m \in Nat \ {0}
  PROVE  Joins(g, parts, m) <=> Joins(g, parts, m - 1) /\ g[m] = g[m - 1] \o parts[m]
<1>1. m \in 1 .. m /\ \A i \in 1 .. m - 1 : i \in 1 .. m
  OBVIOUS
<1>2. \A i \in 1 .. m : i \in 1 .. m - 1 \/ i = m
  OBVIOUS
<1>3. PICK n : n = m - 1
  OBVIOUS
<1>4. (\A i \in 1 .. m : g[i] = g[i - 1] \o parts[i])
        <=> (\A i \in 1 .. n : g[i] = g[i - 1] \o parts[i]) /\ g[m] = g[m - 1] \o parts[m]
  BY <1>1, <1>2, <1>3, Zenon
<1> QED BY <1>3, <1>4, Zenon DEF Joins

\* These parts are the same up to n.
Alike(parts, pieces, n) == \A i \in 1 .. n : parts[i] = pieces[i]

\* The recursion is defined.
LEMMA JoinsExists ==
  ASSUME NEW T, NEW N \in Nat, NEW parts \in [1 .. N -> Seq(T)]
  PROVE  \E g \in [0 .. N -> Seq(T)] : Joins(g, parts, N)
<1> DEFINE Done == {n \in Nat : n <= N => \E g \in [0 .. N -> Seq(T)] : Joins(g, parts, n)}
<1>1. 0 \in Done
  <2>1. PICK g : g = [n \in 0 .. N |-> <<>>]
    OBVIOUS
  <2>2. g \in [0 .. N -> Seq(T)] /\ Joins(g, parts, 0)
    BY <2>1 DEF Joins
  <2> QED BY <2>2
<1>2. ASSUME NEW n \in Done PROVE n + 1 \in Done
  <2>1. SUFFICES ASSUME n + 1 <= N
                 PROVE  \E h \in [0 .. N -> Seq(T)] : Joins(h, parts, n + 1)
    OBVIOUS
  <2>2. PICK g \in [0 .. N -> Seq(T)] : Joins(g, parts, n)
    BY <2>1
  <2>3. n \in 0 .. N /\ n + 1 \in 0 .. N /\ n + 1 \in 1 .. N
    BY <2>1
  <2>4. g[n] \o parts[n + 1] \in Seq(T)
    BY <2>3, ConcatProperties
  <2>5. PICK h : h = [g EXCEPT ![n + 1] = g[n] \o parts[n + 1]]
    OBVIOUS
  <2>6. h \in [0 .. N -> Seq(T)]
    BY <2>4, <2>5
  <2>7. h[n + 1] = g[n] \o parts[n + 1] /\ \A i \in 0 .. n : h[i] = g[i]
    <3>1. h[n + 1] = g[n] \o parts[n + 1]
      BY <2>3, <2>5, Zenon
    <3>2. \A i \in 0 .. n : i \in 0 .. N /\ i # n + 1
      BY <2>3
    <3>3. \A i \in 0 .. n : h[i] = g[i]
      BY <2>5, <3>2, Zenon
    <3> QED BY <3>1, <3>3
  <2>8. Joins(h, parts, n)
    <3>1. g[0] = <<>> /\ \A i \in 1 .. n : g[i] = g[i - 1] \o parts[i]
      BY <2>2, Zenon DEF Joins
    <3>2. \A i \in 1 .. n : i \in 0 .. n /\ i - 1 \in 0 .. n
      OBVIOUS
    <3>3. \A i \in 1 .. n : h[i] = h[i - 1] \o parts[i]
      BY <2>7, <3>1, <3>2, Zenon
    <3>4. h[0] = <<>>
      BY <2>7, <3>1
    <3> QED BY <3>3, <3>4, Zenon DEF Joins
  <2>9. PICK m \in Nat : m = n + 1
    OBVIOUS
  <2>10. h[m] = h[n] \o parts[m]
    <3>1. n \in 0 .. n
      OBVIOUS
    <3>2. h[n] = g[n] /\ h[m] = g[n] \o parts[m]
      BY <2>7, <2>9, <3>1, Zenon
    <3> QED BY <3>2, Zenon
  <2>11. Joins(h, parts, m)
    <3>1. m \in Nat \ {0} /\ n = m - 1
      BY <2>9
    <3> QED BY <2>8, <2>10, <3>1, JoinsStep
  <2> QED BY <2>6, <2>9, <2>11
<1>3. N \in Done
  <2>1. Done \in SUBSET Nat /\ \A n \in Done : n + 1 \in Done
    BY <1>2
  <2> HIDE DEF Done
  <2> QED BY <1>1, <2>1, Induction
<1> QED BY <1>3

\* The same parts are joined in the same way.
LEMMA JoinsSame ==
  ASSUME NEW N \in Nat, NEW g, NEW parts, Joins(g, parts, N),
         NEW h, NEW pieces, Joins(h, pieces, N), Alike(parts, pieces, N)
  PROVE  g[N] = h[N]
<1> DEFINE Done == {n \in Nat : Joins(g, parts, n) /\ Joins(h, pieces, n) /\ Alike(parts, pieces, n)
                                  => g[n] = h[n]}
<1>1. 0 \in Done
  BY DEF Joins
<1>2. ASSUME NEW n \in Done PROVE n + 1 \in Done
  <2>0. n \in Nat /\ (Joins(g, parts, n) /\ Joins(h, pieces, n) /\ Alike(parts, pieces, n)
                       => g[n] = h[n])
    OBVIOUS
  <2>1. PICK m \in Nat \ {0} : m = n + 1 /\ n = m - 1
    BY <2>0
  <2>2. SUFFICES ASSUME Joins(g, parts, m), Joins(h, pieces, m), Alike(parts, pieces, m)
                 PROVE  g[m] = h[m]
    BY <2>1
  <2> HIDE DEF Done
  <2>3. Joins(g, parts, n) /\ g[m] = g[n] \o parts[m]
    <3>1. Joins(g, parts, m - 1) /\ g[m] = g[m - 1] \o parts[m]
      BY <2>2, JoinsStep, Zenon
    <3> QED BY <2>1, <3>1, Zenon
  <2>4. Joins(h, pieces, n) /\ h[m] = h[n] \o pieces[m]
    <3>1. Joins(h, pieces, m - 1) /\ h[m] = h[m - 1] \o pieces[m]
      BY <2>2, JoinsStep, Zenon
    <3> QED BY <2>1, <3>1, Zenon
  <2>5. parts[m] = pieces[m] /\ Alike(parts, pieces, n)
    BY <2>0, <2>1, <2>2 DEF Alike
  <2>6. g[n] = h[n]
    BY <2>0, <2>3, <2>4, <2>5
  <2> QED BY <2>3, <2>4, <2>5, <2>6, Zenon
<1>3. N \in Done
  <2>1. Done \in SUBSET Nat /\ \A n \in Done : n + 1 \in Done
    BY <1>2
  <2> HIDE DEF Done
  <2> QED BY <1>1, <2>1, Induction
<1> QED BY <1>3

\* Picked joins a list of one entry, or of none, for each place.
Parts(list, places) == [i \in 1 .. Len(list) |-> IF i \in places THEN <<list[i]>> ELSE <<>>]

\* What Picked is.
LEMMA PickedJoins ==
  ASSUME NEW T, NEW list \in Seq(T), NEW places
  PROVE  \E g \in [0 .. Len(list) -> Seq(T)] :
           Joins(g, Parts(list, places), Len(list)) /\ Picked(list, places) = g[Len(list)]
<1> DEFINE N == Len(list)
           Step(g) == [n \in 0 .. N |-> IF n = 0 THEN <<>>
                                        ELSE IF n \in places THEN Append(g[n - 1], list[n])
                                                             ELSE g[n - 1]]
<1>1. N \in Nat /\ \A i \in 1 .. N : list[i] \in T
  OBVIOUS
<1>2. Parts(list, places) \in [1 .. N -> Seq(T)]
  BY <1>1 DEF Parts
<1>3. PICK g \in [0 .. N -> Seq(T)] : Joins(g, Parts(list, places), N)
  BY <1>1, <1>2, JoinsExists
<1>4. ASSUME NEW n \in 0 .. N, n # 0
      PROVE  g[n] = IF n \in places THEN Append(g[n - 1], list[n]) ELSE g[n - 1]
  <2>1. n \in 1 .. N /\ n - 1 \in 0 .. N
    BY <1>1, <1>4
  <2>2. g[n] = g[n - 1] \o (IF n \in places THEN <<list[n]>> ELSE <<>>)
    BY <1>3, <2>1 DEF Joins, Parts
  <2>3. g[n - 1] \in Seq(T) /\ list[n] \in T
    BY <1>1, <1>3, <2>1
  <2> QED BY <2>2, <2>3, AppendIsConcat, ConcatEmptySeq
<1>5. g = Step(g)
  BY <1>3, <1>4 DEF Joins
<1>6. PICK some : some = CHOOSE f : f = Step(f)
  OBVIOUS
<1>7. some = Step(some)
  BY <1>5, <1>6, Zenon
<1>8. Picked(list, places) = some[N]
  BY <1>6, Zenon DEF Picked
<1>9. some[N] = g[N]
  <2> DEFINE Done == {n \in Nat : n <= N => some[n] = g[n]}
  <2>1. \A n \in 0 .. N : some[n] = IF n = 0 THEN <<>>
                                    ELSE IF n \in places THEN Append(some[n - 1], list[n])
                                                         ELSE some[n - 1]
    BY <1>7
  <2>2. 0 \in Done
    BY <1>1, <1>3, <2>1 DEF Joins
  <2>3. ASSUME NEW n \in Done PROVE n + 1 \in Done
    <3>1. SUFFICES ASSUME n + 1 <= N PROVE some[n + 1] = g[n + 1]
      OBVIOUS
    <3>2. n + 1 \in 0 .. N /\ n + 1 # 0 /\ (n + 1) - 1 = n /\ some[n] = g[n]
      BY <1>1, <3>1
    <3> HIDE DEF N, Step, Done
    <3>3. PICK i \in 0 .. N : i = n + 1
      BY <3>2
    <3>4. i # 0 /\ i - 1 = n
      BY <3>2, <3>3
    <3> QED BY <1>4, <2>1, <3>2, <3>3, <3>4
  <2>4. Done \in SUBSET Nat /\ \A n \in Done : n + 1 \in Done
    BY <2>3
  <2>5. N \in Done
    <3> HIDE DEF Done
    <3> QED BY <1>1, <2>2, <2>4, Induction
  <2> QED BY <1>1, <2>5
<1> QED BY <1>3, <1>8, <1>9

\* Picked of a list that has one entry more.
LEMMA PickedAppend ==
  ASSUME NEW T, NEW list \in Seq(T), NEW entry \in T, NEW places, NEW more,
         \A i \in 1 .. Len(list) : i \in places <=> i \in more
  PROVE  /\ Picked(list, places) \in Seq(T)
         /\ Picked(Append(list, entry), more) =
              IF Len(list) + 1 \in more THEN Append(Picked(list, places), entry)
                                        ELSE Picked(list, places)
<1>1. PICK long, N : long = Append(list, entry) /\ N = Len(list)
  OBVIOUS
<1>2. /\ N \in Nat /\ long \in Seq(T) /\ Len(long) = N + 1 /\ long[N + 1] = entry
      /\ \A i \in 1 .. N : long[i] = list[i]
  BY <1>1
<1>3. PICK m \in Nat : m = N + 1
  BY <1>2
<1>4. PICK g \in [0 .. N -> Seq(T)] :
         Joins(g, Parts(list, places), N) /\ Picked(list, places) = g[N]
  BY <1>1, PickedJoins
<1>5. PICK h \in [0 .. m -> Seq(T)] :
         Joins(h, Parts(long, more), m) /\ Picked(long, more) = h[m]
  <2>1. \E h \in [0 .. Len(long) -> Seq(T)] :
          Joins(h, Parts(long, more), Len(long)) /\ Picked(long, more) = h[Len(long)]
    BY <1>2, PickedJoins
  <2> QED BY <1>2, <1>3, <2>1
<1>6. g[N] \in Seq(T)
  BY <1>2, <1>4
<1>7. Joins(h, Parts(long, more), N) /\ h[m] = h[N] \o Parts(long, more)[m]
  <2>1. m \in Nat \ {0} /\ N = m - 1
    BY <1>2, <1>3
  <2> QED BY <1>5, <2>1, JoinsStep
<1>8. h[N] = g[N]
  <2>1. Alike(Parts(list, places), Parts(long, more), N)
    <3>1. SUFFICES ASSUME NEW i \in 1 .. N
                   PROVE  Parts(list, places)[i] = Parts(long, more)[i]
      BY DEF Alike
    <3>2. i \in 1 .. Len(list) /\ i \in 1 .. Len(long) /\ long[i] = list[i]
      BY <1>1, <1>2
    <3>3. i \in places <=> i \in more
      BY <3>2
    <3> QED BY <3>2, <3>3, Zenon DEF Parts
  <2> QED BY <1>2, <1>4, <1>7, <2>1, JoinsSame
<1>9. Parts(long, more)[m] = IF m \in more THEN <<entry>> ELSE <<>>
  BY <1>2, <1>3 DEF Parts
<1>10. CASE m \in more
  <2>1. h[m] = g[N] \o <<entry>>
    BY <1>7, <1>8, <1>9, <1>10
  <2>2. Append(g[N], entry) = g[N] \o <<entry>>
    BY <1>6, AppendIsConcat
  <2> QED BY <1>1, <1>3, <1>4, <1>5, <1>6, <1>10, <2>1, <2>2
<1>11. CASE m \notin more
  <2>1. h[m] = g[N] \o <<>>
    BY <1>7, <1>8, <1>9, <1>11
  <2>2. g[N] \o <<>> = g[N]
    BY <1>6, ConcatEmptySeq
  <2> QED BY <1>1, <1>3, <1>4, <1>5, <1>6, <1>11, <2>1, <2>2
<1> QED BY <1>10, <1>11

\* Nothing is picked from no list.
LEMMA PickedNone == \A places : Picked(<<>>, places) = <<>>
<1> SUFFICES ASSUME NEW places PROVE Picked(<<>>, places) = <<>>
  OBVIOUS
<1>1. PICK list : list = <<>>
  OBVIOUS
<1>2. list \in Seq({}) /\ Len(list) = 0
  BY <1>1
<1>3. PICK g : Joins(g, Parts(list, places), Len(list)) /\ Picked(list, places) = g[Len(list)]
  BY <1>2, PickedJoins
<1> QED BY <1>1, <1>2, <1>3 DEF Joins

\* What FlattenSeq is.
LEMMA FlattenJoins ==
  ASSUME NEW T, NEW seqs \in Seq(Seq(T)), Len(seqs) > 0
  PROVE  \E g \in [0 .. Len(seqs) -> Seq(T)] :
           Joins(g, seqs, Len(seqs)) /\ FlattenSeq(seqs) = g[Len(seqs)]
<1> DEFINE N == Len(seqs)
           Step(g) == [i \in 1 .. N |-> IF i = 1 THEN seqs[i] ELSE g[i - 1] \o seqs[i]]
<1>1. N \in Nat \ {0} /\ seqs \in [1 .. N -> Seq(T)]
  OBVIOUS
<1>2. PICK g \in [0 .. N -> Seq(T)] : Joins(g, seqs, N)
  BY <1>1, JoinsExists
<1>3. \A i \in 1 .. N : g[i] = g[i - 1] \o seqs[i]
  BY <1>2 DEF Joins
<1>4. g[1] = seqs[1]
  <2>1. 1 \in 1 .. N /\ g[1 - 1] = <<>> /\ seqs[1] \in Seq(T)
    BY <1>1, <1>2 DEF Joins
  <2>2. g[1] = g[1 - 1] \o seqs[1]
    BY <1>3, <2>1
  <2> QED BY <2>1, <2>2, ConcatEmptySeq
<1>5. PICK f : f = [i \in 1 .. N |-> g[i]]
  OBVIOUS
<1>6. f = Step(f)
  <2>1. ASSUME NEW i \in 1 .. N PROVE f[i] = IF i = 1 THEN seqs[i] ELSE f[i - 1] \o seqs[i]
    <3>1. CASE i = 1
      BY <1>4, <1>5, <3>1
    <3>2. CASE i # 1
      <4>1. i - 1 \in 1 .. N
        BY <1>1, <3>2
      <4> QED BY <1>3, <1>5, <3>2, <4>1
    <3> QED BY <3>1, <3>2
  <2> QED BY <1>5, <2>1
<1>7. PICK some : some = CHOOSE e : e = Step(e)
  OBVIOUS
<1>8. some = Step(some)
  BY <1>6, <1>7, Zenon
<1>9. FlattenSeq(seqs) = some[N]
  <2>1. Len(seqs) # 0
    BY <1>1
  <2> QED BY <1>7, <2>1, Zenon DEF FlattenSeq
<1>10. some[N] = g[N]
  <2> DEFINE Done == {n \in Nat : n + 1 <= N => some[n + 1] = g[n + 1]}
  <2>1. \A i \in 1 .. N : some[i] = IF i = 1 THEN seqs[i] ELSE some[i - 1] \o seqs[i]
    BY <1>8
  <2>2. 0 \in Done
    BY <1>1, <1>4, <2>1
  <2>3. ASSUME NEW n \in Done PROVE n + 1 \in Done
    <3>1. SUFFICES ASSUME (n + 1) + 1 <= N PROVE some[(n + 1) + 1] = g[(n + 1) + 1]
      OBVIOUS
    <3>2. PICK i \in 1 .. N : i = (n + 1) + 1
      BY <3>1
    <3>3. PICK j \in 0 .. N : j = n + 1
      BY <1>1, <3>1
    <3>4. i # 1 /\ i - 1 = j /\ some[j] = g[j]
      BY <3>1, <3>2, <3>3
    <3>5. some[i] = some[j] \o seqs[i] /\ g[i] = g[j] \o seqs[i]
      BY <1>3, <2>1, <3>4, Zenon
    <3> QED BY <3>2, <3>4, <3>5
  <2>4. Done \in SUBSET Nat /\ \A n \in Done : n + 1 \in Done
    BY <2>3
  <2>5. PICK m \in Nat : m + 1 = N
    <3>1. N - 1 \in Nat /\ (N - 1) + 1 = N
      BY <1>1
    <3> HIDE DEF N
    <3> QED BY <3>1
  <2>6. m \in Done
    <3> HIDE DEF Done
    <3> QED BY <2>2, <2>4, <2>5, Induction
  <2> QED BY <2>5, <2>6
<1> QED BY <1>2, <1>9, <1>10

\* To append and to join.
AppendsLast(s, t, e) == s \o Append(t, e) = Append(s \o t, e)
LEMMA ConcatAppend ==
  ASSUME NEW T, NEW s \in Seq(T), NEW t \in Seq(T), NEW e \in T
  PROVE  AppendsLast(s, t, e)
BY DEF AppendsLast

\* The last of these lists has one entry more in those.
Longer(seqs, seqt, entry) ==
  /\ Len(seqt) = Len(seqs)
  /\ \A i \in 1 .. Len(seqs) - 1 : seqt[i] = seqs[i]
  /\ seqt[Len(seqs)] = Append(seqs[Len(seqs)], entry)

\* FlattenSeq when the last of its lists grows.
LEMMA FlattenLast ==
  ASSUME NEW T, NEW seqs \in Seq(Seq(T)), Len(seqs) > 0, NEW entry \in T,
         NEW seqt \in Seq(Seq(T)), Longer(seqs, seqt, entry)
  PROVE  FlattenSeq(seqt) = Append(FlattenSeq(seqs), entry)
<1>1. PICK N \in Nat \ {0}, m \in Nat : N = Len(seqs) /\ N = m + 1
  <2>1. Len(seqs) \in Nat \ {0} /\ Len(seqs) - 1 \in Nat
    OBVIOUS
  <2> QED BY <2>1
<1>2. seqs[N] \in Seq(T) /\ m \in 0 .. N /\ N \in 0 .. N
  <2>1. m \in 0 .. N /\ N \in 0 .. N /\ N \in 1 .. N
    BY <1>1
  <2>2. \A n \in 1 .. Len(seqs) : seqs[n] \in Seq(T)
    OBVIOUS
  <2> QED BY <1>1, <2>1, <2>2, Zenon
<1>3. PICK g \in [0 .. N -> Seq(T)] : Joins(g, seqs, N) /\ FlattenSeq(seqs) = g[N]
  BY <1>1, FlattenJoins
<1>4. PICK h \in [0 .. N -> Seq(T)] : Joins(h, seqt, N) /\ FlattenSeq(seqt) = h[N]
  <2>1. \E h \in [0 .. Len(seqt) -> Seq(T)] :
          Joins(h, seqt, Len(seqt)) /\ FlattenSeq(seqt) = h[Len(seqt)]
    <3>1. Len(seqt) > 0
      BY DEF Longer
    <3> QED BY <3>1, FlattenJoins
  <2> QED BY <1>1, <2>1 DEF Longer
<1>5. /\ Joins(g, seqs, m) /\ g[N] = g[m] \o seqs[N]
      /\ Joins(h, seqt, m) /\ h[N] = h[m] \o seqt[N]
  <2>1. m = N - 1
    BY <1>1
  <2> QED BY <1>3, <1>4, <2>1, JoinsStep
<1>6. h[m] = g[m]
  <2>1. m = Len(seqs) - 1
    BY <1>1
  <2>2. Alike(seqs, seqt, m)
    BY <2>1 DEF Alike, Longer
  <2> QED BY <1>5, <2>2, JoinsSame
<1>7. g[m] \in Seq(T) /\ g[N] \in Seq(T) /\ <<entry>> \in Seq(T)
  <2>1. g[m] \in Seq(T) /\ g[N] \in Seq(T)
    BY <1>2, <1>3, Zenon
  <2>2. <<entry>> \in Seq(T)
    OBVIOUS
  <2> QED BY <2>1, <2>2
<1>8. seqt[N] = Append(seqs[N], entry)
  BY <1>1 DEF Longer
<1>9. AppendsLast(g[m], seqs[N], entry)
  <2>1. seqs[N] \in Seq(T) /\ g[m] \in Seq(T)
    BY <1>2, <1>7, Zenon
  <2> QED BY <2>1, ConcatAppend
<1> QED BY <1>3, <1>4, <1>5, <1>6, <1>8, <1>9, Zenon DEF AppendsLast

\* FlattenSeq when it gets an empty list.
LEMMA FlattenGrow ==
  ASSUME NEW T, NEW seqs \in Seq(Seq(T)), Len(seqs) > 0
  PROVE  FlattenSeq(seqs) \in Seq(T) /\ FlattenSeq(Append(seqs, <<>>)) = FlattenSeq(seqs)
<1>1. PICK N \in Nat \ {0}, m \in Nat : N = Len(seqs) /\ m = N + 1
  <2>1. Len(seqs) \in Nat \ {0} /\ Len(seqs) + 1 \in Nat
    OBVIOUS
  <2> QED BY <2>1
<1>2. PICK more : more = Append(seqs, <<>>)
  OBVIOUS
<1>3. <<>> \in Seq(T)
  OBVIOUS
<1>4. /\ more \in Seq(Seq(T)) /\ Len(more) = m /\ more[m] = <<>>
      /\ \A i \in 1 .. N : more[i] = seqs[i]
  BY <1>1, <1>2, <1>3
<1>5. PICK g \in [0 .. N -> Seq(T)] : Joins(g, seqs, N) /\ FlattenSeq(seqs) = g[N]
  BY <1>1, FlattenJoins
<1>6. PICK h \in [0 .. m -> Seq(T)] : Joins(h, more, m) /\ FlattenSeq(more) = h[m]
  <2>1. \E h \in [0 .. Len(more) -> Seq(T)] :
          Joins(h, more, Len(more)) /\ FlattenSeq(more) = h[Len(more)]
    <3>1. Len(more) > 0
      BY <1>1, <1>4
    <3> QED BY <1>4, <3>1, FlattenJoins
  <2> QED BY <1>4, <2>1
<1>7. Joins(h, more, N) /\ h[m] = h[N] \o <<>>
  <2>1. m \in Nat \ {0} /\ N = m - 1
    BY <1>1
  <2>2. Joins(h, more, N) /\ h[m] = h[N] \o more[m]
    BY <1>6, <2>1, JoinsStep
  <2> QED BY <1>4, <2>2, Zenon
<1>8. h[N] = g[N]
  <2>1. Alike(more, seqs, N)
    BY <1>4, Zenon DEF Alike
  <2>2. N \in Nat
    OBVIOUS
  <2> QED BY <1>5, <1>7, <2>1, <2>2, JoinsSame
<1>9. g[N] \in Seq(T)
  <2>1. N \in 0 .. N
    BY <1>1
  <2> QED BY <1>5, <2>1, Zenon
<1>10. g[N] \o <<>> = g[N]
  BY <1>9, ConcatEmptySeq
<1> QED BY <1>2, <1>5, <1>6, <1>7, <1>8, <1>9, <1>10

-----------------------------------------------------------------------------
(* What a courier is told of a contract. *)

\* The ids of another chain's transactions are hashes it made: none of them is the
\* id of a contract of this chain.
RequestsApart == DOMAIN Requests \cap Contracts = {}

\* An event tells couriers of a contract.
Tells(event, c) == event.name \in FilterEvents /\ event.id = c
Names    == {"none", "evtTransfer", "precommit", "commit"}
Statuses == {"none", "Init", "Finished", "OutOnceCompleted"}
Event    == [name : Names, id : Contracts \cup DOMAIN Requests \cup {Gone}, status : Statuses]

\* A call tells of the contracts it writes, and what it makes of them.
EventFits(event, writes) ==
  /\ event \in Event
  /\ \A c \in Contracts :
       /\ Tells(event, c) <=> c \in DOMAIN writes
       /\ c \in DOMAIN writes => event.status = writes[c]

EventsFit == \A tx \in Waiting : EventFits(tx.event, tx.writes)

\* The last block of the chain is the one being validated.
Entry   == [event : Event, valid : BOOLEAN]
ChainOK == chain \in Seq(Seq(Entry)) /\ Len(chain) > 0

\* What GetPrepareCrossTxs keeps of a block, and of a chain.
Kept(tx) == tx.valid /\ \E e \in FilteredActions(tx) : e.name \in FilterEvents
KeptOf(blocks)      == [n \in DOMAIN blocks |-> GetPrepareCrossTxs(blocks[n])]
DeliveredOf(blocks) == FlattenSeq(KeptOf(blocks))

\* What these events say of a contract, and what they ought to say.
History(list, c) ==
  LET told == Picked(list, {i \in DOMAIN list : list[i].event.id = c})
  IN [i \in DOMAIN told |-> told[i].event.status]
Standing(s) ==
  CASE s = Gone       -> <<>>
    [] s = "Init"     -> <<"Init">>
    [] s = "Finished" -> <<"Init", "Finished">>

TellInv == IInv /\ EventsFit /\ ChainOK /\ EventsTellState

\* EventsTellState, in these words.
LEMMA TellState ==
  EventsTellState <=> \A c \in Contracts : History(DeliveredOf(chain), c) = Standing(state[c])
<1>1. Delivered = DeliveredOf(chain)
  BY Zenon DEF Delivered, DeliveredOf, KeptOf
<1> QED BY <1>1, Zenon DEF EventsTellState, History, Standing

\* The same after a step.
LEMMA TellNext ==
  EventsTellState' <=> \A c \in Contracts : History(DeliveredOf(chain'), c) = Standing(state'[c])
<1>1. Delivered' = DeliveredOf(chain')
  BY Zenon DEF Delivered, DeliveredOf, KeptOf
<1> QED BY <1>1, Zenon DEF EventsTellState, History, Standing

\* A list of two.
LEMMA Pair == Append(<<"Init">>, "Finished") = <<"Init", "Finished">>
<1> DEFINE T == {"Init", "Finished"}
<1>1. <<"Init">> \in Seq(T) /\ <<"Init", "Finished">> \in Seq(T)
  OBVIOUS
<1>2. /\ Len(<<"Init">>) = 1 /\ <<"Init">>[1] = "Init"
      /\ Len(<<"Init", "Finished">>) = 2
      /\ <<"Init", "Finished">>[1] = "Init" /\ <<"Init", "Finished">>[2] = "Finished"
  OBVIOUS
<1>3. "Finished" \in T
  OBVIOUS
<1> HIDE DEF T
<1>4. PICK r \in Seq(T) : r = <<"Init">> /\ Len(r) = 1 /\ r[1] = "Init"
  BY <1>1, <1>2, Zenon
<1>5. PICK t \in Seq(T) :
         t = <<"Init", "Finished">> /\ Len(t) = 2 /\ t[1] = "Init" /\ t[2] = "Finished"
  BY <1>1, <1>2, Zenon
<1>6. PICK s : s = Append(r, "Finished")
  OBVIOUS
<1>7. s \in Seq(T) /\ Len(s) = 2 /\ s[1] = "Init" /\ s[2] = "Finished"
  BY <1>3, <1>4, <1>6
<1>8. \A i \in 1 .. 2 : i = 1 \/ i = 2
  OBVIOUS
<1>9. s = t
  BY <1>5, <1>7, <1>8, SeqEqual
<1> QED BY <1>4, <1>5, <1>6, <1>9, Zenon

\* What a contract goes through is told one event after the other.
LEMMA StandingSteps ==
  /\ Standing(Gone) = <<>>
  /\ Standing("Init") = Append(Standing(Gone), "Init")
  /\ Standing("Finished") = Append(Standing("Init"), "Finished")
<1>1. Gone \notin {"Init", "Finished"}
  BY ChaincodeAssumption DEF ChaincodeAssumption
<1>2. /\ Standing(Gone) = <<>> /\ Standing("Init") = <<"Init">>
      /\ Standing("Finished") = <<"Init", "Finished">>
  BY <1>1 DEF Standing
<1>3. Append(<<>>, "Init") = <<"Init">>
  OBVIOUS
<1> QED BY <1>2, <1>3, Pair, Zenon

\* What is kept of a block, when a transaction is added to it.
LEMMA KeptAppend ==
  ASSUME NEW b \in Seq(Entry), NEW entry \in Entry
  PROVE  /\ GetPrepareCrossTxs(b) \in Seq(Entry)
         /\ GetPrepareCrossTxs(Append(b, entry)) =
              IF Kept(entry) THEN Append(GetPrepareCrossTxs(b), entry) ELSE GetPrepareCrossTxs(b)
<1>1. PICK long : long = Append(b, entry)
  OBVIOUS
<1>2. /\ Len(b) \in Nat /\ DOMAIN b = 1 .. Len(b)
      /\ DOMAIN long = 1 .. Len(b) + 1 /\ long[Len(b) + 1] = entry
      /\ \A i \in 1 .. Len(b) : i \in DOMAIN long /\ long[i] = b[i]
      /\ Len(b) + 1 \in DOMAIN long
  BY <1>1
<1>3. PICK places : places = {i \in DOMAIN b : Kept(b[i])}
  OBVIOUS
<1>4. PICK more : more = {i \in DOMAIN long : Kept(long[i])}
  OBVIOUS
<1>5. GetPrepareCrossTxs(b) = Picked(b, places) /\ GetPrepareCrossTxs(long) = Picked(long, more)
  BY <1>3, <1>4, Zenon DEF GetPrepareCrossTxs, Kept
<1>6. \A i \in 1 .. Len(b) : i \in places <=> i \in more
  BY <1>2, <1>3, <1>4, Zenon
<1>7. Len(b) + 1 \in more <=> Kept(entry)
  BY <1>2, <1>4, Zenon
<1>8. /\ Picked(b, places) \in Seq(Entry)
      /\ Picked(long, more) = IF Len(b) + 1 \in more THEN Append(Picked(b, places), entry)
                                                     ELSE Picked(b, places)
  BY <1>1, <1>6, PickedAppend
<1> QED BY <1>1, <1>5, <1>7, <1>8, Zenon

\* What is kept of these blocks.
LEMMA KeptType ==
  ASSUME NEW blocks \in Seq(Seq(Entry))
  PROVE  /\ KeptOf(blocks) \in Seq(Seq(Entry)) /\ Len(KeptOf(blocks)) = Len(blocks)
         /\ \A n \in 1 .. Len(blocks) : KeptOf(blocks)[n] = GetPrepareCrossTxs(blocks[n])
<1>1. PICK N \in Nat : N = Len(blocks) /\ DOMAIN blocks = 1 .. N
  OBVIOUS
<1>2. \A n \in 1 .. N : blocks[n] \in Seq(Entry)
  BY <1>1
<1>3. \E entry : entry \in Entry
  <2>1. [event |-> NoEvent, valid |-> TRUE] \in Entry
    BY DEF Entry, Event, NoEvent, Names, Statuses
  <2> QED BY <2>1
<1>4. \A n \in 1 .. N : GetPrepareCrossTxs(blocks[n]) \in Seq(Entry)
  BY <1>2, <1>3, KeptAppend
<1>5. KeptOf(blocks) = [n \in 1 .. N |-> GetPrepareCrossTxs(blocks[n])]
  BY <1>1 DEF KeptOf
<1> QED BY <1>1, <1>4, <1>5

\* What is told when a transaction is added to the last block, and when a block is
\* added that holds none.
LEMMA DeliveredMore ==
  ASSUME NEW blocks \in Seq(Seq(Entry)), Len(blocks) > 0, NEW entry \in Entry,
         NEW more \in Seq(Seq(Entry)), Longer(blocks, more, entry)
  PROVE  DeliveredOf(more) = IF Kept(entry) THEN Append(DeliveredOf(blocks), entry)
                                            ELSE DeliveredOf(blocks)
<1>1. PICK N \in Nat \ {0} : N = Len(blocks) /\ N = Len(more)
  BY DEF Longer
<1>2. PICK s \in Seq(Seq(Entry)) : /\ s = KeptOf(blocks) /\ Len(s) = N
                                   /\ \A n \in 1 .. N : s[n] = GetPrepareCrossTxs(blocks[n])
  BY <1>1, KeptType
<1>3. PICK t \in Seq(Seq(Entry)) : /\ t = KeptOf(more) /\ Len(t) = N
                                   /\ \A n \in 1 .. N : t[n] = GetPrepareCrossTxs(more[n])
  BY <1>1, KeptType
<1>4. /\ \A n \in 1 .. N - 1 : n \in 1 .. N /\ more[n] = blocks[n]
      /\ more[N] = Append(blocks[N], entry) /\ blocks[N] \in Seq(Entry) /\ N \in 1 .. N
  BY <1>1 DEF Longer
<1>5. \A n \in 1 .. N - 1 : t[n] = s[n]
  BY <1>2, <1>3, <1>4, Zenon
<1>6. t[N] = IF Kept(entry) THEN Append(s[N], entry) ELSE s[N]
  <2>1. GetPrepareCrossTxs(Append(blocks[N], entry)) =
          IF Kept(entry) THEN Append(GetPrepareCrossTxs(blocks[N]), entry)
                         ELSE GetPrepareCrossTxs(blocks[N])
    BY <1>4, KeptAppend
  <2> QED BY <1>2, <1>3, <1>4, <2>1, Zenon
<1>7. CASE Kept(entry)
  <2>1. Longer(s, t, entry)
    BY <1>2, <1>3, <1>5, <1>6, <1>7 DEF Longer
  <2>2. Len(s) > 0
    BY <1>2
  <2>3. FlattenSeq(t) = Append(FlattenSeq(s), entry)
    BY <2>1, <2>2, FlattenLast
  <2> QED BY <1>2, <1>3, <1>7, <2>3, Zenon DEF DeliveredOf
<1>8. CASE ~Kept(entry)
  <2>1. \A n \in 1 .. N : t[n] = s[n]
    BY <1>5, <1>6, <1>8
  <2>2. t = s
    BY <1>2, <1>3, <2>1
  <2> QED BY <1>2, <1>3, <1>8, <2>2, Zenon DEF DeliveredOf
<1> QED BY <1>7, <1>8

LEMMA DeliveredSame ==
  ASSUME NEW blocks \in Seq(Seq(Entry)), Len(blocks) > 0
  PROVE  /\ DeliveredOf(blocks) \in Seq(Entry)
         /\ DeliveredOf(Append(blocks, <<>>)) = DeliveredOf(blocks)
<1>1. PICK N \in Nat \ {0} : N = Len(blocks)
  OBVIOUS
<1>2. PICK more : more = Append(blocks, <<>>)
  OBVIOUS
<1>3. /\ more \in Seq(Seq(Entry)) /\ Len(more) = N + 1 /\ more[N + 1] = <<>>
      /\ \A n \in 1 .. N : more[n] = blocks[n]
  BY <1>1, <1>2
<1>4. PICK s \in Seq(Seq(Entry)) : /\ s = KeptOf(blocks) /\ Len(s) = N
                                   /\ \A n \in 1 .. N : s[n] = GetPrepareCrossTxs(blocks[n])
  BY <1>1, KeptType
<1>5. PICK t \in Seq(Seq(Entry)) : /\ t = KeptOf(more) /\ Len(t) = N + 1
                                   /\ \A n \in 1 .. N + 1 : t[n] = GetPrepareCrossTxs(more[n])
  BY <1>3, KeptType
<1>6. GetPrepareCrossTxs(<<>>) = <<>>
  BY PickedNone, Zenon DEF GetPrepareCrossTxs
<1>7. t = Append(s, <<>>)
  <2>1. N + 1 \in 1 .. N + 1 /\ \A n \in 1 .. N : n \in 1 .. N + 1
    OBVIOUS
  <2>2. t[N + 1] = <<>>
    BY <1>3, <1>5, <1>6, <2>1, Zenon
  <2>3. \A n \in 1 .. N : t[n] = s[n]
    <3>1. TAKE n \in 1 .. N
    <3>2. more[n] = blocks[n] /\ n \in 1 .. N + 1
      BY <1>3, <2>1
    <3>3. t[n] = GetPrepareCrossTxs(more[n])
      BY <1>5, <3>2, Zenon
    <3>4. s[n] = GetPrepareCrossTxs(blocks[n])
      BY <1>4, Zenon
    <3> QED BY <3>2, <3>3, <3>4, Zenon
  <2>4. <<>> \in Seq(Entry)
    OBVIOUS
  <2>5. Len(s) = N /\ Len(t) = N + 1
    BY <1>4, <1>5
  <2> QED BY <2>2, <2>3, <2>4, <2>5
<1>8. FlattenSeq(s) \in Seq(Entry) /\ FlattenSeq(Append(s, <<>>)) = FlattenSeq(s)
  BY <1>1, <1>4, FlattenGrow
<1> QED BY <1>2, <1>4, <1>5, <1>7, <1>8, Zenon DEF DeliveredOf

\* What is said of a contract when one more event is told.
LEMMA HistoryAppend ==
  ASSUME NEW list \in Seq(Entry), NEW entry \in Entry, NEW c
  PROVE  History(Append(list, entry), c) =
           IF entry.event.id = c THEN Append(History(list, c), entry.event.status)
                                 ELSE History(list, c)
<1>1. PICK long : long = Append(list, entry)
  OBVIOUS
<1>2. /\ Len(list) \in Nat /\ DOMAIN list = 1 .. Len(list)
      /\ DOMAIN long = 1 .. Len(list) + 1 /\ long[Len(list) + 1] = entry
      /\ \A i \in 1 .. Len(list) : i \in DOMAIN long /\ long[i] = list[i]
      /\ Len(list) + 1 \in DOMAIN long
  BY <1>1
<1>3. PICK places : places = {i \in DOMAIN list : list[i].event.id = c}
  OBVIOUS
<1>4. PICK more : more = {i \in DOMAIN long : long[i].event.id = c}
  OBVIOUS
<1>5. \A i \in 1 .. Len(list) : i \in places <=> i \in more
  BY <1>2, <1>3, <1>4, Zenon
<1>6. Len(list) + 1 \in more <=> entry.event.id = c
  BY <1>2, <1>4, Zenon
<1>7. PICK told : told = Picked(list, places)
  OBVIOUS
<1>8. /\ told \in Seq(Entry)
      /\ Picked(long, more) = IF Len(list) + 1 \in more THEN Append(told, entry) ELSE told
  BY <1>1, <1>5, <1>7, PickedAppend
<1>9. /\ History(list, c) = [i \in DOMAIN told |-> told[i].event.status]
      /\ History(long, c) =
           [i \in DOMAIN Picked(long, more) |-> Picked(long, more)[i].event.status]
  BY <1>3, <1>4, <1>7, Zenon DEF History
<1>10. CASE entry.event.id = c
  <2>1. PICK t : t = Append(told, entry)
    OBVIOUS
  <2>2. Picked(long, more) = t
    BY <1>6, <1>8, <1>10, <2>1, Zenon
  <2>3. [i \in DOMAIN t |-> t[i].event.status]
          = Append([i \in DOMAIN told |-> told[i].event.status], entry.event.status)
    <3>1. PICK n \in Nat : n = Len(told) /\ DOMAIN told = 1 .. n
      BY <1>8
    <3>2. /\ DOMAIN t = 1 .. n + 1 /\ t[n + 1] = entry
          /\ \A i \in 1 .. n : t[i] = told[i]
      BY <1>8, <2>1, <3>1
    <3>3. PICK h : h = [i \in 1 .. n |-> told[i].event.status]
      OBVIOUS
    <3>4. PICK k : k = [i \in 1 .. n + 1 |-> t[i].event.status]
      OBVIOUS
    <3>5. \A i \in 1 .. n : told[i] \in Entry
      BY <1>8, <3>1
    <3>6. h \in Seq(Statuses) /\ Len(h) = n
      <4>1. \A i \in 1 .. n : told[i].event.status \in Statuses
        BY <3>5 DEF Entry, Event
      <4> QED BY <3>3, <4>1
    <3>7. k[n + 1] = entry.event.status /\ \A i \in 1 .. n : k[i] = h[i]
      BY <3>2, <3>3, <3>4
    <3>8. k = Append(h, entry.event.status)
      <4>1. PICK g : g = Append(h, entry.event.status)
        OBVIOUS
      <4>2. /\ g = [i \in 1 .. n + 1 |-> g[i]]
            /\ g[n + 1] = entry.event.status
            /\ \A i \in 1 .. n : g[i] = h[i]
        BY <3>6, <4>1
      <4>3. \A i \in 1 .. n + 1 : i \in 1 .. n \/ i = n + 1
        OBVIOUS
      <4>4. \A i \in 1 .. n + 1 : g[i] = k[i]
        BY <3>7, <4>2, <4>3, Zenon
      <4>5. k = [i \in 1 .. n + 1 |-> k[i]]
        BY <3>4, Zenon
      <4> QED BY <4>1, <4>2, <4>4, <4>5, Zenon
    <3> QED BY <3>1, <3>2, <3>3, <3>4, <3>8, Zenon
  <2> QED BY <1>1, <1>9, <1>10, <2>2, <2>3, Zenon
<1>11. CASE entry.event.id # c
  <2>1. Picked(long, more) = told
    BY <1>6, <1>8, <1>11, Zenon
  <2> QED BY <1>1, <1>9, <1>11, <2>1, Zenon
<1> QED BY <1>10, <1>11

\* The first block bears no event.
LEMMA InitTell == Init => TellInv
<1> SUFFICES ASSUME Init PROVE TellInv
  OBVIOUS
<1>1. IInv
  BY InitIInv
<1>2. EventsFit
  BY DEF Init, EventsFit, Waiting
<1>3. PICK first : first = [event |-> NoEvent, valid |-> TRUE]
  OBVIOUS
<1>4. first \in Entry /\ ~Kept(first)
  BY <1>3 DEF Entry, Event, NoEvent, Names, Statuses, Kept, FilteredActions
<1>5. chain = << <<first>> >>
  BY <1>3 DEF Init
<1>6. ChainOK
  BY <1>4, <1>5 DEF ChainOK
<1>7. PICK bare : bare = << <<>> >>
  OBVIOUS
<1>8. bare \in Seq(Seq(Entry)) /\ Len(bare) = 1 /\ bare[1] = <<>>
  BY <1>7
<1>9. chain \in Seq(Seq(Entry)) /\ Len(chain) = 1 /\ chain[1] = Append(<<>>, first)
  BY <1>4, <1>5
<1>10. Longer(bare, chain, first)
  BY <1>8, <1>9 DEF Longer
<1>11. DeliveredOf(chain) = DeliveredOf(bare)
  <2>1. Len(bare) > 0
    BY <1>8
  <2> QED BY <1>4, <1>8, <1>9, <1>10, <2>1, DeliveredMore
<1>12. DeliveredOf(bare) = <<>>
  <2>1. GetPrepareCrossTxs(<<>>) = <<>>
    BY PickedNone, Zenon DEF GetPrepareCrossTxs
  <2>2. KeptOf(bare) = << <<>> >>
    BY <1>8, <2>1, KeptType
  <2> QED BY <2>2 DEF DeliveredOf, FlattenSeq
<1>13. \A c : History(<<>>, c) = <<>>
  BY PickedNone DEF History
<1>14. \A c \in Contracts : state[c] = Gone
  BY Apart DEF Init, Keys
<1>15. EventsTellState
  BY <1>11, <1>12, <1>13, <1>14, StandingSteps, TellState, Zenon
<1> QED BY <1>1, <1>2, <1>6, <1>15 DEF TellInv

\* A step that leaves the chain and the contracts alone changes nothing that is told.
LEMMA ToldKept ==
  ASSUME TellInv, UNCHANGED <<chain, state>>
  PROVE  ChainOK' /\ EventsTellState'
<1>1. ChainOK'
  BY DEF TellInv, ChainOK
<1>2. \A c \in Contracts : History(DeliveredOf(chain), c) = Standing(state[c])
  BY TellState DEF TellInv
<1>3. \A c \in Contracts : History(DeliveredOf(chain'), c) = Standing(state'[c])
  BY <1>2
<1> QED BY <1>1, <1>3, TellNext

\* A call that is endorsed says what it writes.
LEMMA EndorseTell ==
  \A reads, writes, event, moves :
    TellInv /\ IInv' /\ EventFits(event, writes) /\ Endorse(reads, writes, event, moves) => TellInv'
<1> SUFFICES ASSUME NEW reads, NEW writes, NEW event, NEW moves,
                    TellInv, IInv', EventFits(event, writes), Endorse(reads, writes, event, moves)
             PROVE  TellInv'
  OBVIOUS
<1>0. PICK new : new = [id |-> calls, reads |-> [k \in reads |-> version[k]],
                        writes |-> writes, event |-> event, moves |-> moves]
  OBVIOUS
<1>1. /\ block = <<>> /\ block' = <<>> /\ pool' = pool \cup {new}
      /\ UNCHANGED <<state, chain>>
  BY <1>0 DEF Endorse, world
<1>2. Waiting' = Waiting \cup {new}
  BY <1>1 DEF Waiting
<1>3. new.writes = writes /\ new.event = event
  BY <1>0
<1>4. EventsFit'
  BY <1>2, <1>3 DEF TellInv, EventsFit
<1> QED BY <1>1, <1>4, ToldKept DEF TellInv

\* A call that writes to accounts only, and tells of no contract.
LEMMA SaysNothing ==
  ASSUME NEW event \in Event, \A c \in Contracts : ~Tells(event, c),
         NEW writes, DOMAIN writes \subseteq Accounts
  PROVE  EventFits(event, writes)
BY Apart DEF EventFits

\* The events of the chaincode's functions.
LEMMA EventTypes ==
  /\ NoEvent \in Event /\ \A c : ~Tells(NoEvent, c)
  /\ Named("evtTransfer") \in Event /\ \A c : ~Tells(Named("evtTransfer"), c)
  /\ \A c \in Contracts \cup DOMAIN Requests, name \in Names, s \in Statuses :
       /\ ContractEvent(name, c, s) \in Event
       /\ ContractEvent(name, c, s).name = name /\ ContractEvent(name, c, s).id = c
       /\ ContractEvent(name, c, s).status = s
BY DEF NoEvent, Named, ContractEvent, Event, Names, Statuses, Tells, FilterEvents

\* Every call says what it writes.
LEMMA CallTell ==
  ASSUME RequestsApart,
         TellInv, IInv', \/ \E t \in Transfers : Invoke(t)
                         \/ \E a \in Accounts : Delete(a)
                         \/ \E c \in Contracts : Precommit(c) \/ RegularCommit(c)
                         \/ \E r \in DOMAIN Requests : OutchainCommit(r)
  PROVE  TellInv'
<1>1. IInv
  BY DEF TellInv
<1>2. EventFits(NoEvent, <<>>)
  BY EventTypes, SaysNothing
<1>3. ASSUME NEW t \in Transfers, Invoke(t) PROVE TellInv'
  <2>1. t \in Transfer
    BY ChaincodeAssumption DEF ChaincodeAssumption
  <2>2. CASE Found(t)
    <3>1. DOMAIN Writes(t) \subseteq Accounts
      BY <1>1, <2>1, <2>2, TransferFacts
    <3>2. EventFits(Named("evtTransfer"), Writes(t))
      BY <3>1, EventTypes, SaysNothing
    <3> QED BY <1>3, <2>2, <3>2, EndorseTell DEF Invoke
  <2>3. CASE ~Found(t)
    BY <1>2, <1>3, <2>3, EndorseTell DEF Invoke
  <2> QED BY <2>2, <2>3
<1>4. ASSUME NEW a \in Accounts, Delete(a) PROVE TellInv'
  <2>1. DOMAIN PutState(a, Gone, <<>>) = {a}
    BY DEF PutState
  <2>2. EventFits(NoEvent, PutState(a, Gone, <<>>))
    BY <2>1, EventTypes, SaysNothing
  <2> QED BY <1>4, <2>2, EndorseTell DEF Delete
<1>5. ASSUME NEW c \in Contracts, Precommit(c) PROVE TellInv'
  <2> DEFINE writes == PutState(c, "Init", <<>>)
             event  == ContractEvent("precommit", c, "Init")
  <2>1. DOMAIN writes = {c} /\ writes[c] = "Init"
    BY DEF PutState
  <2>2. event \in Event /\ event.name = "precommit" /\ event.id = c /\ event.status = "Init"
    BY EventTypes DEF Names, Statuses
  <2>3. EventFits(event, writes)
    <3> HIDE DEF event, writes
    <3> QED BY <2>1, <2>2 DEF EventFits, Tells, FilterEvents
  <2> QED BY <1>5, <2>3, EndorseTell DEF Precommit
<1>6. ASSUME NEW c \in Contracts, RegularCommit(c) PROVE TellInv'
  <2>1. CASE Endorse({c}, <<>>, NoEvent, 0)
    BY <1>2, <2>1, EndorseTell
  <2>2. CASE /\ Terms[c].call = "invoke" /\ Found(Terms[c].args)
             /\ Endorse(CommitReads(c), PutState(c, "Finished", Writes(Terms[c].args)),
                        ContractEvent("commit", c, "Finished"), Minted(Terms[c].args))
    <3> DEFINE t      == Terms[c].args
               writes == PutState(c, "Finished", Writes(t))
               event  == ContractEvent("commit", c, "Finished")
    <3>1. t \in Transfer
      BY <2>2, ChaincodeAssumption DEF ChaincodeAssumption
    <3>2. /\ DOMAIN writes = {c, t.from, t.to} /\ {t.from, t.to} \subseteq Accounts
          /\ writes[c] = "Finished"
      BY <1>1, <2>2, <3>1, CommitWrites
    <3>3. event \in Event /\ event.name = "commit" /\ event.id = c /\ event.status = "Finished"
      BY EventTypes DEF Names, Statuses
    <3>4. EventFits(event, writes)
      <4> HIDE DEF event, writes, t
      <4> QED BY <3>2, <3>3, Apart DEF EventFits, Tells, FilterEvents
    <3> QED BY <2>2, <3>4, EndorseTell
  <2> QED BY <1>6, <2>1, <2>2 DEF RegularCommit
<1>7. ASSUME NEW r \in DOMAIN Requests, OutchainCommit(r) PROVE TellInv'
  <2>1. Requests[r] \in Transfer /\ Found(Requests[r])
    BY <1>7, ChaincodeAssumption DEF ChaincodeAssumption, OutchainCommit
  <2>2. DOMAIN Writes(Requests[r]) \subseteq Accounts
    <3>1. PICK t : t = Requests[r]
      OBVIOUS
    <3>2. t \in Transfer /\ Found(t)
      BY <2>1, <3>1, Zenon
    <3>3. DOMAIN Writes(t) = {t.from, t.to} /\ {t.from, t.to} \subseteq Accounts
      BY <1>1, <3>2, TransferFacts, Zenon
    <3> QED BY <3>1, <3>3, Zenon
  <2> DEFINE event == ContractEvent("commit", r, "OutOnceCompleted")
  <2>3. event \in Event /\ event.id = r
    BY EventTypes DEF Names, Statuses
  <2>4. EventFits(event, Writes(Requests[r]))
    <3> HIDE DEF event
    <3>1. \A c \in Contracts : ~Tells(event, c)
      BY <2>3 DEF Tells, RequestsApart
    <3> QED BY <2>2, <2>3, <3>1, SaysNothing
  <2> QED BY <1>7, <2>4, EndorseTell DEF OutchainCommit
<1> QED BY <1>3, <1>4, <1>5, <1>6, <1>7

\* A new block tells nothing yet.
LEMMA CutBlockTell == ASSUME TellInv, IInv', CutBlock PROVE TellInv'
<1>1. Waiting' \subseteq Waiting
  BY CutBlockFacts
<1>2. chain' = Append(chain, <<>>) /\ state' = state
  BY DEF CutBlock, world
<1>3. chain \in Seq(Seq(Entry)) /\ Len(chain) > 0
  BY DEF TellInv, ChainOK
<1>4. EventsFit'
  BY <1>1 DEF TellInv, EventsFit
<1>5. ChainOK'
  <2>1. <<>> \in Seq(Entry)
    OBVIOUS
  <2> QED BY <1>2, <1>3, <2>1 DEF ChainOK
<1>6. DeliveredOf(chain') = DeliveredOf(chain)
  BY <1>2, <1>3, DeliveredSame
<1>7. EventsTellState'
  BY <1>2, <1>6, TellState, TellNext, Zenon DEF TellInv
<1> QED BY <1>4, <1>5, <1>7 DEF TellInv

\* A transaction that is validated is told after all that the chain holds.
LEMMA ValidateChain ==
  ASSUME TellInv, Validate
  PROVE  LET entry == [event |-> Head(block).event, valid |-> Current(Head(block))]
         IN /\ entry \in Entry /\ ChainOK' /\ DeliveredOf(chain) \in Seq(Entry)
            /\ DeliveredOf(chain') = IF Kept(entry) THEN Append(DeliveredOf(chain), entry)
                                                    ELSE DeliveredOf(chain)
<1> DEFINE tx == Head(block)
<1>1. PICK entry : entry = [event |-> tx.event, valid |-> Current(tx)]
  OBVIOUS
<1>2. PICK N \in Nat \ {0} : N = Len(chain)
  BY DEF TellInv, ChainOK
<1>3. chain \in Seq(Seq(Entry)) /\ Len(chain) > 0 /\ N \in 1 .. Len(chain)
  BY <1>2 DEF TellInv, ChainOK
<1>4. entry \in Entry
  <2>1. tx \in Waiting /\ tx.event \in Event
    BY HeadFacts DEF TellInv, EventsFit, EventFits
  <2>2. Current(tx) \in BOOLEAN
    BY DEF Current
  <2> HIDE DEF tx
  <2> QED BY <1>1, <2>1, <2>2 DEF Entry
<1>5. chain' = [chain EXCEPT ![N] = Append(chain[N], entry)]
  BY <1>1, <1>2 DEF Validate
<1>6. chain[N] \in Seq(Entry) /\ Append(chain[N], entry) \in Seq(Entry)
  <2>1. chain[N] \in Seq(Entry)
    BY <1>3, ElementOfSeq
  <2> QED BY <1>4, <2>1
<1>7. /\ chain' \in Seq(Seq(Entry)) /\ Len(chain') = N
      /\ chain'[N] = Append(chain[N], entry)
      /\ \A i \in 1 .. N : i # N => chain'[i] = chain[i]
  BY <1>2, <1>3, <1>5, <1>6
<1>8. Longer(chain, chain', entry)
  <2>1. \A i \in 1 .. N - 1 : i \in 1 .. N /\ i # N
    OBVIOUS
  <2>2. \A i \in 1 .. N - 1 : chain'[i] = chain[i]
    BY <1>7, <2>1, Zenon
  <2> QED BY <1>2, <1>7, <2>2, Zenon DEF Longer
<1>9. ChainOK'
  BY <1>2, <1>7 DEF ChainOK
<1>10. DeliveredOf(chain') = IF Kept(entry) THEN Append(DeliveredOf(chain), entry)
                                            ELSE DeliveredOf(chain)
  BY <1>3, <1>4, <1>7, <1>8, DeliveredMore
<1>11. DeliveredOf(chain) \in Seq(Entry)
  BY <1>3, DeliveredSame
<1> QED BY <1>1, <1>4, <1>9, <1>10, <1>11, Zenon

\* What is valid is told, and tells of a contract what it did to it.
LEMMA ValidateTell == ASSUME TellInv, IInv', Validate PROVE TellInv'
<1>1. PICK tx : tx = Head(block)
  OBVIOUS
<1>2. PICK entry : entry = [event |-> tx.event, valid |-> Current(tx)]
  OBVIOUS
<1>3. IInv /\ tx \in Waiting /\ Waiting' \subseteq Waiting
  BY <1>1, HeadFacts DEF TellInv
<1>4. EventsFit'
  BY <1>3 DEF TellInv, EventsFit
<1>5. EventFits(tx.event, tx.writes)
  BY <1>3 DEF TellInv, EventsFit
<1>6. PICK list : list = DeliveredOf(chain)
  OBVIOUS
<1>7. PICK more : more = DeliveredOf(chain')
  OBVIOUS
<1>8. /\ entry \in Entry /\ ChainOK' /\ list \in Seq(Entry)
      /\ more = IF Kept(entry) THEN Append(list, entry) ELSE list
  BY <1>1, <1>2, <1>6, <1>7, ValidateChain
<1>9. /\ entry.event = tx.event
      /\ Kept(entry) <=> Current(tx) /\ tx.event.name \in FilterEvents
  BY <1>2 DEF Kept, FilteredActions, NoEvent, FilterEvents
<1>10. \A c \in Contracts : History(list, c) = Standing(state[c])
  BY <1>6, TellState DEF TellInv
<1>11. ASSUME NEW c \in Contracts PROVE History(more, c) = Standing(state'[c])
  <2>1. CASE ~Current(tx)
    <3>1. state' = state
      BY <1>1, <2>1 DEF Validate
    <3> QED BY <1>8, <1>9, <1>10, <2>1, <3>1
  <2>2. CASE Current(tx) /\ c \in DOMAIN tx.writes
    <3>1. Tells(tx.event, c) /\ tx.event.status = tx.writes[c]
      BY <1>5, <2>2 DEF EventFits
    <3>2. more = Append(list, entry)
      BY <1>8, <1>9, <2>2, <3>1 DEF Tells
    <3>3. History(more, c) = Append(History(list, c), tx.event.status)
      <4>1. entry.event.id = c /\ entry.event.status = tx.event.status
        BY <1>9, <3>1 DEF Tells
      <4> QED BY <1>8, <3>2, <4>1, HistoryAppend
    <3>4. \/ Creates(tx, c) /\ state[c] = Gone /\ state'[c] = "Init"
          \/ Finishes(tx, c) /\ state[c] = "Init" /\ state'[c] = "Finished"
      BY <1>1, <1>3, <2>2, ContractStep
    <3>5. \/ tx.event.status = "Init" /\ state[c] = Gone /\ state'[c] = "Init"
          \/ tx.event.status = "Finished" /\ state[c] = "Init" /\ state'[c] = "Finished"
      BY <3>1, <3>4 DEF Creates, Finishes
    <3> QED BY <1>10, <3>3, <3>5, StandingSteps
  <2>3. CASE Current(tx) /\ c \notin DOMAIN tx.writes
    <3>1. state'[c] = state[c]
      BY <1>1, <1>3, <2>3, ContractStep DEF Creates, Finishes
    <3>2. ~Tells(tx.event, c)
      BY <1>5, <2>3 DEF EventFits
    <3>3. History(more, c) = History(list, c)
      <4>1. CASE Kept(entry)
        <5>1. entry.event.id # c
          BY <1>9, <3>2, <4>1 DEF Tells
        <5> QED BY <1>8, <4>1, <5>1, HistoryAppend
      <4>2. CASE ~Kept(entry)
        BY <1>8, <4>2
      <4> QED BY <4>1, <4>2
    <3> QED BY <1>10, <3>1, <3>3
  <2> QED BY <2>1, <2>2, <2>3
<1>12. EventsTellState'
  BY <1>7, <1>11, TellNext
<1> QED BY <1>4, <1>8, <1>12 DEF TellInv

\* However calls overlap and are put into blocks, a courier that reads all blocks is
\* told of each contract what its state is, once for each change and in order
\* (GetPrepareCrossTxs).
THEOREM Chaincode_EventsTellState == RequestsApart => (Spec => []EventsTellState)
<1> SUFFICES ASSUME RequestsApart PROVE Spec => []EventsTellState
  OBVIOUS
<1>1. Init => TellInv
  BY InitTell
<1>2. TellInv /\ [Next]_vars => TellInv'
  <2> SUFFICES ASSUME TellInv, [Next]_vars PROVE TellInv'
    OBVIOUS
  <2>1. IInv'
    BY NextIInv DEF TellInv
  <2>2. CASE UNCHANGED vars
    <3>1. UNCHANGED <<chain, state, pool, block>>
      BY <2>2 DEF vars, world
    <3>2. EventsFit'
      BY <3>1 DEF TellInv, EventsFit, Waiting
    <3> QED BY <2>1, <3>1, <3>2, ToldKept DEF TellInv
  <2> QED BY <2>1, <2>2, CallTell, CutBlockTell, ValidateTell DEF Next
<1>3. TellInv => EventsTellState
  BY DEF TellInv
<1> QED BY <1>1, <1>2, <1>3, PTL DEF Spec

-----------------------------------------------------------------------------
(* What payments do to accounts. *)

\* An account that is there has been written, and its version says when.
Live == \A a \in Accounts : state[a] # Gone => version[a] > 0

\* The payments of calls: those that are asked for and those of contracts.
Asked == Transfers \cup Range(Requests)
Payments == Asked \cup {Terms[c].args : c \in {d \in Contracts : Terms[d].call = "invoke"}}

\* A call that writes no contract makes a payment that is asked for, another the
\* one of its contract.
Owed(writes, t) ==
  \/ DOMAIN writes \cap Contracts = {} /\ t \in Asked
  \/ \E c \in Contracts \cap DOMAIN writes : Terms[c].call = "invoke" /\ t = Terms[c].args

\* A call leaves the accounts alone, deletes one, or pays: what a payment writes is
\* what doInvoke would write now, unless one of the two accounts has a new version.
PayOK(tx) ==
  \/ DOMAIN tx.writes \cap Accounts = {} /\ tx.moves = 0
  \/ \E a \in Accounts :
       DOMAIN tx.writes = {a} /\ tx.writes[a] = Gone /\ tx.moves = 0
  \/ \E t \in Payments :
       /\ Owed(tx.writes, t)
       /\ tx.moves = Minted(t) /\ DOMAIN tx.writes \cap Accounts = {t.from, t.to}
       /\ \A a \in {t.from, t.to} : a \in DOMAIN tx.reads /\ tx.reads[a] \in 1 .. height
       /\ (\A a \in {t.from, t.to} : tx.reads[a] = version[a]) =>
            Found(t) /\ \A a \in {t.from, t.to} : tx.writes[a] = Writes(t)[a]

PayInv == IInv /\ Live /\ \A tx \in Waiting : PayOK(tx)

-----------------------------------------------------------------------------

\* Every payment is a transfer between accounts.
LEMMA PaymentsTransfer == \A t \in Payments : t \in Transfer
BY ChaincodeAssumption DEF ChaincodeAssumption, Payments, Asked, Range

\* What doInvoke would write depends on the two accounts only.
LEMMA WritesKept ==
  ASSUME NEW t \in Transfer, state'[t.from] = state[t.from], state'[t.to] = state[t.to]
  PROVE  Writes(t)' = Writes(t) /\ (Found(t) <=> Found(t)')
BY DEF Writes, Found, PutState

\* Before the first call all accounts are there.
LEMMA InitPay == Init => PayInv
<1> SUFFICES ASSUME Init PROVE PayInv
  OBVIOUS
<1>1. Live
  BY DEF Init, Live, Keys
<1>2. Waiting = {}
  BY DEF Init, Waiting
<1> QED BY <1>1, <1>2, InitIInv DEF PayInv

\* A call that is endorsed.
NewPayOK(reads, writes, moves) ==
  \/ DOMAIN writes \cap Accounts = {} /\ moves = 0
  \/ \E a \in Accounts : DOMAIN writes = {a} /\ writes[a] = Gone /\ moves = 0
  \/ \E t \in Payments :
       /\ Owed(writes, t) /\ Found(t) /\ moves = Minted(t) /\ DOMAIN writes \cap Accounts = {t.from, t.to}
       /\ \A a \in {t.from, t.to} : a \in reads /\ writes[a] = Writes(t)[a]

\* A call that is endorsed computes with the balances there are.
LEMMA EndorsePay ==
  \A reads, writes, event, moves :
    PayInv /\ IInv' /\ NewPayOK(reads, writes, moves) /\ Endorse(reads, writes, event, moves) => PayInv'
<1> SUFFICES ASSUME NEW reads, NEW writes, NEW event, NEW moves,
                    PayInv, IInv', NewPayOK(reads, writes, moves), Endorse(reads, writes, event, moves)
             PROVE  PayInv'
  OBVIOUS
<1>0. PICK new : new = [id |-> calls, reads |-> [k \in reads |-> version[k]],
                        writes |-> writes, event |-> event, moves |-> moves]
  OBVIOUS
<1>1. /\ block = <<>> /\ block' = <<>> /\ pool' = pool \cup {new}
      /\ UNCHANGED <<state, version, height>>
  BY <1>0 DEF Endorse, world
<1>2. Waiting' = Waiting \cup {new}
  BY <1>1 DEF Waiting
<1>3. /\ new.writes = writes /\ DOMAIN new.reads = reads /\ new.moves = moves
      /\ \A k \in reads : new.reads[k] = version[k]
  BY <1>0
<1>4. Live'
  BY <1>1 DEF PayInv, Live
<1>5. \A t \in Transfer : Writes(t)' = Writes(t) /\ (Found(t) <=> Found(t)')
  BY <1>1, WritesKept
<1>6. \A tx \in Waiting : PayOK(tx)'
  BY <1>1, <1>5, PaymentsTransfer DEF PayInv, PayOK, Owed, Asked
<1>7. PayOK(new)'
  <2>1. CASE DOMAIN writes \cap Accounts = {} /\ moves = 0
    BY <1>3, <2>1 DEF PayOK
  <2>2. CASE \E a \in Accounts :
               DOMAIN writes = {a} /\ writes[a] = Gone /\ moves = 0
    BY <1>3, <2>2 DEF PayOK
  <2>3. ASSUME NEW t \in Payments,
               Owed(writes, t), Found(t), moves = Minted(t), DOMAIN writes \cap Accounts = {t.from, t.to},
               \A a \in {t.from, t.to} : a \in reads /\ writes[a] = Writes(t)[a]
        PROVE  PayOK(new)'
    <3>1. t \in Transfer /\ t.from \in Accounts /\ t.to \in Accounts
      BY PaymentsTransfer DEF Transfer
    <3>2. \A a \in {t.from, t.to} : version[a] \in 1 .. height
      <4>1. \A a \in {t.from, t.to} : version[a] \in 0 .. height /\ version[a] > 0
        BY <2>3, <3>1 DEF PayInv, Live, IInv, WorldOK, Found, Keys
      <4>2. height \in Nat
        BY DEF PayInv, IInv, WorldOK
      <4> QED BY <4>1, <4>2
    <3> QED BY <1>1, <1>3, <1>5, <2>3, <3>1, <3>2 DEF PayOK, Owed, Asked
  <2> QED BY <2>1, <2>2, <2>3 DEF NewPayOK
<1> QED BY <1>2, <1>4, <1>6, <1>7 DEF PayInv

\* Every call pays, deletes, or leaves the accounts alone.
LEMMA CallPay ==
  ASSUME PayInv, IInv', \/ \E t \in Transfers : Invoke(t)
                        \/ \E a \in Accounts : Delete(a)
                        \/ \E c \in Contracts : Precommit(c) \/ RegularCommit(c)
                        \/ \E r \in DOMAIN Requests : OutchainCommit(r)
  PROVE  PayInv'
<1>1. IInv
  BY DEF PayInv
<1>2. \A reads : NewPayOK(reads, <<>>, 0)
  BY DEF NewPayOK
<1>3. ASSUME NEW t \in Asked, Found(t) PROVE NewPayOK(Reads(t), Writes(t), Minted(t))
  <2>0. t \in Payments
    BY DEF Payments
  <2>1. /\ DOMAIN Writes(t) = {t.from, t.to} /\ {t.from, t.to} \subseteq Accounts
    BY <1>1, <1>3, <2>0, PaymentsTransfer, TransferFacts
  <2>2. Reads(t) = {t.from, t.to}
    BY <1>3 DEF Reads, Found
  <2>3. Owed(Writes(t), t)
    BY <2>1, Apart DEF Owed
  <2> QED BY <1>3, <2>0, <2>1, <2>2, <2>3 DEF NewPayOK
<1>4. ASSUME NEW t \in Transfers, Invoke(t) PROVE PayInv'
  <2>1. CASE Found(t)
    BY <1>3, <1>4, <2>1, EndorsePay DEF Invoke, Asked
  <2>2. CASE ~Found(t)
    BY <1>2, <1>4, <2>2, EndorsePay DEF Invoke
  <2> QED BY <2>1, <2>2
<1>5. ASSUME NEW a \in Accounts, Delete(a) PROVE PayInv'
  <2>1. DOMAIN PutState(a, Gone, <<>>) = {a} /\ PutState(a, Gone, <<>>)[a] = Gone
    BY DEF PutState
  <2>2. NewPayOK({}, PutState(a, Gone, <<>>), 0)
    BY <2>1 DEF NewPayOK
  <2> QED BY <1>5, <2>2, EndorsePay DEF Delete
<1>6. ASSUME NEW c \in Contracts, Precommit(c) PROVE PayInv'
  <2>1. DOMAIN PutState(c, "Init", <<>>) = {c}
    BY DEF PutState
  <2>2. NewPayOK({}, PutState(c, "Init", <<>>), 0)
    BY <2>1, Apart DEF NewPayOK
  <2> QED BY <1>6, <2>2, EndorsePay DEF Precommit
<1>7. ASSUME NEW c \in Contracts, RegularCommit(c) PROVE PayInv'
  <2>1. CASE Endorse({c}, <<>>, NoEvent, 0)
    BY <1>2, <2>1, EndorsePay
  <2>2. CASE /\ Terms[c].call = "invoke" /\ Found(Terms[c].args)
             /\ Endorse(CommitReads(c), PutState(c, "Finished", Writes(Terms[c].args)),
                        ContractEvent("commit", c, "Finished"), Minted(Terms[c].args))
    <3> DEFINE t      == Terms[c].args
               writes == PutState(c, "Finished", Writes(t))
    <3>1. t \in Payments /\ t \in Transfer
      BY <2>2, PaymentsTransfer DEF Payments
    <3>2. /\ DOMAIN writes = {c, t.from, t.to} /\ {t.from, t.to} \subseteq Accounts
          /\ c \notin Accounts
      BY <1>1, <2>2, <3>1, CommitWrites
    <3>3. DOMAIN Writes(t) = {t.from, t.to}
      BY <1>1, <2>2, <3>1, TransferFacts
    <3>4. \A a \in {t.from, t.to} : writes[a] = Writes(t)[a]
      BY <3>2, <3>3 DEF PutState
    <3>5. Reads(t) = {t.from, t.to} /\ Found(t)
      BY <2>2 DEF Reads, Found
    <3>6. NewPayOK(CommitReads(c), writes, Minted(t))
      <4> HIDE DEF t, writes
      <4>1. Owed(writes, t)
        BY <2>2, <3>2 DEF Owed, t
      <4> QED BY <3>1, <3>2, <3>4, <3>5, <4>1 DEF NewPayOK, CommitReads, t
    <3> QED BY <2>2, <3>6, EndorsePay
  <2> QED BY <1>7, <2>1, <2>2 DEF RegularCommit
<1>8. ASSUME NEW r \in DOMAIN Requests, OutchainCommit(r) PROVE PayInv'
  <2>1. Requests[r] \in Asked /\ Found(Requests[r])
    BY <1>8 DEF OutchainCommit, Asked, Range
  <2> QED BY <1>3, <1>8, <2>1, EndorsePay DEF OutchainCommit
<1> QED BY <1>4, <1>5, <1>6, <1>7, <1>8

\* Ordering changes no account and no call.
LEMMA CutBlockPay == ASSUME PayInv, IInv', CutBlock PROVE PayInv'
<1>1. Waiting' \subseteq Waiting
  BY CutBlockFacts
<1>2. UNCHANGED <<state, version, height>>
  BY DEF CutBlock, world
<1>3. \A t \in Transfer : Writes(t)' = Writes(t) /\ (Found(t) <=> Found(t)')
  BY <1>2, WritesKept
<1> QED BY <1>1, <1>2, <1>3, PaymentsTransfer DEF PayInv, Live, PayOK, Owed, Asked

\* A payment that is current finds the balances it computed with, and gives the two
\* accounts versions that no waiting payment has read.
LEMMA ValidatePay == ASSUME PayInv, IInv', Validate PROVE PayInv'
<1> DEFINE tx == Head(block)
<1>1. tx \in Waiting /\ Waiting' \subseteq Waiting
  BY HeadFacts DEF PayInv
<1>2. height \in Nat /\ height' = height + 1
  BY DEF Validate, PayInv, IInv, WorldOK
<1>3. CASE ~Current(tx)
  <2>1. UNCHANGED <<state, version>>
    BY <1>3 DEF Validate
  <2>2. \A t \in Transfer : Writes(t)' = Writes(t) /\ (Found(t) <=> Found(t)')
    BY <2>1, WritesKept
  <2>3. \A ty \in Waiting : PayOK(ty)'
    BY <1>2, <2>1, <2>2, PaymentsTransfer DEF PayInv, PayOK, Owed, Asked
  <2> QED BY <1>1, <2>1, <2>3 DEF PayInv, Live
<1>4. CASE Current(tx)
  <2>1. /\ state' = [k \in Keys |-> IF k \in DOMAIN tx.writes THEN tx.writes[k] ELSE state[k]]
        /\ version' = [k \in Keys |-> IF k \in DOMAIN tx.writes
                                      THEN IF tx.writes[k] = Gone THEN 0 ELSE height'
                                      ELSE version[k]]
    BY <1>4 DEF Validate
  <2> HIDE DEF tx
  <2>2. \A a \in Accounts : \/ version'[a] = 0 \/ version'[a] = height'
                            \/ version'[a] = version[a] /\ state'[a] = state[a]
    BY <2>1 DEF Keys
  <2>3. Live'
    BY <1>2, <2>1 DEF PayInv, Live, Keys
  <2>4. ASSUME NEW ty \in Waiting PROVE PayOK(ty)'
    <3>1. PayOK(ty)
      BY DEF PayInv
    <3>2. ASSUME NEW t \in Payments, Owed(ty.writes, t), ty.moves = Minted(t),
                 DOMAIN ty.writes \cap Accounts = {t.from, t.to},
                 \A a \in {t.from, t.to} : a \in DOMAIN ty.reads /\ ty.reads[a] \in 1 .. height,
                 (\A a \in {t.from, t.to} : ty.reads[a] = version[a]) =>
                    Found(t) /\ \A a \in {t.from, t.to} : ty.writes[a] = Writes(t)[a]
          PROVE  PayOK(ty)'
      <4>1. t \in Transfer /\ t.from \in Accounts /\ t.to \in Accounts
        BY PaymentsTransfer DEF Transfer
      <4>2. \A a \in {t.from, t.to} : ty.reads[a] \in 1 .. height'
        BY <1>2, <3>2
      <4>3. ASSUME \A a \in {t.from, t.to} : ty.reads[a] = version'[a]
            PROVE  Found(t)' /\ \A a \in {t.from, t.to} : ty.writes[a] = Writes(t)'[a]
        <5>1. \A a \in {t.from, t.to} : version'[a] = version[a] /\ state'[a] = state[a]
          BY <1>2, <2>2, <3>2, <4>1, <4>3
        <5>2. Writes(t)' = Writes(t) /\ (Found(t) <=> Found(t)')
          BY <4>1, <5>1, WritesKept
        <5> QED BY <3>2, <4>3, <5>1, <5>2
      <4> QED BY <3>2, <4>2, <4>3 DEF PayOK, Owed, Asked
    <3> QED BY <3>1, <3>2 DEF PayOK
  <2> QED BY <1>1, <2>3, <2>4 DEF PayInv
<1> QED BY <1>3, <1>4

\* Every step keeps PayInv.
LEMMA NextPay == PayInv /\ [Next]_vars => PayInv'
<1> SUFFICES ASSUME PayInv, [Next]_vars PROVE PayInv'
  OBVIOUS
<1>1. IInv'
  BY NextIInv DEF PayInv
<1>2. CASE UNCHANGED vars
  <2>1. UNCHANGED <<state, version, height, pool, block>>
    BY <1>2 DEF vars, world
  <2>2. Waiting' = Waiting
    BY <2>1 DEF Waiting
  <2>3. \A t \in Transfer : Writes(t)' = Writes(t) /\ (Found(t) <=> Found(t)')
    BY <2>1, WritesKept
  <2> QED BY <1>1, <2>1, <2>2, <2>3, PaymentsTransfer DEF PayInv, Live, PayOK, Owed, Asked
<1> QED BY <1>1, <1>2, CallPay, CutBlockPay, ValidatePay DEF Next

\* What a call that is current does to the accounts: nothing, or it takes one away,
\* or it makes the payment it owes with the balances there are.
LEMMA AccountStep ==
  ASSUME PayInv, Validate, Current(Head(block))
  PROVE  \/ ~Pays(Head(block)) /\ Balances' = Balances
         \/ \E a \in Accounts : DOMAIN Head(block).writes = {a} /\ Balances' = [Balances EXCEPT ![a] = Gone]
         \/ \E t : Pays(Head(block)) /\ Owed(Head(block).writes, t) /\ Promised!Pay(t)
<1> DEFINE tx == Head(block)
<1>1. state' = [k \in Keys |-> IF k \in DOMAIN tx.writes THEN tx.writes[k] ELSE state[k]]
  BY DEF Validate
<1>2. PayOK(tx)
  BY HeadFacts DEF PayInv
<1>3. \A k \in DOMAIN tx.reads : tx.reads[k] = version[k]
  BY DEF Current
<1> HIDE DEF tx
<1>4. Balances' = [a \in Accounts |-> IF a \in DOMAIN tx.writes THEN tx.writes[a] ELSE Balances[a]]
  BY <1>1 DEF Balances, Keys
<1>5. CASE DOMAIN tx.writes \cap Accounts = {}
  BY <1>4, <1>5 DEF Pays, Balances, tx
<1>6. ASSUME NEW a \in Accounts, DOMAIN tx.writes = {a}, tx.writes[a] = Gone
      PROVE  DOMAIN tx.writes = {a} /\ Balances' = [Balances EXCEPT ![a] = Gone]
  BY <1>4, <1>6 DEF Balances
<1>7. ASSUME NEW t \in Payments, Owed(tx.writes, t),
             DOMAIN tx.writes \cap Accounts = {t.from, t.to},
             \A a \in {t.from, t.to} : a \in DOMAIN tx.reads,
             (\A a \in {t.from, t.to} : tx.reads[a] = version[a]) =>
                Found(t) /\ \A a \in {t.from, t.to} : tx.writes[a] = Writes(t)[a]
      PROVE  Pays(tx) /\ Promised!Pay(t)
  <2>1. Found(t) /\ \A a \in {t.from, t.to} : tx.writes[a] = Writes(t)[a]
    BY <1>3, <1>7
  <2>2. t \in Transfer
    BY PaymentsTransfer
  <2>3. /\ {t.from, t.to} \subseteq Accounts /\ Writes(t)[t.to] = state[t.to] + t.value
        /\ t.from # t.to => Writes(t)[t.from] = state[t.from] - t.value
    BY <2>1, <2>2, TransferFacts DEF PayInv
  <2>4. Balances' = [a \in Accounts |-> IF a = t.to THEN Balances[a] + t.value
                                        ELSE IF a = t.from THEN Balances[a] - t.value ELSE Balances[a]]
    <3>1. \A a \in Accounts : a \in DOMAIN tx.writes <=> a = t.to \/ a = t.from
      BY <1>7
    <3>2. \A a \in Accounts : Balances[a] = state[a]
      BY DEF Balances
    <3> QED BY <1>4, <2>1, <2>3, <3>1, <3>2
  <2>5. Balances[t.from] # Gone /\ Balances[t.to] # Gone
    BY <2>1, <2>3 DEF Balances, Found
  <2> QED BY <1>7, <2>4, <2>5 DEF Pays, Promised!Pay
<1> QED BY <1>2, <1>5, <1>6, <1>7 DEF PayOK, tx

\* Calls that overlap, of any accounts and contracts and in any order, are as good as
\* calls made one after the other (module Agreement): none is computed with a state
\* that has changed since, and a contract's payment is made with the contract.
THEOREM Chaincode_KeepsAgreement == Spec => KeepsAgreement
<1>1. Init => Promised!Init
  <2> SUFFICES ASSUME Init PROVE Promised!Init
    OBVIOUS
  <2>1. Status = [c \in Contracts |-> "none"] /\ paid = [c \in Contracts |-> 0]
    BY ChaincodeAssumption DEF Init, Status, Keys, ChaincodeAssumption
  <2>2. Balances = Opening
    BY ChaincodeAssumption DEF Init, Balances, Keys, ChaincodeAssumption
  <2> QED BY <2>1, <2>2 DEF Promised!Init
<1>2. PayInv /\ [Next]_vars => [Promised!Next]_<<Promised!deal, Balances>>
  <2> SUFFICES ASSUME PayInv, [Next]_vars
               PROVE  Promised!Next \/ (Status' = Status /\ paid' = paid /\ Balances' = Balances)
    BY DEF Promised!deal
  <2>0. IInv
    BY DEF PayInv
  <2>1. CASE Validate /\ Current(Head(block))
    <3> DEFINE tx == Head(block)
    <3>1. \A c \in Contracts :
          \/ /\ Creates(tx, c)
             /\ state[c] = Gone /\ state'[c] = "Init" /\ paid'[c] = paid[c]
          \/ /\ Finishes(tx, c)
             /\ state[c] = "Init" /\ state'[c] = "Finished" /\ paid'[c] = paid[c] + 1
          \/ /\ c \notin DOMAIN tx.writes
             /\ state'[c] = state[c] /\ paid'[c] = paid[c]
      BY <2>0, <2>1, ContractStep
    <3>2. /\ \A c, d \in Contracts \cap DOMAIN tx.writes : c = d
          /\ \A c \in Contracts : Creates(tx, c) => ~Pays(tx)
      <4>1. CallOK(tx) /\ \A c \in Contracts : ContractOK(tx, c)
        BY <2>0, <2>1, HeadFacts DEF IInv, CallsOK
      <4> HIDE DEF tx
      <4> QED BY <4>1 DEF CallOK, ContractOK, Creates, Finishes
    <3>3. paid = [c \in Contracts |-> paid[c]] /\ paid' = [c \in Contracts |-> paid'[c]]
      <4>1. WorldOK'
        BY <2>0, NextIInv DEF IInv
      <4> QED BY <2>0, <4>1 DEF IInv, WorldOK
    <3>4. Gone \notin {"Init", "Finished"}
      BY ChaincodeAssumption DEF ChaincodeAssumption
    <3>5. \/ ~Pays(tx) /\ Balances' = Balances
          \/ \E a \in Accounts : DOMAIN tx.writes = {a} /\ Balances' = [Balances EXCEPT ![a] = Gone]
          \/ \E t : Pays(tx) /\ Owed(tx.writes, t) /\ Promised!Pay(t)
      BY <2>1, AccountStep
    <3> HIDE DEF tx
    <3>6. CASE \A c \in Contracts : c \notin DOMAIN tx.writes
      <4>1. Status' = Status /\ paid' = paid
        BY <3>1, <3>3, <3>6 DEF Status, Creates, Finishes
      <4>2. \A t : Owed(tx.writes, t) => t \in Transfers \cup Range(Requests)
        BY <3>6 DEF Owed, Asked
      <4> QED BY <3>5, <4>1, <4>2 DEF Promised!Next, Promised!Delete, Promised!Transfer, Promised!deal
    <3>7. ASSUME NEW c \in Contracts, c \in DOMAIN tx.writes PROVE Promised!Next
      <4>1. \A d \in Contracts \ {c} : state'[d] = state[d] /\ paid'[d] = paid[d]
        BY <3>1, <3>2, <3>7 DEF Creates, Finishes
      <4>2. CASE Creates(tx, c) /\ state[c] = Gone /\ state'[c] = "Init" /\ paid'[c] = paid[c]
        <5>1. Status[c] = "none" /\ Status' = [Status EXCEPT ![c] = "Init"]
          BY <3>4, <4>1, <4>2 DEF Status
        <5>2. paid' = paid
          BY <3>3, <4>1, <4>2
        <5>3. Balances' = Balances
          BY <3>2, <3>5, <3>7, <4>2, Apart
        <5> QED BY <5>1, <5>2, <5>3 DEF Promised!Next, Promised!Precommit
      <4>3. CASE /\ Finishes(tx, c)
                 /\ state[c] = "Init" /\ state'[c] = "Finished" /\ paid'[c] = paid[c] + 1
        <5>1. Status[c] = "Init" /\ Status' = [Status EXCEPT ![c] = "Finished"]
          BY <3>4, <4>1, <4>3 DEF Status
        <5>2. paid' = [paid EXCEPT ![c] = @ + 1]
          BY <3>3, <4>1, <4>3
        <5>3. Pays(tx) /\ ~ \E a \in Accounts : DOMAIN tx.writes = {a}
          BY <3>7, <4>3, Apart DEF Finishes
        <5>4. PICK t : Owed(tx.writes, t) /\ Promised!Pay(t)
          BY <3>5, <5>3
        <5>5. Terms[c].call = "invoke" /\ t = Terms[c].args
          BY <3>2, <3>7, <5>4 DEF Owed
        <5> QED BY <5>1, <5>2, <5>4, <5>5 DEF Promised!Next, Promised!Commit
      <4> QED BY <3>1, <3>7, <4>2, <4>3
    <3> QED BY <3>6, <3>7
  <2>2. CASE Validate /\ ~Current(Head(block))
    BY <2>2 DEF Validate, Status, Balances
  <2>3. CASE UNCHANGED <<state, paid>>
    BY <2>3 DEF Status, Balances
  <2>4. Validate \/ UNCHANGED <<state, paid>>
    BY DEF Next, vars, world, Invoke, Delete, Precommit, RegularCommit, OutchainCommit, Endorse, CutBlock
  <2> QED BY <2>1, <2>2, <2>3, <2>4
<1>3. Init => PayInv
  BY InitPay
<1>4. PayInv /\ [Next]_vars => PayInv'
  BY NextPay
<1> QED BY <1>1, <1>2, <1>3, <1>4, PTL DEF Spec, KeepsAgreement, Promised!Spec

-----------------------------------------------------------------------------
(* Sums. *)

\* The fold of MapThenSumSet: g adds up f over the subsets of S, taking out one
\* element at a time.
First(s) == CHOOSE x \in s : TRUE
Adds(g, f, S) ==
  \A s \in SUBSET S : g[s] = IF s = {} THEN 0 ELSE f[First(s)] + g[s \ {First(s)}]

LEMMA FirstOut ==
  ASSUME NEW S, IsFiniteSet(S), NEW s \in SUBSET S, s # {}
  PROVE  /\ First(s) \in s /\ First(s) \in S /\ s \ {First(s)} \in SUBSET S
         /\ Cardinality(s) \in Nat \ {0}
         /\ Cardinality(s \ {First(s)}) = Cardinality(s) - 1
<1>1. First(s) \in s
  BY DEF First
<1>2. IsFiniteSet(s)
  BY FS_Subset
<1>3. QED BY <1>1, <1>2, FS_RemoveElement, FS_CardinalityType, FS_EmptySet

\* Induction over the subsets of a finite set.
LEMMA SubsetInduction ==
  ASSUME NEW S, IsFiniteSet(S), NEW G \in SUBSET SUBSET S, {} \in G,
         \A s \in SUBSET S : s # {} /\ s \ {First(s)} \in G => s \in G
  PROVE  \A s \in SUBSET S : s \in G
<1> DEFINE Done == {n \in Nat : \A s \in SUBSET S : Cardinality(s) = n => s \in G}
<1>1. 0 \in Done
  <2>1. \A s \in SUBSET S : Cardinality(s) = 0 => s = {}
    <3>1. TAKE s \in SUBSET S
    <3>2. HAVE Cardinality(s) = 0
    <3>3. QED BY <3>2, FirstOut
  <2>2. QED BY <2>1
<1>2. ASSUME NEW n \in Done
      PROVE  n + 1 \in Done
  <2>1. n \in Nat /\ n + 1 \in Nat /\ n + 1 # 0
    OBVIOUS
  <2>2. ASSUME NEW s \in SUBSET S, Cardinality(s) = n + 1
        PROVE  s \in G
    <3>1. s # {}
      BY <2>1, <2>2, FS_EmptySet
    <3>2. PICK t : t = s \ {First(s)}
      OBVIOUS
    <3>3. t \in SUBSET S /\ Cardinality(t) = Cardinality(s) - 1
      BY <3>1, <3>2, FirstOut
    <3>4. Cardinality(t) = n
      BY <2>1, <2>2, <3>3
    <3>5. t \in G
      BY <3>3, <3>4, <1>2
    <3>6. QED BY <3>1, <3>2, <3>5
  <2>3. QED BY <2>1, <2>2
<1>3. \A n \in Nat : n \in Done
  <2>1. Done \in SUBSET Nat
    OBVIOUS
  <2>2. \A n \in Done : n + 1 \in Done
    BY <1>2
  <2> HIDE DEF Done
  <2>3. QED BY <1>1, <2>1, <2>2, Induction
<1>4. \A s \in SUBSET S : Cardinality(s) \in Nat
  <2>1. TAKE s \in SUBSET S
  <2>2. QED BY FS_Subset, FS_CardinalityType
<1>5. QED BY <1>3, <1>4

\* The sum of nothing, and of something.
LEMMA AddsParts ==
  ASSUME NEW S, NEW f, NEW g, Adds(g, f, S)
  PROVE  /\ g[{}] = 0
         /\ \A s \in SUBSET S : s # {} => g[s] = f[First(s)] + g[s \ {First(s)}]
<1>1. \A s \in SUBSET S : g[s] = IF s = {} THEN 0 ELSE f[First(s)] + g[s \ {First(s)}]
  BY DEF Adds
<1>2. {} \in SUBSET S
  OBVIOUS
<1>3. QED BY <1>1, <1>2, Zenon

\* The fold is defined.
LEMMA AddsExists ==
  ASSUME NEW S, IsFiniteSet(S), NEW f \in [S -> Int]
  PROVE  \E g \in [SUBSET S -> Int] : Adds(g, f, S)
<1> DEFINE Step(g, s) == IF s = {} THEN 0 ELSE f[First(s)] + g[s \ {First(s)}]
           Good(g, n) == \A s \in SUBSET S : Cardinality(s) <= n => g[s] = Step(g, s)
           Done == {n \in Nat : \E g \in [SUBSET S -> Int] : Good(g, n)}
<1>1. \A g \in [SUBSET S -> Int], s \in SUBSET S : Step(g, s) \in Int
  <2>1. TAKE g \in [SUBSET S -> Int], s \in SUBSET S
  <2>2. CASE s = {}
    BY <2>2
  <2>3. CASE s # {}
    <3>1. First(s) \in S /\ s \ {First(s)} \in SUBSET S
      BY <2>3, FirstOut
    <3>2. QED BY <3>1, <2>3
  <2>4. QED BY <2>2, <2>3
<1>2. 0 \in Done
  <2>1. PICK g : g = [s \in SUBSET S |-> 0]
    OBVIOUS
  <2>2. g \in [SUBSET S -> Int]
    BY <2>1
  <2>3. ASSUME NEW s \in SUBSET S, Cardinality(s) <= 0
        PROVE  g[s] = Step(g, s)
    <3>1. s # {} => Cardinality(s) \in Nat \ {0}
      BY FirstOut, Zenon
    <3>2. s = {}
      BY <2>3, <3>1
    <3>3. QED BY <3>2, <2>1
  <2>4. QED BY <2>2, <2>3
<1>3. ASSUME NEW n \in Done
      PROVE  n + 1 \in Done
  <2>1. n \in Nat
    OBVIOUS
  <2>2. PICK g \in [SUBSET S -> Int] : Good(g, n)
    OBVIOUS
  <2>3. PICK h : h = [s \in SUBSET S |-> Step(g, s)]
    OBVIOUS
  <2>4. h \in [SUBSET S -> Int]
    BY <1>1, <2>3
  <2>5. \A s \in SUBSET S : h[s] = Step(g, s)
    BY <2>3
  <2>6. ASSUME NEW s \in SUBSET S, Cardinality(s) <= n + 1
        PROVE  h[s] = Step(h, s)
    <3>1. CASE s = {}
      BY <3>1, <2>5
    <3>2. CASE s # {}
      <4>1. PICK t : t = s \ {First(s)}
        OBVIOUS
      <4>2. t \in SUBSET S /\ Cardinality(t) = Cardinality(s) - 1 /\ Cardinality(s) \in Nat
        BY <4>1, <3>2, FirstOut
      <4>3. Cardinality(t) <= n
        BY <2>1, <2>6, <4>2
      <4>4. h[t] = g[t]
        BY <4>2, <4>3, <2>2, <2>5
      <4>5. h[s] = f[First(s)] + g[t]
        BY <2>5, <3>2, <4>1, Zenon
      <4>6. h[s] = f[First(s)] + h[s \ {First(s)}]
        BY <4>1, <4>4, <4>5
      <4> HIDE DEF Good, Done
      <4>7. QED BY <3>2, <4>6
    <3>3. QED BY <3>1, <3>2
  <2>7. Good(h, n + 1)
    BY <2>6
  <2> HIDE DEF Good
  <2>8. \E k \in [SUBSET S -> Int] : Good(k, n + 1)
    BY <2>4, <2>7, Zenon
  <2>9. n + 1 \in Nat
    BY <2>1
  <2>10. QED BY <2>8, <2>9, Zenon
<1>4. \A n \in Nat : n \in Done
  <2>1. Done \in SUBSET Nat
    OBVIOUS
  <2>2. \A n \in Done : n + 1 \in Done
    BY <1>3
  <2> HIDE DEF Done
  <2>3. QED BY <1>2, <2>1, <2>2, Induction
<1>5. PICK n \in Nat : n = Cardinality(S)
  BY FS_CardinalityType
<1>6. \A s \in SUBSET S : Cardinality(s) <= n
  BY <1>5, FS_Subset
<1>7. PICK g \in [SUBSET S -> Int] : Good(g, n)
  BY <1>4
<1>8. Adds(g, f, S)
  BY <1>6, <1>7 DEF Adds
<1>9. QED BY <1>8

\* g adds up f, k adds up h, and they differ at one place only.
Differ(f, g, h, k, x, S) ==
  /\ IsFiniteSet(S) /\ x \in S
  /\ f \in [S -> Int] /\ g \in [SUBSET S -> Int] /\ Adds(g, f, S)
  /\ h \in [S -> Int] /\ k \in [SUBSET S -> Int] /\ Adds(k, h, S)
  /\ \A y \in S : y # x => h[y] = f[y]

\* When f changes at one place, its sum changes by as much.
LEMMA AddsChange ==
  ASSUME NEW f, NEW g, NEW h, NEW k, NEW x, NEW S, Differ(f, g, h, k, x, S)
  PROVE  k[S] = g[S] + (h[x] - f[x])
<1> USE DEF Differ
<1> DEFINE d == h[x] - f[x]
           Good == {s \in SUBSET S : k[s] = g[s] + (IF x \in s THEN d ELSE 0)}
<1>1. d \in Int
  OBVIOUS
<1>2. {} \in Good
  <2>1. g[{}] = 0 /\ k[{}] = 0
    BY AddsParts
  <2>2. QED BY <2>1
<1>3. ASSUME NEW s \in SUBSET S, s # {}, s \ {First(s)} \in Good
      PROVE  s \in Good
  <2>1. PICK y : y = First(s)
    OBVIOUS
  <2>2. PICK t : t = s \ {y}
    OBVIOUS
  <2>3. y \in S /\ y \in s /\ t \in SUBSET S
    BY <1>3, <2>1, <2>2, FirstOut
  <2>4. g[s] = f[y] + g[t] /\ k[s] = h[y] + k[t]
    BY <1>3, <2>1, <2>2 DEF Adds
  <2>5. k[t] = g[t] + (IF x \in t THEN d ELSE 0)
    BY <1>3, <2>1, <2>2
  <2>6. g[t] \in Int /\ k[t] \in Int /\ f[y] \in Int /\ h[y] \in Int
    BY <2>3
  <2>7. CASE y = x
    <3>1. x \notin t /\ x \in s
      BY <2>2, <2>3, <2>7
    <3>2. k[s] = g[s] + d
      BY <2>4, <2>5, <2>6, <2>7, <3>1
    <3>3. QED BY <3>1, <3>2
  <2>8. CASE y # x
    <3>1. h[y] = f[y] /\ (x \in t <=> x \in s)
      BY <2>2, <2>3, <2>8
    <3>2. k[s] = g[s] + (IF x \in s THEN d ELSE 0)
      <4>1. CASE x \in s
        BY <2>4, <2>5, <2>6, <3>1, <4>1, <1>1
      <4>2. CASE x \notin s
        BY <2>4, <2>5, <2>6, <3>1, <4>2
      <4>3. QED BY <4>1, <4>2
    <3>3. QED BY <3>2
  <2>9. QED BY <2>7, <2>8
<1>4. S \in Good
  <2>1. Good \in SUBSET SUBSET S
    OBVIOUS
  <2> HIDE DEF Good
  <2>2. QED BY <1>2, <1>3, <2>1, SubsetInduction
<1>5. QED BY <1>4

\* Sums of numbers are numbers.
LEMMA AddsType ==
  ASSUME NEW S, IsFiniteSet(S), NEW f \in [S -> Int], NEW g, Adds(g, f, S)
  PROVE  \A s \in SUBSET S : g[s] \in Int
<1> DEFINE Good == {s \in SUBSET S : g[s] \in Int}
<1>1. {} \in Good
  <2>1. g[{}] = 0
    BY AddsParts
  <2>2. QED BY <2>1
<1>2. ASSUME NEW s \in SUBSET S, s # {}, s \ {First(s)} \in Good
      PROVE  s \in Good
  <2>1. First(s) \in S
    BY <1>2, FirstOut
  <2>2. g[s] = f[First(s)] + g[s \ {First(s)}]
    BY <1>2, AddsParts
  <2>3. f[First(s)] \in Int /\ g[s \ {First(s)}] \in Int
    BY <1>2, <2>1
  <2>4. QED BY <2>2, <2>3
<1>3. \A s \in SUBSET S : s \in Good
  <2>1. Good \in SUBSET SUBSET S
    OBVIOUS
  <2> HIDE DEF Good
  <2>2. QED BY <1>1, <1>2, <2>1, SubsetInduction
<1>4. QED BY <1>3

-----------------------------------------------------------------------------
(* What money there is. *)

\* Balances of the accounts in S, and what they amount to.
Balanced(b, S) == IsFiniteSet(S) /\ \A a \in S : b[a] \in Balance
Amounts(b, S)  == [a \in S |-> Amount(b[a])]

\* The fold of Money adds up the amounts in the accounts.
LEMMA MoneyAdds ==
  ASSUME NEW S, NEW b, Balanced(b, S)
  PROVE  /\ Amounts(b, S) \in [S -> Int]
         /\ \E g \in [SUBSET S -> Int] : Adds(g, Amounts(b, S), S) /\ Money(b, S) = g[S]
<1> DEFINE f == Amounts(b, S)
<1>0. IsFiniteSet(S) /\ \A a \in S : b[a] \in Balance /\ f[a] = Amount(b[a])
  BY DEF Balanced, Amounts
<1> DEFINE Body(g) == [s \in SUBSET S |->
             IF s = {} THEN 0
             ELSE LET x == CHOOSE x \in s : TRUE IN Amount(b[x]) + g[s \ {x}]]
<1>1. f \in [S -> Int]
  BY <1>0 DEF Balance, Amount, Amounts
<1> HIDE DEF f
<1>2. PICK h \in [SUBSET S -> Int] : Adds(h, f, S)
  BY <1>0, <1>1, AddsExists
<1>3. \E g : g = Body(g)
  <2>1. \A s \in SUBSET S : s # {} => f[First(s)] = Amount(b[First(s)])
    BY <1>0, FirstOut
  <2>2. \A s \in SUBSET S :
          h[s] = IF s = {} THEN 0
                 ELSE LET x == CHOOSE x \in s : TRUE IN Amount(b[x]) + h[s \ {x}]
    BY <1>2, <2>1 DEF Adds, First
  <2>3. h = Body(h)
    BY <2>2
  <2>4. QED BY <2>3
<1>4. PICK g : g = Body(g) /\ g = CHOOSE k : k = Body(k)
  BY <1>3
<1>5. Money(b, S) = g[S]
  BY <1>4, Zenon DEF Money, MapThenSumSet, MapThenFoldSet
<1>6. Adds(g, f, S)
  <2>1. \A s \in SUBSET S : s # {} => f[First(s)] = Amount(b[First(s)])
    BY <1>0, FirstOut
  <2>2. \A s \in SUBSET S :
          g[s] = IF s = {} THEN 0 ELSE Amount(b[First(s)]) + g[s \ {First(s)}]
    BY <1>4 DEF First
  <2>3. \A s \in SUBSET S :
          g[s] = IF s = {} THEN 0 ELSE f[First(s)] + g[s \ {First(s)}]
    BY <2>1, <2>2
  <2>4. QED BY <2>3 DEF Adds
<1>7. g \in [SUBSET S -> Int]
  <2>1. \A s \in SUBSET S : g[s] \in Int
    BY <1>0, <1>1, <1>6, AddsType
  <2>2. g = [s \in SUBSET S |-> g[s]]
    BY <1>4
  <2>3. QED BY <2>1, <2>2
<1>8. QED BY <1>1, <1>5, <1>6, <1>7 DEF f

\* When one account changes, so does the money in all.
LEMMA MoneyChange ==
  ASSUME NEW S, NEW b, Balanced(b, S), NEW c, Balanced(c, S),
         NEW x \in S, \A a \in S : a # x => c[a] = b[a]
  PROVE  /\ Money(b, S) \in Int /\ Amount(b[x]) \in Int /\ Amount(c[x]) \in Int
         /\ Money(c, S) = Money(b, S) + (Amount(c[x]) - Amount(b[x]))
<1> DEFINE f == Amounts(b, S)
           h == Amounts(c, S)
<1>1. \A a \in S : f[a] = Amount(b[a]) /\ h[a] = Amount(c[a])
  BY DEF Amounts
<1>2. /\ f \in [S -> Int]
      /\ \E g \in [SUBSET S -> Int] : Adds(g, f, S) /\ Money(b, S) = g[S]
  BY MoneyAdds
<1>3. /\ h \in [S -> Int]
      /\ \E g \in [SUBSET S -> Int] : Adds(g, h, S) /\ Money(c, S) = g[S]
  BY MoneyAdds
<1> HIDE DEF f, h
<1>4. PICK g \in [SUBSET S -> Int] : Adds(g, f, S) /\ Money(b, S) = g[S]
  BY <1>2
<1>5. PICK k \in [SUBSET S -> Int] : Adds(k, h, S) /\ Money(c, S) = k[S]
  BY <1>3
<1>6. \A y \in S : y # x => h[y] = f[y]
  BY <1>1
<1>7. Differ(f, g, h, k, x, S)
  BY <1>2, <1>3, <1>4, <1>5, <1>6 DEF Differ, Balanced
<1>8. k[S] = g[S] + (h[x] - f[x])
  BY <1>7, AddsChange
<1>9. h[x] = Amount(c[x]) /\ f[x] = Amount(b[x]) /\ h[x] \in Int /\ f[x] \in Int
  BY <1>1, <1>2, <1>3
<1>10. g[S] \in Int
  BY <1>4
<1>11. QED BY <1>4, <1>5, <1>8, <1>9, <1>10

\* No accounts hold nothing, and one account holds its balance.
LEMMA MoneyFew ==
  ASSUME NEW b
  PROVE  Money(b, {}) = 0 /\ \A x : b[x] \in Balance => Money(b, {x}) = Amount(b[x])
<1>2. Money(b, {}) = 0
  <2>1. Balanced(b, {})
    BY FS_EmptySet DEF Balanced
  <2>2. PICK g : Adds(g, Amounts(b, {}), {}) /\ Money(b, {}) = g[{}]
    BY <2>1, MoneyAdds
  <2>3. QED BY <2>2, AddsParts
<1> SUFFICES ASSUME NEW x, b[x] \in Balance PROVE Money(b, {x}) = Amount(b[x])
  BY <1>2
<1>1. Balanced(b, {x})
  BY FS_Singleton DEF Balanced
<1>3. Money(b, {x}) = Amount(b[x])
  <2>1. PICK f : f = Amounts(b, {x})
    OBVIOUS
  <2>2. PICK g : Adds(g, f, {x}) /\ Money(b, {x}) = g[{x}] /\ f \in [{x} -> Int]
    BY <1>1, <2>1, MoneyAdds
  <2>3. First({x}) = x /\ {x} \ {First({x})} = {}
    BY DEF First
  <2>4. g[{x}] = f[First({x})] + g[{x} \ {First({x})}] /\ g[{}] = 0
    <3>1. {x} \in SUBSET {x} /\ {x} # {}
      OBVIOUS
    <3>2. g[{}] = 0 /\ \A s \in SUBSET {x} : s # {} => g[s] = f[First(s)] + g[s \ {First(s)}]
      BY <2>2, AddsParts
    <3>3. QED BY <3>1, <3>2, Zenon
  <2>5. f[x] = Amount(b[x]) /\ f[x] \in Int
    BY <2>1, <2>2 DEF Amounts
  <2>6. g[{x}] = f[x] + 0
    BY <2>3, <2>4
  <2>7. QED BY <2>2, <2>5, <2>6
<1>4. QED BY <1>3

\* The money in the accounts after a step.
LEMMA MoneyNext ==
  /\ Money(state, Accounts)' = Money(state', Accounts)
  /\ Money(Opening, Accounts)' = Money(Opening, Accounts)
BY DEF Money, MapThenSumSet, MapThenFoldSet, Amount

\* The same balances are the same money.
LEMMA MoneySame ==
  ASSUME NEW S, NEW b, Balanced(b, S), NEW c, \A a \in S : c[a] = b[a]
  PROVE  Money(c, S) = Money(b, S)
<1>1. CASE S = {}
  BY <1>1, MoneyFew
<1>2. CASE S # {}
  <2>1. PICK x \in S : TRUE
    BY <1>2
  <2>2. Balanced(c, S)
    BY DEF Balanced
  <2>3. /\ Money(b, S) \in Int /\ Amount(b[x]) \in Int /\ Amount(c[x]) \in Int
        /\ Money(c, S) = Money(b, S) + (Amount(c[x]) - Amount(b[x]))
    BY <2>2, MoneyChange
  <2>4. c[x] = b[x]
    OBVIOUS
  <2>5. QED BY <2>3, <2>4
<1>3. QED BY <1>1, <1>2

\* The accounts have balances.
LEMMA AllBalanced == ASSUME IInv PROVE Balanced(state, Accounts) /\ Money(state, Accounts) \in Int
<1>1. Balanced(state, Accounts)
  BY ChaincodeAssumption DEF IInv, WorldOK, Balanced, ChaincodeAssumption
<1>2. PICK g \in [SUBSET Accounts -> Int] : Money(state, Accounts) = g[Accounts]
  BY <1>1, MoneyAdds
<1>3. QED BY <1>1, <1>2

\* A payment leaves as much money as there was, but for one to oneself, which adds
\* what it is worth (doInvoke).
LEMMA PaymentMoney ==
  ASSUME IInv, NEW t \in Transfer, Found(t), NEW new,
         \A a \in Accounts : new[a] = IF a \in {t.from, t.to} THEN Writes(t)[a] ELSE state[a]
  PROVE  Money(new, Accounts) = Money(state, Accounts) + Minted(t) /\ Minted(t) \in Int
<1>1. /\ DOMAIN Writes(t) = {t.from, t.to} /\ t.from \in Accounts /\ t.to \in Accounts
      /\ \A a \in DOMAIN Writes(t) : Writes(t)[a] \in Balance
      /\ Writes(t)[t.to] = state[t.to] + t.value
      /\ t.from # t.to => Writes(t)[t.from] = state[t.from] - t.value
  BY TransferFacts
<1>2. t.value \in Int /\ state[t.from] \in Int /\ state[t.to] \in Int
  BY <1>1 DEF Transfer, IInv, WorldOK, Balance, Found
<1>3. Balanced(state, Accounts) /\ Money(state, Accounts) \in Int
  BY AllBalanced
<1>4. Balanced(new, Accounts)
  BY <1>1, <1>3 DEF Balanced
<1>5. Gone \notin Int
  BY ChaincodeAssumption DEF ChaincodeAssumption
<1>6. CASE t.from = t.to
  <2>1. \A a \in Accounts : a # t.to => new[a] = state[a]
    BY <1>6
  <2>2. new[t.to] = state[t.to] + t.value
    BY <1>1
  <2>3. Money(new, Accounts) = Money(state, Accounts) + (Amount(new[t.to]) - Amount(state[t.to]))
    BY <1>1, <1>3, <1>4, <2>1, MoneyChange
  <2>4. Amount(new[t.to]) = state[t.to] + t.value /\ Amount(state[t.to]) = state[t.to]
    BY <1>2, <1>5, <2>2 DEF Amount
  <2>5. QED BY <1>2, <1>3, <1>6, <2>3, <2>4 DEF Minted
<1>7. CASE t.from # t.to
  <2>1. PICK mid : mid = [a \in Accounts |-> IF a = t.from THEN new[a] ELSE state[a]]
    OBVIOUS
  <2>2. Balanced(mid, Accounts)
    BY <1>3, <1>4, <2>1 DEF Balanced
  <2>3. /\ \A a \in Accounts : a # t.from => mid[a] = state[a]
        /\ \A a \in Accounts : a # t.to => new[a] = mid[a]
    BY <2>1
  <2>4. mid[t.from] = state[t.from] - t.value /\ mid[t.to] = state[t.to]
    BY <1>1, <1>7, <2>1
  <2>5. new[t.to] = state[t.to] + t.value
    BY <1>1
  <2>6. /\ Money(mid, Accounts)
             = Money(state, Accounts) + (Amount(mid[t.from]) - Amount(state[t.from]))
        /\ Money(mid, Accounts) \in Int
        /\ Money(new, Accounts) = Money(mid, Accounts) + (Amount(new[t.to]) - Amount(mid[t.to]))
    BY <1>1, <1>3, <1>4, <2>2, <2>3, MoneyChange
  <2>7. /\ Amount(mid[t.from]) = state[t.from] - t.value /\ Amount(state[t.from]) = state[t.from]
        /\ Amount(new[t.to]) = state[t.to] + t.value /\ Amount(mid[t.to]) = state[t.to]
    BY <1>2, <1>5, <2>4, <2>5 DEF Amount
  <2>8. QED BY <1>2, <1>3, <1>7, <2>6, <2>7 DEF Minted
<1>8. QED BY <1>6, <1>7

\* The money is accounted for.
MoneyInv == PayInv /\ drift \in Int /\ MoneyAccounted

\* A call that is validated changes the money by what it brings into being, less
\* what it deletes.
LEMMA ValidateMoney ==
  ASSUME MoneyInv, IInv', Validate, Current(Head(block))
  PROVE  LET tx == Head(block)
         IN /\ Money(state', Accounts) = Money(state, Accounts) + (tx.moves - Deleted(tx))
            /\ tx.moves \in Int /\ Deleted(tx) \in Int
<1> DEFINE tx == Head(block)
<1>1. IInv /\ PayOK(tx)
  BY HeadFacts DEF MoneyInv, PayInv
<1>2. state' = [k \in Keys |-> IF k \in DOMAIN tx.writes THEN tx.writes[k] ELSE state[k]]
  BY DEF Validate
<1> DEFINE D == {a \in Accounts \cap DOMAIN tx.writes : tx.writes[a] = Gone}
<1>3. Deleted(tx) = Money(state, D)
  BY DEF Deleted
<1>4. Balanced(state, Accounts) /\ Money(state, Accounts) \in Int
  BY <1>1, AllBalanced
<1>5. \A a \in Accounts : state'[a] = IF a \in DOMAIN tx.writes THEN tx.writes[a] ELSE state[a]
  BY <1>2 DEF Keys
<1>6. Balanced(state', Accounts)
  BY ChaincodeAssumption DEF IInv, WorldOK, Balanced, ChaincodeAssumption, Balance
<1> HIDE DEF tx
<1>7. CASE DOMAIN tx.writes \cap Accounts = {} /\ tx.moves = 0
  <2>1. D = {}
    BY <1>7
  <2>2. Deleted(tx) = 0
    BY <1>3, <2>1, MoneyFew
  <2>3. \A a \in Accounts : state'[a] = state[a]
    BY <1>5, <1>7
  <2>4. Money(state', Accounts) = Money(state, Accounts)
    BY <1>4, <2>3, MoneySame
  <2>5. QED BY <1>4, <1>7, <2>2, <2>4 DEF tx
<1>8. ASSUME NEW a \in Accounts,
             DOMAIN tx.writes \cap Accounts = {a}, tx.writes[a] = Gone, tx.moves = 0
      PROVE  /\ Money(state', Accounts) = Money(state, Accounts) + (tx.moves - Deleted(tx))
             /\ tx.moves \in Int /\ Deleted(tx) \in Int
  <2>1. D = {a}
    BY <1>8
  <2>2. Deleted(tx) = Amount(state[a])
    <3>1. state[a] \in Balance
      BY <1>4 DEF Balanced
    <3>2. QED BY <1>3, <2>1, <3>1, MoneyFew
  <2>3. state'[a] = Gone /\ \A b \in Accounts : b # a => state'[b] = state[b]
    BY <1>5, <1>8
  <2>4. /\ Money(state', Accounts) = Money(state, Accounts) + (Amount(state'[a]) - Amount(state[a]))
        /\ Amount(state[a]) \in Int
    BY <1>4, <1>6, <2>3, MoneyChange
  <2>5. Amount(state'[a]) = 0
    BY <2>3 DEF Amount
  <2>6. QED BY <1>4, <1>8, <2>2, <2>4, <2>5
<1>9. ASSUME NEW t \in Payments, tx.moves = Minted(t),
             DOMAIN tx.writes \cap Accounts = {t.from, t.to},
             Found(t), \A a \in {t.from, t.to} : tx.writes[a] = Writes(t)[a]
      PROVE  /\ Money(state', Accounts) = Money(state, Accounts) + (tx.moves - Deleted(tx))
             /\ tx.moves \in Int /\ Deleted(tx) \in Int
  <2>1. t \in Transfer
    BY PaymentsTransfer
  <2>2. \A a \in {t.from, t.to} : Writes(t)[a] # Gone
    <3>1. /\ Writes(t)[t.to] = state[t.to] + t.value
          /\ t.from # t.to => Writes(t)[t.from] = state[t.from] - t.value
          /\ t.from \in Accounts /\ t.to \in Accounts
      BY <1>1, <1>9, <2>1, TransferFacts
    <3>2. t.value \in Int /\ state[t.from] \in Int /\ state[t.to] \in Int
      BY <1>1, <1>9, <2>1, <3>1 DEF Transfer, IInv, WorldOK, Balance, Found
    <3>3. \A a \in {t.from, t.to} : Writes(t)[a] \in Int
      BY <3>1, <3>2
    <3>4. QED BY <3>3, ChaincodeAssumption DEF ChaincodeAssumption
  <2>3. D = {}
    BY <1>9, <2>2
  <2>4. Deleted(tx) = 0
    BY <1>3, <2>3, MoneyFew
  <2>5. \A a \in Accounts : state'[a] = IF a \in {t.from, t.to} THEN Writes(t)[a] ELSE state[a]
    BY <1>5, <1>9
  <2>6. Money(state', Accounts) = Money(state, Accounts) + Minted(t) /\ Minted(t) \in Int
    BY <1>1, <1>9, <2>1, <2>5, PaymentMoney
  <2>7. QED BY <1>4, <1>9, <2>4, <2>6
<1>10. \A k \in DOMAIN tx.reads : tx.reads[k] = version[k]
  BY DEF Current, tx
<1>11. QED BY <1>1, <1>7, <1>8, <1>9, <1>10 DEF PayOK, tx

\* However transfers overlap and in whatever order they are put into blocks, no
\* payment is lost: the accounts hold what Init gave them and the drift (doInvoke,
\* delete).
THEOREM Chaincode_MoneyAccounted == Spec => []MoneyAccounted
<1>1. Init => MoneyInv
  <2> SUFFICES ASSUME Init PROVE MoneyInv
    OBVIOUS
  <2>1. PayInv /\ IInv
    BY InitPay DEF PayInv
  <2>2. \A a \in Accounts : state[a] = Opening[a]
    BY DEF Init, Keys
  <2>3. Money(Opening, Accounts) = Money(state, Accounts) /\ Money(state, Accounts) \in Int
    BY <2>1, <2>2, AllBalanced, MoneySame
  <2> QED BY <2>1, <2>3 DEF MoneyInv, MoneyAccounted, Init
<1>2. MoneyInv /\ [Next]_vars => MoneyInv'
  <2> SUFFICES ASSUME MoneyInv, [Next]_vars PROVE MoneyInv'
    OBVIOUS
  <2>1. PayInv' /\ IInv' /\ IInv
    BY NextPay DEF MoneyInv, PayInv
  <2>2. CASE UNCHANGED <<state, drift>>
    <3>1. MoneyAccounted'
      BY <2>2, MoneyNext DEF MoneyInv, MoneyAccounted
    <3> QED BY <2>1, <2>2, <3>1 DEF MoneyInv
  <2>3. CASE Validate /\ Current(Head(block))
    <3> DEFINE tx == Head(block)
    <3>1. /\ Money(state', Accounts) = Money(state, Accounts) + (tx.moves - Deleted(tx))
          /\ tx.moves \in Int /\ Deleted(tx) \in Int
      BY <2>1, <2>3, ValidateMoney
    <3>2. drift' = drift + tx.moves - Deleted(tx)
      BY <2>3 DEF Validate
    <3>3. drift \in Int /\ Money(state, Accounts) = Money(Opening, Accounts) + drift
      BY DEF MoneyInv, MoneyAccounted
    <3>4. Money(state, Accounts) \in Int /\ Money(Opening, Accounts) \in Int
      <4>1. Balanced(Opening, Accounts)
        BY ChaincodeAssumption DEF Balanced, Balance, ChaincodeAssumption
      <4>2. PICK g \in [SUBSET Accounts -> Int] : Money(Opening, Accounts) = g[Accounts]
        BY <4>1, MoneyAdds
      <4>3. QED BY <2>1, <4>2, AllBalanced
    <3>5. drift' \in Int /\ Money(state', Accounts) = Money(Opening, Accounts) + drift'
      BY <3>1, <3>2, <3>3, <3>4
    <3> QED BY <2>1, <3>5, MoneyNext DEF MoneyInv, MoneyAccounted
  <2>4. (Validate /\ Current(Head(block))) \/ UNCHANGED <<state, drift>>
    BY DEF Next, vars, world, Invoke, Delete, Precommit, RegularCommit, OutchainCommit, Endorse,
           CutBlock, Validate
  <2> QED BY <2>2, <2>3, <2>4
<1>3. MoneyInv => MoneyAccounted
  BY DEF MoneyInv
<1> QED BY <1>1, <1>2, <1>3, PTL DEF Spec

-----------------------------------------------------------------------------
(* The synchroniser. *)

Handled(b) == \E i \in DOMAIN handled : handled[i] = b

\* The number on disk never overtakes syncBlock, which never leaves the chain.
Bounds ==
  /\ number <= blockNum /\ blockNum <= Len(kinds) + 1
  /\ since <= Len(handled)
  /\ \A i \in DOMAIN handled : handled[i] \in 1..number

\* A block that is queried or offered is the one on disk.
Walk == syncPc \in {"query", "offer"} => number = blockNum /\ number <= Len(kinds) + 1

Offered == syncPc = "offer" => blockNum <= Len(kinds)

\* A dead process has no goroutines.
Down == ~up => syncPc = "off" /\ procPc = "off"

\* The block in hand is behind syncBlock and after all that was handled.
InHand ==
  /\ batch = 0 <=> procPc \in {"select", "off"}
  /\ batch # 0 =>
       /\ batch <= number /\ batch < blockNum
       /\ \A i \in DOMAIN handled :
            handled[i] <= batch /\ (since < i => handled[i] < batch)

\* What this life has handled is behind syncBlock.
Past == \A i \in DOMAIN handled : since < i => handled[i] < blockNum

Order ==
  /\ SyncTypeOK
  /\ Bounds
  /\ Walk
  /\ Offered
  /\ Down
  /\ InHand
  /\ Past
  /\ HandledInOrder

\* Where the next block is taken from, in this life or in the next one.
Reach == IF up THEN blockNum ELSE number

\* The blocks before Reach that are not handled and not in hand.
Lost ==
  {b \in 1..Len(kinds) : b < Reach /\ kinds[b] = "cross" /\ b # batch /\ ~Handled(b)}

\* A failing AddCrossTxs whose error is not yet reported.
Pending == IF procPc = "errAdd" THEN 1 ELSE 0

Loss == Cardinality(Lost) + Pending <= deaths + faults

SyncInv == Order /\ Loss

-----------------------------------------------------------------------------
(* Order. *)

\* The synchroniser starts with nothing in hand and nothing handled.
LEMMA InitOrder == SyncInit => Order
  BY DEF SyncInit, Order, SyncTypeOK, Bounds, Walk, Offered, Down, InHand, Past, HandledInOrder

\* Fabric commits a block.
LEMMA CommitBlockOrder ==
  ASSUME Order, NEW kind \in Kinds, CommitBlock(kind) PROVE Order'
<1>1. kind \in AllKinds
  BY BlockSyncAssumption DEF BlockSyncAssumption
<1>2. SyncTypeOK'
  BY <1>1 DEF Order, SyncTypeOK, CommitBlock, sync, proc, history
<1>3. Len(kinds') = Len(kinds) + 1
  BY <1>1 DEF Order, SyncTypeOK, CommitBlock
<1>4. (Bounds /\ Walk /\ Offered /\ Down)'
  BY <1>3 DEF Order, SyncTypeOK, Bounds, Walk, Offered, Down, CommitBlock, sync, proc, history
<1>5. (InHand /\ Past /\ HandledInOrder)'
  BY DEF Order, InHand, Past, HandledInOrder, CommitBlock, sync, proc, history
<1> QED BY <1>2, <1>4, <1>5 DEF Order

\* syncBlock stores the number of the block it will query.
LEMMA PersistOrder == ASSUME Order, Persist PROVE Order'
<1>1. SyncTypeOK'
  <2>1. /\ kinds' \in Seq(AllKinds) /\ handled' \in Seq(Nat)
        /\ number' \in Nat /\ blockNum' \in Nat \ {0} /\ batch' \in Nat
        /\ since' \in Nat /\ faults' \in Nat /\ deaths' \in Nat
    BY DEF Order, SyncTypeOK, Persist, CallStop, Fault, NoFault, proc, history
  <2>2. timer' \in BOOLEAN /\ up' \in BOOLEAN
    BY DEF Order, SyncTypeOK, Persist, CallStop, Fault, NoFault, proc, history
  <2>3. /\ syncPc' \in {"select", "query", "offer", "off"}
        /\ procPc' \in {"select", "add", "errParse", "errAdd", "off"}
    BY DEF Order, SyncTypeOK, Persist, CallStop, Fault, NoFault, proc, history
  <2>4. stopPc' \in {"no", "called", "waiting", "returned"}
    BY DEF Order, SyncTypeOK, Persist, CallStop, Fault, NoFault, proc, history
  <2> QED BY <2>1, <2>2, <2>3, <2>4 DEF SyncTypeOK
<1>2. (Bounds /\ Walk /\ Offered /\ Down)'
  BY DEF Order, SyncTypeOK, Bounds, Walk, Offered, Down, Persist, proc, history
<1>3. (InHand /\ Past /\ HandledInOrder)'
  BY DEF Order, SyncTypeOK, Bounds, InHand, Past, HandledInOrder, Persist, proc, history
<1> QED BY <1>1, <1>2, <1>3 DEF Order

\* syncBlock queries the block, or fails to.
LEMMA QueryOrder == ASSUME Order, Query PROVE Order'
<1>1. SyncTypeOK'
  <2>1. /\ kinds' \in Seq(AllKinds) /\ handled' \in Seq(Nat)
        /\ number' \in Nat /\ blockNum' \in Nat \ {0} /\ batch' \in Nat
        /\ since' \in Nat /\ faults' \in Nat /\ deaths' \in Nat
    BY DEF Order, SyncTypeOK, Query, CallStop, Fault, NoFault, proc, history
  <2>2. timer' \in BOOLEAN /\ up' \in BOOLEAN
    BY DEF Order, SyncTypeOK, Query, CallStop, Fault, NoFault, proc, history
  <2>3. /\ syncPc' \in {"select", "query", "offer", "off"}
        /\ procPc' \in {"select", "add", "errParse", "errAdd", "off"}
    BY DEF Order, SyncTypeOK, Query, CallStop, Fault, NoFault, proc, history
  <2>4. stopPc' \in {"no", "called", "waiting", "returned"}
    BY DEF Order, SyncTypeOK, Query, CallStop, Fault, NoFault, proc, history
  <2> QED BY <2>1, <2>2, <2>3, <2>4 DEF SyncTypeOK
<1>2. (Bounds /\ Walk /\ Offered /\ Down)'
  BY DEF Order, SyncTypeOK, Bounds, Walk, Offered, Down, Query, proc, history
<1>3. (InHand /\ Past /\ HandledInOrder)'
  BY DEF Order, SyncTypeOK, Bounds, InHand, Past, HandledInOrder, Query, proc, history
<1> QED BY <1>1, <1>2, <1>3 DEF Order

\* The block that syncBlock offers goes to processPreTxs.
LEMMA HandOverOrder == ASSUME Order, HandOver PROVE Order'
<1>1. SyncTypeOK'
  BY DEF Order, SyncTypeOK, HandOver, history
<1>2. (Bounds /\ Walk /\ Offered /\ Down)'
  BY DEF Order, SyncTypeOK, Bounds, Walk, Offered, Down, HandOver, history
<1>3. (InHand /\ Past /\ HandledInOrder)'
  BY DEF Order, SyncTypeOK, Bounds, Walk, InHand, Past, HandledInOrder, HandOver, history
<1> QED BY <1>1, <1>2, <1>3 DEF Order

\* processPreTxs reports an error to syncBlock, which calls Stop.
LEMMA ReportErrorOrder == ASSUME Order, ReportError PROVE Order'
<1>1. SyncTypeOK'
  BY DEF Order, SyncTypeOK, ReportError, CallStop, sync, history
<1>2. (Bounds /\ Walk /\ Offered /\ Down)'
  BY DEF Order, Bounds, Walk, Offered, Down, ReportError, sync, history
<1>3. (InHand /\ Past /\ HandledInOrder)'
  BY DEF Order, InHand, Past, HandledInOrder, ReportError, sync, history
<1> QED BY <1>1, <1>2, <1>3 DEF Order

\* processPreTxs hands the block in hand to AddCrossTxs.
LEMMA AddOrder == ASSUME Order, Add PROVE Order'
<1>1. CASE handled' = Append(handled, batch) /\ procPc' = "select" /\ batch' = 0 /\ NoFault
  <2>1. /\ batch \in 1..number /\ batch < blockNum
        /\ \A i \in DOMAIN handled :
             handled[i] <= batch /\ (since < i => handled[i] < batch)
    BY DEF Order, SyncTypeOK, InHand, Add
  <2>2. /\ Len(handled') = Len(handled) + 1
        /\ DOMAIN handled' = 1..(Len(handled) + 1)
        /\ handled'[Len(handled) + 1] = batch
        /\ \A i \in DOMAIN handled : i \in 1..Len(handled) /\ handled'[i] = handled[i]
        /\ \A i \in DOMAIN handled' : i \in DOMAIN handled \/ i = Len(handled) + 1
    BY <1>1 DEF Order, SyncTypeOK
  <2>3. SyncTypeOK'
    BY <1>1 DEF Order, SyncTypeOK, Add, NoFault, sync
  <2>4. (Bounds /\ Walk /\ Offered /\ Down)'
    BY <2>1, <2>2, SMTT(30) DEF Order, SyncTypeOK, Bounds, Walk, Offered, Down, Add, sync
  <2>5. InHand'
    BY <1>1 DEF Order, InHand, Add
  <2>6. Past'
    BY <2>1, <2>2 DEF Order, SyncTypeOK, Past, Add, sync
  <2>7. HandledInOrder'
    BY <2>1, <2>2 DEF Order, SyncTypeOK, HandledInOrder, Add, sync
  <2> QED BY <2>3, <2>4, <2>5, <2>6, <2>7 DEF Order
<1>2. CASE procPc' = "errAdd" /\ Fault /\ UNCHANGED <<handled, batch>>
  <2>1. SyncTypeOK'
    BY <1>2 DEF Order, SyncTypeOK, Add, Fault, sync
  <2>2. (Bounds /\ Walk /\ Offered /\ Down /\ Past /\ HandledInOrder)'
    BY <1>2 DEF Order, Bounds, Walk, Offered, Down, Past, HandledInOrder, Add, sync
  <2>3. InHand'
    BY <1>2 DEF Order, InHand, Add, sync
  <2> QED BY <2>1, <2>2, <2>3 DEF Order
<1> QED BY <1>1, <1>2 DEF Add

\* Stop is called, takes effect in each goroutine and returns.
LEMMA StopOrder ==
  ASSUME Order, StopCalled \/ CloseStop \/ SyncStops \/ ProcStops \/ StopReturns
  PROVE  Order'
<1>1. SyncTypeOK'
  BY DEF Order, SyncTypeOK, StopCalled, CloseStop, SyncStops, ProcStops, StopReturns, sync,
       proc, history
<1>2. (Bounds /\ Walk /\ Offered /\ Down)'
  BY DEF Order, Bounds, Walk, Offered, Down, StopCalled, CloseStop, SyncStops, ProcStops,
       StopReturns, sync, proc, history
<1>3. (InHand /\ Past /\ HandledInOrder)'
  BY DEF Order, InHand, Past, HandledInOrder, StopCalled, CloseStop, SyncStops, ProcStops,
       StopReturns, sync, proc, history
<1> QED BY <1>1, <1>2, <1>3 DEF Order

\* The process dies: what it had in hand is forgotten.
LEMMA DieOrder == ASSUME Order, Die PROVE Order'
<1>1. SyncTypeOK'
  <2>1. /\ kinds' \in Seq(AllKinds) /\ handled' \in Seq(Nat)
        /\ number' \in Nat /\ blockNum' \in Nat \ {0} /\ batch' \in Nat
        /\ since' \in Nat /\ faults' \in Nat /\ deaths' \in Nat
    BY DEF Order, SyncTypeOK, Die, history
  <2>2. timer' \in BOOLEAN /\ up' \in BOOLEAN
    BY DEF Order, SyncTypeOK, Die, history
  <2>3. /\ syncPc' \in {"select", "query", "offer", "off"}
        /\ procPc' \in {"select", "add", "errParse", "errAdd", "off"}
    BY DEF Order, SyncTypeOK, Die, history
  <2>4. stopPc' \in {"no", "called", "waiting", "returned"}
    BY DEF Order, SyncTypeOK, Die, history
  <2> QED BY <2>1, <2>2, <2>3, <2>4 DEF SyncTypeOK
<1>2. (Bounds /\ Walk /\ Offered /\ Down /\ InHand /\ Past /\ HandledInOrder)'
  BY DEF Order, Bounds, Walk, Offered, Down, InHand, Past, HandledInOrder, Die, history
<1> QED BY <1>1, <1>2 DEF Order

\* NewBlockSync resumes from the stored number.
LEMMA RestartOrder == ASSUME Order, Restart PROVE Order'
<1>1. SyncTypeOK'
  BY DEF Order, SyncTypeOK, Restart
<1>2. (Bounds /\ Walk /\ Offered /\ Down)'
  BY DEF Order, SyncTypeOK, Bounds, Walk, Offered, Down, Restart
<1>3. (Past /\ HandledInOrder)'
  BY DEF Order, SyncTypeOK, Bounds, Past, HandledInOrder, Restart
<1>4. InHand'
  <2>1. batch = 0
    BY DEF Order, InHand, Down, Restart
  <2> QED BY <2>1 DEF InHand, Restart
<1> QED BY <1>1, <1>2, <1>3, <1>4 DEF Order

\* Every step keeps the order.
LEMMA NextOrder == Order /\ [SyncNext]_syncVars => Order'
<1> SUFFICES ASSUME Order, [SyncNext]_syncVars PROVE Order'
  OBVIOUS
<1>1. CASE SyncNext
  BY <1>1, CommitBlockOrder, PersistOrder, QueryOrder, HandOverOrder, ReportErrorOrder,
     AddOrder, StopOrder, DieOrder, RestartOrder DEF SyncNext, Panic, Crash
<1>2. CASE UNCHANGED syncVars
  BY <1>2 DEF Order, SyncTypeOK, Bounds, Walk, Offered, Down, InHand, Past, HandledInOrder, syncVars,
     sync, proc, history
<1> QED BY <1>1, <1>2

-----------------------------------------------------------------------------
(* Loss. *)

\* The blocks left behind can be counted.
LEMMA LostFinite == SyncTypeOK => IsFiniteSet(Lost) /\ Cardinality(Lost) \in Nat
<1> SUFFICES ASSUME SyncTypeOK PROVE IsFiniteSet(Lost) /\ Cardinality(Lost) \in Nat
  OBVIOUS
<1>1. IsFiniteSet(1..Len(kinds)) /\ Lost \subseteq 1..Len(kinds)
  BY FS_Interval DEF SyncTypeOK, Lost
<1> QED BY <1>1, FS_Subset, FS_CardinalityType

\* So can they after a step.
LEMMA LostFiniteNext == SyncTypeOK' => IsFiniteSet(Lost') /\ Cardinality(Lost') \in Nat
<1> SUFFICES ASSUME SyncTypeOK' PROVE IsFiniteSet(Lost') /\ Cardinality(Lost') \in Nat
  OBVIOUS
<1>1. IsFiniteSet(1..Len(kinds')) /\ Lost' \subseteq 1..Len(kinds')
  BY FS_Interval DEF SyncTypeOK, Lost
<1> QED BY <1>1, FS_Subset, FS_CardinalityType

\* The arithmetic of Free and Charged, and of a step that costs at most faults.
LEMMA NatPlus == \A m, n \in Nat : m + n \in Nat
  OBVIOUS

\* The sum of a step that leaves no further block behind.
LEMMA SumFree ==
  ASSUME NEW c \in Nat, NEW c2 \in Nat, NEW p \in Nat, NEW p2 \in Nat,
         NEW x \in Nat, NEW x2 \in Nat
  PROVE  c + p <= x /\ c2 <= c /\ p2 + x <= p + x2 => c2 + p2 <= x2
  OBVIOUS

\* The sum of a step that leaves one more block behind and is charged for it.
LEMMA SumCharged ==
  ASSUME NEW c \in Nat, NEW c2 \in Nat, NEW p \in Nat, NEW p2 \in Nat,
         NEW x \in Nat, NEW x2 \in Nat
  PROVE  c + p <= x /\ c2 <= c + 1 /\ p2 + 1 + x <= p + x2 => c2 + p2 <= x2
  OBVIOUS

\* The sum of a step that is charged for nothing.
LEMMA LossSum ==
  ASSUME NEW p \in Nat, NEW p2 \in Nat, NEW d \in Nat, NEW d2 \in Nat,
         NEW f \in Nat, NEW f2 \in Nat, p2 = p, d2 = d, f <= f2
  PROVE  p2 + (d + f) <= p + (d2 + f2)
  OBVIOUS

\* There is an unreported failure or there is none.
LEMMA PendingType == Pending \in Nat /\ Pending' \in Nat
  BY DEF Pending

\* A step that leaves nothing behind keeps the count.
LEMMA Free ==
  ASSUME SyncTypeOK, SyncTypeOK', Loss, Lost' \subseteq Lost,
         Pending' + (deaths + faults) <= Pending + (deaths' + faults')
  PROVE  Loss'
<1>1. Cardinality(Lost) \in Nat /\ Cardinality(Lost') \in Nat /\ IsFiniteSet(Lost)
  BY LostFinite, LostFiniteNext
<1>2. Cardinality(Lost') <= Cardinality(Lost)
  BY <1>1, FS_Subset
<1>3. Pending \in Nat /\ Pending' \in Nat
  BY PendingType
<1>5. deaths + faults \in Nat /\ deaths' + faults' \in Nat
  <2>1. deaths \in Nat /\ faults \in Nat /\ deaths' \in Nat /\ faults' \in Nat
    BY DEF SyncTypeOK
  <2> QED BY <2>1, NatPlus, Zenon
<1>6. Cardinality(Lost) + Pending <= deaths + faults
  BY DEF Loss
<1>8. /\ Cardinality(Lost) + Pending <= deaths + faults
      /\ Cardinality(Lost') <= Cardinality(Lost)
      /\ Pending' + (deaths + faults) <= Pending + (deaths' + faults')
      => Cardinality(Lost') + Pending' <= deaths' + faults'
  BY <1>1, <1>3, <1>5, SumFree, Zenon
<1> QED BY <1>2, <1>6, <1>8 DEF Loss

\* A step that leaves a block behind pays for it.
LEMMA Charged ==
  ASSUME SyncTypeOK, SyncTypeOK', Loss, NEW b, Lost' \subseteq Lost \cup {b},
         Pending' + 1 + (deaths + faults) <= Pending + (deaths' + faults')
  PROVE  Loss'
<1>1. Cardinality(Lost) \in Nat /\ Cardinality(Lost') \in Nat /\ IsFiniteSet(Lost)
  BY LostFinite, LostFiniteNext
<1>2. /\ IsFiniteSet(Lost \cup {b})
      /\ Cardinality(Lost \cup {b}) \in Nat
      /\ Cardinality(Lost \cup {b}) <= Cardinality(Lost) + 1
  <2>1. /\ IsFiniteSet(Lost \cup {b})
        /\ \/ Cardinality(Lost \cup {b}) = Cardinality(Lost)
           \/ Cardinality(Lost \cup {b}) = Cardinality(Lost) + 1
    BY <1>1, FS_AddElement, Zenon
  <2> QED BY <2>1, <1>1
<1>3. Cardinality(Lost') <= Cardinality(Lost \cup {b})
  BY <1>2, FS_Subset
<1>4. Pending \in Nat /\ Pending' \in Nat
  BY PendingType
<1>5. deaths + faults \in Nat /\ deaths' + faults' \in Nat
  <2>1. deaths \in Nat /\ faults \in Nat /\ deaths' \in Nat /\ faults' \in Nat
    BY DEF SyncTypeOK
  <2> QED BY <2>1, NatPlus, Zenon
<1>6. Cardinality(Lost) + Pending <= deaths + faults
  BY DEF Loss
<1>7. Cardinality(Lost') <= Cardinality(Lost) + 1
  BY <1>1, <1>2, <1>3
<1>8. /\ Cardinality(Lost) + Pending <= deaths + faults
      /\ Cardinality(Lost') <= Cardinality(Lost) + 1
      /\ Pending' + 1 + (deaths + faults) <= Pending + (deaths' + faults')
      => Cardinality(Lost') + Pending' <= deaths' + faults'
  BY <1>1, <1>4, <1>5, SumCharged, Zenon
<1> QED BY <1>6, <1>7, <1>8 DEF Loss

\* Nothing is lost at the start.
LEMMA InitLoss == SyncInit => Loss
<1> SUFFICES ASSUME SyncInit PROVE Loss
  OBVIOUS
<1>1. Lost = {} /\ Pending = 0 /\ deaths + faults = 0
  BY DEF SyncInit, Lost, Pending
<1> QED BY <1>1, FS_EmptySet DEF Loss

\* Every step that leaves a block behind is a death or a failing call.
LEMMA NextLoss == ASSUME Order, Loss, [SyncNext]_syncVars PROVE Loss'
<1>1. Order' /\ SyncTypeOK /\ SyncTypeOK'
  <2>1. Order'
    BY NextOrder
  <2> QED BY <2>1 DEF Order
<1>2. deaths \in Nat /\ faults \in Nat /\ deaths' \in Nat /\ faults' \in Nat
  BY <1>1 DEF SyncTypeOK
<1>3. ASSUME NEW kind \in Kinds, CommitBlock(kind) PROVE Loss'
  <2>1. Lost' \subseteq Lost
    <3>1. kind \in AllKinds
      BY BlockSyncAssumption DEF BlockSyncAssumption
    <3>2. /\ Len(kinds') = Len(kinds) + 1
          /\ \A b \in 1..Len(kinds) : kinds'[b] = kinds[b]
          /\ \A b \in 1..Len(kinds') : b \in 1..Len(kinds) \/ b = Len(kinds) + 1
      BY <3>1, <1>3 DEF Order, SyncTypeOK, CommitBlock
    <3>3. Reach' = Reach /\ Reach <= Len(kinds) + 1
      BY <1>3 DEF Order, SyncTypeOK, Bounds, Reach, CommitBlock, sync
    <3>4. blockNum \in Nat /\ number \in Nat
      BY DEF Order, SyncTypeOK
    <3>5. SUFFICES ASSUME NEW b \in 1..Len(kinds'), b < Reach', kinds'[b] = "cross",
                          b # batch', ~Handled(b)'
                   PROVE  b \in Lost
      BY DEF Lost
    <3>6. b \in 1..Len(kinds)
      BY <3>2, <3>3, <3>4, <3>5 DEF Reach, Order, SyncTypeOK
    <3> QED BY <3>2, <3>3, <3>5, <3>6, <1>3 DEF Lost, Handled, CommitBlock, proc, history
  <2>2. Pending' + (deaths + faults) <= Pending + (deaths' + faults')
    <3>1. Pending' = Pending /\ deaths' = deaths /\ faults' = faults
      BY <1>3 DEF CommitBlock, Pending, proc
    <3>2. faults <= faults'
      BY <3>1, <1>2
    <3> QED BY <3>1, <3>2, <1>2, PendingType, LossSum
  <2> QED BY <1>1, <2>1, <2>2, Free
<1>4. CASE Persist
  <2>1. Lost' \subseteq Lost
    BY <1>4 DEF Order, Lost, Handled, Reach, Persist, proc, history
  <2>2. Pending' + (deaths + faults) <= Pending + (deaths' + faults')
    <3>1. Pending' = Pending /\ deaths' = deaths /\ faults <= faults'
      BY <1>4, <1>2 DEF Persist, Pending, proc, Fault, NoFault
    <3>2. faults <= faults'
      BY <3>1, <1>2
    <3> QED BY <3>1, <3>2, <1>2, PendingType, LossSum
  <2> QED BY <1>1, <2>1, <2>2, Free
<1>5. CASE Query
  <2>1. Lost' \subseteq Lost
    <3>1. up /\ up' /\ kinds' = kinds /\ handled' = handled /\ batch' = batch
      BY <1>5 DEF Query, proc, history
    <3>2. \/ blockNum' = blockNum
          \/ blockNum' = blockNum + 1 /\ kinds[blockNum] = "none"
      BY <1>5 DEF Query
    <3> QED BY <3>1, <3>2 DEF Order, SyncTypeOK, Lost, Handled, Reach
  <2>2. Pending' + (deaths + faults) <= Pending + (deaths' + faults')
    <3>1. Pending' = Pending /\ deaths' = deaths /\ faults <= faults'
      BY <1>5, <1>2 DEF Query, Pending, proc, Fault, NoFault
    <3>2. faults <= faults'
      BY <3>1, <1>2
    <3> QED BY <3>1, <3>2, <1>2, PendingType, LossSum
  <2> QED BY <1>1, <2>1, <2>2, Free
<1>6. CASE HandOver
  <2>1. Lost' \subseteq Lost
    <3>1. batch = 0
      BY <1>6 DEF Order, InHand, HandOver
    <3> QED BY <3>1, <1>6 DEF Order, SyncTypeOK, Lost, Handled, Reach, HandOver, history
  <2>2. Pending' + (deaths + faults) <= Pending + (deaths' + faults')
    <3>1. Pending' = Pending /\ deaths' = deaths /\ faults = faults'
      BY <1>6 DEF HandOver, Pending
    <3>2. faults <= faults'
      BY <3>1, <1>2
    <3> QED BY <3>1, <3>2, <1>2, PendingType, LossSum
  <2> QED BY <1>1, <2>1, <2>2, Free
<1>7. CASE ReportError
  <2>1. CASE procPc = "errParse"
    <3>1. Lost' \subseteq Lost
      BY <1>7, <2>1 DEF Lost, Handled, Reach, ReportError, sync, history
    <3>2. Pending = 0 /\ Pending' = 0 /\ deaths' = deaths /\ faults' = faults
      BY <1>7, <2>1 DEF Pending, ReportError
    <3>3. Pending' + (deaths + faults) <= Pending + (deaths' + faults')
      BY <3>2, <1>2
    <3> QED BY <1>1, <3>1, <3>3, Free
  <2>2. CASE procPc = "errAdd"
    <3>1. Lost' \subseteq Lost \cup {batch}
      BY <1>7, <2>2 DEF Lost, Handled, Reach, ReportError, sync, history
    <3>2. Pending = 1 /\ Pending' = 0 /\ deaths' = deaths /\ faults' = faults
      BY <1>7, <2>2 DEF Pending, ReportError
    <3>3. Pending' + 1 + (deaths + faults) <= Pending + (deaths' + faults')
      BY <3>2, <1>2
    <3> QED BY <1>1, <3>1, <3>3, Charged
  <2> QED BY <1>7, <2>1, <2>2 DEF ReportError
<1>8. CASE Add
  <2>1. CASE handled' = Append(handled, batch) /\ procPc' = "select" /\ batch' = 0 /\ NoFault
    <3>1. /\ DOMAIN handled \subseteq DOMAIN handled'
          /\ \A i \in DOMAIN handled : handled'[i] = handled[i]
          /\ Len(handled) + 1 \in DOMAIN handled' /\ handled'[Len(handled) + 1] = batch
      BY <2>1 DEF Order, SyncTypeOK
    <3>2. \E i \in DOMAIN handled' : handled'[i] = batch
      BY <3>1
    <3>3. \A b : (\E i \in DOMAIN handled : handled[i] = b)
                   => (\E i \in DOMAIN handled' : handled'[i] = b)
      BY <3>1
    <3>4. Lost' \subseteq Lost
      BY <3>2, <3>3, <1>8, <2>1 DEF Lost, Handled, Reach, Add, sync
    <3>5. Pending = 0 /\ Pending' = 0 /\ deaths' = deaths /\ faults' = faults
      BY <1>8, <2>1 DEF Pending, Add, NoFault
    <3>6. Pending' + (deaths + faults) <= Pending + (deaths' + faults')
      BY <3>5, <1>2
    <3> QED BY <1>1, <3>4, <3>6, Free
  <2>2. CASE procPc' = "errAdd" /\ Fault /\ UNCHANGED <<handled, batch>>
    <3>1. Lost' \subseteq Lost
      BY <1>8, <2>2 DEF Lost, Handled, Reach, Add, sync
    <3>2. Pending = 0 /\ Pending' = 1 /\ deaths' = deaths /\ faults' = faults + 1
      BY <1>8, <2>2 DEF Pending, Add, Fault
    <3>3. Pending' + (deaths + faults) <= Pending + (deaths' + faults')
      BY <3>2, <1>2
    <3> QED BY <1>1, <3>1, <3>3, Free
  <2> QED BY <1>8, <2>1, <2>2 DEF Add
<1>9. CASE StopCalled \/ CloseStop \/ SyncStops \/ ProcStops \/ StopReturns
  <2>1. Lost' \subseteq Lost
    BY <1>9 DEF Lost, Handled, Reach, StopCalled, CloseStop, SyncStops, ProcStops,
         StopReturns, sync, proc, history
  <2>2. Pending' + (deaths + faults) <= Pending + (deaths' + faults')
    <3>1. Pending' = Pending /\ deaths' = deaths /\ faults' = faults
      BY <1>9 DEF Pending, StopCalled, CloseStop, SyncStops, ProcStops, StopReturns, proc
    <3>2. faults <= faults'
      BY <3>1, <1>2
    <3> QED BY <3>1, <3>2, <1>2, PendingType, LossSum
  <2> QED BY <1>1, <2>1, <2>2, Free
<1>10. CASE Panic \/ Crash
  <2>1. Lost' \subseteq Lost \cup {batch}
    BY <1>10 DEF Order, SyncTypeOK, Bounds, Lost, Handled, Reach, Panic, Crash, Die, history
  <2>2. Pending' + 1 + (deaths + faults) <= Pending + (deaths' + faults')
    <3>1. Pending' = 0 /\ deaths' = deaths + 1 /\ faults' = faults
      BY <1>10 DEF Pending, Panic, Crash, Die
    <3>2. faults <= faults'
      BY <3>1, <1>2
    <3> QED BY <3>1, <3>2, <1>2, PendingType, LossSum
  <2> QED BY <1>1, <2>1, <2>2, Charged
<1>11. CASE Restart
  <2>1. Lost' \subseteq Lost
    BY <1>11 DEF Order, SyncTypeOK, Lost, Handled, Reach, Restart
  <2>2. Pending' + (deaths + faults) <= Pending + (deaths' + faults')
    <3>1. Pending' = 0 /\ deaths' = deaths /\ faults' = faults
      BY <1>11 DEF Pending, Restart
    <3>2. faults <= faults'
      BY <3>1, <1>2
    <3> QED BY <3>1, <3>2, <1>2, PendingType, LossSum
  <2> QED BY <1>1, <2>1, <2>2, Free
<1>12. CASE UNCHANGED syncVars
  <2>1. /\ Lost' = Lost /\ Pending' = Pending
        /\ deaths' = deaths /\ faults' = faults
    BY <1>12 DEF Lost, Handled, Reach, Pending, syncVars, sync, proc, history
  <2> QED BY <2>1 DEF Loss
<1> QED
  BY <1>3, <1>4, <1>5, <1>6, <1>7, <1>8, <1>9, <1>10, <1>11, <1>12 DEF SyncNext

-----------------------------------------------------------------------------
(* The theorems. *)

\* Order and Loss hold in every reachable state of the synchroniser.
THEOREM SyncInvHolds == SyncSpec => []SyncInv
<1>1. SyncInit => SyncInv
  BY InitOrder, InitLoss DEF SyncInv
<1>2. SyncInv /\ [SyncNext]_syncVars => SyncInv'
  BY NextOrder, NextLoss DEF SyncInv
<1> QED BY <1>1, <1>2, PTL DEF SyncSpec

\* The variables of the synchroniser keep their types.
THEOREM SyncTypeCorrect == SyncSpec => []SyncTypeOK
<1>1. SyncInv => SyncTypeOK
  BY DEF SyncInv, Order
<1> QED BY <1>1, SyncInvHolds, PTL

\* NewBlockSync and syncBlock: blocks reach AddCrossTxs in their order, and
\* only the last one can reach it again, after a restart.
THEOREM BlocksInOrder == SyncSpec => []HandledInOrder
<1>1. SyncInv => HandledInOrder
  BY DEF SyncInv, Order
<1> QED BY <1>1, SyncInvHolds, PTL

\* The number on disk runs ahead of what is handled, and yet each death or
\* failure costs at most one block of events, for any chain.
THEOREM OneBlockPerDeath == SyncSpec => []LossBounded
<1>1. ASSUME SyncInv PROVE LossBounded
  <2>1. SyncTypeOK /\ Loss
    BY <1>1 DEF SyncInv, Order
  <2>2. IsFiniteSet(Lost) /\ Cardinality(Lost) \in Nat
    BY <2>1, LostFinite
  <2>3. LeftBehind \subseteq Lost
    BY <1>1 DEF SyncInv, Order, SyncTypeOK, LeftBehind, Lost, Handled, Reach
  <2>4. Cardinality(LeftBehind) <= Cardinality(Lost) /\ Cardinality(LeftBehind) \in Nat
    BY <2>2, <2>3, FS_Subset, FS_CardinalityType
  <2>5. deaths \in Nat /\ faults \in Nat /\ Pending \in Nat
    BY <2>1 DEF SyncTypeOK, Pending
  <2> QED BY <2>1, <2>2, <2>4, <2>5 DEF Loss, LossBounded
<1> QED BY <1>1, SyncInvHolds, PTL

=============================================================================
