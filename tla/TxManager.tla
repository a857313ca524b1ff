----------------------------- MODULE TxManager -----------------------------
(***************************************************************************)
(* The courier's transaction manager (fabric/courier/txmanager.go) on the  *)
(* path Fabric -> SimpleChain: a contract precommitted on Fabric is saved, *)
(* signed and sent to the hub; the receipt of the taker's transaction on   *)
(* SimpleChain comes back and is committed to the chaincode.               *)
(*                                                                         *)
(* Goroutines, each with the actions of its steps:                         *)
(*   BlockSync.processPreTxs   AddPush, AddSave, AddSignal  (AddCrossTxs)  *)
(*   ProcessCrossTxs           TakePending, SendOk, SendFail, SendDone     *)
(*   its update goroutines     ApplyPending                                *)
(*   AddCrossTxReceipt         ReceiveReceipt, SignalExecuted              *)
(*   ProcessCrossTxReceipts    TakeExecuted, UpdateExecuted, UpdateFails   *)
(*   its commit goroutines     CommitOne                                   *)
(* Everything in memory is lost by Crash; Restart is NewTxManager + Start. *)
(*                                                                         *)
(* A receipt is identified by the transaction it settles, so the receipt   *)
(* of id is written id.  A queue is a multiset: prque orders entries by    *)
(* timestamp, and every reader empties it.                                 *)
(***************************************************************************)
EXTENDS Integers, Sequences

CONSTANTS
  Ids,           \* cross transactions, by CrossID
  None,          \* no receipt stored
  PendingCap,    \* capacity of pending.process (4 in the code)
  ExecutedCap,   \* capacity of executed.process (8 in the code)
  RacyPushes,    \* may an unlocked Push collide with another queue access?
  ReceiptFrom,   \* which receipts may arrive: "any", of the "sent", of the "saved"
  FaultKinds,    \* which of "send", "invoke", "db" may fail
  MaxFaults,     \* bound on failing calls
  MaxCrashes,    \* bound on Restart
  MaxReceipts    \* bound on deliveries of one receipt

ASSUME TxManagerAssumption ==
  /\ None \notin Ids
  /\ PendingCap \in Nat \ {0} /\ ExecutedCap \in Nat \ {0}
  /\ RacyPushes \in BOOLEAN
  /\ ReceiptFrom \in {"any", "sent", "saved"}
  /\ FaultKinds \subseteq {"send", "invoke", "db"}
  /\ MaxFaults \in Nat /\ MaxCrashes \in Nat /\ MaxReceipts \in Nat

VARIABLES
  contract,     \* chaincode state of each contract
  chain,        \* Fabric blocks, each a set of events
  status,       \* storm: CrossTx.Status ("None": no record)
  receipt,      \* storm: PrecommitContract.Receipt
  number,       \* storm: config/number, the block to resume from
  next,         \* the block BlockSync hands over next, or is handing over
  addPc,        \* where AddCrossTxs is; "stopped" once BlockSync gave up
  pendingQ,     \* pending.prq
  pendingSig,   \* tokens in pending.process
  sending,      \* popped by ProcessCrossTxs, not yet sent
  successList,  \* sent in this round
  updating,     \* `go DB.Updates(successList, Pending)', by successList
  executedQ,    \* executed.prq
  toSignal,     \* AddCrossTxReceipt goroutines that still have to signal
  executedSig,  \* tokens in executed.process
  executed,     \* popped by ProcessCrossTxReceipts, not yet stored
  commits,      \* receipts the commit goroutines still have to invoke
  up,           \* the process runs
  panicked,     \* why it last died: "no" or "updates"
  sent,         \* history: ever sent to the hub
  received,     \* history: deliveries of each receipt
  lostSends,    \* history: contracts the sender's memory lost since their push
  lostReceipts, \* history: receipts lost since they last came
  faults, crashes

ledger   == <<contract, chain>>
disk     == <<status, receipt, number>>
adder    == <<next, addPc>>
sender   == <<pendingQ, pendingSig, sending, successList, updating>>
receiver == <<executedQ, toSignal, executedSig, executed, commits>>
life     == <<up, panicked>>
losses   == <<lostSends, lostReceipts>>
history  == <<sent, received, losses, faults, crashes>>
vars     == <<ledger, disk, adder, sender, receiver, life, history>>

Kinds   == {"Init", "Finished"}
Event   == [kind : Kinds, id : Ids]
Statuses == {"None", "Init", "Pending", "Executed", "Finished", "Completed"}

-----------------------------------------------------------------------------
(* Multisets over a fixed domain. *)

Empty(S)   == [x \in S |-> 0]
Items(q)   == {x \in DOMAIN q : q[x] > 0}
Push(q, x) == [q EXCEPT ![x] = @ + 1]
Drop(q, x) == [q EXCEPT ![x] = @ - 1]
PushSet(q, S) == [x \in DOMAIN q |-> IF x \in S THEN q[x] + 1 ELSE q[x]]

PushAll(q, batch) == [x \in DOMAIN q |-> q[x] + batch[x]]

\* prque without its mutex: the entries land, or a colliding access makes the
\* queue lose one of its entries.
UnlockedPush_Forgotten(q, batch, lost) == {[queue |-> q, lost |-> lost]}
UnlockedPush(q, batch, lost) ==
  LET landed == PushAll(q, batch)
      collided == {[queue |-> Drop(landed, x), lost |-> lost \cup {x}] : x \in Items(landed)}
  IN {[queue |-> landed, lost |-> lost]} \cup (IF RacyPushes THEN collided ELSE {})

Single(x) == Push(Empty(Ids), x)

\* a token into a buffered channel, which blocks when it is full
Signal_Lost(sig, cap) == UNCHANGED sig
Signal(sig, cap) == sig < cap /\ sig' = sig + 1

NoFault(kind) == UNCHANGED faults
Fault(kind) ==
  /\ kind \in FaultKinds
  /\ faults < MaxFaults
  /\ faults' = faults + 1

-----------------------------------------------------------------------------
(* The chaincode, as the courier sees it. *)

\* precommit: the contracts of S enter the ledger in one block.
Precommit(S) ==
  /\ S # {} /\ \A id \in S : contract[id] = "None"
  /\ contract' = [id \in Ids |-> IF id \in S THEN "Init" ELSE contract[id]]
  /\ chain' = Append(chain, [kind : {"Init"}, id : S])
  /\ UNCHANGED <<disk, adder, sender, receiver, life, history>>

\* regularCommit: the first commit finishes the contract and emits an event,
\* a repeated one is answered "replicate call commit".
RegularCommit_WrongId(id) ==
  IF contract[id] = "Init"
  THEN \E other \in Ids :
         /\ contract' = [contract EXCEPT ![other] = "Finished"]
         /\ chain' = Append(chain, [kind : {"Finished"}, id : {other}])
  ELSE UNCHANGED ledger
RegularCommit(id) ==
  IF contract[id] = "Init"
  THEN /\ contract' = [contract EXCEPT ![id] = "Finished"]
       /\ chain' = Append(chain, [kind : {"Finished"}, id : {id}])
  ELSE UNCHANGED ledger

-----------------------------------------------------------------------------
(* Storm transactions. *)

\* Store.Save: a new record is stored, a Finished event completes a known one,
\* any other duplicate is skipped.
SaveOne_Eager(old, ev) == IF old = "None" THEN ev.kind ELSE "Completed"
SaveOne(old, ev) ==
  IF old = "None" THEN ev.kind
  ELSE IF ev.kind = "Finished" THEN "Completed" ELSE old

Save(evs) ==
  status' = [id \in Ids |->
    IF \E ev \in evs : ev.id = id
    THEN SaveOne(status[id], CHOOSE ev \in evs : ev.id = id)
    ELSE status[id]]

Known(S) == \A id \in S : status[id] # "None"

\* Store.Updates with an updater that sets the status, on known records.
SetStatus(S, s) ==
  status' = [id \in Ids |-> IF id \in S THEN s ELSE status[id]]

-----------------------------------------------------------------------------
(* The life of the process. *)

ClearMemory ==
  /\ addPc' = "idle" /\ next' = number'
  /\ pendingQ' = Empty(Ids) /\ sending' = Empty(Ids) /\ successList' = {}
  /\ updating' = Empty(SUBSET Ids)
  /\ executedQ' = Empty(Ids) /\ toSignal' = 0 /\ executedSig' = 0
  /\ executed' = Empty(Ids) /\ commits' = Empty(Ids)

\* contracts in the sender's memory, and receipts in the receiver's
Relaying ==
  Items(pendingQ) \cup Items(sending) \cup successList
    \cup UNION {S \in SUBSET Ids : updating[S] > 0}
Committing == Items(executedQ) \cup Items(executed) \cup Items(commits)

Die(why) ==
  /\ up' = FALSE /\ panicked' = why
  /\ UNCHANGED <<status, receipt, number>>
  /\ ClearMemory /\ pendingSig' = 0
  /\ lostSends' = lostSends \cup Relaying
  /\ lostReceipts' = lostReceipts \cup Committing

Crash ==
  /\ up /\ crashes < MaxCrashes
  /\ Die("no")
  /\ UNCHANGED <<ledger, sent, received, faults, crashes>>

\* NewBlockSync reads config/number.  reload puts nothing into the two queues:
\* its queries name the fields Status and Timestamp, which a CrossTx has not
\* (an embedded interface, TimeStamp), and Store.Query drops storm's error.
\* The pending queue gets its token all the same.
Restart ==
  /\ ~up /\ crashes < MaxCrashes
  /\ crashes' = crashes + 1
  /\ up' = TRUE
  /\ UNCHANGED <<disk, panicked, ledger, sent, received, losses, faults>>
  /\ ClearMemory /\ pendingSig' = 1

-----------------------------------------------------------------------------
(* BlockSync hands each block to AddCrossTxs. *)

\* syncBlock stores the number of a block before it queries it, and goes on to
\* the next block while AddCrossTxs still runs.
Persist ==
  /\ up /\ addPc # "stopped"
  /\ number < (IF addPc = "idle" THEN next ELSE next + 1)
  /\ number' = number + 1
  /\ UNCHANGED <<ledger, status, receipt, adder, sender, receiver, life, history>>

AddPush ==
  /\ up /\ addPc = "idle" /\ number = next /\ next <= Len(chain)
  /\ LET pushed == {ev.id : ev \in {e \in chain[next] : e.kind = "Init"}}
     IN pendingQ' = PushSet(pendingQ, pushed) /\ lostSends' = lostSends \ pushed
  /\ addPc' = "save"
  /\ UNCHANGED <<ledger, disk, next, pendingSig, sending, successList, updating,
                 receiver, life, sent, received, lostReceipts, faults, crashes>>

AddSave ==
  /\ up /\ addPc = "save"
  /\ \/ Save(chain[next]) /\ addPc' = "signal" /\ NoFault("db")
     \/ UNCHANGED status /\ addPc' = "stopped" /\ Fault("db")
  /\ UNCHANGED <<ledger, receipt, number, next, sender, receiver, life,
                 sent, received, losses, crashes>>

AddSignal ==
  /\ up /\ addPc = "signal"
  /\ IF Items(pendingQ) # {}
     THEN Signal(pendingSig, PendingCap)
     ELSE UNCHANGED pendingSig
  /\ addPc' = "idle" /\ next' = next + 1
  /\ UNCHANGED <<ledger, disk, pendingQ, sending, successList, updating,
                 receiver, life, history>>

-----------------------------------------------------------------------------
(* ProcessCrossTxs. *)

SenderIdle == Items(sending) = {} /\ successList = {}

TakePending ==
  /\ up /\ SenderIdle /\ pendingSig > 0
  /\ pendingSig' = pendingSig - 1
  /\ sending' = pendingQ
  /\ pendingQ' = Empty(Ids)
  /\ UNCHANGED <<ledger, disk, adder, successList, updating, receiver, life, history>>

SendOk(id) ==
  /\ up /\ id \in Items(sending)
  /\ sending' = Drop(sending, id)
  /\ successList' = successList \cup {id}
  /\ sent' = sent \cup {id}
  /\ UNCHANGED <<ledger, disk, adder, pendingQ, pendingSig, updating, receiver,
                 life, received, losses, faults, crashes>>

\* signTx or Send failed: back into the queue, unlocked and without a signal.
SendFail(id) ==
  /\ up /\ id \in Items(sending) /\ Fault("send")
  /\ sending' = Drop(sending, id)
  /\ \E r \in UnlockedPush(pendingQ, Single(id), lostSends) :
       pendingQ' = r.queue /\ lostSends' = r.lost
  /\ UNCHANGED <<ledger, disk, adder, pendingSig, successList, updating, receiver,
                 life, sent, received, lostReceipts, crashes>>

SendDone ==
  /\ up /\ Items(sending) = {} /\ successList # {}
  /\ updating' = Push(updating, successList)
  /\ successList' = {}
  /\ UNCHANGED <<ledger, disk, adder, pendingQ, pendingSig, sending, receiver,
                 life, history>>

\* The update goroutine: one transaction for the whole list, panic on error.
ApplyPending(S) ==
  /\ up /\ updating[S] > 0
  /\ \/ /\ Known(S) /\ NoFault("db")
        /\ updating' = Drop(updating, S)
        /\ SetStatus(S, "Pending")
        /\ UNCHANGED <<receipt, number, adder, pendingQ, pendingSig, sending,
                       successList, receiver, life, losses>>
     \/ /\ ~Known(S) /\ NoFault("db") /\ Die("updates")
     \/ /\ Known(S) /\ Fault("db") /\ Die("updates")
  /\ UNCHANGED <<ledger, sent, received, crashes>>

-----------------------------------------------------------------------------
(* AddCrossTxReceipt and ProcessCrossTxReceipts. *)

Deliverable(id) ==
  CASE ReceiptFrom = "any"    -> TRUE
    [] ReceiptFrom = "sent"   -> id \in sent
    [] ReceiptFrom = "saved"  -> id \in sent /\ status[id] # "None"

\* receive() gets a receipt from the hub: again, before the contract was saved,
\* or of an id that no contract here has.
ReceiveReceipt(id) ==
  /\ up /\ Deliverable(id) /\ received[id] < MaxReceipts
  /\ received' = [received EXCEPT ![id] = @ + 1]
  /\ executedQ' = Push(executedQ, id)
  /\ toSignal' = toSignal + 1
  /\ lostReceipts' = lostReceipts \ {id}
  /\ UNCHANGED <<ledger, disk, adder, sender, executedSig, executed, commits,
                 life, sent, lostSends, faults, crashes>>

SignalExecuted ==
  /\ up /\ toSignal > 0
  /\ toSignal' = toSignal - 1
  /\ Signal(executedSig, ExecutedCap)
  /\ UNCHANGED <<ledger, disk, adder, sender, executedQ, executed, commits,
                 life, history>>

TakeExecuted ==
  /\ up /\ Items(executed) = {} /\ executedSig > 0
  /\ executedSig' = executedSig - 1
  /\ executed' = executedQ
  /\ executedQ' = Empty(Ids)
  /\ UNCHANGED <<ledger, disk, adder, sender, toSignal, commits, life, history>>

\* UpdateCrossTx: every updater captured the loop variable ctr, so each record
\* of the batch gets the receipt of the last one.  A record saved from a
\* Finished event is no PrecommitContract and keeps no receipt.
UpdateExecuted(last) ==
  /\ up /\ last \in Items(executed)
  /\ IF Known(Items(executed))
     THEN /\ SetStatus(Items(executed), "Executed")
          /\ receipt' = [id \in Ids |->
               IF id \in Items(executed) /\ status[id] # "Finished"
               THEN last ELSE receipt[id]]
          /\ commits' = [id \in Ids |-> commits[id] + executed[id]]
          /\ UNCHANGED lostReceipts
     ELSE /\ lostReceipts' = lostReceipts \cup Items(executed)  \* ErrNotFound: discarded
          /\ UNCHANGED <<status, receipt, commits>>
  /\ executed' = Empty(Ids)
  /\ UNCHANGED <<ledger, number, adder, sender, executedQ, toSignal, executedSig,
                 life, sent, received, lostSends, faults, crashes>>

\* Any other database error: the batch goes back, unlocked and unsignalled.
UpdateFails ==
  /\ up /\ Items(executed) # {} /\ Fault("db")
  /\ \E r \in UnlockedPush(executedQ, executed, lostReceipts) :
       executedQ' = r.queue /\ lostReceipts' = r.lost
  /\ executed' = Empty(Ids)
  /\ UNCHANGED <<ledger, disk, adder, sender, toSignal, executedSig, commits,
                 life, sent, received, lostSends, crashes>>

\* InvokeChainCode("commit"), then the receipt is pushed again, unlocked,
\* whether the call succeeded or not.
CommitOne(id) ==
  /\ up /\ commits[id] > 0
  /\ commits' = Drop(commits, id)
  /\ \/ RegularCommit(id) /\ NoFault("invoke")
     \/ UNCHANGED ledger /\ Fault("invoke")
  /\ \E r \in UnlockedPush(executedQ, Single(id), lostReceipts) :
       executedQ' = r.queue /\ lostReceipts' = r.lost
  /\ UNCHANGED <<disk, adder, sender, toSignal, executedSig, executed, life,
                 sent, received, lostSends, crashes>>

-----------------------------------------------------------------------------

Init ==
  /\ contract = [id \in Ids |-> "None"] /\ chain = << >>
  /\ status = [id \in Ids |-> "None"] /\ receipt = [id \in Ids |-> None]
  /\ number = 1 /\ next = 1 /\ addPc = "idle"
  /\ pendingQ = Empty(Ids) /\ pendingSig = 1 /\ sending = Empty(Ids)
  /\ successList = {} /\ updating = Empty(SUBSET Ids)
  /\ executedQ = Empty(Ids) /\ toSignal = 0
  /\ executedSig = 0 /\ executed = Empty(Ids) /\ commits = Empty(Ids)
  /\ up = TRUE /\ panicked = "no"
  /\ sent = {} /\ received = Empty(Ids) /\ lostSends = {} /\ lostReceipts = {}
  /\ faults = 0 /\ crashes = 0

Environment ==
  \/ \E S \in SUBSET Ids : Precommit(S)
  \/ \E id \in Ids : ReceiveReceipt(id)
  \/ Crash
  \/ Restart

Program ==
  \/ Persist \/ AddPush \/ AddSave \/ AddSignal
  \/ TakePending \/ SendDone
  \/ \E id \in Ids : SendOk(id) \/ SendFail(id)
  \/ \E S \in SUBSET Ids : ApplyPending(S)
  \/ SignalExecuted \/ TakeExecuted \/ UpdateFails
  \/ \E id \in Ids : UpdateExecuted(id) \/ CommitOne(id)

Next == Environment \/ Program

Spec == Init /\ [][Next]_vars

\* Each goroutine keeps running; nothing is assumed of users, of the hub, or
\* of who restarts a dead process.
Fairness ==
  /\ WF_vars(Persist) /\ WF_vars(AddPush) /\ WF_vars(AddSave) /\ WF_vars(AddSignal)
  /\ WF_vars(TakePending) /\ WF_vars(SendDone)
  /\ WF_vars(\E id \in Ids : SendOk(id) \/ SendFail(id))
  /\ \A S \in SUBSET Ids : WF_vars(ApplyPending(S))
  /\ WF_vars(SignalExecuted) /\ WF_vars(TakeExecuted)
  /\ WF_vars(UpdateFails \/ \E id \in Ids : UpdateExecuted(id))
  /\ \A id \in Ids : WF_vars(CommitOne(id))

FairSpec == Spec /\ Fairness

-----------------------------------------------------------------------------
(* Properties. *)

LedgerOK ==
  /\ contract \in [Ids -> {"None", "Init", "Finished"}]
  /\ chain \in Seq(SUBSET Event)
DiskOK ==
  /\ status \in [Ids -> Statuses]
  /\ receipt \in [Ids -> Ids \cup {None}]
  /\ number \in Nat \ {0}
AdderOK ==
  /\ next \in Nat \ {0}
  /\ addPc \in {"idle", "save", "signal", "stopped"}
SenderOK ==
  /\ pendingQ \in [Ids -> Nat] /\ pendingSig \in 0..PendingCap
  /\ sending \in [Ids -> Nat] /\ successList \in SUBSET Ids
  /\ updating \in [SUBSET Ids -> Nat]
ReceiverOK ==
  /\ executedQ \in [Ids -> Nat] /\ executed \in [Ids -> Nat] /\ commits \in [Ids -> Nat]
  /\ toSignal \in Nat /\ executedSig \in 0..ExecutedCap
LifeOK ==
  /\ up \in BOOLEAN /\ panicked \in {"no", "updates"}
HistoryOK ==
  /\ sent \in SUBSET Ids /\ received \in [Ids -> Nat]
  /\ lostSends \in SUBSET Ids /\ lostReceipts \in SUBSET Ids
  /\ faults \in Nat /\ crashes \in Nat

\* Every variable keeps its shape, and the two token channels of NewTxManager
\* never hold more than their capacity.
TypeOK == LedgerOK /\ DiskOK /\ AdderOK /\ SenderOK /\ ReceiverOK /\ LifeOK /\ HistoryOK

\* The store is never ahead of the two chains, whatever is redelivered, fails,
\* collides or is lost in a crash: a record exists only for a contract on the
\* ledger, is Pending only if it was sent, Executed only if its receipt came,
\* Completed only if the chaincode finished it (Store.Save, Store.Updates).
StatusBacked ==
  \A id \in Ids :
    /\ status[id] # "None" => contract[id] # "None"
    /\ status[id] = "Pending" => id \in sent
    /\ status[id] = "Executed" => received[id] > 0
    /\ status[id] \in {"Finished", "Completed"} => contract[id] = "Finished"

\* The chaincode finishes a contract (it pays on Fabric) only after a receipt
\* of that very contract came from SimpleChain (ProcessCrossTxReceipts).
CommitBacked == \A id \in Ids : contract[id] = "Finished" => received[id] > 0

\* A saved contract that was not sent is on its way to the sender: in the queue,
\* in the round being sent, or in an update goroutine.  Only a death of the
\* process and the collision of an unlocked re-push lose one: no failed send,
\* no interleaving of AddCrossTxs with the sender, no block handed over twice.
InitTracked == \A id \in Ids : status[id] = "Init" => id \in Relaying \cup lostSends

\* A receipt that came is on its way to the chaincode until its contract is
\* finished.  Only a death, the collision of an unlocked re-push, and the
\* discarding of a batch that holds an unknown id lose one: no failed
\* call, no receipt that comes early or twice (ProcessCrossTxReceipts).
ReceiptTracked ==
  \A id \in Ids : received[id] > 0 =>
    contract[id] = "Finished" \/ id \in Committing \cup lostReceipts

Undisturbed == up /\ faults = 0

\* A precommitted contract is eventually sent to the hub, unless the process
\* dies or a call fails: no wake-up between AddCrossTxs and ProcessCrossTxs is lost.
PrecommitRelayed ==
  \A id \in Ids : contract[id] = "Init" ~> (id \in sent \/ ~Undisturbed)

\* A received receipt is eventually committed on Fabric: no wake-up between
\* AddCrossTxReceipt and ProcessCrossTxReceipts is lost.
ReceiptCommitted ==
  \A id \in Ids : received[id] > 0 ~> (contract[id] = "Finished" \/ ~Undisturbed)
=============================================================================
