-------------------------- MODULE TxManagerProofs --------------------------
(***************************************************************************)
(* Type correctness of TxManager, and its safety theorems: the store is    *)
(* never ahead of the chains, nothing is committed on Fabric before its    *)
(* receipt came, and contracts and receipts are lost in the ways named,    *)
(* for every set of transactions, every capacity, every bound, and         *)
(* whatever fails, is redelivered or crashes.                              *)
(***************************************************************************)
EXTENDS TxManager, TLAPS

\* Pushing adds one occurrence of one element.
LEMMA PushFacts ==
  ASSUME NEW D, NEW q \in [D -> Nat], NEW x \in D
  PROVE  /\ Push(q, x) \in [D -> Nat]
         /\ \A y \in D : Push(q, x)[y] > 0 => q[y] > 0 \/ y = x
  BY DEF Push

\* Dropping an element that is there leaves a multiset with nothing new.
LEMMA DropFacts ==
  ASSUME NEW D, NEW q \in [D -> Nat], NEW x \in D, q[x] > 0
  PROVE  /\ Drop(q, x) \in [D -> Nat]
         /\ \A y \in D : Drop(q, x)[y] > 0 => q[y] > 0
  BY DEF Drop

\* Pushing a batch back adds what is in the batch.
LEMMA PushAllFacts ==
  ASSUME NEW D, NEW q \in [D -> Nat], NEW b \in [D -> Nat]
  PROVE  /\ PushAll(q, b) \in [D -> Nat]
         /\ \A y \in D : PushAll(q, b)[y] > 0 <=> q[y] > 0 \/ b[y] > 0
  BY DEF PushAll

\* An unlocked push, colliding or not, makes no entry up, and what it drops it
\* notes as lost.
LEMMA UnlockedPushFacts ==
  ASSUME NEW D, NEW q \in [D -> Nat], NEW b \in [D -> Nat], NEW lost \in SUBSET D,
         NEW r \in UnlockedPush(q, b, lost)
  PROVE  /\ r.queue \in [D -> Nat] /\ r.lost \in SUBSET D /\ lost \subseteq r.lost
         /\ \A y \in D : r.queue[y] > 0 => q[y] > 0 \/ b[y] > 0
         /\ \A y \in D : q[y] > 0 \/ b[y] > 0 => r.queue[y] > 0 \/ y \in r.lost
<1> DEFINE landed == PushAll(q, b)
<1>1. /\ landed \in [D -> Nat]
      /\ \A y \in D : landed[y] > 0 <=> q[y] > 0 \/ b[y] > 0
  BY PushAllFacts
<1>2. \/ r = [queue |-> landed, lost |-> lost]
      \/ \E x \in Items(landed) : r = [queue |-> Drop(landed, x), lost |-> lost \cup {x}]
  BY DEF UnlockedPush
<1> HIDE DEF landed
<1>3. CASE r = [queue |-> landed, lost |-> lost]
  BY <1>1, <1>3
<1>4. ASSUME NEW x \in Items(landed), r = [queue |-> Drop(landed, x), lost |-> lost \cup {x}]
      PROVE  /\ r.queue \in [D -> Nat] /\ r.lost = lost \cup {x} /\ x \in D
             /\ \A y \in D : r.queue[y] > 0 => landed[y] > 0
             /\ \A y \in D : y # x => r.queue[y] = landed[y]
  <2>1. x \in D /\ landed[x] > 0
    BY <1>1 DEF Items
  <2>2. r.queue = Drop(landed, x) /\ r.lost = lost \cup {x}
    BY <1>4
  <2>3. \A y \in D : y # x => Drop(landed, x)[y] = landed[y]
    BY <1>1 DEF Drop
  <2> QED BY <1>1, <2>1, <2>2, <2>3, DropFacts
<1> QED BY <1>1, <1>2, <1>3, <1>4

\* A batch of one entry.
LEMMA SingleFacts ==
  ASSUME NEW x \in Ids
  PROVE  /\ Single(x) \in [Ids -> Nat]
         /\ \A y \in Ids : Single(x)[y] > 0 <=> y = x
  BY DEF Single, Push, Empty

\* A record of Save is a status, and it is backed by the events saved.
LEMMA SaveFacts ==
  ASSUME NEW evs \in SUBSET Event, status \in [Ids -> Statuses], Save(evs)
  PROVE  /\ status' \in [Ids -> Statuses]
         /\ \A id \in Ids :
              \/ status'[id] = status[id]
              \/ \E ev \in evs : /\ ev.id = id
                                 /\ \/ ev.kind = "Finished" /\ status'[id] \in {"Finished", "Completed"}
                                    \/ ev.kind = "Init" /\ status[id] = "None" /\ status'[id] = "Init"
<1>1. ASSUME NEW id \in Ids, \E ev \in evs : ev.id = id
      PROVE  \E ev \in evs : ev.id = id /\ status'[id] = SaveOne(status[id], ev)
  <2> DEFINE c == CHOOSE ev \in evs : ev.id = id
  <2>1. c \in evs /\ c.id = id
    BY <1>1
  <2>2. status'[id] = SaveOne(status[id], c)
    BY <1>1 DEF Save
  <2> QED BY <2>1, <2>2
<1>2. ASSUME NEW id \in Ids, ~ \E ev \in evs : ev.id = id
      PROVE  status'[id] = status[id]
  BY <1>2 DEF Save
<1>3. ASSUME NEW ev \in evs
      PROVE  ev.kind \in {"Init", "Finished"}
  BY DEF Event, Kinds
<1>4. status' = [id \in Ids |-> status'[id]]
  BY DEF Save
<1>5. ASSUME NEW id \in Ids
      PROVE  /\ status'[id] \in Statuses
             /\ \/ status'[id] = status[id]
                \/ \E ev \in evs : /\ ev.id = id
                                   /\ \/ ev.kind = "Finished" /\ status'[id] \in {"Finished", "Completed"}
                                      \/ ev.kind = "Init" /\ status[id] = "None" /\ status'[id] = "Init"
  BY <1>1, <1>2, <1>3, <1>5 DEF SaveOne, Statuses
<1> QED BY <1>4, <1>5

-----------------------------------------------------------------------------
(* The inductive invariant. *)

\* Events on the chain report what the chaincode did.
ChainBacked ==
  \A i \in 1..Len(chain) : \A ev \in chain[i] :
    /\ contract[ev.id] # "None"
    /\ ev.kind = "Finished" => contract[ev.id] = "Finished"

\* AddCrossTxs works on a block that exists.
AdderInChain == addPc \in {"save", "signal"} => next \in 1..Len(chain)

\* What waits to become Pending was sent.
UpdatesBacked ==
  /\ successList \subseteq sent
  /\ \A S \in SUBSET Ids : updating[S] > 0 => S \subseteq sent

\* Wherever a receipt is in the pipeline, it was received.
ReceiptsBacked ==
  \A id \in Ids :
    executedQ[id] > 0 \/ executed[id] > 0 \/ commits[id] > 0 => received[id] > 0

IInv ==
  /\ TypeOK
  /\ ChainBacked
  /\ AdderInChain
  /\ UpdatesBacked
  /\ ReceiptsBacked
  /\ StatusBacked
  /\ CommitBacked

\* An empty queue.
LEMMA EmptyFacts == ASSUME NEW D PROVE Empty(D) \in [D -> Nat] /\ \A x \in D : Empty(D)[x] = 0
  BY DEF Empty

\* Nothing is stored, queued or on the ledger before NewTxManager.
LEMMA InitIInv == Init => IInv
<1> SUFFICES ASSUME Init PROVE IInv
  OBVIOUS
<1>1. LedgerOK /\ DiskOK
  BY TxManagerAssumption DEF Init, LedgerOK, DiskOK, Statuses
<1>2. AdderOK /\ LifeOK /\ HistoryOK
  BY DEF Init, AdderOK, LifeOK, HistoryOK, Empty
<1>3. SenderOK /\ ReceiverOK
  <2>1. 0 \in 0..ExecutedCap /\ 1 \in 0..PendingCap
    BY TxManagerAssumption
  <2>2. Empty(Ids) \in [Ids -> Nat] /\ Empty(SUBSET Ids) \in [SUBSET Ids -> Nat]
    BY EmptyFacts
  <2> QED BY <2>1, <2>2 DEF Init, SenderOK, ReceiverOK
<1>4. ChainBacked /\ AdderInChain /\ UpdatesBacked /\ ReceiptsBacked
  BY DEF Init, ChainBacked, AdderInChain, UpdatesBacked, ReceiptsBacked, Empty
<1>5. StatusBacked /\ CommitBacked
  BY DEF Init, StatusBacked, CommitBacked
<1> QED BY <1>1, <1>2, <1>3, <1>4, <1>5 DEF IInv, TypeOK

\* The parts that speak of the ledger and the store, and of the queues.
Backed == ChainBacked /\ StatusBacked /\ CommitBacked
Queues == AdderInChain /\ UpdatesBacked /\ ReceiptsBacked

\* A precommit adds a block of Init events of contracts that are then on the ledger.
LEMMA PrecommitInv ==
  ASSUME IInv, NEW S \in SUBSET Ids, Precommit(S)
  PROVE  IInv'
<1> DEFINE block == [kind : {"Init"}, id : S]
<1>1. block \in SUBSET Event
  BY DEF Event, Kinds
<1>2. contract' \in [Ids -> {"None", "Init", "Finished"}]
  BY DEF IInv, TypeOK, LedgerOK, Precommit
<1>3. chain' = Append(chain, block) /\ chain' \in Seq(SUBSET Event)
  BY <1>1 DEF IInv, TypeOK, LedgerOK, Precommit
<1>4. TypeOK'
  BY <1>2, <1>3 DEF IInv, TypeOK, LedgerOK, DiskOK, AdderOK, SenderOK, ReceiverOK,
     LifeOK, HistoryOK, Precommit, disk, adder, sender, receiver, life, history, losses
<1>5. \A id \in Ids : contract[id] # "None" => contract'[id] = contract[id]
  BY DEF IInv, TypeOK, LedgerOK, Precommit
<1>6. ChainBacked'
  <2> SUFFICES ASSUME NEW i \in 1..Len(chain'), NEW ev \in chain'[i]
               PROVE  /\ contract'[ev.id] # "None"
                      /\ ev.kind = "Finished" => contract'[ev.id] = "Finished"
    BY DEF ChainBacked
  <2>0. chain \in Seq(SUBSET Event)
    BY DEF IInv, TypeOK, LedgerOK
  <2>1. CASE i \in 1..Len(chain)
    <3>1. chain[i] \in SUBSET Event /\ chain'[i] = chain[i]
      BY <2>0, <2>1, <1>3
    <3>2. ev.id \in Ids
      BY <3>1 DEF Event
    <3> QED BY <2>1, <3>1, <3>2, <1>5 DEF IInv, ChainBacked
  <2>2. CASE i = Len(chain) + 1
    <3>1. ev \in block
      BY <2>0, <2>2, <1>3
    <3>2. ev.kind = "Init" /\ ev.id \in S /\ ev.id \in Ids
      BY <3>1
    <3> QED BY <3>2 DEF Precommit
  <2> QED BY <2>0, <2>1, <2>2, <1>3
<1>7. Queues'
  <2>1. Len(chain') = Len(chain) + 1 /\ Len(chain) \in Nat
    BY <1>3 DEF IInv, TypeOK, LedgerOK
  <2>2. AdderInChain'
    BY <2>1 DEF IInv, TypeOK, AdderOK, AdderInChain, Precommit, adder
  <2>3. UpdatesBacked' /\ ReceiptsBacked'
    BY DEF IInv, UpdatesBacked, ReceiptsBacked, Precommit, sender, receiver, history, losses
  <2> QED BY <2>2, <2>3 DEF Queues
<1>8. StatusBacked'
  BY <1>5 DEF IInv, StatusBacked, Precommit, disk, history, losses
<1>9. CommitBacked'
  BY <1>5 DEF IInv, TypeOK, LedgerOK, CommitBacked, Precommit, history, losses
<1> QED BY <1>4, <1>6, <1>7, <1>8, <1>9 DEF IInv, Queues

\* What is in the process's memory.
LEMMA MemoryFacts ==
  ASSUME SenderOK, ReceiverOK
  PROVE  /\ Relaying \in SUBSET Ids /\ Committing \in SUBSET Ids
         /\ \A id \in Ids :
              /\ id \in Relaying <=>
                   \/ pendingQ[id] > 0 \/ sending[id] > 0 \/ id \in successList
                   \/ \E S \in SUBSET Ids : id \in S /\ updating[S] > 0
              /\ id \in Committing <=> executedQ[id] > 0 \/ executed[id] > 0 \/ commits[id] > 0
<1>1. /\ pendingQ \in [Ids -> Nat] /\ sending \in [Ids -> Nat] /\ successList \in SUBSET Ids
      /\ executedQ \in [Ids -> Nat] /\ executed \in [Ids -> Nat] /\ commits \in [Ids -> Nat]
  BY DEF SenderOK, ReceiverOK
<1>2. \A q \in [Ids -> Nat] : Items(q) = {x \in Ids : q[x] > 0}
  BY DEF Items
<1>3. /\ Items(pendingQ) = {x \in Ids : pendingQ[x] > 0} /\ Items(sending) = {x \in Ids : sending[x] > 0}
      /\ Items(executedQ) = {x \in Ids : executedQ[x] > 0}
      /\ Items(executed) = {x \in Ids : executed[x] > 0} /\ Items(commits) = {x \in Ids : commits[x] > 0}
  BY <1>1, <1>2
<1> QED BY <1>1, <1>3 DEF Relaying, Committing

\* Death keeps the ledger and the store, notes what is lost and empties the rest.
LEMMA DieInv ==
  ASSUME IInv, NEW why \in {"no", "updates"}, Die(why),
         UNCHANGED <<ledger, sent, received>>, faults' \in Nat, crashes' \in Nat
  PROVE  IInv'
<1>1. LedgerOK' /\ DiskOK' /\ AdderOK' /\ LifeOK' /\ HistoryOK'
  <2>1. Relaying \in SUBSET Ids /\ Committing \in SUBSET Ids
    BY MemoryFacts DEF IInv, TypeOK
  <2> QED
    BY <2>1 DEF IInv, TypeOK, LedgerOK, DiskOK, AdderOK, LifeOK, HistoryOK,
         Die, ClearMemory, ledger
<1>2. SenderOK' /\ ReceiverOK'
  <2>1. 0 \in 0..ExecutedCap /\ 0 \in 0..PendingCap
    BY TxManagerAssumption
  <2>2. Empty(Ids) \in [Ids -> Nat] /\ Empty(SUBSET Ids) \in [SUBSET Ids -> Nat]
    BY EmptyFacts
  <2> QED BY <2>1, <2>2 DEF SenderOK, ReceiverOK, Die, ClearMemory
<1>3. Queues'
  BY DEF Queues, AdderInChain, UpdatesBacked, ReceiptsBacked, Die, ClearMemory, Empty
<1>4. Backed'
  BY DEF IInv, Backed, ChainBacked, StatusBacked, CommitBacked, Die, ledger
<1> QED BY <1>1, <1>2, <1>3, <1>4 DEF IInv, TypeOK, Backed, Queues

\* Start finds nothing to reload, and signals the sender all the same (reload).
LEMMA RestartInv ==
  ASSUME IInv, Restart
  PROVE  IInv'
<1>1. LedgerOK' /\ DiskOK' /\ AdderOK' /\ LifeOK' /\ HistoryOK'
  BY DEF IInv, TypeOK, LedgerOK, DiskOK, AdderOK, LifeOK, HistoryOK,
         Restart, ClearMemory, ledger, disk, losses
<1>2. SenderOK' /\ ReceiverOK'
  BY TxManagerAssumption DEF SenderOK, ReceiverOK, Restart, ClearMemory, Empty
<1>3. Queues'
  BY DEF Queues, AdderInChain, UpdatesBacked, ReceiptsBacked, Restart, ClearMemory, Empty
<1>4. Backed'
  BY DEF IInv, Backed, ChainBacked, StatusBacked, CommitBacked, Restart, ledger, disk
<1> QED BY <1>1, <1>2, <1>3, <1>4 DEF IInv, TypeOK, Backed, Queues

-----------------------------------------------------------------------------
(* BlockSync and the sender. *)

\* syncBlock stores the next number.
LEMMA PersistInv == IInv /\ Persist => IInv'
<1> SUFFICES ASSUME IInv, Persist PROVE IInv'
  OBVIOUS
<1>1. TypeOK'
  BY DEF IInv, TypeOK, LedgerOK, DiskOK, AdderOK, SenderOK, ReceiverOK, LifeOK, HistoryOK,
         Persist, ledger, adder, sender, receiver, life, history, losses
<1>2. Backed' /\ Queues'
  BY DEF IInv, Backed, Queues, ChainBacked, AdderInChain, UpdatesBacked, ReceiptsBacked,
         StatusBacked, CommitBacked, Persist, ledger, adder, sender, receiver, history, losses
<1> QED BY <1>1, <1>2 DEF IInv, Backed, Queues

\* AddCrossTxs pushes the new contracts of its block.
LEMMA AddPushInv == IInv /\ AddPush => IInv'
<1> SUFFICES ASSUME IInv, AddPush PROVE IInv'
  OBVIOUS
<1>1. pendingQ' \in [Ids -> Nat]
  BY DEF IInv, TypeOK, SenderOK, AddPush, PushSet
<1>2. TypeOK'
  BY <1>1 DEF IInv, TypeOK, LedgerOK, DiskOK, AdderOK, SenderOK, ReceiverOK, LifeOK,
     HistoryOK, AddPush, ledger, disk, receiver, life, history, losses
<1>3. AdderInChain'
  BY DEF IInv, TypeOK, LedgerOK, AdderOK, AdderInChain, AddPush, ledger
<1>4. Backed' /\ UpdatesBacked' /\ ReceiptsBacked'
  BY DEF IInv, Backed, ChainBacked, UpdatesBacked, ReceiptsBacked, StatusBacked,
         CommitBacked, AddPush, ledger, disk, receiver, history, losses
<1> QED BY <1>2, <1>3, <1>4 DEF IInv, Backed

\* Store.Save writes what the events of the block say, all of it or nothing.
LEMMA AddSaveInv == IInv /\ AddSave => IInv'
<1> SUFFICES ASSUME IInv, AddSave PROVE IInv'
  OBVIOUS
<1>1. CASE Save(chain[next]) /\ addPc' = "signal" /\ NoFault("db")
  <2>1. next \in 1..Len(chain) /\ chain[next] \in SUBSET Event
    BY DEF IInv, TypeOK, LedgerOK, AdderInChain, AddSave
  <2>2. /\ status' \in [Ids -> Statuses]
        /\ \A id \in Ids :
             \/ status'[id] = status[id]
             \/ \E ev \in chain[next] : /\ ev.id = id
                                /\ \/ ev.kind = "Finished" /\ status'[id] \in {"Finished", "Completed"}
                                   \/ ev.kind = "Init" /\ status'[id] = "Init"
    BY <1>1, <2>1, SaveFacts DEF IInv, TypeOK, DiskOK
  <2>3. TypeOK'
    BY <1>1, <2>2 DEF IInv, TypeOK, LedgerOK, DiskOK, AdderOK, SenderOK, ReceiverOK, LifeOK,
       HistoryOK, AddSave, NoFault, ledger, sender, receiver, life, losses
  <2>4. Queues' /\ ChainBacked' /\ CommitBacked'
    BY <1>1 DEF IInv, Queues, AdderInChain, ChainBacked, UpdatesBacked, ReceiptsBacked,
       CommitBacked, AddSave, ledger, sender, receiver
  <2>5. \A ev \in chain[next] :
          contract[ev.id] # "None" /\ (ev.kind = "Finished" => contract[ev.id] = "Finished")
    BY <2>1 DEF IInv, ChainBacked
  <2>6. StatusBacked'
    BY <2>2, <2>5 DEF IInv, StatusBacked, AddSave, ledger
  <2> QED BY <2>3, <2>4, <2>6 DEF IInv, Queues
<1>2. CASE UNCHANGED status /\ addPc' = "stopped" /\ Fault("db")
  <2>1. TypeOK'
    BY <1>2 DEF IInv, TypeOK, LedgerOK, DiskOK, AdderOK, SenderOK, ReceiverOK, LifeOK,
       HistoryOK, AddSave, Fault, ledger, sender, receiver, life, losses
  <2>2. Backed' /\ Queues'
    BY <1>2 DEF IInv, Backed, Queues, ChainBacked, AdderInChain, UpdatesBacked,
       ReceiptsBacked, StatusBacked, CommitBacked, AddSave, ledger, sender, receiver
  <2> QED BY <2>1, <2>2 DEF IInv, Backed, Queues
<1> QED BY <1>1, <1>2 DEF AddSave

\* AddCrossTxs signals the sender and is done with the block.
LEMMA AddSignalInv == IInv /\ AddSignal => IInv'
<1> SUFFICES ASSUME IInv, AddSignal PROVE IInv'
  OBVIOUS
<1>1. pendingSig' \in 0..PendingCap
  BY TxManagerAssumption DEF IInv, TypeOK, SenderOK, AddSignal, Signal
<1>2. TypeOK'
  BY <1>1 DEF IInv, TypeOK, LedgerOK, DiskOK, AdderOK, SenderOK, ReceiverOK, LifeOK,
     HistoryOK, AddSignal, ledger, disk, receiver, life, history, losses
<1>3. Backed' /\ Queues'
  BY DEF IInv, Backed, Queues, ChainBacked, AdderInChain, UpdatesBacked, ReceiptsBacked,
         StatusBacked, CommitBacked, AddSignal, ledger, disk, receiver, history, losses
<1> QED BY <1>2, <1>3 DEF IInv, Backed, Queues

\* ProcessCrossTxs empties the pending queue.
LEMMA TakePendingInv == IInv /\ TakePending => IInv'
<1> SUFFICES ASSUME IInv, TakePending PROVE IInv'
  OBVIOUS
<1>1. pendingSig' \in 0..PendingCap
  BY TxManagerAssumption DEF IInv, TypeOK, SenderOK, TakePending
<1>2. TypeOK'
  BY <1>1, EmptyFacts DEF IInv, TypeOK, LedgerOK, DiskOK, AdderOK, SenderOK, ReceiverOK,
     LifeOK, HistoryOK, TakePending, ledger, disk, adder, receiver, life, history, losses
<1>3. Backed' /\ Queues'
  BY DEF IInv, Backed, Queues, ChainBacked, AdderInChain, UpdatesBacked, ReceiptsBacked,
         StatusBacked, CommitBacked, TakePending, ledger, disk, adder, receiver, history, losses
<1> QED BY <1>2, <1>3 DEF IInv, Backed, Queues

\* A transaction sent joins the success list.
LEMMA SendOkInv == \A id \in Ids : IInv /\ SendOk(id) => IInv'
<1> SUFFICES ASSUME NEW id \in Ids, IInv, SendOk(id) PROVE IInv'
  OBVIOUS
<1>1. sending' \in [Ids -> Nat]
  BY DropFacts DEF IInv, TypeOK, SenderOK, SendOk, Items
<1>2. TypeOK'
  BY <1>1 DEF IInv, TypeOK, LedgerOK, DiskOK, AdderOK, SenderOK, ReceiverOK, LifeOK,
     HistoryOK, SendOk, ledger, disk, adder, receiver, life, losses
<1>3. Backed' /\ Queues'
  BY DEF IInv, Backed, Queues, ChainBacked, AdderInChain, UpdatesBacked, ReceiptsBacked,
         StatusBacked, CommitBacked, SendOk, ledger, disk, adder, receiver
<1> QED BY <1>2, <1>3 DEF IInv, Backed, Queues

\* A transaction that was not sent is pushed back.
LEMMA SendFailInv == \A id \in Ids : IInv /\ SendFail(id) => IInv'
<1> SUFFICES ASSUME NEW id \in Ids, IInv, SendFail(id) PROVE IInv'
  OBVIOUS
<1>1. sending' \in [Ids -> Nat]
  BY DropFacts DEF IInv, TypeOK, SenderOK, SendFail, Items
<1>2. pendingQ' \in [Ids -> Nat] /\ lostSends' \in SUBSET Ids
  <2>1. PICK r \in UnlockedPush(pendingQ, Single(id), lostSends) :
          pendingQ' = r.queue /\ lostSends' = r.lost
    BY DEF SendFail
  <2>2. pendingQ \in [Ids -> Nat] /\ lostSends \in SUBSET Ids
    BY DEF IInv, TypeOK, SenderOK, HistoryOK
  <2> QED BY <2>1, <2>2, UnlockedPushFacts, SingleFacts
<1>3. TypeOK'
  <2>1. SenderOK'
    BY <1>1, <1>2 DEF IInv, TypeOK, SenderOK, SendFail
  <2>2. HistoryOK'
    BY <1>2 DEF IInv, TypeOK, HistoryOK, SendFail, Fault
  <2>3. LedgerOK' /\ DiskOK' /\ AdderOK' /\ ReceiverOK' /\ LifeOK'
    BY DEF IInv, TypeOK, LedgerOK, DiskOK, AdderOK, ReceiverOK, LifeOK,
           SendFail, ledger, disk, adder, receiver, life
  <2> QED BY <2>1, <2>2, <2>3 DEF TypeOK
<1>4. Backed' /\ Queues'
  BY DEF IInv, Backed, Queues, ChainBacked, AdderInChain, UpdatesBacked, ReceiptsBacked,
         StatusBacked, CommitBacked, SendFail, ledger, disk, adder, receiver
<1> QED BY <1>3, <1>4 DEF IInv, Backed, Queues

\* The round's success list is left to an update goroutine.
LEMMA SendDoneInv == IInv /\ SendDone => IInv'
<1> SUFFICES ASSUME IInv, SendDone PROVE IInv'
  OBVIOUS
<1>1. /\ updating' \in [SUBSET Ids -> Nat]
      /\ \A S \in SUBSET Ids : updating'[S] > 0 => updating[S] > 0 \/ S = successList
  BY PushFacts DEF IInv, TypeOK, SenderOK, SendDone
<1>2. TypeOK'
  BY <1>1 DEF IInv, TypeOK, LedgerOK, DiskOK, AdderOK, SenderOK, ReceiverOK, LifeOK,
     HistoryOK, SendDone, ledger, disk, adder, receiver, life, history, losses
<1>3. Backed' /\ AdderInChain' /\ ReceiptsBacked'
  BY DEF IInv, Backed, ChainBacked, AdderInChain, ReceiptsBacked, StatusBacked,
         CommitBacked, SendDone, ledger, disk, adder, receiver, history, losses
<1>4. UpdatesBacked'
  BY <1>1 DEF IInv, UpdatesBacked, SendDone, history, losses
<1> QED BY <1>2, <1>3, <1>4 DEF IInv, Backed

\* The update goroutine makes the records of its list Pending, or panics.
LEMMA ApplyPendingInv == \A S \in SUBSET Ids : IInv /\ ApplyPending(S) => IInv'
<1> SUFFICES ASSUME NEW S \in SUBSET Ids, IInv, ApplyPending(S) PROVE IInv'
  OBVIOUS
<1>1. ASSUME Die("updates"), faults' \in Nat
      PROVE  IInv'
  BY <1>1, DieInv DEF IInv, TypeOK, HistoryOK, ApplyPending, ledger
<1>2. CASE Known(S) /\ NoFault("db") /\ UNCHANGED number
           /\ updating' = Drop(updating, S) /\ SetStatus(S, "Pending")
           /\ UNCHANGED <<receipt, adder, pendingQ, pendingSig, sending, successList,
                          receiver, life, losses>>
  <2>1. /\ updating' \in [SUBSET Ids -> Nat]
        /\ \A T \in SUBSET Ids : updating'[T] > 0 => updating[T] > 0
    BY <1>2, DropFacts DEF IInv, TypeOK, SenderOK, ApplyPending
  <2>2. status' \in [Ids -> Statuses]
    BY <1>2 DEF IInv, TypeOK, DiskOK, SetStatus, Statuses
  <2>3. TypeOK'
    BY <1>2, <2>1, <2>2 DEF IInv, TypeOK, LedgerOK, DiskOK, AdderOK, SenderOK, ReceiverOK,
       LifeOK, HistoryOK, ApplyPending, NoFault, ledger, adder, receiver, life, losses
  <2>4. Queues' /\ ChainBacked' /\ CommitBacked'
    BY <1>2, <2>1 DEF IInv, Queues, ChainBacked, AdderInChain, UpdatesBacked,
       ReceiptsBacked, CommitBacked, ApplyPending, ledger, adder, receiver
  <2>5. S \subseteq sent
    BY DEF IInv, UpdatesBacked, ApplyPending
  <2>6. StatusBacked'
    BY <1>2, <2>5 DEF IInv, TypeOK, DiskOK, StatusBacked, ApplyPending, SetStatus, Known, ledger
  <2> QED BY <2>3, <2>4, <2>6 DEF IInv, Queues
<1>3. NoFault("db") \/ Fault("db") => faults' \in Nat
  BY DEF IInv, TypeOK, HistoryOK, NoFault, Fault
<1> QED BY <1>1, <1>2, <1>3 DEF ApplyPending

-----------------------------------------------------------------------------
(* The receipts. *)

\* AddCrossTxReceipt queues a receipt, first or repeated.
LEMMA ReceiveReceiptInv == \A id \in Ids : IInv /\ ReceiveReceipt(id) => IInv'
<1> SUFFICES ASSUME NEW id \in Ids, IInv, ReceiveReceipt(id) PROVE IInv'
  OBVIOUS
<1>1. /\ executedQ' \in [Ids -> Nat]
      /\ \A x \in Ids : executedQ'[x] > 0 => executedQ[x] > 0 \/ x = id
  BY PushFacts DEF IInv, TypeOK, ReceiverOK, ReceiveReceipt
<1>2. /\ received' \in [Ids -> Nat]
      /\ \A x \in Ids : received'[x] = IF x = id THEN received[x] + 1 ELSE received[x]
  BY DEF IInv, TypeOK, HistoryOK, ReceiveReceipt
<1>3. TypeOK'
  <2>1. LedgerOK' /\ DiskOK' /\ LifeOK'
    BY DEF IInv, TypeOK, LedgerOK, DiskOK, LifeOK, ReceiveReceipt, ledger, disk, life
  <2>2. AdderOK' /\ SenderOK'
    BY DEF IInv, TypeOK, AdderOK, SenderOK, ReceiveReceipt, adder, sender
  <2>3. toSignal' \in Nat
    BY DEF IInv, TypeOK, ReceiverOK, ReceiveReceipt
  <2>4. ReceiverOK' /\ HistoryOK'
    BY <1>1, <1>2, <2>3 DEF IInv, TypeOK, ReceiverOK, HistoryOK, ReceiveReceipt
  <2> QED BY <2>1, <2>2, <2>4 DEF TypeOK
<1>4. \A x \in Ids : received[x] > 0 \/ x = id => received'[x] > 0
  BY <1>2 DEF IInv, TypeOK, HistoryOK
<1>5. ReceiptsBacked'
  BY <1>1, <1>4 DEF IInv, ReceiptsBacked, ReceiveReceipt
<1>6. StatusBacked' /\ CommitBacked'
  BY <1>4 DEF IInv, StatusBacked, CommitBacked, ReceiveReceipt, ledger, disk
<1>7. ChainBacked' /\ AdderInChain' /\ UpdatesBacked'
  BY DEF IInv, ChainBacked, AdderInChain, UpdatesBacked, ReceiveReceipt, ledger, adder, sender
<1> QED BY <1>3, <1>5, <1>6, <1>7 DEF IInv

\* AddCrossTxReceipt signals the receiver.
LEMMA SignalExecutedInv == IInv /\ SignalExecuted => IInv'
<1> SUFFICES ASSUME IInv, SignalExecuted PROVE IInv'
  OBVIOUS
<1>1. executedSig' \in 0..ExecutedCap /\ toSignal' \in Nat
  BY TxManagerAssumption DEF IInv, TypeOK, ReceiverOK, SignalExecuted, Signal
<1>2. TypeOK'
  BY <1>1 DEF IInv, TypeOK, LedgerOK, DiskOK, AdderOK, SenderOK, ReceiverOK, LifeOK,
     HistoryOK, SignalExecuted, ledger, disk, adder, sender, life, history, losses
<1>3. Backed' /\ Queues'
  BY DEF IInv, Backed, Queues, ChainBacked, AdderInChain, UpdatesBacked, ReceiptsBacked,
         StatusBacked, CommitBacked, SignalExecuted, ledger, disk, adder, sender, history, losses
<1> QED BY <1>2, <1>3 DEF IInv, Backed, Queues

\* ProcessCrossTxReceipts empties its queue.
LEMMA TakeExecutedInv == IInv /\ TakeExecuted => IInv'
<1> SUFFICES ASSUME IInv, TakeExecuted PROVE IInv'
  OBVIOUS
<1>1. executedSig' \in 0..ExecutedCap
  BY TxManagerAssumption DEF IInv, TypeOK, ReceiverOK, TakeExecuted
<1>2. TypeOK'
  BY <1>1, EmptyFacts DEF IInv, TypeOK, LedgerOK, DiskOK, AdderOK, SenderOK,
     ReceiverOK, LifeOK, HistoryOK, TakeExecuted, ledger, disk, adder, sender, life, history, losses
<1>3. ReceiptsBacked'
  BY EmptyFacts DEF IInv, ReceiptsBacked, TakeExecuted, history
<1>4. Backed' /\ AdderInChain' /\ UpdatesBacked'
  BY DEF IInv, Backed, ChainBacked, AdderInChain, UpdatesBacked, StatusBacked,
     CommitBacked, TakeExecuted, ledger, disk, adder, sender, history
<1> QED BY <1>2, <1>3, <1>4 DEF IInv, Backed

\* A batch of known records becomes Executed and is left to the commit goroutines;
\* one with an unknown record is discarded.
LEMMA UpdateExecutedInv == \A id \in Ids : IInv /\ UpdateExecuted(id) => IInv'
<1> SUFFICES ASSUME NEW last \in Ids, IInv, UpdateExecuted(last) PROVE IInv'
  OBVIOUS
<1>1. \A id \in Items(executed) : id \in Ids /\ executed[id] > 0 /\ received[id] > 0
  BY DEF IInv, TypeOK, ReceiverOK, ReceiptsBacked, Items
<1>2. CASE /\ Known(Items(executed))
           /\ SetStatus(Items(executed), "Executed")
           /\ receipt' = [id \in Ids |->
                IF id \in Items(executed) /\ status[id] # "Finished"
                THEN last ELSE receipt[id]]
           /\ commits' = [id \in Ids |-> commits[id] + executed[id]]
           /\ UNCHANGED lostReceipts
  <2>1. /\ status' \in [Ids -> Statuses] /\ receipt' \in [Ids -> Ids \cup {None}]
        /\ commits' \in [Ids -> Nat]
    BY <1>2 DEF IInv, TypeOK, DiskOK, ReceiverOK, SetStatus, Statuses
  <2>2. TypeOK'
    BY <1>2, <2>1, EmptyFacts DEF IInv, TypeOK, LedgerOK, DiskOK, AdderOK, SenderOK, ReceiverOK,
       LifeOK, HistoryOK, UpdateExecuted, ledger, adder, sender, life
  <2>3. ReceiptsBacked'
    <3>1. \A id \in Ids : commits'[id] > 0 => commits[id] > 0 \/ executed[id] > 0
      BY <1>2 DEF IInv, TypeOK, ReceiverOK
    <3> QED BY <3>1, EmptyFacts DEF IInv, ReceiptsBacked, UpdateExecuted
  <2>4. StatusBacked'
    BY <1>1, <1>2 DEF IInv, TypeOK, DiskOK, StatusBacked, UpdateExecuted, SetStatus, Known,
       ledger, history, losses
  <2>5. ChainBacked' /\ CommitBacked' /\ AdderInChain' /\ UpdatesBacked'
    BY DEF IInv, ChainBacked, CommitBacked, AdderInChain, UpdatesBacked, UpdateExecuted,
       ledger, adder, sender, history, losses
  <2> QED BY <2>2, <2>3, <2>4, <2>5 DEF IInv
<1>3. CASE /\ UNCHANGED <<status, receipt, commits>>
           /\ lostReceipts' = lostReceipts \cup Items(executed)
  <2>1. TypeOK'
    BY <1>1, <1>3, EmptyFacts DEF IInv, TypeOK, LedgerOK, DiskOK, AdderOK, SenderOK, ReceiverOK,
       LifeOK, HistoryOK, UpdateExecuted, ledger, adder, sender, life
  <2>2. Backed' /\ Queues'
    BY <1>3, EmptyFacts DEF IInv, Backed, Queues, ChainBacked, AdderInChain, UpdatesBacked,
       ReceiptsBacked, StatusBacked, CommitBacked, UpdateExecuted, ledger, adder, sender, history, losses
  <2> QED BY <2>1, <2>2 DEF IInv, Backed, Queues
<1> QED BY <1>2, <1>3 DEF UpdateExecuted

\* A batch the database failed on is pushed back.
LEMMA UpdateFailsInv == IInv /\ UpdateFails => IInv'
<1> SUFFICES ASSUME IInv, UpdateFails PROVE IInv'
  OBVIOUS
<1>1. /\ executedQ' \in [Ids -> Nat] /\ lostReceipts' \in SUBSET Ids
      /\ \A x \in Ids : executedQ'[x] > 0 => executedQ[x] > 0 \/ executed[x] > 0
  <2>1. PICK r \in UnlockedPush(executedQ, executed, lostReceipts) :
          executedQ' = r.queue /\ lostReceipts' = r.lost
    BY DEF UpdateFails
  <2>2. executedQ \in [Ids -> Nat] /\ executed \in [Ids -> Nat] /\ lostReceipts \in SUBSET Ids
    BY DEF IInv, TypeOK, ReceiverOK, HistoryOK
  <2> QED BY <2>1, <2>2, UnlockedPushFacts
<1>2. TypeOK'
  BY <1>1, EmptyFacts DEF IInv, TypeOK, LedgerOK, DiskOK, AdderOK, SenderOK, ReceiverOK,
     LifeOK, HistoryOK, UpdateFails, Fault, ledger, disk, adder, sender, life
<1>3. ReceiptsBacked'
  BY <1>1, EmptyFacts DEF IInv, ReceiptsBacked, UpdateFails
<1>4. Backed' /\ AdderInChain' /\ UpdatesBacked'
  BY DEF IInv, Backed, ChainBacked, AdderInChain, UpdatesBacked, StatusBacked,
         CommitBacked, UpdateFails, ledger, disk, adder, sender
<1> QED BY <1>2, <1>3, <1>4 DEF IInv, Backed

\* A commit goroutine finishes the contract, or fails, and pushes its receipt back.
LEMMA CommitOneInv == \A id \in Ids : IInv /\ CommitOne(id) => IInv'
<1> SUFFICES ASSUME NEW id \in Ids, IInv, CommitOne(id) PROVE IInv'
  OBVIOUS
<1>0. received[id] > 0
  BY DEF IInv, ReceiptsBacked, CommitOne
<1>1. /\ commits' \in [Ids -> Nat]
      /\ \A x \in Ids : commits'[x] > 0 => commits[x] > 0
  BY DropFacts DEF IInv, TypeOK, ReceiverOK, CommitOne
<1>2. /\ executedQ' \in [Ids -> Nat] /\ lostReceipts' \in SUBSET Ids
      /\ \A x \in Ids : executedQ'[x] > 0 => executedQ[x] > 0 \/ x = id
  <2>1. PICK r \in UnlockedPush(executedQ, Single(id), lostReceipts) :
          executedQ' = r.queue /\ lostReceipts' = r.lost
    BY DEF CommitOne
  <2>2. executedQ \in [Ids -> Nat] /\ lostReceipts \in SUBSET Ids
    BY DEF IInv, TypeOK, ReceiverOK, HistoryOK
  <2> QED BY <2>1, <2>2, UnlockedPushFacts, SingleFacts
<1>3. faults' \in Nat
  BY DEF IInv, TypeOK, HistoryOK, CommitOne, NoFault, Fault
<1>4. /\ DiskOK' /\ AdderOK' /\ SenderOK' /\ ReceiverOK' /\ LifeOK' /\ HistoryOK'
      /\ UpdatesBacked' /\ ReceiptsBacked'
  BY <1>0, <1>1, <1>2, <1>3 DEF IInv, TypeOK, DiskOK, AdderOK, SenderOK, ReceiverOK, LifeOK,
     HistoryOK, UpdatesBacked, ReceiptsBacked, CommitOne, disk, adder, sender, life
<1>5. CASE contract[id] = "Init" /\ RegularCommit(id)
  <2> DEFINE block == [kind : {"Finished"}, id : {id}]
  <2>1. block \in SUBSET Event
    BY DEF Event, Kinds
  <2>2. chain \in Seq(SUBSET Event) /\ chain' = Append(chain, block)
    BY <1>5 DEF IInv, TypeOK, LedgerOK, RegularCommit
  <2>3. chain' \in Seq(SUBSET Event) /\ Len(chain') = Len(chain) + 1
    BY <2>1, <2>2
  <2>4. /\ contract' \in [Ids -> {"None", "Init", "Finished"}]
        /\ \A x \in Ids : contract'[x] = IF x = id THEN "Finished" ELSE contract[x]
    BY <1>5 DEF IInv, TypeOK, LedgerOK, RegularCommit
  <2>5. ChainBacked'
    <3> SUFFICES ASSUME NEW i \in 1..Len(chain'), NEW ev \in chain'[i]
                 PROVE  /\ contract'[ev.id] # "None"
                        /\ ev.kind = "Finished" => contract'[ev.id] = "Finished"
      BY DEF ChainBacked
    <3>1. CASE i \in 1..Len(chain)
      <4>1. chain[i] \in SUBSET Event /\ chain'[i] = chain[i]
        BY <2>2, <3>1
      <4>2. ev.id \in Ids
        BY <4>1 DEF Event
      <4> QED BY <3>1, <4>1, <4>2, <2>4 DEF IInv, ChainBacked
    <3>2. CASE i = Len(chain) + 1
      <4>1. ev \in block
        BY <2>2, <3>2
      <4>2. ev.id = id
        BY <4>1
      <4> QED BY <4>2, <2>4
    <3> QED BY <2>2, <2>3, <3>1, <3>2
  <2>6. AdderInChain'
    BY <2>2, <2>3 DEF IInv, TypeOK, AdderOK, AdderInChain, CommitOne, adder
  <2>7. StatusBacked' /\ CommitBacked'
    BY <1>0, <2>4 DEF IInv, StatusBacked, CommitBacked, CommitOne, disk
  <2> QED BY <1>4, <2>3, <2>4, <2>5, <2>6, <2>7 DEF IInv, TypeOK, LedgerOK
<1>6. CASE UNCHANGED ledger
  BY <1>4, <1>6 DEF IInv, TypeOK, LedgerOK, ChainBacked, AdderInChain, StatusBacked,
     CommitBacked, CommitOne, ledger, disk, adder
<1> QED BY <1>5, <1>6 DEF CommitOne, RegularCommit

-----------------------------------------------------------------------------
(* The theorems. *)

\* The process dies between two steps.
LEMMA CrashInv == IInv /\ Crash => IInv'
  BY DieInv DEF IInv, TypeOK, HistoryOK, Crash, history, losses

\* Every step keeps the invariant.
LEMMA NextIInv == IInv /\ [Next]_vars => IInv'
<1> SUFFICES ASSUME IInv, [Next]_vars PROVE IInv'
  OBVIOUS
<1>1. CASE Environment
  BY <1>1, PrecommitInv, ReceiveReceiptInv, CrashInv, RestartInv DEF Environment
<1>2. CASE Program
  BY <1>2, PersistInv, AddPushInv, AddSaveInv, AddSignalInv, TakePendingInv, SendOkInv,
     SendFailInv, SendDoneInv, ApplyPendingInv, SignalExecutedInv, TakeExecutedInv,
     UpdateFailsInv, UpdateExecutedInv, CommitOneInv
  DEF Program
<1>3. CASE UNCHANGED vars
  BY <1>3 DEF IInv, TypeOK, LedgerOK, DiskOK, AdderOK, SenderOK, ReceiverOK, LifeOK,
     HistoryOK, ChainBacked, AdderInChain, UpdatesBacked, ReceiptsBacked, StatusBacked,
     CommitBacked, vars, ledger, disk, adder, sender, receiver, life, history, losses
<1> QED BY <1>1, <1>2, <1>3 DEF Next

\* IInv holds in every reachable state of the transaction manager.
THEOREM IInvHolds == Spec => []IInv
  BY InitIInv, NextIInv, PTL DEF Spec

\* The variables of the transaction manager keep their types; the channels of
\* NewTxManager never hold more than their capacity.
THEOREM TypeCorrect == Spec => []TypeOK
<1>1. IInv => TypeOK
  BY DEF IInv
<1> QED BY <1>1, IInvHolds, PTL

\* The courier's store is never ahead of the two chains (Store.Save, Store.Updates).
THEOREM StoreNeverAhead == Spec => []StatusBacked
<1>1. IInv => StatusBacked
  BY DEF IInv
<1> QED BY <1>1, IInvHolds, PTL

\* The chaincode is only asked to finish a contract whose receipt came
\* (ProcessCrossTxReceipts).
THEOREM NoCommitWithoutReceipt == Spec => []CommitBacked
<1>1. IInv => CommitBacked
  BY DEF IInv
<1> QED BY <1>1, IInvHolds, PTL
-----------------------------------------------------------------------------
(* Nothing that was saved is forgotten. *)

\* The contract was lost, or is on its way to the hub, or was sent and waits for
\* its new status.
Waiting(id) ==
  \/ id \in lostSends
  \/ up /\ \/ pendingQ[id] > 0 \/ sending[id] > 0 \/ id \in successList
           \/ \E S \in SUBSET Ids : id \in S /\ updating[S] > 0
InitWaits == \A id \in Ids : status[id] = "Init" => Waiting(id)

\* AddCrossTxs pushes the contracts of its block before it saves them.
SavePushed ==
  addPc = "save" =>
    \A ev \in chain[next] : ev.kind = "Init" /\ status[ev.id] = "None" => Waiting(ev.id)

\* The sender hands a contract on from place to place (ProcessCrossTxs).
LEMMA SenderKeeps ==
  ASSUME IInv, NEW id \in Ids, Waiting(id),
         TakePending \/ SendDone \/ \E x \in Ids : SendOk(x) \/ SendFail(x)
  PROVE  Waiting(id)'
<1>1. /\ pendingQ \in [Ids -> Nat] /\ sending \in [Ids -> Nat]
      /\ updating \in [SUBSET Ids -> Nat] /\ successList \in SUBSET Ids
      /\ lostSends \in SUBSET Ids
  BY DEF IInv, TypeOK, SenderOK, HistoryOK
<1>2. CASE TakePending
  <2>1. sending[id] = 0
    BY <1>1, <1>2 DEF TakePending, SenderIdle, Items
  <2>2. /\ sending' = pendingQ /\ pendingQ' = Empty(Ids)
        /\ UNCHANGED <<successList, updating, up, lostSends>>
    BY <1>2 DEF TakePending, life, history, losses
  <2>3. sending'[id] = pendingQ[id]
    BY <2>2
  <2> QED BY <1>1, <2>1, <2>2, <2>3 DEF Waiting
<1>3. CASE SendDone
  <2>1. /\ updating' = [updating EXCEPT ![successList] = @ + 1]
        /\ UNCHANGED <<pendingQ, sending, up, lostSends>> /\ up
    BY <1>3 DEF SendDone, Push, life, history, losses
  <2>2. updating'[successList] > 0 /\ \A S \in SUBSET Ids : updating[S] > 0 => updating'[S] > 0
    BY <1>1, <2>1
  <2> QED BY <1>1, <2>1, <2>2 DEF Waiting
<1>4. ASSUME NEW x \in Ids, SendOk(x)
      PROVE  Waiting(id)'
  <2>1. /\ sending' = [sending EXCEPT ![x] = @ - 1] /\ successList' = successList \cup {x}
        /\ UNCHANGED <<pendingQ, updating, up, lostSends>> /\ up
    BY <1>4 DEF SendOk, Drop, life, losses
  <2>2. id # x => sending'[id] = sending[id]
    BY <1>1, <2>1
  <2> QED BY <2>1, <2>2 DEF Waiting
<1>5. ASSUME NEW x \in Ids, SendFail(x)
      PROVE  Waiting(id)'
  <2>1. /\ sending' = [sending EXCEPT ![x] = @ - 1]
        /\ UNCHANGED <<successList, updating, up>> /\ up
    BY <1>5 DEF SendFail, Drop, life
  <2>2. PICK r \in UnlockedPush(pendingQ, Single(x), lostSends) :
          pendingQ' = r.queue /\ lostSends' = r.lost
    BY <1>5 DEF SendFail
  <2>3. /\ lostSends \subseteq lostSends'
        /\ \A y \in Ids : pendingQ[y] > 0 \/ y = x => pendingQ'[y] > 0 \/ y \in lostSends'
    BY <1>1, <2>2, UnlockedPushFacts, SingleFacts, SMTT(30)
  <2>4. id # x => sending'[id] = sending[id]
    BY <1>1, <2>1
  <2> QED BY <2>1, <2>3, <2>4 DEF Waiting
<1> QED BY <1>2, <1>3, <1>4, <1>5

\* A step that leaves the block in hand alone and no contract unsent and unwatched.
LEMMA RelayKept ==
  ASSUME SavePushed, InitWaits, IInv,
         addPc' = "save" => addPc = "save" /\ next' = next /\ chain'[next] = chain[next],
         \A id \in Ids : status'[id] \in {"None", "Init"} => status'[id] = status[id],
         \A id \in Ids : status'[id] \in {"None", "Init"} /\ Waiting(id) => Waiting(id)'
  PROVE  SavePushed' /\ InitWaits'
<1>1. InitWaits'
  BY DEF InitWaits
<1>2. ASSUME addPc' = "save"
      PROVE  \A ev \in chain'[next'] : ev.kind = "Init" /\ status'[ev.id] = "None" => Waiting(ev.id)'
  <2>1. addPc = "save" /\ next' = next /\ chain'[next] = chain[next]
    BY <1>2
  <2>2. chain[next] \in SUBSET Event
    BY <2>1 DEF IInv, TypeOK, LedgerOK, AdderInChain
  <2>3. ASSUME NEW ev \in chain[next], ev.kind = "Init", status'[ev.id] = "None"
        PROVE  Waiting(ev.id)'
    <3>1. PICK id \in Ids : id = ev.id
      BY <2>2 DEF Event
    <3>2. Waiting(id) /\ status'[id] = "None"
      BY <2>1, <2>3, <3>1 DEF SavePushed
    <3>3. Waiting(id)'
      BY <3>2
    <3> QED BY <3>1, <3>3
  <2> QED BY <2>1, <2>3
<1> QED BY <1>1, <1>2 DEF SavePushed

\* AddCrossTxs: first pushed, then saved, then signalled.
LEMMA AdderRelay ==
  ASSUME IInv, SavePushed, InitWaits, AddPush \/ AddSave \/ AddSignal
  PROVE  SavePushed' /\ InitWaits'
<1>1. /\ pendingQ \in [Ids -> Nat] /\ chain \in Seq(SUBSET Event)
      /\ status \in [Ids -> Statuses] /\ next \in Nat \ {0}
  BY DEF IInv, TypeOK, SenderOK, LedgerOK, DiskOK, AdderOK
<1>2. CASE AddPush
  <2> DEFINE P == {ev.id : ev \in {e \in chain[next] : e.kind = "Init"}}
  <2>1. /\ UNCHANGED <<chain, next, status, sending, successList, updating, up>> /\ up
        /\ pendingQ' = PushSet(pendingQ, P) /\ lostSends' = lostSends \ P /\ next <= Len(chain)
    BY <1>2 DEF AddPush, ledger, disk, life
  <2>2. \A id \in Ids : pendingQ'[id] = IF id \in P THEN pendingQ[id] + 1 ELSE pendingQ[id]
    BY <1>1, <2>1 DEF PushSet
  <2>3. chain[next] \in SUBSET Event
    BY <1>1, <2>1
  <2>4. \A ev \in chain[next] : ev.kind = "Init" => ev.id \in P /\ ev.id \in Ids
    BY <2>3 DEF Event
  <2> HIDE DEF P
  <2>5. \A id \in Ids : /\ id \in P => pendingQ'[id] > 0
                        /\ pendingQ[id] > 0 => pendingQ'[id] > 0
    BY <1>1, <2>2
  <2>6. SavePushed'
    BY <2>1, <2>4, <2>5 DEF SavePushed, Waiting
  <2>7. InitWaits'
    BY <2>1, <2>5 DEF InitWaits, Waiting
  <2> QED BY <2>6, <2>7
<1>3. CASE AddSave
  <2>1. /\ addPc = "save" /\ addPc' # "save"
        /\ UNCHANGED <<pendingQ, sending, successList, updating, up, lostSends>>
    BY <1>3 DEF AddSave, sender, life, losses
  <2>2. chain[next] \in SUBSET Event
    BY <2>1 DEF IInv, TypeOK, LedgerOK, AdderInChain
  <2>3. \A id \in Ids : status'[id] = "Init" /\ status[id] # "Init" =>
          \E ev \in chain[next] : ev.id = id /\ ev.kind = "Init" /\ status[id] = "None"
    <3>1. CASE UNCHANGED status
      BY <3>1
    <3>2. CASE Save(chain[next])
      <4>1. \A id \in Ids :
              \/ status'[id] = status[id]
              \/ \E ev \in chain[next] :
                   /\ ev.id = id
                   /\ \/ ev.kind = "Finished" /\ status'[id] \in {"Finished", "Completed"}
                      \/ ev.kind = "Init" /\ status[id] = "None" /\ status'[id] = "Init"
        BY <1>1, <2>2, <3>2, SaveFacts
      <4> QED BY <4>1
    <3> QED BY <1>3, <3>1, <3>2 DEF AddSave
  <2>4. \A id \in Ids : status'[id] = "Init" => Waiting(id)
    BY <2>1, <2>3 DEF SavePushed, InitWaits
  <2> QED BY <2>1, <2>4 DEF SavePushed, InitWaits, Waiting
<1>4. CASE AddSignal
  <2>1. /\ addPc' = "idle"
        /\ UNCHANGED <<status, pendingQ, sending, successList, updating, up, lostSends>>
    BY <1>4 DEF AddSignal, disk, life, history, losses
  <2> QED BY <2>1 DEF SavePushed, InitWaits, Waiting
<1> QED BY <1>2, <1>3, <1>4

\* A death notes all of the sender's memory as lost.
LEMMA DieRelay ==
  ASSUME IInv, InitWaits, NEW why, Die(why)
  PROVE  SavePushed' /\ InitWaits'
<1>1. \A id \in Ids : Waiting(id) => id \in Relaying \cup lostSends
  BY MemoryFacts DEF IInv, TypeOK, Waiting
<1>2. addPc' = "idle" /\ status' = status /\ lostSends' = lostSends \cup Relaying
  BY DEF Die, ClearMemory
<1> QED BY <1>1, <1>2 DEF SavePushed, InitWaits, Waiting

\* An update that succeeds leaves all of its list Pending, and no other list
\* (ProcessCrossTxs); a panic ends the process.
LEMMA UpdateRelay ==
  ASSUME IInv, SavePushed, InitWaits, NEW S \in SUBSET Ids, ApplyPending(S)
  PROVE  SavePushed' /\ InitWaits'
<1>1. CASE Die("updates")
  BY <1>1, DieRelay
<1>2. CASE ~Die("updates")
  <2>1. /\ updating' = [updating EXCEPT ![S] = @ - 1] /\ SetStatus(S, "Pending")
        /\ UNCHANGED <<chain, next, addPc, pendingQ, sending, successList, up, lostSends>>
    BY <1>2 DEF ApplyPending, Drop, ledger, adder, life, losses
  <2>2. updating \in [SUBSET Ids -> Nat] /\ status \in [Ids -> Statuses]
    BY DEF IInv, TypeOK, SenderOK, DiskOK
  <2>3. \A id \in Ids : status'[id] = IF id \in S THEN "Pending" ELSE status[id]
    BY <2>1 DEF SetStatus
  <2>4. \A T \in SUBSET Ids : T # S => updating'[T] = updating[T]
    BY <2>1, <2>2
  <2>5. \A id \in Ids : id \notin S /\ Waiting(id) => Waiting(id)'
    BY <2>1, <2>4 DEF Waiting
  <2>6. \A id \in Ids : status'[id] \in {"None", "Init"} => id \notin S /\ status'[id] = status[id]
    BY <2>3
  <2> QED BY <2>1, <2>5, <2>6, RelayKept
<1> QED BY <1>1, <1>2

\* All other steps leave the sender and what was not sent alone.
LEMMA OtherRelay ==
  ASSUME IInv, SavePushed, InitWaits,
         \/ \E S \in SUBSET Ids : Precommit(S)
         \/ Persist \/ SignalExecuted \/ TakeExecuted \/ UpdateFails
         \/ \E id \in Ids : ReceiveReceipt(id) \/ UpdateExecuted(id) \/ CommitOne(id)
  PROVE  SavePushed' /\ InitWaits'
<1>1. UNCHANGED <<next, addPc, pendingQ, sending, successList, updating, up, lostSends>>
  BY DEF Precommit, Persist, SignalExecuted, TakeExecuted, UpdateFails, ReceiveReceipt,
         UpdateExecuted, CommitOne, adder, sender, life, history, losses
<1>2. chain' = chain \/ \E b \in SUBSET Event : chain' = Append(chain, b)
  <2>1. ASSUME NEW S \in SUBSET Ids
        PROVE  [kind : {"Init"}, id : S] \in SUBSET Event /\ [kind : {"Finished"}, id : S] \in SUBSET Event
    BY DEF Event, Kinds
  <2>2. ASSUME NEW id \in Ids, CommitOne(id)
        PROVE  chain' = chain \/ chain' = Append(chain, [kind : {"Finished"}, id : {id}])
    BY <2>2 DEF CommitOne, RegularCommit, ledger
  <2>3. ASSUME NEW S \in SUBSET Ids, Precommit(S)
        PROVE  chain' = Append(chain, [kind : {"Init"}, id : S])
    BY <2>3 DEF Precommit
  <2>4. CASE \/ Persist \/ SignalExecuted \/ TakeExecuted \/ UpdateFails
             \/ \E id \in Ids : ReceiveReceipt(id) \/ UpdateExecuted(id)
    BY <2>4 DEF Persist, SignalExecuted, TakeExecuted, UpdateFails, ReceiveReceipt, UpdateExecuted, ledger
  <2>5. \A id \in Ids : {id} \in SUBSET Ids
    OBVIOUS
  <2> QED BY <2>1, <2>2, <2>3, <2>4, <2>5
<1>3. addPc = "save" => chain'[next] = chain[next]
  BY <1>2 DEF IInv, TypeOK, LedgerOK, AdderInChain
<1>4. \A id \in Ids : status'[id] \in {"None", "Init"} => status'[id] = status[id]
  <2>1. CASE status' = status
    BY <2>1
  <2>2. CASE SetStatus(Items(executed), "Executed")
    BY <2>2 DEF SetStatus
  <2> QED BY <2>1, <2>2 DEF Precommit, Persist, SignalExecuted, TakeExecuted, UpdateFails,
              ReceiveReceipt, UpdateExecuted, CommitOne, disk
<1>5. \A id \in Ids : Waiting(id) => Waiting(id)'
  BY <1>1 DEF Waiting
<1> QED BY <1>1, <1>3, <1>4, <1>5, RelayKept

\* Every step keeps track of the contracts that were not sent.
LEMMA RelayStep ==
  ASSUME IInv, SavePushed, InitWaits, [Next]_vars
  PROVE  SavePushed' /\ InitWaits'
<1>1. CASE TakePending \/ SendDone \/ \E x \in Ids : SendOk(x) \/ SendFail(x)
  <2>1. UNCHANGED <<chain, next, addPc, status>>
    BY <1>1 DEF TakePending, SendDone, SendOk, SendFail, ledger, adder, disk
  <2>2. \A id \in Ids : Waiting(id) => Waiting(id)'
    BY <1>1, SenderKeeps
  <2> QED BY <2>1, <2>2, RelayKept
<1>2. CASE Crash
  BY <1>2, DieRelay DEF Crash
<1>3. CASE Restart
  <2>1. ~up /\ addPc' = "idle" /\ status' = status /\ lostSends' = lostSends
    BY <1>3 DEF Restart, ClearMemory, disk, losses
  <2> QED BY <2>1 DEF SavePushed, InitWaits, Waiting
<1>4. CASE UNCHANGED vars
  BY <1>4 DEF SavePushed, InitWaits, Waiting, vars, ledger, disk, adder, sender, life, history, losses
<1> QED
  BY <1>1, <1>2, <1>3, <1>4, AdderRelay, UpdateRelay, OtherRelay DEF Next, Environment, Program

\* A saved contract that was not sent is on its way to the sender, or was lost to
\* a death or to a collision: to no failed call, no interleaving and no block
\* handed over twice (ProcessCrossTxs, AddCrossTxs).
THEOREM InitTrackedHolds == Spec => []InitTracked
<1>1. Init => SavePushed /\ InitWaits
  BY DEF Init, SavePushed, InitWaits
<1>2. IInv /\ SavePushed /\ InitWaits /\ [Next]_vars => SavePushed' /\ InitWaits'
  BY RelayStep
<1>3. IInv /\ InitWaits => InitTracked
  BY MemoryFacts DEF IInv, TypeOK, InitWaits, InitTracked, Waiting
<1> QED BY <1>1, <1>2, <1>3, IInvHolds, PTL DEF Spec
-----------------------------------------------------------------------------
(* No receipt is lost on its way to the chaincode. *)

\* The receipt was lost, or is on its way to the chaincode.
InPipeline(id) ==
  \/ id \in lostReceipts
  \/ up /\ (executedQ[id] > 0 \/ executed[id] > 0 \/ commits[id] > 0)
ReceiptWaits == \A id \in Ids : received[id] > 0 => contract[id] = "Finished" \/ InPipeline(id)

\* The receiver hands a receipt on from place to place, all of a batch at once, or
\* notes the batch as discarded (ProcessCrossTxReceipts).
LEMMA ReceiverKeeps ==
  ASSUME IInv, NEW id \in Ids, InPipeline(id),
         \/ TakeExecuted \/ UpdateFails
         \/ \E x \in Ids : ReceiveReceipt(x) \/ UpdateExecuted(x) \/ CommitOne(x)
  PROVE  InPipeline(id)'
<1>1. /\ executedQ \in [Ids -> Nat] /\ executed \in [Ids -> Nat] /\ commits \in [Ids -> Nat]
      /\ lostReceipts \in SUBSET Ids
  BY DEF IInv, TypeOK, ReceiverOK, HistoryOK
<1>2. CASE TakeExecuted
  <2>1. executed[id] = 0
    BY <1>1, <1>2 DEF TakeExecuted, Items
  <2>2. executed' = executedQ /\ UNCHANGED <<commits, up, lostReceipts>>
    BY <1>2 DEF TakeExecuted, life, history, losses
  <2> QED BY <2>1, <2>2 DEF InPipeline
<1>3. CASE UpdateFails
  <2>1. PICK r \in UnlockedPush(executedQ, executed, lostReceipts) :
          executedQ' = r.queue /\ lostReceipts' = r.lost
    BY <1>3 DEF UpdateFails
  <2>2. /\ lostReceipts \subseteq lostReceipts'
        /\ executedQ[id] > 0 \/ executed[id] > 0 => executedQ'[id] > 0 \/ id \in lostReceipts'
    BY <1>1, <2>1, UnlockedPushFacts
  <2>3. UNCHANGED <<commits, up>>
    BY <1>3 DEF UpdateFails, life
  <2> QED BY <2>2, <2>3 DEF InPipeline
<1>4. ASSUME NEW x \in Ids, ReceiveReceipt(x)
      PROVE  InPipeline(id)'
  <2>1. /\ executedQ' = [executedQ EXCEPT ![x] = @ + 1] /\ UNCHANGED <<executed, commits, up>> /\ up
        /\ lostReceipts' = lostReceipts \ {x}
    BY <1>4 DEF ReceiveReceipt, Push, life
  <2>2. executedQ'[x] > 0 /\ (executedQ[id] > 0 => executedQ'[id] > 0)
    BY <1>1, <2>1
  <2> QED BY <2>1, <2>2 DEF InPipeline
<1>5. ASSUME NEW x \in Ids, UpdateExecuted(x)
      PROVE  InPipeline(id)'
  <2>1. executedQ' = executedQ /\ up' = up
    BY <1>5 DEF UpdateExecuted, life
  <2>2. CASE /\ commits' = [y \in Ids |-> commits[y] + executed[y]]
             /\ lostReceipts' = lostReceipts
    <3>1. commits[id] > 0 \/ executed[id] > 0 => commits'[id] > 0
      BY <1>1, <2>2
    <3> QED BY <2>1, <2>2, <3>1 DEF InPipeline
  <2>3. CASE lostReceipts' = lostReceipts \cup Items(executed) /\ commits' = commits
    <3>1. executed[id] > 0 => id \in Items(executed)
      BY <1>1 DEF Items
    <3> QED BY <2>1, <2>3, <3>1 DEF InPipeline
  <2> QED BY <1>5, <2>2, <2>3 DEF UpdateExecuted
<1>6. ASSUME NEW x \in Ids, CommitOne(x)
      PROVE  InPipeline(id)'
  <2>1. commits' = [commits EXCEPT ![x] = @ - 1] /\ UNCHANGED <<executed, up>> /\ up
    BY <1>6 DEF CommitOne, Drop, life
  <2>2. PICK r \in UnlockedPush(executedQ, Single(x), lostReceipts) :
          executedQ' = r.queue /\ lostReceipts' = r.lost
    BY <1>6 DEF CommitOne
  <2>3. /\ lostReceipts \subseteq lostReceipts'
        /\ executedQ[id] > 0 \/ id = x => executedQ'[id] > 0 \/ id \in lostReceipts'
    BY <1>1, <2>2, UnlockedPushFacts, SingleFacts, SMTT(30)
  <2>4. id # x => commits'[id] = commits[id]
    BY <1>1, <2>1
  <2> QED BY <2>1, <2>3, <2>4 DEF InPipeline
<1> QED BY <1>2, <1>3, <1>4, <1>5, <1>6

\* A contract that is finished stays finished (regularCommit).
LEMMA FinishedStays ==
  ASSUME IInv, [Next]_vars, NEW id \in Ids, contract[id] = "Finished"
  PROVE  contract'[id] = "Finished"
<1>1. contract \in [Ids -> {"None", "Init", "Finished"}]
  BY DEF IInv, TypeOK, LedgerOK
<1>2. ASSUME NEW S \in SUBSET Ids, Precommit(S)
      PROVE  contract'[id] = "Finished"
  BY <1>1, <1>2 DEF Precommit
<1>3. ASSUME NEW x \in Ids, CommitOne(x)
      PROVE  contract'[id] = "Finished"
  BY <1>1, <1>3 DEF CommitOne, RegularCommit, ledger
<1>4. CASE UNCHANGED contract
  BY <1>4
<1> QED
  BY <1>2, <1>3, <1>4 DEF Next, Environment, Program, ReceiveReceipt, Crash, Restart, Persist, AddPush,
     AddSave, AddSignal, TakePending, SendDone, SendOk, SendFail, ApplyPending, SignalExecuted,
     TakeExecuted, UpdateFails, UpdateExecuted, vars, ledger

\* A death notes all of the receiver's memory as lost.
LEMMA DieReceipt ==
  ASSUME IInv, NEW id \in Ids, InPipeline(id), NEW why, Die(why)
  PROVE  InPipeline(id)'
<1>1. id \in Committing \cup lostReceipts
  BY MemoryFacts DEF IInv, TypeOK, InPipeline
<1>2. lostReceipts' = lostReceipts \cup Committing
  BY DEF Die
<1> QED BY <1>1, <1>2 DEF InPipeline

\* Every step keeps a receipt in the pipeline, or notes that it is lost.
LEMMA PipelineStep ==
  ASSUME IInv, [Next]_vars, NEW id \in Ids, InPipeline(id)
  PROVE  InPipeline(id)'
<1>1. CASE \/ TakeExecuted \/ UpdateFails
           \/ \E x \in Ids : ReceiveReceipt(x) \/ UpdateExecuted(x) \/ CommitOne(x)
  BY <1>1, ReceiverKeeps
<1>2. ASSUME NEW why, Die(why)
      PROVE  InPipeline(id)'
  BY <1>2, DieReceipt
<1>3. CASE Restart
  <2>1. ~up /\ lostReceipts' = lostReceipts
    BY <1>3 DEF Restart, losses
  <2> QED BY <2>1 DEF InPipeline
<1>4. CASE UNCHANGED <<executedQ, executed, commits, up, lostReceipts>>
  BY <1>4 DEF InPipeline
<1> QED
  BY <1>1, <1>2, <1>3, <1>4 DEF Next, Environment, Program, Precommit, Crash, Persist, AddPush, AddSave,
     AddSignal, TakePending, SendDone, SendOk, SendFail, ApplyPending, SignalExecuted, receiver, life,
     history, losses, vars

\* Every step keeps what is said of every receipt.
LEMMA ReceiptStep ==
  ASSUME IInv, ReceiptWaits, [Next]_vars
  PROVE  ReceiptWaits'
<1> SUFFICES ASSUME NEW id \in Ids, received'[id] > 0
             PROVE  contract'[id] = "Finished" \/ InPipeline(id)'
  BY DEF ReceiptWaits
<1>1. /\ executedQ \in [Ids -> Nat] /\ received \in [Ids -> Nat]
  BY DEF IInv, TypeOK, ReceiverOK, HistoryOK
<1>2. CASE received[id] > 0
  BY <1>2, FinishedStays, PipelineStep DEF ReceiptWaits
<1>3. CASE ReceiveReceipt(id)
  <2>1. executedQ' = [executedQ EXCEPT ![id] = @ + 1] /\ up'
    BY <1>3 DEF ReceiveReceipt, Push, life
  <2>2. executedQ'[id] > 0
    BY <1>1, <2>1
  <2> QED BY <2>1, <2>2 DEF InPipeline
<1>4. ASSUME NEW x \in Ids, x # id, ReceiveReceipt(x)
      PROVE  received[id] > 0
  BY <1>1, <1>4 DEF ReceiveReceipt
<1>5. CASE received' = received
  BY <1>2, <1>5
<1> QED
  BY <1>2, <1>3, <1>4, <1>5 DEF Next, Environment, Program, Precommit, Crash, Restart, Persist, AddPush,
     AddSave, AddSignal, TakePending, SendDone, SendOk, SendFail, ApplyPending, SignalExecuted,
     TakeExecuted, UpdateFails, UpdateExecuted, CommitOne, history, vars

\* A receipt stays in the receiver until its contract is finished, or was lost to a
\* death, to a collision or with a discarded batch: to no failed call, however
\* early or often it came (AddCrossTxReceipt, ProcessCrossTxReceipts).
THEOREM ReceiptTrackedHolds == Spec => []ReceiptTracked
<1>1. Init => ReceiptWaits
  BY DEF Init, ReceiptWaits, Empty
<1>2. IInv /\ ReceiptWaits /\ [Next]_vars => ReceiptWaits'
  BY ReceiptStep
<1>3. IInv /\ ReceiptWaits => ReceiptTracked
  BY MemoryFacts DEF IInv, TypeOK, ReceiptWaits, ReceiptTracked, InPipeline
<1> QED BY <1>1, <1>2, <1>3, IInvHolds, PTL DEF Spec
=============================================================================
