------------------------------ MODULE OutOnce ------------------------------
(***************************************************************************)
(* The courier's transaction manager (fabric/courier/txmanager.go) on the  *)
(* path SimpleChain -> Fabric: a maker order of SimpleChain arrives as a   *)
(* request, is stored in the "outchain" bucket and invoked on the          *)
(* chaincode, which transfers and emits OutOnceCompleted; the event comes  *)
(* back in a Fabric block and is answered to the hub.  The courier answers *)
(* every such event, also of a transfer that somebody else committed.      *)
(*                                                                         *)
(* Goroutines, each with the actions of its steps:                         *)
(*   receive, processOutChainCtxReq   Receive; StoreRequest, Invoke        *)
(*   BlockSync, AddCrossTxs           Persist; HandOver                    *)
(*   processOutChainCtxResp           RespRead, RespWrite, RespSend        *)
(* The TxID of the n-th transfer of request o is written <<o, n>>.         *)
(***************************************************************************)
EXTENDS Integers, Sequences

CONSTANTS
  Reqs,            \* requests, by CTxId
  OutChain,        \* the courier's outchain flag
  MaxBlockEvents,  \* bound on OutOnceCompleted events in one block
  MaxDeliveries,   \* bound on deliveries of requests, repeated ones included
  MaxForeign,      \* bound on commits by other couriers and by hand
  MaxFaults,       \* bound on failing calls
  MaxCrashes       \* bound on restarts

ASSUME OutOnceAssumption ==
  /\ OutChain \in BOOLEAN
  /\ MaxBlockEvents \in Nat \ {0}
  /\ MaxDeliveries \in Nat /\ MaxForeign \in Nat /\ MaxFaults \in Nat /\ MaxCrashes \in Nat

VARIABLES
  transfers,   \* chaincode: how often each request was paid out
  pool,        \* orderer: events of the next block
  chain,       \* Fabric blocks, each a sequence of events
  foreign,     \* history: commits that were not made by this courier
  record,      \* bucket "outchain": does it have the receipt made of the request?
  number,      \* config/number, the block to resume from
  next,        \* the block AddCrossTxs gets next
  delivered,   \* deliveries so far
  storing,     \* processOutChainCtxReq goroutines before DB.Set
  invoking,    \* ... and before InvokeChainCode
  spawned,     \* response goroutines <<block, index>> that have not started
  responding,  \* response goroutines that have read the record
  answering,   \* responses written to the bucket and not sent
  answers,     \* history: responses sent to the hub
  up, faults, dbFaults, crashes

ledger  == <<transfers, pool, chain, foreign>>
sync    == <<number, next>>
request == <<delivered, storing, invoking>>
respond == <<spawned, responding, answering, answers>>
life    == <<up, crashes>>
failed  == <<faults, dbFaults>>
outVars == <<ledger, record, sync, request, respond, life, failed>>

TxIDs    == Reqs \X Nat
Event    == [id : Reqs, txID : TxIDs]
Response == [id : Reqs, known : BOOLEAN, hash : TxIDs]

Empty      == [o \in Reqs |-> 0]
Push(q, o) == [q EXCEPT ![o] = @ + 1]
Drop(q, o) == [q EXCEPT ![o] = @ - 1]

-----------------------------------------------------------------------------
(* The chaincode and its blocks. *)

\* The orderer cuts a block of the events it holds.
CutBlock ==
  /\ pool # << >>
  /\ chain' = Append(chain, pool)
  /\ pool' = << >>
  /\ UNCHANGED <<transfers, foreign, record, sync, request, respond, life, failed>>

Emit(ev) == Len(pool) < MaxBlockEvents /\ pool' = Append(pool, ev) /\ UNCHANGED chain

\* outchainCommit: transfer, then the event; nothing remembers the request.
OutchainCommit_Unpaid(o) ==
  /\ UNCHANGED transfers
  /\ Emit([id |-> o, txID |-> <<o, transfers[o] + 1>>])
OutchainCommit(o) ==
  /\ transfers' = [transfers EXCEPT ![o] = @ + 1]
  /\ Emit([id |-> o, txID |-> <<o, transfers[o] + 1>>])

\* The same call made by another courier or by hand: it gives the same event.
CommitElsewhere(o) ==
  /\ Len(foreign) < MaxForeign
  /\ foreign' = Append(foreign, o)
  /\ OutchainCommit(o)
  /\ UNCHANGED <<record, sync, request, respond, life, failed>>

-----------------------------------------------------------------------------
(* Requests. *)

\* receive(): every delivery starts a goroutine.
Receive_InvokeFirst(o) ==
  /\ up /\ OutChain /\ delivered < MaxDeliveries
  /\ delivered' = delivered + 1
  /\ invoking' = Push(invoking, o)
  /\ UNCHANGED <<ledger, record, sync, storing, respond, life, failed>>
Receive(o) ==
  /\ up /\ OutChain /\ delivered < MaxDeliveries
  /\ delivered' = delivered + 1
  /\ storing' = Push(storing, o)
  /\ UNCHANGED <<ledger, record, sync, invoking, respond, life, failed>>

\* DB.Set of a fresh receipt: it replaces what is stored under the same id.  A
\* failure is only logged.
StoreRequest(o) ==
  /\ up /\ storing[o] > 0
  /\ storing' = Drop(storing, o)
  /\ invoking' = Push(invoking, o)
  /\ \/ /\ record' = [record EXCEPT ![o] = TRUE]
        /\ UNCHANGED failed
     \/ /\ faults < MaxFaults
        /\ faults' = faults + 1 /\ dbFaults' = dbFaults + 1
        /\ UNCHANGED record
  /\ UNCHANGED <<ledger, sync, delivered, respond, life>>

\* InvokeChainCode("commit", {"outchain", ...}); a failure is only logged.
Invoke(o) ==
  /\ up /\ invoking[o] > 0
  /\ invoking' = Drop(invoking, o)
  /\ \/ OutchainCommit(o) /\ UNCHANGED <<foreign, failed>>
     \/ /\ faults < MaxFaults
        /\ faults' = faults + 1
        /\ UNCHANGED <<ledger, dbFaults>>
  /\ UNCHANGED <<record, sync, delivered, storing, respond, life>>

-----------------------------------------------------------------------------
(* Blocks and responses. *)

\* syncBlock stores the number of a block before it hands the block over.
Persist ==
  /\ up /\ number < next
  /\ number' = number + 1
  /\ UNCHANGED <<ledger, record, next, request, respond, life, failed>>

\* AddCrossTxs: one goroutine for each OutOnceCompleted event of the block.
Spawned_SkipLast(b) == {<<b, i>> : i \in 1..(Len(chain[b]) - 1)}
Spawned(b)         == {<<b, i>> : i \in 1..Len(chain[b])}

HandOver ==
  /\ up /\ number = next /\ next <= Len(chain)
  /\ spawned' = spawned \cup Spawned(next)
  /\ next' = next + 1
  /\ UNCHANGED <<ledger, record, number, request, responding, answering, answers,
                 life, failed>>

\* The goroutine reads the loop variable tx when it runs, not when it is made,
\* and twice, tx.CrossID and then tx.TxID: each time it finds the event it was
\* made for or any later one of the block.
Captured(w) ==
  LET block == chain[w[1]]
  IN  UNION {{[id |-> block[i].id, txID |-> block[j].txID] : j \in i..Len(block)} :
               i \in w[2]..Len(block)}

\* DB.Get: an absent record leaves the receipt blank.
RespRead(w) ==
  /\ up /\ w \in spawned
  /\ spawned' = spawned \ {w}
  /\ \E ev \in Captured(w) :
       responding' = responding \cup {[at |-> w, ev |-> ev, known |-> record[ev.id]]}
  /\ UNCHANGED <<ledger, record, sync, request, answering, answers, life, failed>>

\* DB.Set with the TxHash; a failure is only logged.
RespWrite(r) ==
  /\ up /\ r \in responding
  /\ responding' = responding \ {r}
  /\ answering' = answering \cup {r}
  /\ \/ /\ record' = [record EXCEPT ![r.ev.id] = r.known]
        /\ UNCHANGED failed
     \/ /\ faults < MaxFaults
        /\ faults' = faults + 1 /\ dbFaults' = dbFaults + 1
        /\ UNCHANGED record
  /\ UNCHANGED <<ledger, sync, request, spawned, answers, life>>

\* sign and Send; a failure is only logged.
RespSend(r) ==
  /\ up /\ r \in answering
  /\ answering' = answering \ {r}
  /\ \/ /\ answers' = answers \cup {[id |-> r.ev.id, known |-> r.known, hash |-> r.ev.txID]}
        /\ UNCHANGED failed
     \/ /\ faults < MaxFaults
        /\ faults' = faults + 1
        /\ UNCHANGED <<answers, dbFaults>>
  /\ UNCHANGED <<ledger, record, sync, request, spawned, responding, life>>

-----------------------------------------------------------------------------
(* The process dies with its goroutines; the store survives.  Nothing reloads *)
(* the outchain bucket.                                                        *)

Crash ==
  /\ up /\ crashes < MaxCrashes
  /\ up' = FALSE
  /\ storing' = Empty /\ invoking' = Empty
  /\ spawned' = {} /\ responding' = {} /\ answering' = {}
  /\ UNCHANGED <<ledger, record, sync, delivered, answers, crashes, failed>>

Restart ==
  /\ ~up
  /\ up' = TRUE /\ crashes' = crashes + 1
  /\ next' = number
  /\ UNCHANGED <<ledger, record, number, request, respond, failed>>

OutInit ==
  /\ transfers = Empty /\ pool = << >> /\ chain = << >> /\ foreign = << >>
  /\ record = [o \in Reqs |-> FALSE]
  /\ number = 1 /\ next = 1
  /\ delivered = 0 /\ storing = Empty /\ invoking = Empty
  /\ spawned = {} /\ responding = {} /\ answering = {} /\ answers = {}
  /\ up = TRUE /\ faults = 0 /\ dbFaults = 0 /\ crashes = 0

OutNext ==
  \/ \E o \in Reqs : Receive(o) \/ StoreRequest(o) \/ Invoke(o) \/ CommitElsewhere(o)
  \/ CutBlock \/ Persist \/ HandOver
  \/ \E w \in spawned : RespRead(w)
  \/ \E r \in responding : RespWrite(r)
  \/ \E r \in answering : RespSend(r)
  \/ Crash \/ Restart

OutSpec == OutInit /\ [][OutNext]_outVars

\* Goroutines run and the orderer cuts blocks; nothing is assumed of requests,
\* commits elsewhere, crashes or restarts.
Fairness ==
  /\ \A o \in Reqs : WF_outVars(StoreRequest(o)) /\ WF_outVars(Invoke(o))
  /\ WF_outVars(CutBlock) /\ WF_outVars(Persist) /\ WF_outVars(HandOver)
  /\ WF_outVars(\E w \in spawned : RespRead(w))
  /\ WF_outVars(\E r \in responding : RespWrite(r))
  /\ WF_outVars(\E r \in answering : RespSend(r))

FairSpec == OutSpec /\ Fairness

-----------------------------------------------------------------------------
(* Properties. *)

Goroutine == [at : Nat \X Nat, ev : Event, known : BOOLEAN]

OutTypeOK ==
  /\ transfers \in [Reqs -> Nat] /\ pool \in Seq(Event) /\ chain \in Seq(Seq(Event))
  /\ foreign \in Seq(Reqs) /\ record \in [Reqs -> BOOLEAN]
  /\ number \in Nat \ {0} /\ next \in Nat \ {0}
  /\ delivered \in Nat /\ storing \in [Reqs -> Nat] /\ invoking \in [Reqs -> Nat]
  /\ spawned \in SUBSET (Nat \X Nat)
  /\ responding \in SUBSET Goroutine /\ answering \in SUBSET Goroutine
  /\ answers \in SUBSET Response
  /\ up \in BOOLEAN /\ faults \in Nat /\ dbFaults \in Nat /\ crashes \in Nat

\* The transaction tx is a transfer that was made, and request id was paid; tx is
\* of another request only if that one comes later in a block with id.
Paid(id, tx) ==
  /\ tx[2] \in 1..transfers[tx[1]] /\ transfers[id] > 0
  /\ tx[1] # id => \E b \in DOMAIN chain : \E i, j \in DOMAIN chain[b] :
                     i < j /\ chain[b][i].id = id /\ chain[b][j].txID = tx

\* An answer names a request that was paid and a transfer that was made, across
\* crashes and redelivered blocks.  The transfer is the request's own unless the
\* loop variable moved on between its two reads (AddCrossTxs): then it is that of
\* a later event of a block that has the request's.
AnswersPaid == \A a \in answers : Paid(a.id, a.hash)

\* Has somebody else committed the request?
Elsewhere(o) == \E i \in DOMAIN foreign : foreign[i] = o

\* While the store works, an answer is made from a blank receipt only for a
\* request that was also committed by somebody else: its own commit follows the
\* record (processOutChainCtxReq), and only an event of the other commit can come
\* too early or write a blank record over it (processOutChainCtxResp).
AnswersComplete ==
  dbFaults = 0 => \A a \in answers : a.known \/ Elsewhere(a.id)

\* Of the events of one block the last is always answered: the goroutine made
\* for it has nothing later to capture.
LastOfBlockAnswered ==
  \A b \in 1..(MaxDeliveries + MaxForeign) :
    b < next ~>
      \/ b <= Len(chain) /\ LET last == chain[b][Len(chain[b])]
                            IN  \E a \in answers : a.id = last.id /\ a.hash = last.txID
      \/ ~up \/ crashes > 0 \/ faults > 0
=============================================================================
