------------------------------ MODULE CrossNet ------------------------------
(***************************************************************************)
(* The hubs of both chains together: viewers attached to SimpleChain       *)
(* (chainview/), couriers attached to Fabric (fabric/courier/), the        *)
(* contract, the chaincode and the messages between the hubs.  What each   *)
(* part does inside is the subject of the modules Viewer, TxManager,       *)
(* OutOnce, CrossDemo, Chaincode and Swarm; here one action is the         *)
(* handling of one event, message or batch.                                *)
(*                                                                         *)
(* Every hub sends every other hub what it has to say; messages may be     *)
(* overtaken and lost.  All hubs are anchors of the contract.  The n-th    *)
(* transfer made on Fabric for an order bears the hash n.                  *)
(***************************************************************************)
EXTENDS Naturals, FiniteSets, Bags, SequencesExt

CONSTANTS
  Viewers, Couriers,  \* the hubs
  Makes,       \* maker orders of SimpleChain
  Pres,        \* contracts of Fabric
  Blank,       \* the id of a receipt made from an absent record
  Outchains,   \* which couriers may have the outchain flag
  Quorum,      \* signConfirmCount
  MaxEvents    \* bound on orders and contracts made, on messages lost and on
               \* viewers that come back at an earlier block, together

ASSUME CrossNetAssumption ==
  /\ IsFiniteSet(Viewers) /\ IsFiniteSet(Couriers)
  /\ Viewers \cap Couriers = {} /\ Makes \cap Pres = {} /\ Blank \notin Makes \cup Pres
  /\ Outchains \subseteq SUBSET Couriers /\ Quorum \in Nat \ {0}
  /\ MaxEvents \in Nat

VARIABLES
  maker,     \* makerTxs: "none", "open" or "paid"
  signers,   \* who sent the makerFinish of each order
  takerHash, \* the transfer they report, 0 before the first
  taken,     \* takerTxs
  log,       \* events of the contract
  contract,  \* contracts of the chaincode
  moved,     \* transfers made by outchainCommit for each id
  blocks,    \* events of the chaincode
  height,    \* viewers: events of log handled
  remote,    \* viewers: RemoteStore, by id
  number,    \* couriers: events of blocks handled
  records,   \* couriers: contracts saved
  requests,  \* couriers: bucket outchain
  receipts,  \* couriers: the queue executed
  outchain,  \* couriers with the outchain flag
  net,       \* bag of messages under way, each with its receiver
  replays, lost

simple  == <<maker, signers, takerHash, taken, log>>
fabric  == <<contract, moved, blocks>>
viewer  == <<height, remote>>
courier == <<number, records, requests, receipts, outchain>>
counts  == <<replays, lost>>
vars    == <<simple, fabric, viewer, courier, net, counts>>

Hubs == Viewers \cup Couriers
Ids  == Makes \cup Pres

-----------------------------------------------------------------------------
(* Messages: an order or a receipt under a signature (core/). *)

HubChain == 11
SimpleChain == 2

Order(id)         == [kind |-> "order", id |-> id, hash |-> 0]
Receipt(id, hash) == [kind |-> "receipt", id |-> id, hash |-> hash]
Sign(m, a, chain) == [body |-> m, by |-> a, chain |-> chain]
SignCtx(a, id) == Sign(Order(id), a, HubChain)
SignRtx(a, id, hash) == Sign(Receipt(id, hash), a, HubChain)
SignSimpleCtx(a, m) == Sign(m.body, a, SimpleChain)

\* who signed m for a chain; m bears no signature for another one
Sender(m, chain) == IF m.chain = chain THEN {m.by} ELSE {}
\* receipts have a signer of their own, with the rule of the one for orders
RtxSender(m) == Sender(m, HubChain)

UnderWay == BagToSet(net)
Broadcast(a, m) == net' = net (+) SetToBag({<<h, m>> : h \in Hubs \ {a}})
Got_Again(h, m) == <<h, m>> \in UnderWay /\ UNCHANGED net
Got(h, m) == <<h, m>> \in UnderWay /\ net' = net (-) SetToBag({<<h, m>>})

Event(kind, id, hash) == [kind |-> kind, id |-> id, hash |-> hash]

-----------------------------------------------------------------------------
(* The users of the two chains. *)

Events ==
  replays + lost
    + Cardinality({m \in Makes : maker[m] # "none"} \cup {p \in Pres : contract[p] # "none"})

\* cmd/maker: makerStart
Make(m) ==
  /\ maker[m] = "none" /\ Events < MaxEvents
  /\ maker' = [maker EXCEPT ![m] = "open"]
  /\ log' = Append(log, Event("MakerTx", m, 0))
  /\ UNCHANGED <<signers, takerHash, taken, fabric, viewer, courier, net, counts>>

\* cmd/taker: an order from the remote stores, with the signatures of as many
\* viewers as the contract asks for
Vouching(p) ==
  {v \in Viewers : \E o \in remote[v] : o.body.id = p /\ Sender(o, SimpleChain) = {v}}
Take(p) ==
  /\ Cardinality(Vouching(p)) >= Quorum
  /\ p \notin taken
  /\ taken' = taken \cup {p}
  /\ log' = Append(log, Event("TakerTx", p, 0))
  /\ UNCHANGED <<maker, signers, takerHash, fabric, viewer, courier, net, counts>>

\* fabric-cli: chaincode precommit
Precommit(p) ==
  /\ contract[p] = "none" /\ Events < MaxEvents
  /\ contract' = [contract EXCEPT ![p] = "Init"]
  /\ blocks' = Append(blocks, Event("Init", p, 0))
  /\ UNCHANGED <<simple, moved, viewer, courier, net, counts>>

-----------------------------------------------------------------------------
(* A viewer v. *)

\* EventLog for the next event: MakerTx is announced, TakerTx answered
HandleLog(v) ==
  /\ height[v] < Len(log)
  /\ height' = [height EXCEPT ![v] = @ + 1]
  /\ LET e == log[height[v] + 1]
     IN \/ /\ e.kind = "MakerTx"
           /\ Broadcast(v, SignCtx(v, e.id)) /\ UNCHANGED remote
        \/ /\ e.kind = "TakerTx"
           /\ Broadcast(v, SignRtx(v, e.id, 0))
           /\ remote' = [remote EXCEPT ![v] = {o \in @ : o.body.id # e.id}]
        \/ /\ e.kind = "MakerFinish"
           /\ UNCHANGED <<remote, net>>
  /\ UNCHANGED <<simple, fabric, courier, counts>>

\* loop: another hub's order is signed again for the contract and stored
ReceiveOrder(v, m) ==
  /\ Got(v, m) /\ m.body.kind = "order"
  /\ Sender(m, HubChain) # {}
  /\ remote' = [remote EXCEPT ![v] = @ \cup {SignSimpleCtx(v, m)}]
  /\ UNCHANGED <<simple, fabric, height, courier, counts>>

\* makerFinish by v for a receipt; what the contract refuses has no effect
Reports_Unchecked(v, r) == r.id \in Makes /\ maker[r.id] # "none"
Reports(v, r) ==
  /\ r.id \in Makes /\ maker[r.id] = "open" /\ v \notin signers[r.id]
  /\ takerHash[r.id] \in {0, r.hash}

Pay(v, m) == Cardinality(signers[m] \cup {v}) >= Quorum

ReceiveReceipt(v, msg) ==
  /\ Got(v, msg) /\ msg.body.kind = "receipt"
  /\ RtxSender(msg) # {}
  /\ LET r == msg.body
     IN \/ ~Reports(v, r) /\ UNCHANGED simple
        \/ /\ Reports(v, r)
           /\ signers' = [signers EXCEPT ![r.id] = @ \cup {v}]
           /\ takerHash' = [takerHash EXCEPT ![r.id] = r.hash]
           /\ IF Pay(v, r.id)
              THEN /\ maker' = [maker EXCEPT ![r.id] = "paid"]
                   /\ log' = Append(log, Event("MakerFinish", r.id, 0))
              ELSE UNCHANGED <<maker, log>>
           /\ UNCHANGED taken
  /\ UNCHANGED <<fabric, viewer, courier, counts>>

\* v is started again and reads from the height it stored last
Replay(v) ==
  /\ Events < MaxEvents /\ replays' = replays + 1
  /\ \E h \in 0 .. height[v] - 1 : height' = [height EXCEPT ![v] = h]
  /\ UNCHANGED <<simple, fabric, remote, courier, net, lost>>

-----------------------------------------------------------------------------
(* A courier c. *)

\* an answer is made from the stored request, or from nothing
AnswerId(c, id) == IF id \in requests[c] THEN id ELSE Blank

\* AddCrossTxs for the next event: a contract is saved and announced, a transfer
\* is answered, whoever asked for it
HandleBlock(c) ==
  /\ number[c] < Len(blocks)
  /\ number' = [number EXCEPT ![c] = @ + 1]
  /\ LET e == blocks[number[c] + 1]
     IN \/ /\ e.kind = "Init"
           /\ records' = [records EXCEPT ![c] = @ \cup {e.id}]
           /\ Broadcast(c, SignCtx(c, e.id))
        \/ /\ e.kind = "OutOnceCompleted"
           /\ Broadcast(c, SignRtx(c, AnswerId(c, e.id), e.hash))
           /\ UNCHANGED records
        \/ /\ e.kind = "Finished"
           /\ UNCHANGED <<records, net>>
  /\ UNCHANGED <<simple, fabric, viewer, requests, receipts, outchain, counts>>

\* receive: an order is a request, stored and invoked if the flag is set.
\* Neither its signature nor the chain it comes from is looked at.
ReceiveRequest_Unstored(c, m) ==
  /\ Got(c, m) /\ m.body.kind = "order"
  /\ IF c \in outchain
     THEN /\ moved' = [moved EXCEPT ![m.body.id] = @ + 1]
          /\ blocks' = Append(blocks, Event("OutOnceCompleted", m.body.id, moved'[m.body.id]))
     ELSE UNCHANGED <<moved, blocks>>
  /\ UNCHANGED <<simple, contract, requests, viewer, number, records, receipts, outchain, counts>>
ReceiveRequest(c, m) ==
  /\ Got(c, m) /\ m.body.kind = "order"
  /\ IF c \in outchain
     THEN /\ requests' = [requests EXCEPT ![c] = @ \cup {m.body.id}]
          /\ moved' = [moved EXCEPT ![m.body.id] = @ + 1]
          /\ blocks' = Append(blocks, Event("OutOnceCompleted", m.body.id, moved'[m.body.id]))
     ELSE UNCHANGED <<requests, moved, blocks>>
  /\ UNCHANGED <<simple, contract, viewer, number, records, receipts, outchain, counts>>

QueueReceipt(c, m) ==
  /\ Got(c, m) /\ m.body.kind = "receipt"
  /\ receipts' = [receipts EXCEPT ![c] = @ \cup {m.body.id}]
  /\ UNCHANGED <<simple, fabric, viewer, number, records, requests, outchain, counts>>

\* ProcessCrossTxReceipts: the whole batch is committed, or dropped if one of it
\* has no record.  The chaincode commits a contract once.
Unfinished(S) == {p \in S : contract[p] = "Init"}
ProcessReceipts(c) ==
  /\ receipts[c] # {}
  /\ receipts' = [receipts EXCEPT ![c] = {}]
  /\ IF receipts[c] \subseteq records[c]
     THEN LET S == Unfinished(receipts[c])
          IN /\ contract' = [p \in Pres |-> IF p \in S THEN "Finished" ELSE contract[p]]
             /\ blocks' = blocks \o SetToSeq({Event("Finished", p, 0) : p \in S})
     ELSE UNCHANGED <<contract, blocks>>
  /\ UNCHANGED <<simple, moved, viewer, number, records, requests, outchain, net, counts>>

-----------------------------------------------------------------------------

Lose(h, m) ==
  /\ Got(h, m)
  /\ Events < MaxEvents /\ lost' = lost + 1
  /\ UNCHANGED <<simple, fabric, viewer, courier, replays>>

Init ==
  /\ maker = [m \in Makes |-> "none"] /\ signers = [m \in Makes |-> {}]
  /\ takerHash = [m \in Makes |-> 0] /\ taken = {} /\ log = <<>>
  /\ contract = [p \in Pres |-> "none"] /\ moved = [id \in Ids |-> 0] /\ blocks = <<>>
  /\ height = [v \in Viewers |-> 0] /\ remote = [v \in Viewers |-> {}]
  /\ number = [c \in Couriers |-> 0] /\ records = [c \in Couriers |-> {}]
  /\ requests = [c \in Couriers |-> {}] /\ receipts = [c \in Couriers |-> {}]
  /\ outchain \in Outchains /\ net = EmptyBag /\ replays = 0 /\ lost = 0

Deliver(h, m) ==
  \/ h \in Viewers /\ (ReceiveOrder(h, m) \/ ReceiveReceipt(h, m))
  \/ h \in Couriers /\ (ReceiveRequest(h, m) \/ QueueReceipt(h, m))

ViewerStep(v)  == HandleLog(v) \/ \E x \in UnderWay : x[1] = v /\ Deliver(v, x[2])
CourierStep(c) == HandleBlock(c) \/ ProcessReceipts(c) \/ \E x \in UnderWay : x[1] = c /\ Deliver(c, x[2])

Next ==
  \/ \E m \in Makes : Make(m)
  \/ \E p \in Pres : Take(p) \/ Precommit(p)
  \/ \E v \in Viewers : ViewerStep(v) \/ Replay(v)
  \/ \E c \in Couriers : CourierStep(c)
  \/ \E x \in UnderWay : Lose(x[1], x[2])

Spec == Init /\ [][Next]_vars

\* Hubs handle what they find and get; users and failures do as they like.
Fairness ==
  /\ \A v \in Viewers : WF_vars(ViewerStep(v))
  /\ \A c \in Couriers : WF_vars(CourierStep(c))
FairSpec == Spec /\ Fairness

-----------------------------------------------------------------------------
(* Properties. *)

Body    == [kind : {"order", "receipt"}, id : Ids \cup {Blank}, hash : Nat]
Message == [body : Body, by : Hubs, chain : {HubChain, SimpleChain}]

TypeOK ==
  /\ maker \in [Makes -> {"none", "open", "paid"}]
  /\ signers \in [Makes -> SUBSET Viewers] /\ takerHash \in [Makes -> Nat]
  /\ taken \subseteq Pres
  /\ log \in Seq([kind : {"MakerTx", "TakerTx", "MakerFinish"}, id : Ids, hash : {0}])
  /\ contract \in [Pres -> {"none", "Init", "Finished"}] /\ moved \in [Ids -> Nat]
  /\ blocks \in Seq([kind : {"Init", "OutOnceCompleted", "Finished"}, id : Ids, hash : Nat])
  /\ height \in [Viewers -> Nat] /\ remote \in [Viewers -> SUBSET Message]
  /\ number \in [Couriers -> Nat] /\ records \in [Couriers -> SUBSET Pres]
  /\ requests \in [Couriers -> SUBSET Ids] /\ receipts \in [Couriers -> SUBSET (Ids \cup {Blank})]
  /\ outchain \subseteq Couriers /\ UnderWay \subseteq Hubs \X Message
  /\ replays \in Nat /\ lost \in Nat

\* With one courier the hubs keep the promise of Transfer: an order is paid only
\* for a transfer that its quorum reports and Fabric made, a contract finished
\* only after it was taken, whatever is overtaken, lost or announced again.
Promise ==
  INSTANCE Transfer WITH
    order <- maker, moved <- [m \in Makes |-> moved[m]],
    proof <- [m \in Makes |-> IF maker[m] = "paid" THEN takerHash[m] ELSE 0]
ImplementsTransfer == Promise!Spec

\* Fabric moves money for an order once for each viewer that announces it and
\* each announcement repeated, and never for an order nobody made.
TransfersBounded ==
  \A m \in Makes :
    /\ moved[m] <= (Cardinality(Viewers) + replays) * Cardinality(outchain)
    /\ moved[m] > 0 => maker[m] # "none"

\* While no message is lost an order that is made is paid, and a contract that is
\* taken is finished, however many answers the order gets (takerHash is pinned by
\* the first makerFinish).
OrdersSettle ==
  /\ \A m \in Makes : maker[m] = "open" ~> (maker[m] = "paid" \/ lost > 0 \/ outchain = {})
  /\ \A p \in Pres : p \in taken ~> (contract[p] = "Finished" \/ lost > 0)

=============================================================================
