# CrossHub: specifications, model checks and proofs

CrossHub moves contracts and payments between a Hyperledger Fabric channel and
SimpleChain (an Ethereum-like chain). Hubs form a peer-to-peer network; each hub
is attached to one chain by a *role* component: the **courier** for Fabric
(chain id 5) or the **viewer** for SimpleChain (chain id 2). This directory
models its programs and the two chains they work on, checks them with TLC on small
instances and proves what matters most with TLAPS.

## 1. Inventory

### The system

Two flows cross the hub.

* **Fabric to SimpleChain.** Chaincode `precommit` emits an event, `BlockSync`
  finds it in a block, `TxManager.AddCrossTxs` stores and queues it,
  `ProcessCrossTxs` signs and sends it, the swarm broadcasts it, viewers sign it
  again and keep it in their remote store, a user takes the order on the
  contract (`taker`), viewers see `TakerTx` and broadcast a receipt, the courier
  commits the receipt on the chaincode, whose `Finished` event completes the record.
* **SimpleChain to Fabric.** `makerStart` emits `MakerTx`, viewers sign and
  broadcast the order, couriers with the `outchain` flag store it and invoke
  `outchainCommit`, the `OutOnceCompleted` event comes back in a block and is
  answered with a signed receipt, viewers send `makerFinish`, and the contract
  pays once enough anchors have done so.

| component | state it keeps | operations | hard behaviour | module |
|---|---|---|---|---|
| transaction manager, `fabric/courier/txmanager.go` | storm records, queues `pending` and `executed`, their token channels | `AddCrossTxs`, `ProcessCrossTxs`, `UpdateCrossTx`, `ProcessCrossTxReceipts`, `AddCrossTxReceipt`, `reload`, `processOutChainCtxReq`, `processOutChainCtxResp` | six kinds of goroutine over two queues, pushes without the mutex, loop variables captured by closures, retries, crash and reload | `TxManager`, `OutOnce` |
| block synchroniser, `fabric/courier/syncer.go` | block number (memory and store), timer | `syncBlock`, `processPreTxs`, `Stop` | two goroutines that send to each other over unbuffered channels, number stored before the work, `Stop` | `BlockSync` |
| chaincode, `fabric/chaincode/...`, and the reader of its blocks, `fabric/courier/filter.go` | contracts, accounts | `invoke`, `delete`, `precommit`, `regularCommit`, `outchainCommit`, `GetPrepareCrossTxs` | calls endorsed on the same state, order of transactions, invalid transactions in blocks | `Chaincode` |
| contract, `contract/crossdemo` | anchors, removed anchors, orders, taken orders, rewards | owner operations, `makerStart`, `makerFinish`, `taker` | quorum while the anchors change, positions, wrap-around, money | `AnchorRegistry`, `CrossDemo` |
| viewer, `chainview/chainview.go` | block height, anchors, two stores, two channels | `GetEvents`, `EventLog`, `loop`, `GetAnchors`, `Stop` | failed queries, height on disk only after `Stop`, a channel filled by the goroutine that drains the other | `Viewer` |
| stores, `database/indexdb.go` | storm bucket, ARC cache | `Write`, `Writes`, `Updates`, `Deletes`, `Read`, `Has`, `One`, `Query` | cache against transaction, two goroutines, failing batch | `OrderStore` |
| swarm and hub network, `swarm/`, `hubnet/` | connected peers, cached streams, message channel | handshake with certificates, `Broadcast`, `Send`, `AsyncSend`, `Disconnect` | both sides dial and close, late answers, colliding frames, bounded channels, crash | `Swarm` |
| value types and signing, `core/` | none | hash, sign, recover | which signature is for which chain | `CrossNet` |
| the network of hubs | all of the above | one transfer from order to payment | lost, overtaken and repeated messages | `CrossNet` |
| `fabric-cli` administration | none of its own: the channel, the peers on it, the chaincode they have and use | create, join, install, instantiate, upgrade, info, queries | loops over organizations that fail half way, what the reports let an operator conclude | `FabricCli` |
| `fabric-cli` executor, invoke and query | task queue, worker pool, wait groups | submit, dispatch, invoke, stop | five waits in a row on shutdown | `Executor`, `FabricCli` |
| certificates, `cert/`, `repo/`, `crosshub cert` | files | make, issue, load, verify | chains of signatures up to a CA that each hub chooses | `Certificates` |
| api, configuration, other commands | files, none | read-only or one-shot | none | |

Interaction is by calls inside the courier, by `eventCh` and `messageCh` (4096
messages each) between a role and the swarm, by streams between hubs, and by
transactions and events with the chains. `PROJECT.json` lists every component
with its status and, under `hazards`, each place where the code can go wrong in a
way a test would hardly reach, with the properties aimed at it.

## 2. Modules

| module | models | extends |
|---|---|---|
| `TxManager` | the Fabric to SimpleChain path of the transaction manager with its records, the chaincode and the hub as the manager sees them | |
| `OutOnce` | the SimpleChain to Fabric path of the transaction manager | |
| `BlockSync` | the block synchroniser | |
| `AnchorRegistry` | the anchors of one foreign chain in the contract | |
| `CrossDemo` | the orders of the contract over `AnchorRegistry` | `AnchorRegistry` |
| `Viewer` | the role of a hub on SimpleChain | |
| `OrderStore` | the cached store of orders | |
| `OrderBook` | abstract: a table of orders, which `OrderStore` implements | |
| `Certificates` | the certificates of a hub and what it accepts (operators only) | |
| `Swarm` | the hubs' handshake, streams and broadcasts | `Certificates` |
| `Chaincode` | the chaincode on a channel that endorses, orders and validates | |
| `Agreement` | abstract: what the chaincode promises about a contract, which `Chaincode` implements | |
| `CrossNet` | viewers, couriers, contract and chaincode together | |
| `Transfer` | abstract: what a transfer promises, which `CrossNet` implements | |
| `Executor` | the concurrent calls of fabric-cli | |
| `FabricCli` | the administration commands of fabric-cli, and the calls over `Executor` | `Executor` |
| `MC...` | values of constants, and symmetry where only safety is checked | the module named |
| `TxManagerProofs`, `ViewerProofs`, `OrderStoreProofs`, `SwarmProofs`, `CrossNetProofs`, `FabricCliProofs` | theorems | the module named, `TLAPS` |
| `OutchainProofs` | theorems about an order from SimpleChain to Fabric | `CrossDemo`, `OutOnce`, `TLAPS` |
| `LedgerProofs` | theorems about Fabric's ledger and the courier that walks it | `Chaincode`, `BlockSync`, `TLAPS` |

`OutOnce` and `BlockSync` have `OutSpec`, `SyncSpec` and the like where other modules have `Spec`,
because their proofs share a module with those of another component, whose names differ.

In each module the definitions whose name ends in an underscore and a word
(`Signal_Lost`, `Got_Again`) are deliberately broken variants; no
specification uses them. They stand next to what they vary and show that the
properties can fail.

### TxManager

Variables follow the fields of `TxManager` and of the store: `status` and
`receipt` are the storm record, `number` the stored block number, `pendingQ`,
`pendingSig`, `executedQ`, `executedSig` the two `Prqueue`s, `sending`,
`successList`, `executed` the local slices of the two loops, `updating` and
`commits` the work left to their goroutines. Each step between two moments at
which other goroutines can act is an action: `AddCrossTxs` is `AddPush`
(under the mutex), `AddSave` (one storm transaction) and `AddSignal`;
`ProcessCrossTxs` is `TakePending`, `SendOk` or `SendFail` per transaction and
`SendDone`, and so on (the module's head lists them).

* **Queues are multisets.** `prque` orders by time; every reader empties the
  queue, so the order decides only in which order the batch is sent, which the
  model leaves open.
* **`RacyPushes`.** Lines 174, 180, 254 and 271 push without the mutex. With
  `RacyPushes` a push may lose any one entry of the heap, which is what two
  colliding heap operations can do. Every invariant is checked and proved with it;
  only the liveness run goes without, as an entry that is lost is never sent.
* **`ReceiptFrom`** says which receipts can arrive: any id's, also before its contract
  was sent or for a contract of another courier (`"any"`), those of contracts that were
  sent, or of those whose record was saved. A receipt without a record makes `Updates`
  fail and throws its whole batch away (`UpdateExecuted`). The invariants take `"any"`;
  the liveness run takes `"saved"`, since no batch is discarded then.
* **The reload finds nothing.** `Restart` leaves both queues empty: the query of
  `reload` names the fields `Status` and `Timestamp`, while `CrossTx` embeds an
  interface and has `TimeStamp`; storm refuses it and `Store.Query` drops the
  error (`database.go:155`). What was in memory at a death is stranded.
* **`lostSends` and `lostReceipts`** are history variables: what the two pipelines forgot.
  They grow in three places, a death (`Die`), a colliding push (`UnlockedPush`) and a
  discarded batch (`UpdateExecuted`), and shrink when the entry is pushed anew. The
  two tracking properties say that nothing is missing that is not on these lists.
* **Loop variables** are shared by closures (Go 1.14): all records of a batch get
  the receipt of its last entry (`last` in `UpdateExecuted`).
* Left out: a block with both the Init and the Finished event of one contract; a
  `One` error other than "not found" in `Save`, which skips a record; `Stop`;
  the size test and the send of the token in `AddCrossTxs` are one step.

### OutOnce

`record` is the bucket `outchain`, reduced to whether it holds the receipt made of the
request (a blank one otherwise); `storing`, `invoking`, `spawned`, `responding` and `answering` are
the goroutines between their calls. A response goroutine reads the shared loop variable
twice, first `tx.CrossID` and then `tx.TxID`. `Captured` is the set of pairs it can read:
the id of the event it was made for or of any later one of the block, and the transaction of that one
or of any later one. So one request's id can go with another's transfer, and `AnswersPaid` says
that this is the only way it can. `CommitElsewhere` is the same call made by another
courier or by hand (`MaxForeign`): the courier answers its event too, from a blank record
if it knows nothing of the request, and `RespWrite` then writes that blank over what is there. `CutBlock`
is the orderer. AddCrossTxs starts all goroutines of a block in one step, which loses nothing as they may run at any
time after.

### BlockSync

A block is known by what the two loops make of it (`Kinds`). `syncPc` and
`procPc` are the places of the goroutines, a rendezvous on an unbuffered channel
is one action of both (`HandOver`, `ReportError`), a timer is a flag, and time
is not modelled. `AddCrossTxs` is one step here; its inside is `TxManager`.

### AnchorRegistry and CrossDemo

Each action is one transaction; what reverts is no step. `addAnchors` and
`removeAnchors` take one address: a batch is a sequence of such steps that fails
as a whole. `signed` is the mapping `signatures`, which `delete` does not clear.
`maker[o].value` 0 is the absent order. Arithmetic that can wrap does:
`signatureCount` modulo 256, the unsigned difference in `removeAnchors`
(`# 0`), `BitCount` modulo 63. Anchors are honest: `TakerOf` ties the hash of a
foreign transaction to the taker it names. `makerFinish` is payable: an anchor may send
wei along (`Attached`), which the contract keeps and credits to nobody; `stray` adds
them up. Order ids are hashes of sender, nonce
and chain and never come twice. Left out: the router, `anchorsPositionBit` and
`delsPositionBit` (written, never read), the counters of work done, `charge`,
strings, payloads, the views.

### Chaincode

A call is endorsed on the committed state (`Endorse`): it records the versions of
the keys it read, what it writes and the last event it set. `CutBlock` puts some
of the endorsed transactions into a block in any order, `Validate` applies the
next of them if its reads are still current (Fabric's MVCC check, external to
`src/`). `Reads` and `Writes` are `doInvoke`, including a transfer to oneself,
where the second write wins. `GetPrepareCrossTxs` is the courier's filter.
`Picked` keeps the entries of a list at some places, in order. `drift` counts the
money such transfers make and deletions destroy. `KeepsAgreement` is the refinement that says what all this is for: to
its users the chaincode runs one call after the other, as in `Agreement`. There a contract is
written down once, finished once, and its payment is made in that same step with the
balances of that moment, while here the values were computed when the call was
endorsed, possibly before several others. Contracts map to their state, accounts to theirs, payments
to `paid`; endorsement, ordering and stale calls map to stutters. Left out:
`query`, deletion of a contract, an upgrade of the chaincode, and endorsement
between two transactions of one block, which only makes more reads stale.

### Viewer

The place of the only loop goroutine is `pc`; everything that can fail or block
(`eth_blockNumber`, `FilterLogs`, each store call, each send on `eventCh`) is an
action. `LastBlock` is the unsigned arithmetic of `GetEvents`, modulo `Word`.
A failed `BlockNumber` counts as block 0, a failed `FilterLogs` as no events, as
the code has it, so both can move the height past events: `CallsWork` restricts
the properties about the height to chains at least as long as the window
(`StartHead >= Window`) and behaviours with no failed call, which is where they
hold. `Stop` saves the height, `Crash` does not, and both forget the channels.
A block carries one event at most; a message is known by its kind, its id and its signer.
`queued`, `broadcast`, `finished`, `top` and `late` are history variables.

### OrderStore and OrderBook

A write call (`Write`, `Writes`, `Updates`, `Deletes`) opens a transaction with
`Begin`, then come a `Touch` per order, and `Commit` or `Rollback`; a cached read
(`Get`, `One`) is `Lookup`, `Fetch`, `Fill`. A `Touch` of `Writes` without
replacement, or of `Deletes`, whose lookup fails passes the order over, whatever the error, and the
transaction goes on (`missed`; `indexdb.go:149`, `:260`). Touch evicts from the cache inside the
transaction, before the commit, and under the key the code names: `Writes` names
the transaction hash under the id's index (`indexdb.go:169`), so `Evicted` leaves
the record under its hash. `rewritten` marks the ids this concerns, and
`CacheCoherent` speaks of the others. It also assumes that one goroutine uses the
cache; with two an old record can be put back after an eviction, which the model
contains and `NothingDirty` still covers. Ids serve as transaction hashes. `OrderBook` is the
store without cache and transactions: a request is applied at once or refused, and
orders that a request to add or delete missed stay as they were (`Miss`), which its caller is not told. `ImplementsBook` maps `orders` to the committed
bucket and `request` to the open transaction.

### Certificates and Swarm

A certificate is whose key it certifies, whose key signed it and whether that key
may sign others. `CaCert`, `Csr` and `Issue` are the commands of `crosshub cert`,
`Folders` is what `loadCerts` can find in a hub's directory, `VerifyCerts` is the
check of a hub with one folder on what another sends. Each hub starts with any
folder of such certificates, so `trusted`, the pairs `<<a, b>>` of which a accepts
b, can be one-sided: a hub that is accepted but does not accept is stored as
connected by the other side only, and is sent to. Key files and dates are left out
(the commands make certificates for fifty years).

`dial[<<a, b>>]` is the place of a's goroutine for b (`swarm.go`: connect, send
the certificates, wait, close), `stream`, `wire`, `old` and `replies` are the
cached stream of `hubnet/`, with what is unread on it, the stream it replaced
after a write timed out, and the answers.

* **A close is known at one end.** `Disconnect` closes the connection for the hub that
  calls it (its own streams leave the cache). The other hub's stream becomes
  `"stale"`: its writes go on succeeding and what it writes vanishes, until it sees the
  close (`Notice`) and its next write fails (`"dead"`), which removes the
  stream. A hub that has no stream and has not seen the close may open one
  on the closed connection (`"gone"`). `DisconnectFails` is the path where `ClosePeer` reports an
  error: the peer is not stored and is dialled again.
* **Calls fail with the peer up** (`Fault`, bounded by `MaxFaults`): `NewStream`, which costs
  the message at hand, and `ClosePeer`.
* **Answers.** `waitMsg` leaves its reader behind when it gives up, on a stream
  that stays in the cache. That reader takes a later answer whole (`LeakedRead`) or, since `ReadMsg` reads
  three times without a lock, part of it (`Tear`); the stream is then `torn` and no answer makes
  sense on it until it is replaced.
* **Frames** are atomic otherwise, except that the dialling goroutine and the broadcaster can
  garble one another's (`Collide`): the peer takes what follows for the body of a
  frame (`"deaf"`) or resets the stream (`Reset`). A write that times out abandons
  its stream; an answer that would still come by it counts as late. Streams are
  closed by a hub or a crash only, what is on the way then is lost, and certificates
  are written in time.

`lateLoss` and `carried` are history variables of each pair: messages lost since both hubs were done dialling
(the ones that vanish count only after the first that was not lost), and whether there was such a one.

### CrossNet and Transfer

`CrossNet` has one action for the handling of one event, message or batch by one
hub; the modules above look inside. Messages are a bag, so they overtake each
other; `Lose` drops one and `Replay` sends a viewer back to an earlier height.
A signature names its signer and the chain it is for (`Sender`): viewers check
the hub chain's, the contract SimpleChain's, couriers none (`ReceiveRequest`,
`QueueReceipt`). The n-th transfer made on Fabric for an order bears the hash n.
`MaxEvents` bounds orders, contracts, losses and replays together. `Transfer`
is the promise about money: an order is paid for a transfer that was made for
it and at most once, a contract is finished only after it was taken. It leaves
open how often Fabric moves money for one order, since the code does not limit
it; `TransfersBounded` says by what it is limited. `ImplementsTransfer` is for
one courier: `receive` looks at neither signer nor chain (`txmanager.go:312`), so of two
couriers one with the flag answers the contracts that the other announces, and
they are finished without a taker (section 4).

### Executor and FabricCli

`main` is the command, `dispatcher` and `worker` the goroutines of the executor
and its pool, `left`, `queueWg`, `taskWg` and `poolWg` the wait groups. Sends and
receives on unbuffered channels are one action of both sides (`Give`,
`StopWorker`, `StopDispatcher`). Left out: `SubmitDelayed`, which nothing calls,
and the goroutine that prints progress. `CommandReturns` needs a worker, as the
command's flag gives at least one.

In `FabricCli` an operator runs one command after the other. `created`, `joined`,
`installed` and `deployed` are Fabric's state, `told` is what the reports let the
operator conclude, and `cmd` is the command that runs. `Selected` is `getPeers` of
`action.go`. `JoinOrg` and `InstallOrg` are rounds of the loops over
`PeersByOrg()`, in any order, where one peer or a whole organization may not
answer; `Finish` is `return lastErr`; `Interrupt` is a command stopped between two
rounds. The commands of one request are one action each; one that fails before
it reaches Fabric is no step, and the answer of one that took effect may be lost
(`Answered`). `wallet` is which of the identities `Admin` and `User1` each
organization has: a command works for the organization of the first peer it
selects, in the order of a Go map, and asks nothing without the identity it needs
(`ResourceMgmtClient`, `ChannelClient`); join and install need an `Admin` per
organization, and count an organization without one as failed (`NoClient`). The
flag `--user` is not used. `QueryPeers` finds some of the peers on the channel, as
the discovery service does. Once the operator believes that every peer joined and has the
version in use (`SetUp`), one `invoke` or `query` runs on the executor and its
calls succeed if the peers that the flags or the SDK pick can endorse them
(`Answerable`): Fabric's part, external to `src/`. A policy is the set of the sets
of organizations that satisfy it. Fabric 1.4 words the error of a second
instantiation so that `instantiatecmd.go:128` does not recognise it, so it is an
error here. Left out: enrolment, the orderer's choice, the event listeners, the
queries of blocks and transactions, private data collections, printing, and the
random parts of arguments.

## 3. What is checked

| run | shows | bounds |
|---|---|---|
| `TxManager_safety` | `StatusBacked`, `CommitBacked`, `InitTracked`, `ReceiptTracked` | 2 contracts, one failing send, invoke or store call, one crash, racing pushes, receipts of any id at any time |
| `TxManager_progress` | `PrecommitRelayed`, `ReceiptCommitted` under fairness | 2 contracts, one failing send, invoke or store call, receipts once saved, no lost pushes |
| `OutOnce_answers` | `AnswersPaid`, `AnswersComplete`; `LastOfBlockAnswered` under fairness | 2 requests, 2 deliveries, 1 commit elsewhere, 2 events per block, a failing call, a crash |
| `BlockSync_resume` | `HandledInOrder`, `LossBounded`; `BlocksHandled` under fairness | 3 blocks of all five kinds, 1 failing call, 2 deaths |
| `CrossDemo_contract` | `RegistryConsistent`, `SignaturesCounted`, `PaidByQuorum`, `PaidOnce`, `Solvent`, `TakenByQuorum` | 4 addresses, 3 places, ring of 1, 2 orders, 2 owner transactions, 2 wei attached to a report |
| `CrossDemo_remove` | **violation** of `RemovesNamed` | 1 owner transaction |
| `Viewer_events` | `EventsCovered`, `LocalMirrorsChain`, `TakenNotKept`, `ActedForAnchors`; `EventsBroadcast` under fairness | 4 blocks, window of 2 blocks, channels of 1, a failing call, a death, a message |
| `OrderStore_cache` | `CacheCoherent`, `NothingDirty`; refinement `ImplementsBook` | 2 ids, 2 versions, 2 goroutines, 3 write calls, one failure (a missed lookup is one) or crash |
| `Swarm_connect` | `LossBounded`, `ArriveInOrder`, `OnlyTrustedConnected`; `HubsMeet` under fairness | 2 hubs, certificates of 2 keys, 2 frames per stream, message channel of 1, one hub that broadcasts 3 messages, a late answer or write, a failing call, a crash |
| `CrossNet_transfer` | `TransfersBounded`; refinement `ImplementsTransfer`; `OrdersSettle` under fairness | 2 viewers with a quorum of 2, a courier with and without the outchain flag, 1 order, 1 contract, 2 events in all |
| `Chaincode_commit` | `EventsTellState`, `MoneyAccounted`; refinement `KeepsAgreement` | 2 accounts, 2 contracts (one that cannot be committed), 1 request, 4 calls, blocks of 2 |
| `FabricCli_calls` | `AllCallsMade`, `Serves`, `EveryOrgTried`; `CommandReturns` under fairness | 2 organizations with a peer each, with `Admin` or without, 2 versions, 4 ways to select peers, a fault; 2 workers, 3 tasks of 2 calls, 1 queue place |

Type invariants are not among the runs' properties: they are proved (section 4)
or were checked while the module was written, and a mistyped value would stop TLC.

Why the bounds suffice to meet the hard cases: two contracts make a batch with a
wrong receipt, a race between two entries, and a token channel (capacity 1) that
is full; one crash between any two steps and one failing call reach every retry
path; two deliveries and a commit elsewhere give a repetition, a request committed by
two, an event without a record, and a block of two events; three blocks with two deaths let a block be lost, resumed and skipped; a
ring of one goes round with the second removal, three anchors with a quorum of 0,
2 or 3 let an open order of one or two signatures meet a changed quorum. Four
blocks and a window of two make the viewer query twice and catch up after a
restart, and channels of one are full at the first event. Two ids and two
versions are a batch that fails half way and a record that is stale. In `Swarm` one of the two
hubs broadcasts, as the two directions meet only in the connection and no hub is special; three
messages over a stream of two frames into a channel of one block every writer, can be
swapped, and are enough that one arrives and two are lost: by the closed stream and by a call that
fails. TLC finds `LossBounded` violated without either term; without that of the
time-outs it is violated from five messages on (with no failing call and no crash), which
the run does not have and the theorem covers.
One order with two viewers gets two announcements and so two transfers, whose
answers disagree about the hash; the second event is its loss, its repetition or
a contract the other way. Two contract commits and two transfers
of four calls overlap in a block of two. Two keys make certificates with good and
bad chains for each hub, so that both, one or none accept the other. Two
organizations are a loop that fails on the first or the last, one fault is a lost
request or a lost answer. Three tasks over two workers and a place
fill the queue. Deadlock is not checked: every one
of these programs comes to rest when the bounded environment has nothing more to
offer, and the runs with liveness properties say what must have happened by then.

**Fairness.** Goroutines are scheduled, so every internal step of a goroutine is
weakly fair. Failing is never fair, and nothing is assumed of users, the hub,
requests, crashes or restarts, except that in `OutOnce` the orderer cuts blocks
and in `Viewer` and `Swarm` a hub that died is started again, in `Swarm` a close is seen in the end, and SimpleChain
goes on producing blocks (`Mine(None)`; the properties speak of blocks below the
bound). In `BlockSync` the exits on `stopCh` are strongly fair: Go's `select` picks
among ready cases at random, so a case that is ready again and again is taken.
In `CrossNet` every hub handles what it finds and gets. In `FabricCli` only the
goroutines of the executor are fair: nothing is assumed of the operator.

### What does not hold

`RemovesNamed` is a run: `removeAnchors` refuses anchors and drops the first
one for a stranger (`crossdemo.sol:133`). The models contain the following
behaviours too, and the properties above are worded around them:

* a handled receipt is pushed again (`txmanager.go:271`), and the next round sets
  its completed record back to Executed;
* a contract can be sent before it is saved (`txmanager.go:115`); the late update
  then panics (`:193`);
* nothing is reloaded after a restart (`txmanager.go:83`, `:95`, `database.go:155`), so a contract that
  was saved and not sent stays so, and a receipt that was not committed is lost;
* one receipt without a record discards all receipts of its batch (`txmanager.go:246`);
* an answer may name another request's transfer (`txmanager.go:125`), and be made from a blank
  receipt when the request was committed elsewhere too, or is of no request of this courier (`:111`);
* `makerFinish` keeps what is sent with it (`crossdemo.sol:271`);
* `Deletes` and `Writes` pass over orders whose lookup fails and return nil (`indexdb.go:260`, `:149`);
* messages vanish, with no error, on a stream that the other hub closed, and hubs may fail to
  meet while readers are left behind on a cached stream over and over (`hubnet/p2p.go:127`);
* a request delivered twice, or announced by two viewers, is paid twice on Fabric
  (`txmanager.go:329`);
* `BlockSync.Stop` can wait for ever (`syncer.go:132`), and `Handler.Stop` is
  deferred behind an `os.Exit` (`cmd/crosshub/start.go:105`), so a courier always ends as by a crash;
* an anchor removed on chain stays trusted by a running viewer (`chainview.go:375`),
  an order that arrives after its `TakerTx` is kept, and `Stop` stores a height
  above events that are still in `eventCh`;
* a transfer from an account to itself adds money (`chaincode_example02.go:142`);
* `Executor.Stop(false)` waits for the pool although its comment says it does not
  (`executor.go:140`, `:152`); the commands only pass `true`;
* an upgrade without `--policy` and `--orgid` installs a policy that nobody can
  meet (`upgradecmd.go:148`), where its comment speaks of all known organizations;
  `Serves` speaks of policies that can be met;
* `install` for an organization that does not exist installs nothing and reports no
  error (`installcmd.go:77`).

## 4. What is proved

For every value of the constants that satisfies the module's named assumption.

* **TxManagerProofs**: `TypeCorrect` (`TypeOK`), `StoreNeverAhead` (`StatusBacked`),
  `NoCommitWithoutReceipt` (`CommitBacked`), `InitTrackedHolds`, `ReceiptTrackedHolds`. `StatusBacked` is not inductive: a
  record becomes Pending because its id is in `successList` or in an `updating`
  list, Executed because it is in `executed`, Completed because of an event in
  `chain`. `IInv` adds that every event on the ledger is of a contract in that
  state (`ChainBacked`), that `AddCrossTxs` works on a block that exists
  (`AdderInChain`), that everything in `successList` and `updating` was sent
  (`UpdatesBacked`), and that everything in the receipt queue, the popped batch and
  the commit goroutines was received (`ReceiptsBacked`). `InitTrackedHolds` needs besides
  that while `AddCrossTxs` is between push and save its contracts are on their way
  already (`SavePushed`), and that an update goroutine whose list is not stored yet ends the
  process instead of dropping the list; a block handed over again pushes its contracts again.
  `ReceiptTrackedHolds` follows a receipt through the receiver (`ReceiverKeeps`): a step that
  takes it from one place puts it in the next or on `lostReceipts`, and a finished contract stays
  finished. Both are without hypotheses: the pushes race, receipts come early, twice or
  for ids that nobody has, and any call may fail.
* **OutchainProofs, about OutOnce**: `RequestTypeCorrect`, `EveryAnswerPaid`
  (`AnswersPaid`) and `EveryAnswerComplete` (`AnswersComplete`). `RequestInv` adds that every event in the
  pool or the chain names a transfer made of its own request (`EventsBacked`), that
  goroutines point at events of existing blocks (`SpawnedInChain`), and that while the store has
  not failed a request about to be invoked, or with an event, has its receipt in the bucket
  or was committed elsewhere too (`Kept`). The last is what keeps an own commit's answer whole: only an event
  of the other commit can come before the record or write a blank over it.
* **LedgerProofs, about BlockSync**: `SyncTypeCorrect`, `BlocksInOrder`
  (`HandledInOrder`) and `OneBlockPerDeath` (`LossBounded`). `SyncInv` relates the stored number, `blockNum`
  and the chain (`Bounds`, `Walk`, `Offered`), puts the block in hand after all
  that was handled and behind `syncBlock` (`InHand`, `Past`), and bounds the loss:
  the blocks left behind, plus one for a failure of `AddCrossTxs` that is not
  reported yet, are at most `deaths + faults` (`Loss`). The extra one is needed
  because the failure is counted while its block is still in hand.
* **SwarmProofs**: `TypeCorrect`, `OnlyVerifiedPeers` (`OnlyTrustedConnected`),
  `LossBoundedHolds` and `ArriveInOrderHolds`, for any number of hubs, any keys and
  folders, capacities and faults. For the peers, `IInv` adds that a dialling
  goroutine comes to close the connection, after which it stores the peer, only if it
  verified that peer's certificates (`ClosesVerified`). For the losses, `LossAt` says
  that nothing counts before both hubs are done dialling; that once a message was carried the
  stream is `"live"` or there is none, as only dialling, a crash or a collision with dialling makes
  another kind of stream, so that no further message vanishes; and that while a closed stream waits to be
  found out, the one message that its failing write will cost has not been counted. A hub that is down has yet to
  dial (`Down`), so what is sent to it meanwhile does not count.
  For the order, `InOrder` puts what arrived before what is on the stream and that before what is
  being sent (`Ordered`, `Before`), all numbered below the next message (`Numbered`).

* **OutchainProofs, about the contract with its registry**: `RegistryConsistentHolds`,
  `SignaturesCountedHolds`, `PaidByQuorumHolds`, `PaidOnceHolds`, `TakenByQuorumHolds`,
  each of the property of that name. `RegistryConsistent` is inductive once nothing
  is removed before the registration (`Fresh`); its proof is one lemma per owner
  transaction, the longest those of the ring going round (`BuryStep`) and of the swap
  in `removeAnchors`. For the orders, `IInv` adds that one never made has neither value
  nor signatures and that one without a pinned transaction has no signatures
  (`Unmade`), that a paid one is made and empty for good (`Closed`), and that an open
  one has a count of at most 254 (`Room`): the 255th signature satisfies every
  `signConfirmCount`, so the 8-bit count never wraps. `TakenByQuorum` needs that nobody is an anchor and
  removed (`Buried`), for then the two counts of `verifyOwnerSignAndCount` are of
  different signers. Addresses must be finitely many, as 160 bits are.
  `SolventHolds` is about a sum over all orders (`Worth`): a payment takes the order's value
  off it once, an order that is being made was worth nothing, so that it adds the value
  its maker pays in, what an anchor attaches goes to `stray`, and there are no rewards before the registration, which sets them (`Unfunded`). `TypeCorrect` uses it: the balance covers the
  rewards with any one order, so no payment of `makerFinish` or `accumulateRewards` fails for want of
  money. Order ids are 32-byte hashes, hence finitely many.
* **ViewerProofs**: `ActedForAnchorsHolds`, `EventsCoveredHolds`,
  `LocalMirrorsChainHolds`, `TakenNotKeptHolds`. `IInv` says at which place of
  `GetEvents` the heights may be relative to the head and the window (`Rising`: while no
  call fails the word never wraps), which events have passed (`Passed`) and so were
  sent (`Sent`), and what the stores hold in terms of the events that met them (`Local`,
  `Remote`). A replay after a restart meets events again; that the local store
  still ends as the chain says rests on the contract making an order once and
  finishing it after (`Ordered`), and on the highest event ever met (`top`).
* **OrderStoreProofs**: `NothingDirtyHolds`, `CacheCoherentHolds`, and
  `StoreImplementsBook`, the refinement `ImplementsBook`: opening a transaction maps to
  `Ask`, `Commit` to `Apply`, a missed lookup to `Miss`, a rollback, and a death inside a transaction, to `Refuse`, all
  else to a stutter. `IInv` describes the transaction order by order (`Opened`: handled
  orders are as the request wants them, or as in the bucket if they were missed, the others as in the bucket), so that at the
  commit the view is the request applied to all but the missed orders; `NothingDirty` needs that what
  `Write` caches after its commit is committed by then, and `CacheCoherent` that with one
  goroutine what is about to be cached is still current (`Alone`).
* **CrossNetProofs**: `TransfersBoundedHolds`, and `OneCourierKeepsPromise`, the
  refinement `ImplementsTransfer`. For the bound `IInv` counts (`Counted`): transfers made,
  plus announcements under way to couriers that act on them, plus the viewers that have
  yet to come to the order times those couriers, are at most viewers and replays
  times those couriers. No step but `Replay` raises that sum, which is the argument the code never writes down.
  Viewers and couriers must be finitely many. The refinement takes one
  courier as its hypothesis (`OneCourier`): with two TLC finds a
  `Finish` of a contract that is not taken, since each courier announces its
  contracts to the other, which takes the announcement for a request, moves money and
  answers it, and the first takes that answer for a taker's receipt (`Answered` is the invariant that one courier has and two have not).

* **LedgerProofs, about Chaincode**: `Chaincode_WorldOK` (types), `Chaincode_PaidWithContract` (a
  contract is paid for once, when it becomes Finished), `Chaincode_MoneyAccounted`,
  `Chaincode_EventsTellState`, and `Chaincode_KeepsAgreement`, the refinement. It is the argument of optimistic transactions. Several
  calls that are endorsed and not validated (`Waiting`) may pay for one contract; `ContractOK` says
  that each of them writes it and read it, at a version it has had, and that it was Init if
  that version is still the current one. The first to be validated gives the contract a new
  version, and the others are stale. `CreatedOnce` is for `precommit`, and
  `BlockOK` says that a call is in one place. `PayInv` says the same of accounts: a payment
  writes what `doInvoke` would write now, unless one of its two accounts has a new version,
  and it is the payment of the contract that the same call finishes, or one that was asked for (`PayOK`, `Owed`). It needs that an account that exists was written (`Live`), as version 0 is also
  that of a key never written.
  At its validation a call therefore does what `Agreement` would do then
  (`ContractStep`, `AccountStep`).
  `MoneyInv` adds the sums: a payment between two accounts keeps the sum,
  one to the same account adds its value, which is what `drift` counts. `TellInv` follows the
  list of events: what each validated call appends to it (`Tells`, `EventFits`) is what it does to its
  contract, and the blocks of the chain with the block in hand make up the history
  (`History`, `Standing`). The hypothesis `RequestsApart` of that last theorem is
  that no request of the other chain bears the id of a contract: its ids are hashes made there,
  and the event of a request with a contract's id would be taken for one of that contract. Accounts are
  finitely many.
* **FabricCliProofs**: `Executor_TypeOK`, `Executor_AllCallsMade` and, for the commands,
  `FabricCli_CliTypeOK`, `FabricCli_Serves`, `FabricCli_EveryOrgTried`,
  `FabricCli_AllCallsMade`, and `FabricCli_ImplementsExecutor` (every behaviour of the commands is one of
  `Executor`, which carries its theorem over). A wait group is a counter that stands for a set spread over
  goroutines. `CountsOK` says of which: `queueWg` counts the tasks in the queue and in the
  dispatcher's hand, `taskWg` the workers engaged, `poolWg` the workers not stopped, `left` the tasks
  not served. `PlacesOK` says that a task is in
  one place only, and `PhaseOK` what is already over at each of the five waits
  of `Stop`. For `Serves`, `ToldOK` says that what the operator was told is true, and
  `LoopOK` what a command's rounds have done so far, so that one that ends without an error
  has done it for every peer it selected.

Each proof has the shape Init => IInv, IInv /\ [Next]_vars => IInv', IInv => property,
with one step per action; `IInvHolds` is the invariant itself, types included. The
refinements add IInv /\ [Next]_vars => [abstract Next]_(abstract variables).

**Sums, lists and counts.** Three of these arguments are about what a fold or a recursive
function computes for every set or list, for which the library's induction theorems cannot be
used here, as they take an operator as a parameter. `OutchainProofs` and `LedgerProofs`
get induction as a statement about sets instead: a set of numbers that is not empty has a
least element (`NatMin`, from the well-foundedness of `<`), so a set with 0 that is closed under
successor is `Nat` (`Induction`), and a family of subsets of a finite set that has the
empty set and is closed under adding an element has them all (`SubsetInduction`). From these
come that a sum changes by what one element changes, and what `Picked` and the joining of blocks
do to a list that grows at its end.

What the proofs add to the runs: the bounds of the runs are constants of the modules
(`MaxEvents`, `MaxOwnerOps`, numbers of faults, deaths and deliveries), so a theorem
covers every finite number of them, any number of hubs, orders, addresses and
goroutines, and any capacity, window and word.

Every invariant and action property and every refinement of the passing runs is proved.

**Only model-checked**: liveness (`PrecommitRelayed`, `ReceiptCommitted`,
`LastOfBlockAnswered`, `BlocksHandled`, `EventsBroadcast`, `HubsMeet`, `OrdersSettle`,
`CommandReturns`), which rests on fairness and ENABLED and is out of TLAPS's reach here.

## 5. Not modelled

* Hashing, elliptic curves, RLP and the encoding of certificates: library code
  and pure data. A signature is its signer and its chain.
* The set-up of the Fabric SDK client, and `fabric-cli`'s configuration, argument
  parsing, block printing, event listeners and ledger queries: sequential input and
  output with no state of their own. They are the largest files of the
  repository.
* The API (read-only; its one query is `OrderStore`'s `Query`), configuration,
  key files, and `query`.
* `cmd/signTx`, a tool for an older network of two SimpleChains: it uses the cross
  transactions and stores of `go-simplechain`, not those of this repository, and
  no part of the hub takes what it sends.
* In `Swarm`, connections that break with both hubs up and neither closing them, and
  a certificate whose write times out.
* `TxManager.Stop`, the block structure of the courier's heap, the contract's
  router and position bits, which nothing reads.
* `first-network`: Hyperledger's deployment scripts.

## 6. Plan

1. *(done)* `TxManager`, `OutOnce`, `BlockSync`, `AnchorRegistry`, `CrossDemo`, and
   the first theorems: the money and the records first.
2. *(done)* `Viewer`, `OrderStore` as an implementation of `OrderBook`, `Swarm`
   over `Certificates` with its first theorem, `Chaincode`, `FabricCli` over
   `Executor`, and the composition `CrossNet` as an implementation of `Transfer`.
3. *(done)* Proofs of `CrossNet` with its refinement, of `Viewer`, of `OrderStore` with
   its refinement, of `CrossDemo` over `AnchorRegistry`, of `Swarm`, and that `TxManager`
   forgets nothing.
4. *(done)* Proofs of `Chaincode` with its refinement `Agreement`, of the executor and the
   commands of `fabric-cli`, and of the sums (`Solvent`, `MoneyAccounted`).
5. Left: the block structure of `prque` against a sorted bag. Every reader of
   the queue empties it, so no property above rests on it.
