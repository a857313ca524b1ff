------------------------------- MODULE Viewer -------------------------------
(***************************************************************************)
(* The role of a hub attached to SimpleChain (chainview/chainview.go).     *)
(*                                                                         *)
(* One goroutine, loop, selects among a ticker that reads the contract's   *)
(* events (GetEvents: BlockNumber, FilterLogs, EventStore, EventSend,      *)
(* EventsDone), a ticker that reads the anchors (ReadAnchors) and the      *)
(* messages of other hubs (ReceiveOrder, ReceiveReceipt).  Stop runs in    *)
(* the goroutine that waits for the signal, at any moment, and ends the    *)
(* process; Crash ends it without Stop.                                    *)
(*                                                                         *)
(* A block carries at most one event of the contract; block n is chain[n], *)
(* blocks without events are NoEvent.  Heights are machine words.          *)
(***************************************************************************)
EXTENDS Integers, Sequences

CONSTANTS
  Ids,           \* orders made on SimpleChain
  RemoteIds,     \* orders made on Fabric and taken here
  Signers,       \* addresses whose signatures the messages bear
  None,          \* no order stored; no event in a block
  Window,        \* blocks read at most in one query, less one (99)
  Word,          \* heights are counted modulo Word (2^64)
  EventCap,      \* capacity of eventCh (4096)
  MessageCap,    \* capacity of messageCh (4096)
  StartHead,     \* blocks of SimpleChain before its first event
  MaxHead,       \* bound on the blocks
  MaxFaults,     \* bound on failing calls
  MaxDeaths,     \* bound on Stop and Crash together
  MaxMessages    \* bound on the messages of other hubs

LocalKinds == {"MakerTx", "MakerFinish"}
Event   == [kind : LocalKinds, id : Ids] \cup [kind : {"TakerTx"}, id : RemoteIds]

\* Every hub hears every hub: among the orders and receipts of the other chain
\* are those of the other viewers.
AllIds  == Ids \cup RemoteIds

ASSUME ViewerAssumption ==
  /\ Window \in Nat \ {0} /\ StartHead \in Nat /\ MaxHead \in Nat
  /\ Word \in Nat /\ MaxHead + Window + 1 < Word
  /\ EventCap \in Nat \ {0} /\ MessageCap \in Nat \ {0}
  /\ MaxFaults \in Nat /\ MaxDeaths \in Nat /\ MaxMessages \in Nat
  /\ None \notin Signers /\ None \notin [kind : LocalKinds \cup {"TakerTx"}, id : AllIds]
  /\ Ids \cap RemoteIds = {} /\ StartHead <= MaxHead

VARIABLES
  chain,        \* SimpleChain: the event of each block
  onChain,      \* the anchors the contract lists as active
  savedHeight,  \* config/currentHeight in storm
  localStore,   \* LocalStore: ids of own orders
  remoteStore,  \* RemoteStore: who signed the order stored under each id
  up,           \* the process runs
  pc,           \* where loop is
  height,       \* currentHeight
  toBlock,      \* toBlock of the running GetEvents
  todo,         \* blocks whose events EventLog still has to handle
  anchors,      \* Anchors
  eventCh,      \* to the swarm: block numbers of the events sent
  messageCh,    \* from the swarm
  queued,       \* history: blocks whose events entered eventCh
  broadcast,    \* history: blocks whose events the swarm took
  finished,     \* history: signers of the receipts answered with a makerFinish
  top,          \* history: the block after the last whose event met the stores
  late,         \* history: orders written after their TakerTx was handled
  wasAnchor,    \* history: everyone the contract ever listed
  messages, faults, stops, crashes

ledger  == <<chain, onChain, wasAnchor>>
disk    == <<savedHeight, localStore, remoteStore>>
events  == <<pc, height, toBlock, todo>>
hub     == <<eventCh, messageCh>>
history == <<queued, broadcast, finished, top, late>>
counts  == <<messages, faults, stops, crashes>>
vars    == <<ledger, disk, up, events, anchors, hub, history, counts>>

Message == [kind : {"order", "receipt"}, id : AllIds, from : Signers]

TypeOK ==
  /\ chain \in Seq(Event \cup {None}) /\ Len(chain) \in StartHead .. MaxHead
  /\ onChain \subseteq Signers /\ wasAnchor \subseteq Signers
  /\ savedHeight \in 0 .. Word - 1
  /\ localStore \subseteq Ids /\ remoteStore \in [AllIds -> Signers \cup {None}]
  /\ up \in BOOLEAN /\ pc \in {"loop", "filter", "log", "send"}
  /\ height \in 0 .. Word - 1 /\ toBlock \in 0 .. Word - 1
  /\ todo \subseteq 1 .. Len(chain)
  /\ anchors \subseteq Signers
  /\ eventCh \in Seq(1 .. Len(chain)) /\ Len(eventCh) <= EventCap
  /\ messageCh \in Seq(Message) /\ Len(messageCh) <= MessageCap
  /\ queued \subseteq 1 .. Len(chain) /\ broadcast \subseteq 1 .. Len(chain)
  /\ finished \subseteq Signers /\ top \in 0 .. MaxHead + 1 /\ late \subseteq RemoteIds
  /\ messages \in Nat /\ faults \in Nat /\ stops \in Nat /\ crashes \in Nat

Happened(kind, id) ==
  \E n \in 1 .. Len(chain) : chain[n] # None /\ chain[n].kind = kind /\ chain[n].id = id

Fault == faults < MaxFaults /\ faults' = faults + 1

-----------------------------------------------------------------------------
(* SimpleChain and the other hubs. *)

\* What the contract lets happen: an order is made once and finished after, a
\* foreign order is taken once (crossdemo.sol).
CanHappen(e) ==
  /\ ~Happened(e.kind, e.id)
  /\ e.kind = "MakerFinish" => Happened("MakerTx", e.id)

Mine(e) ==
  /\ Len(chain) < MaxHead
  /\ e # None => CanHappen(e)
  /\ chain' = Append(chain, e)
  /\ UNCHANGED <<onChain, wasAnchor, disk, up, events, anchors, hub, history, counts>>

ChangeAnchors(S) ==
  /\ Len(chain) < MaxHead /\ S # onChain
  /\ onChain' = S /\ wasAnchor' = wasAnchor \cup S
  /\ chain' = Append(chain, None)
  /\ UNCHANGED <<disk, up, events, anchors, hub, history, counts>>

\* A stream handler of the swarm passes on what another hub broadcast.
Arrive(m) ==
  /\ up /\ messages < MaxMessages /\ Len(messageCh) < MessageCap
  /\ messageCh' = Append(messageCh, m)
  /\ messages' = messages + 1
  /\ UNCHANGED <<ledger, disk, up, events, anchors, eventCh, history, faults, stops, crashes>>

\* The swarm's goroutine takes what it broadcasts.
Drain ==
  /\ up /\ eventCh # <<>>
  /\ broadcast' = broadcast \cup {Head(eventCh)}
  /\ eventCh' = Tail(eventCh)
  /\ UNCHANGED <<ledger, disk, up, events, anchors, messageCh, queued, finished, top, late, counts>>

-----------------------------------------------------------------------------
(* GetEvents and EventLog. *)

\* The last block to ask for, in unsigned arithmetic.
LastBlock(h, result) ==
  IF h < (result - Window) % Word THEN (h + Window) % Word ELSE (result - 1) % Word

\* eth_blockNumber; a failure is logged and counts as block 0
BlockNumber ==
  /\ up /\ pc = "loop"
  /\ \/ toBlock' = LastBlock(height, Len(chain)) /\ UNCHANGED faults
     \/ toBlock' = LastBlock(height, 0) /\ Fault
  /\ pc' = "filter"
  /\ UNCHANGED <<ledger, disk, up, height, todo, anchors, hub, history, messages, stops, crashes>>

Logs(first, last) == {n \in 1 .. Len(chain) : first <= n /\ n <= last /\ chain[n] # None}

\* FilterLogs; a failure is logged and counts as no events
FilterLogs ==
  /\ up /\ pc = "filter"
  /\ \/ todo' = Logs(height, toBlock) /\ UNCHANGED faults
     \/ todo' = {} /\ Fault
  /\ pc' = "log"
  /\ UNCHANGED <<ledger, disk, up, height, toBlock, anchors, hub, history, messages, stops, crashes>>

\* what EventLog does to the stores; an error of the store is logged
StoreEvent_KeepFinished(e) ==
  /\ localStore' = IF e.kind = "MakerTx" THEN localStore \cup {e.id} ELSE localStore
  /\ remoteStore' = IF e.kind = "TakerTx" THEN [remoteStore EXCEPT ![e.id] = None] ELSE remoteStore
StoreEvent_KeepTaken(e) ==
  /\ localStore' = CASE e.kind = "MakerTx"     -> localStore \cup {e.id}
                     [] e.kind = "MakerFinish" -> localStore \ {e.id}
                     [] OTHER                  -> localStore
  /\ UNCHANGED remoteStore
StoreEvent(e) ==
  /\ localStore' = CASE e.kind = "MakerTx"     -> localStore \cup {e.id}
                     [] e.kind = "MakerFinish" -> localStore \ {e.id}
                     [] OTHER                  -> localStore
  /\ remoteStore' = IF e.kind = "TakerTx" THEN [remoteStore EXCEPT ![e.id] = None] ELSE remoteStore

First(n) == n \in todo /\ \A m \in todo : n <= m

\* A MakerTx is signed and written to the local store, a TakerTx signed and
\* its order deleted from the remote store: both are then sent.  A MakerFinish
\* deletes the local order and is done.
EventStore(n) ==
  /\ up /\ pc = "log" /\ First(n)
  /\ \/ StoreEvent(chain[n]) /\ UNCHANGED faults
     \/ UNCHANGED <<localStore, remoteStore>> /\ Fault
  /\ IF chain[n].kind = "MakerFinish"
     THEN todo' = todo \ {n} /\ queued' = queued \cup {n} /\ UNCHANGED pc
     ELSE pc' = "send" /\ UNCHANGED <<todo, queued>>
  /\ top' = IF n >= top THEN n + 1 ELSE top
  /\ late' = IF chain[n].kind = "TakerTx" THEN late \ {chain[n].id} ELSE late
  /\ UNCHANGED <<ledger, savedHeight, up, height, toBlock, anchors, hub, broadcast, finished,
                 messages, stops, crashes>>

\* this.eventCh <- ctms (or rtms), in the goroutine that drains messageCh
EventSend_Drop(n) ==
  /\ up /\ pc = "send" /\ First(n)
  /\ eventCh' = IF Len(eventCh) < EventCap THEN Append(eventCh, n) ELSE eventCh
  /\ queued' = IF Len(eventCh) < EventCap THEN queued \cup {n} ELSE queued
  /\ todo' = todo \ {n} /\ pc' = "log"
  /\ UNCHANGED <<ledger, disk, up, height, toBlock, anchors, messageCh, broadcast, finished,
                 top, late, counts>>
EventSend(n) ==
  /\ up /\ pc = "send" /\ First(n)
  /\ Len(eventCh) < EventCap
  /\ eventCh' = Append(eventCh, n) /\ queued' = queued \cup {n}
  /\ todo' = todo \ {n} /\ pc' = "log"
  /\ UNCHANGED <<ledger, disk, up, height, toBlock, anchors, messageCh, broadcast, finished,
                 top, late, counts>>

EventsDone ==
  /\ up /\ pc = "log" /\ todo = {}
  /\ height' = (toBlock + 1) % Word /\ toBlock' = 0
  /\ pc' = "loop"
  /\ UNCHANGED <<ledger, disk, up, todo, anchors, hub, history, counts>>

-----------------------------------------------------------------------------
(* The rest of loop. *)

\* GetAnchors only adds.  It returns without effect when a call fails and when
\* the contract's signConfirmCount reads 0.
GetAnchors == {anchors, anchors \cup onChain}

ReadAnchors ==
  /\ up /\ pc = "loop"
  /\ anchors' \in GetAnchors
  /\ UNCHANGED <<ledger, disk, up, events, hub, history, counts>>

Trusted_Anyone(m) == TRUE
Trusted(m) == m.from \in anchors

Received(kind) ==
  /\ up /\ pc = "loop" /\ messageCh # <<>> /\ Head(messageCh).kind = kind
  /\ messageCh' = Tail(messageCh)

\* the order of an anchor is signed again and replaces the stored one
ReceiveOrder ==
  /\ Received("order")
  /\ LET m == Head(messageCh)
     IN \/ /\ Trusted(m)
           /\ remoteStore' = [remoteStore EXCEPT ![m.id] = m.from]
           /\ late' = IF \E n \in 1 .. Len(chain) :
                           n < top /\ chain[n] = [kind |-> "TakerTx", id |-> m.id]
                      THEN late \cup {m.id} ELSE late
           /\ UNCHANGED faults
        \/ Trusted(m) /\ Fault /\ UNCHANGED <<remoteStore, late>>
        \/ ~Trusted(m) /\ UNCHANGED <<remoteStore, late, faults>>
  /\ UNCHANGED <<ledger, savedHeight, localStore, up, events, anchors, eventCh, queued, broadcast,
                 finished, top, messages, stops, crashes>>

\* createTransaction and SendTransaction: makerFinish for the order of an
\* anchor's receipt
ReceiveReceipt ==
  /\ Received("receipt")
  /\ LET m == Head(messageCh)
     IN \/ Trusted(m) /\ finished' = finished \cup {m.from} /\ UNCHANGED faults
        \/ Trusted(m) /\ Fault /\ UNCHANGED finished
        \/ ~Trusted(m) /\ UNCHANGED <<finished, faults>>
  /\ UNCHANGED <<ledger, disk, up, events, anchors, eventCh, queued, broadcast, top, late,
                 messages, stops, crashes>>

-----------------------------------------------------------------------------
(* Life and death. *)

Gone ==
  /\ up' = FALSE /\ pc' = "loop" /\ height' = 0 /\ toBlock' = 0 /\ todo' = {}
  /\ anchors' = {} /\ eventCh' = <<>> /\ messageCh' = <<>>

\* v.Stop, then os.Exit
Stop ==
  /\ up /\ stops + crashes < MaxDeaths /\ stops' = stops + 1
  /\ \/ savedHeight' = height /\ UNCHANGED faults
     \/ UNCHANGED savedHeight /\ Fault
  /\ Gone
  /\ UNCHANGED <<ledger, localStore, remoteStore, history, messages, crashes>>

Crash ==
  /\ up /\ stops + crashes < MaxDeaths /\ crashes' = crashes + 1
  /\ Gone
  /\ UNCHANGED <<ledger, disk, history, messages, faults, stops>>

\* New and Start
Restart_AtTop ==
  /\ ~up /\ up' = TRUE
  /\ height' = top % Word
  /\ anchors' \in GetAnchors
  /\ UNCHANGED <<ledger, disk, pc, toBlock, todo, hub, history, counts>>
Restart ==
  /\ ~up /\ up' = TRUE
  /\ height' = savedHeight
  /\ anchors' \in GetAnchors
  /\ UNCHANGED <<ledger, disk, pc, toBlock, todo, hub, history, counts>>

Init ==
  /\ chain = [n \in 1 .. StartHead |-> None] /\ onChain \in SUBSET Signers /\ wasAnchor = onChain
  /\ savedHeight = 0 /\ localStore = {} /\ remoteStore = [id \in AllIds |-> None]
  /\ up = FALSE /\ pc = "loop" /\ height = 0 /\ toBlock = 0 /\ todo = {} /\ anchors = {}
  /\ eventCh = <<>> /\ messageCh = <<>>
  /\ queued = {} /\ broadcast = {} /\ finished = {} /\ top = 0 /\ late = {}
  /\ messages = 0 /\ faults = 0 /\ stops = 0 /\ crashes = 0

GetEvents ==
  \/ BlockNumber \/ FilterLogs \/ EventsDone
  \/ \E n \in todo : EventStore(n) \/ EventSend(n)

Next ==
  \/ GetEvents \/ ReadAnchors \/ ReceiveOrder \/ ReceiveReceipt
  \/ Drain \/ Stop \/ Crash \/ Restart
  \/ \E e \in Event \cup {None} : Mine(e)
  \/ \E S \in SUBSET Signers : ChangeAnchors(S)
  \/ \E m \in Message : Arrive(m)

Spec == Init /\ [][Next]_vars

\* The goroutines of the viewer and of the swarm are scheduled, a hub that died
\* is started again, and SimpleChain goes on producing blocks.
Fairness ==
  /\ WF_vars(GetEvents) /\ WF_vars(Drain) /\ WF_vars(Restart) /\ WF_vars(Mine(None))
FairSpec == Spec /\ Fairness

-----------------------------------------------------------------------------
(* Properties.  The chain of CallsWork is older than one query's window when *)
(* the contract is deployed, and no call and no write has failed.            *)

CallsWork == faults = 0 /\ StartHead >= Window
Eventful  == {n \in 1 .. Len(chain) : chain[n] # None}
Seen(kind, h) == {chain[n].id : n \in {k \in Eventful : k < h /\ chain[k].kind = kind}}

\* The height never passes an event that was not sent: each event below the
\* block GetEvents resumes from, in memory or on disk, was handled and entered
\* eventCh (GetEvents advances by toBlock + 1, Stop saves the height).
EventsCovered ==
  CallsWork => \A n \in Eventful : n < height \/ n < savedHeight => n \in queued

\* Between two rounds the local store holds the orders made and not finished
\* below the height, also after a restart has replayed old events (EventLog).
LocalMirrorsChain ==
  CallsWork /\ up /\ pc = "loop" /\ height >= top
    => localStore = Seen("MakerTx", height) \ Seen("MakerFinish", height)

\* An order whose TakerTx was handled is in the remote store only if another
\* copy of it arrived afterwards (EventLog deletes, loop writes).
TakenNotKept ==
  CallsWork /\ up /\ pc = "loop"
    => \A id \in Seen("TakerTx", top) : remoteStore[id] # None => id \in late

\* An order is stored, and a receipt answered with a makerFinish, only for an
\* address the contract has listed as an anchor (loop, GetAnchors).
ActedForAnchors ==
  /\ \A id \in AllIds : remoteStore[id] # None => remoteStore[id] \in wasAnchor
  /\ finished \subseteq wasAnchor

\* Every MakerTx and TakerTx below the head is taken by the swarm, whatever
\* crashes; but Stop forgets what is in eventCh (Stop saves the height).
EventsBroadcast ==
  \A n \in 1 .. MaxHead - 1 :
    (n \in Eventful /\ chain[n].kind # "MakerFinish")
      ~> (n \in broadcast \/ ~CallsWork \/ stops > 0)

=============================================================================
