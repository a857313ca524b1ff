---------------------------- MODULE ViewerProofs ----------------------------
(***************************************************************************)
(* Proofs about Viewer, for any orders, signers, capacities, window and    *)
(* word, and any failures, deaths and restarts: what is acted on comes     *)
(* from anchors, no event is skipped and the stores follow the chain.      *)
(***************************************************************************)
EXTENDS Viewer, TLAPS

At(n, kind, id) == n \in Eventful /\ chain[n].kind = kind /\ chain[n].id = id

\* Orders are made once and finished after (crossdemo.sol).
Ordered ==
  /\ \A m, n \in 1 .. Len(chain) : \A id \in Ids :
       At(m, "MakerTx", id) /\ At(n, "MakerTx", id) => m = n
  /\ \A n \in 1 .. Len(chain) : \A id \in Ids :
       At(n, "MakerFinish", id) => \E m \in 1 .. n - 1 : At(m, "MakerTx", id)

Anchored == onChain \subseteq wasAnchor /\ anchors \subseteq wasAnchor

\* Where the running GetEvents is.  Without a failed call the heights never
\* wrap and never pass the head.
Dead == ~up => pc = "loop" /\ height = 0 /\ todo = {}
Todo ==
  /\ todo \subseteq Eventful
  /\ pc \in {"loop", "filter"} => todo = {}
Rising ==
  CallsWork =>
    /\ height <= Len(chain) /\ savedHeight <= Len(chain)
    /\ up => savedHeight <= height
    /\ pc # "loop" => height <= toBlock + 1 /\ toBlock < Len(chain)
    /\ pc \in {"log", "send"} =>
         /\ \A n \in todo : height <= n /\ n <= toBlock
         /\ \A n \in todo, m \in Eventful : n < m /\ m <= toBlock => m \in todo

\* Events that entered eventCh for good, and events that met the stores, in the
\* present run or before the height it was started at.
Passed(n) ==
  IF ~up THEN n < savedHeight
  ELSE IF pc \in {"loop", "filter"} THEN n < height ELSE n <= toBlock /\ n \notin todo
Met(n) == Passed(n) \/ (pc = "send" /\ First(n))

Sent == CallsWork => \A n \in Eventful : Passed(n) => n \in queued

\* The local store in terms of the events that met it.
Local ==
  CallsWork =>
    /\ \A n \in Eventful : Met(n) => n < top
    /\ top <= Len(chain)
    /\ \A id \in localStore : \E n \in Eventful : n < top /\ At(n, "MakerTx", id)
    /\ \A n \in Eventful : \A id \in Ids :
         Met(n) /\ At(n, "MakerFinish", id) => id \notin localStore
    /\ \A n \in Eventful : \A id \in Ids :
         n < top /\ At(n, "MakerTx", id) =>
           \/ id \in localStore
           \/ \E m \in Eventful : m < top /\ At(m, "MakerFinish", id)

Remote ==
  CallsWork => \A n \in Eventful :
    n < top /\ chain[n].kind = "TakerTx" /\ remoteStore[chain[n].id] # None => chain[n].id \in late

IInv ==
  /\ TypeOK /\ Ordered /\ Anchored /\ Dead /\ Todo /\ Rising /\ Sent /\ Local /\ Remote
  /\ ActedForAnchors

-----------------------------------------------------------------------------

\* A height is a machine word; within the word arithmetic is exact.
LEMMA ModFacts ==
  ASSUME NEW x \in Int
  PROVE  x % Word \in 0 .. Word - 1 /\ (x \in 0 .. Word - 1 => x % Word = x)
BY ViewerAssumption DEF ViewerAssumption

\* What a query may ask for is a machine word; while no call fails it is a
\* block of the chain, and no block is left out before it (GetEvents).
LEMMA LastBlockFacts ==
  ASSUME TypeOK, NEW r \in 0 .. Len(chain)
  PROVE  /\ LastBlock(height, r) \in 0 .. Word - 1
         /\ r = Len(chain) /\ StartHead >= Window /\ height <= r
              => LastBlock(height, r) < r /\ height <= LastBlock(height, r) + 1
<1>1. /\ height \in 0 .. Word - 1 /\ Len(chain) \in Nat /\ Len(chain) <= MaxHead
      /\ Len(chain) >= StartHead
  BY ViewerAssumption DEF TypeOK, ViewerAssumption
<1>2. /\ Window \in Nat /\ Window >= 1 /\ Word \in Nat /\ MaxHead \in Nat
      /\ MaxHead + Window + 1 < Word /\ StartHead \in Nat
  BY ViewerAssumption DEF ViewerAssumption
<1>3. LastBlock(height, r) \in 0 .. Word - 1
  <2>1. height + Window \in Int /\ r - 1 \in Int
    BY <1>1, <1>2
  <2>2. (height + Window) % Word \in 0 .. Word - 1 /\ (r - 1) % Word \in 0 .. Word - 1
    BY <2>1, ModFacts
  <2>3. QED BY <2>2 DEF LastBlock
<1>4. ASSUME r = Len(chain), StartHead >= Window, height <= r
      PROVE  LastBlock(height, r) < r /\ height <= LastBlock(height, r) + 1
  <2>1. (r - Window) % Word = r - Window /\ (r - 1) % Word = r - 1
    <3>1. r - Window \in 0 .. Word - 1 /\ r - 1 \in 0 .. Word - 1
      BY <1>1, <1>2, <1>4
    <3>2. QED BY <3>1, ModFacts
  <2>2. ASSUME height < r - Window PROVE (height + Window) % Word = height + Window
    <3>1. height + Window \in 0 .. Word - 1
      BY <1>1, <1>2, <1>4, <2>2
    <3>2. QED BY <3>1, ModFacts
  <2>3. QED BY <1>1, <1>2, <1>4, <2>1, <2>2 DEF LastBlock
<1>5. QED BY <1>3, <1>4

\* A block read from the chain holds an event, or none.
LEMMA EventfulFacts ==
  ASSUME TypeOK, NEW n \in Eventful
  PROVE  n \in 1 .. Len(chain) /\ chain[n] # None /\ chain[n] \in Event
BY DEF TypeOK, Eventful

\* SimpleChain only grows by a block (crossdemo.sol's log).
LEMMA Grow ==
  ASSUME TypeOK, Len(chain) < MaxHead, NEW e \in Event \cup {None}, chain' = Append(chain, e)
  PROVE  /\ chain' \in Seq(Event \cup {None}) /\ Len(chain') = Len(chain) + 1
         /\ Len(chain') \in StartHead .. MaxHead
         /\ \A n \in 1 .. Len(chain) : chain'[n] = chain[n]
         /\ chain'[Len(chain) + 1] = e
         /\ Eventful' = Eventful \cup (IF e = None THEN {} ELSE {Len(chain) + 1})
<1>1. /\ chain \in Seq(Event \cup {None}) /\ Len(chain) \in StartHead .. MaxHead
      /\ StartHead \in Nat /\ MaxHead \in Nat
  BY ViewerAssumption DEF TypeOK, ViewerAssumption
<1>2. /\ chain' \in Seq(Event \cup {None}) /\ Len(chain') = Len(chain) + 1
      /\ \A n \in 1 .. Len(chain) : chain'[n] = chain[n]
      /\ chain'[Len(chain) + 1] = e
  BY <1>1
<1>3. Eventful' = {n \in 1 .. Len(chain') : chain'[n] # None}
  BY DEF Eventful
<1>4. 1 .. Len(chain') = (1 .. Len(chain)) \cup {Len(chain) + 1}
  BY <1>1, <1>2
<1>5. Eventful' = Eventful \cup (IF e = None THEN {} ELSE {Len(chain) + 1})
  BY <1>2, <1>3, <1>4 DEF Eventful
<1>6. QED BY <1>1, <1>2, <1>5
-----------------------------------------------------------------------------
(* The variables keep their types. *)

\* The event met by EventLog is an event of the chain, the first still to do.
LEMMA FirstFacts ==
  ASSUME TypeOK, Todo, NEW n \in todo
  PROVE  n \in Eventful /\ n \in 1 .. Len(chain) /\ chain[n] # None /\ chain[n] \in Event
BY EventfulFacts DEF Todo

\* A message of another hub taken from messageCh (loop).
LEMMA HeadFacts ==
  ASSUME TypeOK, messageCh # <<>>
  PROVE  /\ Head(messageCh) \in Message
         /\ Tail(messageCh) \in Seq(Message) /\ Len(Tail(messageCh)) <= MessageCap
<1>1. messageCh \in Seq(Message) /\ Len(messageCh) \in Nat /\ Len(messageCh) <= MessageCap
      /\ MessageCap \in Nat
  BY ViewerAssumption DEF TypeOK, ViewerAssumption
<1>2. Len(Tail(messageCh)) <= MessageCap
  BY <1>1
<1>3. QED BY <1>1, <1>2

\* The program's variables keep their types when the chain grows (Mine).
LEMMA GrowType ==
  ASSUME TypeOK, Len(chain) < MaxHead, NEW e \in Event \cup {None}, chain' = Append(chain, e),
         onChain' \subseteq Signers, wasAnchor' \subseteq Signers,
         UNCHANGED <<disk, up, events, anchors, hub, history, counts>>
  PROVE  TypeOK'
<1>1. chain' \in Seq(Event \cup {None}) /\ Len(chain') \in StartHead .. MaxHead
      /\ Len(chain') = Len(chain) + 1
  BY Grow
<1>2. Len(chain) \in Nat
  BY DEF TypeOK
<1>3. 1 .. Len(chain) \subseteq 1 .. Len(chain')
  BY <1>1, <1>2
<1>4. eventCh' \in Seq(1 .. Len(chain'))
  BY <1>3 DEF TypeOK, hub
<1>5. QED
  BY <1>1, <1>3, <1>4 DEF TypeOK, disk, events, hub, history, counts

\* What the rounds of GetEvents do keeps the types.
LEMMA GetEventsType ==
  ASSUME TypeOK, Todo, GetEvents
  PROVE  TypeOK'
<1>1. Len(chain) \in Nat /\ Len(chain) <= MaxHead /\ faults \in Nat /\ MaxHead \in Nat
      /\ Word \in Nat /\ MaxHead + 1 < Word /\ EventCap \in Nat
  BY ViewerAssumption DEF TypeOK, ViewerAssumption
<1>2. CASE BlockNumber
  <2>1. LastBlock(height, 0) \in 0 .. Word - 1 /\ LastBlock(height, Len(chain)) \in 0 .. Word - 1
    BY <1>1, LastBlockFacts
  <2>2. toBlock' \in 0 .. Word - 1 /\ faults' \in Nat
    BY <1>2, <1>1, <2>1 DEF BlockNumber, Fault
  <2>3. QED
    BY <1>2, <2>2 DEF BlockNumber, TypeOK, ledger, disk, hub, history
<1>3. CASE FilterLogs
  <2>1. todo' \subseteq 1 .. Len(chain) /\ faults' \in Nat
    BY <1>3, <1>1 DEF FilterLogs, Fault, Logs
  <2>2. QED
    BY <1>3, <2>1 DEF FilterLogs, TypeOK, ledger, disk, hub, history
<1>4. CASE EventsDone
  <2>1. toBlock + 1 \in Int
    BY DEF TypeOK
  <2>2. height' \in 0 .. Word - 1
    BY <1>4, <2>1, ModFacts DEF EventsDone
  <2>3. toBlock' \in 0 .. Word - 1
    BY <1>4, <1>1 DEF EventsDone
  <2>4. QED
    BY <1>4, <2>2, <2>3 DEF EventsDone, TypeOK, ledger, disk, hub, history, counts
<1>5. ASSUME NEW n \in todo, EventStore(n)
      PROVE  TypeOK'
  <2>1. n \in 1 .. Len(chain) /\ chain[n] \in Event
    BY FirstFacts
  <2>2. /\ chain[n].kind = "MakerTx" => chain[n].id \in Ids
        /\ chain[n].kind = "TakerTx" => chain[n].id \in RemoteIds
        /\ chain[n].id \in AllIds
    BY <2>1 DEF Event, LocalKinds, AllIds
  <2>3. localStore' \subseteq Ids /\ remoteStore' \in [AllIds -> Signers \cup {None}]
    <3>1. localStore \subseteq Ids /\ remoteStore \in [AllIds -> Signers \cup {None}]
      BY DEF TypeOK
    <3>2. CASE StoreEvent(chain[n])
      <4>1. localStore' \subseteq Ids
        BY <2>2, <3>1, <3>2 DEF StoreEvent
      <4>2. remoteStore' \in [AllIds -> Signers \cup {None}]
        BY <2>2, <3>1, <3>2 DEF StoreEvent
      <4>3. QED BY <4>1, <4>2
    <3>3. CASE UNCHANGED <<localStore, remoteStore>>
      BY <3>1, <3>3
    <3>4. QED BY <1>5, <3>2, <3>3 DEF EventStore
  <2>4. faults' \in Nat
    BY <1>5, <1>1 DEF EventStore, Fault
  <2>5. todo' \subseteq 1 .. Len(chain) /\ queued' \subseteq 1 .. Len(chain) /\ pc' \in {"log", "send"}
    BY <1>5, <2>1 DEF EventStore, TypeOK
  <2>6. top' \in 0 .. MaxHead + 1 /\ late' \subseteq RemoteIds
    BY <1>5, <1>1, <2>1 DEF EventStore, TypeOK
  <2>7. QED
    BY <1>5, <2>3, <2>5, <2>6, <2>4 DEF EventStore, TypeOK, ledger, hub
<1>6. ASSUME NEW n \in todo, EventSend(n)
      PROVE  TypeOK'
  <2>1. n \in 1 .. Len(chain)
    BY FirstFacts
  <2>2. eventCh \in Seq(1 .. Len(chain)) /\ Len(eventCh) \in Nat
    BY DEF TypeOK
  <2>3. eventCh' \in Seq(1 .. Len(chain)) /\ Len(eventCh') <= EventCap
    BY <1>6, <1>1, <2>1, <2>2 DEF EventSend
  <2>4. QED
    BY <1>6, <2>1, <2>3 DEF EventSend, TypeOK, ledger, disk, counts
<1>7. QED BY <1>2, <1>3, <1>4, <1>5, <1>6 DEF GetEvents

\* A hub that is gone has lost its memory, with its channels (Stop, a crash).
LEMMA GoneType ==
  ASSUME TypeOK, Gone, UNCHANGED <<ledger, localStore, remoteStore, history, messages>>,
         savedHeight' \in 0 .. Word - 1, faults' \in Nat, stops' \in Nat, crashes' \in Nat
  PROVE  TypeOK'
<1>1. Word - 1 \in Nat /\ EventCap \in Nat /\ MessageCap \in Nat
  BY ViewerAssumption DEF ViewerAssumption
<1>2. /\ up' = FALSE /\ pc' = "loop" /\ height' \in 0 .. Word - 1 /\ toBlock' \in 0 .. Word - 1
      /\ todo' = {} /\ anchors' = {}
  BY <1>1 DEF Gone
<1>3. /\ eventCh' \in Seq(1 .. Len(chain')) /\ Len(eventCh') <= EventCap
      /\ messageCh' \in Seq(Message) /\ Len(messageCh') <= MessageCap
  BY <1>1 DEF Gone
<1>4. QED BY <1>2, <1>3 DEF TypeOK, ledger, history

\* Every step of the viewer, the swarm and SimpleChain keeps the types.
LEMMA TypeStep ==
  ASSUME TypeOK, Todo, Next
  PROVE  TypeOK'
<1>1. /\ faults \in Nat /\ stops \in Nat /\ crashes \in Nat /\ messages \in Nat
      /\ Word \in Nat /\ Word > 0 /\ EventCap \in Nat /\ MessageCap \in Nat
      /\ onChain \subseteq Signers /\ wasAnchor \subseteq Signers /\ anchors \subseteq Signers
  <2>1. Word \in Nat /\ Word > 0 /\ EventCap \in Nat /\ MessageCap \in Nat
    BY ViewerAssumption DEF ViewerAssumption
  <2>2. /\ faults \in Nat /\ stops \in Nat /\ crashes \in Nat /\ messages \in Nat
        /\ onChain \subseteq Signers /\ wasAnchor \subseteq Signers /\ anchors \subseteq Signers
    BY DEF TypeOK
  <2>3. QED BY <2>1, <2>2
<1>2. CASE GetEvents
  BY <1>2, GetEventsType
<1>3. CASE ReadAnchors
  BY <1>3, <1>1 DEF ReadAnchors, GetAnchors, TypeOK, ledger, disk, events, hub, history, counts
<1>4. CASE ReceiveOrder
  <2>1. messageCh # <<>>
    BY <1>4 DEF ReceiveOrder, Received
  <2>2. PICK m : m = Head(messageCh)
    OBVIOUS
  <2>3. m \in Message /\ messageCh' \in Seq(Message) /\ Len(messageCh') <= MessageCap
    BY <1>4, <2>1, <2>2, HeadFacts DEF ReceiveOrder, Received
  <2>4. m.id \in AllIds /\ m.from \in Signers
    BY <2>3 DEF Message
  <2>5. faults' \in Nat
    BY <1>4, <1>1 DEF ReceiveOrder, Fault
  <2>6. remoteStore' \in [AllIds -> Signers \cup {None}]
    <3>1. remoteStore \in [AllIds -> Signers \cup {None}]
      BY DEF TypeOK
    <3>2. [remoteStore EXCEPT ![m.id] = m.from] \in [AllIds -> Signers \cup {None}]
      BY <2>4, <3>1
    <3>3. remoteStore' = remoteStore \/ remoteStore' = [remoteStore EXCEPT ![m.id] = m.from]
      BY <1>4, <2>2 DEF ReceiveOrder
    <3>4. QED BY <3>1, <3>2, <3>3
  <2>7. late' \subseteq RemoteIds
    <3>1. ASSUME NEW n \in 1 .. Len(chain), chain[n] = [kind |-> "TakerTx", id |-> m.id]
          PROVE  m.id \in RemoteIds
      <4>1. chain[n] \in Event \cup {None}
        BY <3>1 DEF TypeOK
      <4>2. CASE chain[n] = None
        BY <2>4, <3>1, <4>2, ViewerAssumption DEF ViewerAssumption
      <4>3. CASE chain[n] \in Event
        BY <3>1, <4>3 DEF Event, LocalKinds
      <4>4. QED BY <4>1, <4>2, <4>3
    <3>2. QED BY <1>4, <2>2, <3>1 DEF ReceiveOrder, TypeOK
  <2>8. QED
    BY <1>4, <2>3, <2>6, <2>7, <2>5 DEF ReceiveOrder, TypeOK, ledger, events
<1>5. CASE ReceiveReceipt
  <2>1. messageCh # <<>>
    BY <1>5 DEF ReceiveReceipt, Received
  <2>2. PICK m : m = Head(messageCh)
    OBVIOUS
  <2>3. m \in Message /\ messageCh' \in Seq(Message) /\ Len(messageCh') <= MessageCap
    BY <1>5, <2>1, <2>2, HeadFacts DEF ReceiveReceipt, Received
  <2>4. m.from \in Signers
    BY <2>3 DEF Message
  <2>5. finished' \subseteq Signers /\ faults' \in Nat
    BY <1>5, <1>1, <2>2, <2>4 DEF ReceiveReceipt, Fault, TypeOK
  <2>6. QED
    BY <1>5, <2>3, <2>5 DEF ReceiveReceipt, TypeOK, ledger, disk, events
<1>6. CASE Drain
  <2>1. eventCh \in Seq(1 .. Len(chain)) /\ eventCh # <<>> /\ Len(eventCh) <= EventCap
    BY <1>6 DEF Drain, TypeOK
  <2>2. /\ Head(eventCh) \in 1 .. Len(chain)
        /\ Tail(eventCh) \in Seq(1 .. Len(chain)) /\ Len(Tail(eventCh)) <= EventCap
    BY <1>1, <2>1
  <2>3. QED
    BY <1>6, <2>2 DEF Drain, TypeOK, ledger, disk, events, counts
<1>7. CASE Stop
  <2>1. savedHeight' \in 0 .. Word - 1 /\ faults' \in Nat /\ stops' \in Nat
    BY <1>7, <1>1 DEF Stop, Fault, TypeOK
  <2>2. QED
    BY <1>7, <1>1, <2>1, GoneType DEF Stop, ledger, history, TypeOK
<1>8. CASE Crash
  <2>1. crashes' \in Nat
    BY <1>8, <1>1 DEF Crash
  <2>2. QED
    BY <1>8, <1>1, <2>1, GoneType DEF Crash, ledger, disk, history, TypeOK
<1>9. CASE Restart
  BY <1>9, <1>1 DEF Restart, GetAnchors, TypeOK, ledger, disk, hub, history, counts
<1>10. ASSUME NEW e \in Event \cup {None}, Mine(e)
      PROVE  TypeOK'
  BY <1>10, <1>1, GrowType DEF Mine
<1>11. ASSUME NEW S \in SUBSET Signers, ChangeAnchors(S)
       PROVE  TypeOK'
  BY <1>11, <1>1, GrowType DEF ChangeAnchors
<1>12. ASSUME NEW m \in Message, Arrive(m)
       PROVE  TypeOK'
  <2>1. messageCh \in Seq(Message) /\ Len(messageCh) \in Nat /\ messageCh' = Append(messageCh, m)
    BY <1>12 DEF Arrive, TypeOK
  <2>2. messageCh' \in Seq(Message) /\ Len(messageCh') <= MessageCap
    BY <1>12, <1>1, <2>1 DEF Arrive
  <2>3. QED
    BY <1>12, <1>1, <2>2 DEF Arrive, TypeOK, ledger, disk, events, history
<1>13. QED
  BY <1>2, <1>3, <1>4, <1>5, <1>6, <1>7, <1>8, <1>9, <1>10, <1>11, <1>12 DEF Next
-----------------------------------------------------------------------------
(* The chain's order and the anchors. *)

\* The contract finishes an order only after it made it, and makes it once
\* (crossdemo.sol).
LEMMA OrderedStep ==
  ASSUME TypeOK, Ordered, Next
  PROVE  Ordered'
<1>1. CASE UNCHANGED chain
  BY <1>1 DEF Ordered, At, Eventful
<1>2. ASSUME NEW e \in Event \cup {None}, Len(chain) < MaxHead, chain' = Append(chain, e),
             e # None => CanHappen(e)
      PROVE  Ordered'
  <2>1. /\ Len(chain) \in Nat /\ Len(chain') = Len(chain) + 1
        /\ \A n \in 1 .. Len(chain) : chain'[n] = chain[n]
        /\ chain'[Len(chain) + 1] = e
        /\ Eventful' = Eventful \cup (IF e = None THEN {} ELSE {Len(chain) + 1})
        /\ Eventful \subseteq 1 .. Len(chain)
    BY <1>2, Grow DEF TypeOK, Eventful
  <2>2. ASSUME NEW n \in 1 .. Len(chain), NEW kind, NEW id
        PROVE  At(n, kind, id)' <=> At(n, kind, id)
    BY <2>1, <2>2 DEF At
  <2>3. ASSUME NEW n, n = Len(chain) + 1, NEW kind, NEW id, At(n, kind, id)'
        PROVE  e # None /\ e.kind = kind /\ e.id = id
    BY <2>1, <2>3 DEF At
  <2>4. ASSUME NEW kind, NEW id
        PROVE  Happened(kind, id) <=> \E n \in 1 .. Len(chain) : At(n, kind, id)
    BY <2>4 DEF Happened, At, Eventful
  <2>5. ASSUME NEW m \in 1 .. Len(chain'), NEW n \in 1 .. Len(chain'), NEW id \in Ids,
               At(m, "MakerTx", id)', At(n, "MakerTx", id)'
        PROVE  m = n
    <3>1. CASE m \in 1 .. Len(chain) /\ n \in 1 .. Len(chain)
      BY <2>2, <2>5, <3>1 DEF Ordered
    <3>2. CASE m = Len(chain) + 1 /\ n \in 1 .. Len(chain)
      BY <1>2, <2>2, <2>3, <2>4, <2>5, <3>2 DEF CanHappen
    <3>3. CASE n = Len(chain) + 1 /\ m \in 1 .. Len(chain)
      BY <1>2, <2>2, <2>3, <2>4, <2>5, <3>3 DEF CanHappen
    <3>4. QED BY <2>1, <2>5, <3>1, <3>2, <3>3
  <2>6. ASSUME NEW n \in 1 .. Len(chain'), NEW id \in Ids, At(n, "MakerFinish", id)'
        PROVE  \E m \in 1 .. n - 1 : At(m, "MakerTx", id)'
    <3>1. CASE n \in 1 .. Len(chain)
      <4>1. PICK m \in 1 .. n - 1 : At(m, "MakerTx", id)
        BY <2>2, <2>6, <3>1 DEF Ordered
      <4>2. m \in 1 .. Len(chain)
        BY <2>1, <3>1
      <4>3. QED BY <2>2, <4>1, <4>2
    <3>2. CASE n = Len(chain) + 1
      <4>1. Happened("MakerTx", id)
        BY <1>2, <2>3, <2>6, <3>2 DEF CanHappen
      <4>2. PICK m \in 1 .. Len(chain) : At(m, "MakerTx", id)
        BY <2>4, <4>1
      <4>3. m \in 1 .. n - 1
        BY <2>1, <3>2
      <4>4. QED BY <2>2, <4>2, <4>3
    <3>3. QED BY <2>1, <2>6, <3>1, <3>2
  <2>7. QED BY <2>5, <2>6 DEF Ordered
<1>3. ASSUME NEW e \in Event \cup {None}, Mine(e)
      PROVE  Ordered'
  BY <1>2, <1>3 DEF Mine
<1>4. ASSUME NEW S \in SUBSET Signers, ChangeAnchors(S)
      PROVE  Ordered'
  BY <1>2, <1>4 DEF ChangeAnchors
<1>5. QED
  BY <1>1, <1>3, <1>4
  DEF Next, GetEvents, BlockNumber, FilterLogs, EventsDone, EventStore, EventSend, ReadAnchors,
      ReceiveOrder, ReceiveReceipt, Drain, Stop, Crash, Restart, Arrive, ledger

\* GetAnchors adds only what the contract lists, and the contract keeps no
\* anchor that it never listed.
LEMMA AnchoredStep ==
  ASSUME Anchored, Next
  PROVE  Anchored'
<1>1. ASSUME NEW S \in SUBSET Signers, ChangeAnchors(S)
      PROVE  Anchored'
  BY <1>1 DEF ChangeAnchors, Anchored
<1>2. CASE ReadAnchors \/ Restart
  BY <1>2 DEF ReadAnchors, Restart, GetAnchors, Anchored, ledger
<1>3. CASE Stop \/ Crash
  BY <1>3 DEF Stop, Crash, Gone, Anchored, ledger
<1>4. CASE GetEvents
  BY <1>4 DEF GetEvents, BlockNumber, FilterLogs, EventsDone, EventStore, EventSend, ledger, Anchored
<1>5. CASE ReceiveOrder \/ ReceiveReceipt \/ Drain
  BY <1>5 DEF ReceiveOrder, ReceiveReceipt, Drain, ledger, Anchored
<1>6. ASSUME NEW e \in Event \cup {None}, Mine(e)
      PROVE  Anchored'
  BY <1>6 DEF Mine, Anchored
<1>7. ASSUME NEW m \in Message, Arrive(m)
      PROVE  Anchored'
  BY <1>7 DEF Arrive, Anchored, ledger
<1>8. QED BY <1>1, <1>2, <1>3, <1>4, <1>5, <1>6, <1>7 DEF Next

\* An order or a receipt is acted on only for a signer among the anchors read
\* from the contract (loop).
LEMMA ActedStep ==
  ASSUME TypeOK, Todo, Anchored, ActedForAnchors, Next
  PROVE  ActedForAnchors'
<1>1. remoteStore \in [AllIds -> Signers \cup {None}]
  BY DEF TypeOK
<1>2. wasAnchor \subseteq wasAnchor'
  BY DEF Next, GetEvents, BlockNumber, FilterLogs, EventsDone, EventStore, EventSend, ReadAnchors,
         ReceiveOrder, ReceiveReceipt, Drain, Stop, Crash, Restart, Arrive, Mine, ChangeAnchors, ledger
<1>3. CASE UNCHANGED <<remoteStore, finished>>
  BY <1>2, <1>3 DEF ActedForAnchors
<1>4. CASE ReceiveOrder
  <2>1. PICK m : m = Head(messageCh)
    OBVIOUS
  <2>2. UNCHANGED finished
    BY <1>4 DEF ReceiveOrder
  <2>3. CASE remoteStore' = remoteStore
    BY <1>2, <2>2, <2>3 DEF ActedForAnchors
  <2>4. CASE Trusted(m) /\ remoteStore' = [remoteStore EXCEPT ![m.id] = m.from]
    BY <1>1, <1>2, <2>2, <2>4 DEF ActedForAnchors, Trusted, Anchored
  <2>5. QED BY <1>4, <2>1, <2>3, <2>4 DEF ReceiveOrder
<1>5. CASE ReceiveReceipt
  <2>1. PICK m : m = Head(messageCh)
    OBVIOUS
  <2>2. UNCHANGED remoteStore
    BY <1>5 DEF ReceiveReceipt, disk
  <2>3. finished' = finished \/ (Trusted(m) /\ finished' = finished \cup {m.from})
    BY <1>5, <2>1 DEF ReceiveReceipt
  <2>4. QED BY <1>2, <2>2, <2>3 DEF ActedForAnchors, Trusted, Anchored
<1>6. ASSUME NEW n \in todo, EventStore(n)
      PROVE  ActedForAnchors'
  <2>1. UNCHANGED finished
    BY <1>6 DEF EventStore
  <2>2. \A id \in AllIds : remoteStore'[id] = remoteStore[id] \/ remoteStore'[id] = None
    BY <1>1, <1>6 DEF EventStore, StoreEvent
  <2>3. QED BY <1>2, <2>1, <2>2 DEF ActedForAnchors
<1>7. QED
  BY <1>3, <1>4, <1>5, <1>6
  DEF Next, GetEvents, BlockNumber, FilterLogs, EventsDone, EventSend, ReadAnchors,
      Drain, Stop, Crash, Restart, Arrive, Mine, ChangeAnchors, disk, history
-----------------------------------------------------------------------------
(* The rounds of GetEvents. *)

\* A failed call is counted for good.
LEMMA CallsStep ==
  ASSUME TypeOK, Next, CallsWork'
  PROVE  CallsWork /\ UNCHANGED faults
<1>1. faults \in Nat /\ (faults' = faults \/ faults' = faults + 1)
  BY DEF TypeOK, Next, GetEvents, BlockNumber, FilterLogs, EventsDone, EventStore, EventSend, ReadAnchors,
         ReceiveOrder, ReceiveReceipt, Drain, Stop, Crash, Restart, Arrive, Mine, ChangeAnchors, Fault, counts
<1>2. QED BY <1>1 DEF CallsWork

\* A hub that is down has no round running, and a round handles events only
\* (Stop, FilterLogs).
LEMMA TodoStep ==
  ASSUME TypeOK, Dead, Todo, Next
  PROVE  Dead' /\ Todo'
<1>1. CASE UNCHANGED <<chain, up, pc, height, todo>>
  BY <1>1 DEF Dead, Todo, Eventful
<1>2. CASE BlockNumber
  BY <1>2 DEF BlockNumber, Dead, Todo, Eventful, ledger
<1>3. CASE FilterLogs
  BY <1>3 DEF FilterLogs, Dead, Todo, Eventful, ledger, Logs
<1>4. CASE EventsDone
  BY <1>4 DEF EventsDone, Dead, Todo, Eventful, ledger
<1>5. ASSUME NEW n \in todo, EventStore(n) \/ EventSend(n)
      PROVE  Dead' /\ Todo'
  BY <1>5 DEF EventStore, EventSend, Dead, Todo, Eventful, ledger
<1>6. CASE Stop \/ Crash
  BY <1>6 DEF Stop, Crash, Gone, Dead, Todo, Eventful, ledger
<1>7. CASE Restart
  BY <1>7 DEF Restart, Dead, Todo, Eventful, ledger
<1>8. ASSUME Len(chain) < MaxHead, NEW e \in Event \cup {None}, chain' = Append(chain, e),
             UNCHANGED <<up, events>>
      PROVE  Dead' /\ Todo'
  <2>1. Eventful \subseteq Eventful'
    BY <1>8, Grow
  <2>2. QED BY <1>8, <2>1 DEF Dead, Todo, events
<1>9. ASSUME NEW e \in Event \cup {None}, Mine(e)
      PROVE  Dead' /\ Todo'
  BY <1>8, <1>9 DEF Mine
<1>10. ASSUME NEW S \in SUBSET Signers, ChangeAnchors(S)
       PROVE  Dead' /\ Todo'
  BY <1>8, <1>10 DEF ChangeAnchors
<1>11. QED
  BY <1>1, <1>2, <1>3, <1>4, <1>5, <1>6, <1>7, <1>9, <1>10
  DEF Next, GetEvents, ReadAnchors, ReceiveOrder, ReceiveReceipt, Drain, Arrive, ledger, events

\* The numbers of blocks are integers.
LEMMA Numbers ==
  ASSUME TypeOK
  PROVE  /\ Len(chain) \in Nat /\ Len(chain) <= MaxHead /\ MaxHead \in Nat /\ Len(chain) >= StartHead
         /\ height \in Nat /\ savedHeight \in Nat /\ toBlock \in Nat /\ top \in Nat
         /\ Word \in Nat /\ MaxHead + 1 < Word
         /\ Eventful \subseteq 1 .. Len(chain) /\ Eventful \subseteq Nat
BY ViewerAssumption DEF TypeOK, ViewerAssumption, Eventful

\* A round that reads the last block to ask for, in exact arithmetic.
LEMMA BlockNumberStep ==
  ASSUME TypeOK, Rising, CallsWork', CallsWork, BlockNumber
  PROVE  toBlock' < Len(chain) /\ height <= toBlock' + 1
<1>1. Len(chain) \in Nat /\ faults = 0 /\ faults' = 0 /\ StartHead >= Window /\ height <= Len(chain)
  BY Numbers DEF CallsWork, Rising
<1>2. toBlock' = LastBlock(height, Len(chain))
  BY <1>1 DEF BlockNumber, Fault
<1>3. Len(chain) \in 0 .. Len(chain)
  BY <1>1
<1>4. QED BY <1>1, <1>2, <1>3, LastBlockFacts

\* A round that ends goes on at the block after the last one asked for.
LEMMA EventsDoneStep ==
  ASSUME TypeOK, Rising, CallsWork, EventsDone
  PROVE  height' = toBlock + 1 /\ toBlock < Len(chain) /\ height <= height'
<1>1. pc = "log" /\ toBlock < Len(chain) /\ height <= toBlock + 1
  BY DEF EventsDone, Rising
<1>2. toBlock + 1 \in 0 .. Word - 1
  BY <1>1, Numbers
<1>3. (toBlock + 1) % Word = toBlock + 1
  BY <1>2, ModFacts
<1>4. QED BY <1>1, <1>3 DEF EventsDone

\* While no call fails the heights stay within the chain, and a round has its
\* events in order (GetEvents).
LEMMA RisingStep ==
  ASSUME TypeOK, Dead, Todo, Rising, Next
  PROVE  Rising'
<1> SUFFICES ASSUME CallsWork' PROVE Rising'
  BY DEF Rising
<1>a. CallsWork
  BY CallsStep
<1>b. /\ height <= Len(chain) /\ savedHeight <= Len(chain)
      /\ up => savedHeight <= height
      /\ pc # "loop" => height <= toBlock + 1 /\ toBlock < Len(chain)
      /\ pc \in {"log", "send"} =>
           /\ \A n \in todo : height <= n /\ n <= toBlock
           /\ \A n \in todo, m \in Eventful : n < m /\ m <= toBlock => m \in todo
  BY <1>a DEF Rising
<1>1. CASE UNCHANGED <<chain, savedHeight, up, pc, height, toBlock, todo>>
  <2>1. Eventful' = Eventful
    BY <1>1 DEF Eventful
  <2>2. QED BY <1>1, <1>b, <2>1 DEF Rising
<1>2. CASE BlockNumber
  <2>1. toBlock' < Len(chain) /\ height <= toBlock' + 1
    BY <1>a, <1>2, BlockNumberStep
  <2>2. QED BY <1>2, <1>b, <2>1 DEF BlockNumber, Rising, ledger, disk
<1>3. CASE FilterLogs
  <2>1. todo' = Logs(height, toBlock)
    BY <1>3, <1>a DEF FilterLogs, Fault, CallsWork
  <2>2. Eventful' = Eventful /\ UNCHANGED <<chain, savedHeight, up, height, toBlock>> /\ pc' = "log"
    BY <1>3 DEF FilterLogs, ledger, disk, Eventful
  <2>3. \A n \in todo' : n \in 1 .. Len(chain) /\ height <= n /\ n <= toBlock
    BY <2>1 DEF Logs
  <2>4. ASSUME NEW n \in todo', NEW m \in Eventful, n < m, m <= toBlock
        PROVE  m \in todo'
    <3>1. height <= n /\ n \in Nat /\ height \in Nat /\ m \in 1 .. Len(chain) /\ chain[m] # None
      BY <2>3, Numbers DEF Eventful
    <3>2. height <= m
      BY <2>4, <3>1
    <3>3. QED BY <2>1, <2>4, <3>1, <3>2 DEF Logs
  <2>5. pc = "filter"
    BY <1>3 DEF FilterLogs
  <2>6. QED BY <1>b, <2>2, <2>3, <2>4, <2>5 DEF Rising
<1>4. CASE EventsDone
  <2>1. height' = toBlock + 1 /\ toBlock < Len(chain) /\ height <= height'
    BY <1>a, <1>4, EventsDoneStep
  <2>2. /\ UNCHANGED <<chain, savedHeight, up>> /\ up /\ pc' = "loop"
    BY <1>4 DEF EventsDone, ledger, disk
  <2>3. QED BY <1>b, <2>1, <2>2, Numbers DEF Rising
<1>5. ASSUME NEW n \in todo, EventStore(n) \/ EventSend(n)
      PROVE  Rising'
  <2>1. /\ UNCHANGED <<chain, savedHeight, up, height, toBlock>> /\ Eventful' = Eventful
        /\ pc \in {"log", "send"} /\ pc' \in {"log", "send"}
    BY <1>5 DEF EventStore, EventSend, ledger, disk, Eventful
  <2>2. todo' \subseteq todo /\ (todo' = todo \/ todo' = todo \ {n}) /\ \A m \in todo : n <= m
    BY <1>5 DEF EventStore, EventSend, First
  <2>3. ASSUME NEW k \in todo', NEW m \in Eventful, k < m, m <= toBlock
        PROVE  m \in todo'
    <3>1. m \in todo /\ n <= k /\ k \in Eventful /\ n \in Eventful
      BY <1>b, <2>1, <2>2, <2>3 DEF Todo
    <3>2. m # n
      BY <2>3, <3>1, Numbers
    <3>3. QED BY <2>2, <3>1, <3>2
  <2>4. QED BY <1>b, <2>1, <2>2, <2>3 DEF Rising
<1>6. CASE Stop
  <2>1. savedHeight' = height /\ UNCHANGED chain
    BY <1>6, <1>a DEF Stop, Fault, CallsWork, ledger
  <2>2. up' = FALSE /\ pc' = "loop" /\ height' = 0
    BY <1>6 DEF Stop, Gone
  <2>3. QED BY <1>b, <2>1, <2>2, Numbers DEF Rising
<1>7. CASE Crash
  <2>1. UNCHANGED <<chain, savedHeight>> /\ up' = FALSE /\ pc' = "loop" /\ height' = 0
    BY <1>7 DEF Crash, Gone, ledger, disk
  <2>2. QED BY <1>b, <2>1, Numbers DEF Rising
<1>8. CASE Restart
  <2>1. UNCHANGED <<chain, savedHeight, pc>> /\ pc = "loop" /\ height' = savedHeight
    BY <1>8 DEF Restart, ledger, disk, Dead
  <2>2. QED BY <1>b, <2>1, Numbers DEF Rising
<1>9. ASSUME Len(chain) < MaxHead, NEW e \in Event \cup {None}, chain' = Append(chain, e),
             UNCHANGED <<up, events, disk>>
      PROVE  Rising'
  <2>1. Len(chain') = Len(chain) + 1 /\ Eventful' \subseteq Eventful \cup {Len(chain) + 1}
    BY <1>9, Grow
  <2>2. UNCHANGED <<up, pc, height, toBlock, todo, savedHeight>>
    BY <1>9 DEF events, disk
  <2>3. ASSUME pc \in {"log", "send"}, NEW n \in todo, NEW m \in Eventful', n < m, m <= toBlock
        PROVE  m \in todo
    <3>1. toBlock < Len(chain)
      BY <1>b, <2>3
    <3>2. m # Len(chain) + 1
      BY <2>3, <3>1, Numbers
    <3>3. QED BY <1>b, <2>1, <2>3, <3>2
  <2>4. Len(chain) <= Len(chain')
    BY <2>1, Numbers
  <2>5. height <= Len(chain') /\ savedHeight <= Len(chain') /\ (pc # "loop" => toBlock < Len(chain'))
    BY <1>b, <2>1, Numbers
  <2>6. QED BY <1>b, <2>2, <2>3, <2>5 DEF Rising
<1>10. ASSUME NEW e \in Event \cup {None}, Mine(e)
       PROVE  Rising'
  BY <1>9, <1>10 DEF Mine
<1>11. ASSUME NEW S \in SUBSET Signers, ChangeAnchors(S)
       PROVE  Rising'
  BY <1>9, <1>11 DEF ChangeAnchors
<1>12. QED
  BY <1>1, <1>2, <1>3, <1>4, <1>5, <1>6, <1>7, <1>8, <1>10, <1>11
  DEF Next, GetEvents, ReadAnchors, ReceiveOrder, ReceiveReceipt, Drain, Arrive, ledger, events, disk
-----------------------------------------------------------------------------
(* What has passed, and what has met the stores.                           *)

Quiet == UNCHANGED <<chain, localStore, top, queued>>

\* What has passed, in steps that handle no event: a query, the end of a round,
\* a death and a restart never pass an event by.
LEMMA PassedKept ==
  ASSUME TypeOK, Dead, Todo, Rising, CallsWork, CallsWork', UNCHANGED chain,
         BlockNumber \/ FilterLogs \/ EventsDone \/ Stop \/ Crash \/ Restart
           \/ UNCHANGED <<savedHeight, up, events>>
  PROVE  \A n \in Eventful : (Passed(n)' => Passed(n)) /\ (Met(n)' => Met(n))
<1> SUFFICES ASSUME NEW n \in Eventful
             PROVE  (Passed(n)' => Passed(n)) /\ (Met(n)' => Met(n))
  OBVIOUS
<1>1. /\ n \in Nat /\ n \in 1 .. Len(chain) /\ Len(chain) \in Nat /\ height \in Nat /\ savedHeight \in Nat
      /\ toBlock \in Nat
  BY Numbers
<1>b. /\ height <= Len(chain) /\ savedHeight <= Len(chain)
      /\ up => savedHeight <= height
      /\ pc # "loop" => height <= toBlock + 1 /\ toBlock < Len(chain)
      /\ pc \in {"log", "send"} =>
           /\ \A m \in todo : height <= m /\ m <= toBlock
  BY DEF Rising
<1>f. faults = 0 /\ faults' = 0
  BY DEF CallsWork
<1>2. CASE BlockNumber
  BY <1>2 DEF BlockNumber, Passed, Met, disk
<1>3. CASE FilterLogs
  <2>1. /\ todo' = Logs(height, toBlock) /\ pc = "filter" /\ pc' = "log" /\ up /\ up'
        /\ UNCHANGED <<height, toBlock>>
    BY <1>3, <1>f DEF FilterLogs, Fault
  <2>2. n \in Logs(height, toBlock) <=> height <= n /\ n <= toBlock
    BY DEF Logs, Eventful
  <2>3. Passed(n)' => Passed(n)
    BY <1>1, <2>1, <2>2 DEF Passed
  <2>4. QED BY <2>1, <2>3 DEF Met
<1>4. CASE EventsDone
  <2>1. height' = toBlock + 1
    BY <1>4, EventsDoneStep
  <2>2. /\ pc = "log" /\ pc' = "loop" /\ todo = {} /\ up /\ up'
    BY <1>4 DEF EventsDone
  <2>3. Passed(n)' => Passed(n)
    BY <1>1, <2>1, <2>2 DEF Passed
  <2>4. QED BY <2>2, <2>3 DEF Met
<1>5. CASE Stop \/ Crash
  <2>1. savedHeight' <= height /\ savedHeight' \in Nat /\ up /\ ~up' /\ pc' = "loop"
    BY <1>5, <1>1, <1>b, <1>f DEF Stop, Crash, Gone, Fault, disk
  <2>2. Passed(n)' <=> n < savedHeight'
    BY <2>1 DEF Passed
  <2>3. n < height => Passed(n)
    <3>1. CASE pc \in {"loop", "filter"}
      BY <2>1, <3>1 DEF Passed
    <3>2. CASE pc \in {"log", "send"}
      BY <1>1, <1>b, <2>1, <3>2 DEF Passed
    <3>3. QED BY <3>1, <3>2 DEF TypeOK
  <2>4. Passed(n)' => Passed(n)
    BY <1>1, <2>1, <2>2, <2>3
  <2>5. QED BY <2>1, <2>4 DEF Met
<1>6. CASE Restart
  <2>1. ~up /\ up' /\ height' = savedHeight /\ pc = "loop" /\ pc' = "loop"
    BY <1>6 DEF Restart, Dead
  <2>2. QED BY <2>1 DEF Passed, Met
<1>7. CASE UNCHANGED <<savedHeight, up, events>>
  BY <1>7 DEF Passed, Met, First, events
<1>8. QED BY <1>2, <1>3, <1>4, <1>5, <1>6, <1>7

\* Steps that handle no event leave Sent and Local as they were.
LEMMA QuietStep ==
  ASSUME TypeOK, Sent, Local, CallsWork, Quiet,
         \A n \in Eventful : (Passed(n)' => Passed(n)) /\ (Met(n)' => Met(n))
  PROVE  Sent' /\ Local'
<1>1. Eventful' = Eventful /\ UNCHANGED <<chain, localStore, top, queued>>
  BY DEF Quiet, Eventful
<1>2. \A n, kind, id : At(n, kind, id)' <=> At(n, kind, id)
  BY <1>1 DEF At
<1>3. Sent'
  BY <1>1 DEF Sent
<1>4. Local'
  BY <1>1, <1>2 DEF Local
<1>5. QED BY <1>3, <1>4

\* A block mined above the head has not passed: the heights are below it.
LEMMA GrowStep ==
  ASSUME TypeOK, Dead, Todo, Rising, Sent, Local, CallsWork, Len(chain) < MaxHead,
         NEW e \in Event \cup {None}, chain' = Append(chain, e),
         UNCHANGED <<up, events, disk, history>>
  PROVE  Sent' /\ Local'
<1>1. /\ Len(chain) \in Nat /\ height \in Nat /\ savedHeight \in Nat /\ toBlock \in Nat /\ top \in Nat
      /\ Eventful \subseteq Nat
  BY Numbers
<1>b. /\ height <= Len(chain) /\ savedHeight <= Len(chain) /\ top <= Len(chain)
      /\ pc # "loop" => toBlock < Len(chain)
  BY DEF Rising, Local
<1>2. /\ Len(chain') = Len(chain) + 1
      /\ \A n \in 1 .. Len(chain) : chain'[n] = chain[n]
      /\ Eventful' \subseteq Eventful \cup {Len(chain) + 1} /\ Eventful \subseteq Eventful'
      /\ Eventful \subseteq 1 .. Len(chain)
  BY Grow DEF Eventful
<1>3. UNCHANGED <<up, pc, height, toBlock, todo, savedHeight, localStore, top, queued>>
  BY DEF events, disk, history
<1>4. ASSUME NEW n
      PROVE  (Passed(n)' <=> Passed(n)) /\ (Met(n)' <=> Met(n))
  BY <1>3 DEF Passed, Met, First
<1>5. ASSUME NEW n, n = Len(chain) + 1
      PROVE  ~Met(n) /\ ~(n < top)
  <2>1. n \notin todo
    BY <1>1, <1>2, <1>5 DEF Todo
  <2>2. ~(n < height) /\ ~(n < savedHeight) /\ ~(n < top) /\ (pc # "loop" => ~(n <= toBlock))
    BY <1>1, <1>b, <1>5
  <2>3. QED BY <2>1, <2>2 DEF Met, Passed, First
<1>6. ASSUME NEW n \in Eventful', Met(n) \/ n < top
      PROVE  n \in Eventful /\ chain'[n] = chain[n]
  BY <1>2, <1>5, <1>6
<1>7. \A n \in Eventful : \A kind, id : At(n, kind, id)' <=> At(n, kind, id)
  BY <1>2 DEF At
<1>8. Sent'
  <2>1. ASSUME NEW n \in Eventful', Passed(n)
        PROVE  n \in queued
    BY <1>6, <2>1 DEF Sent, Met
  <2>2. QED BY <1>3, <1>4, <2>1 DEF Sent
<1>9. Local'
  <2>1. /\ \A n \in Eventful : Met(n) => n < top
        /\ \A id \in localStore : \E n \in Eventful : n < top /\ At(n, "MakerTx", id)
        /\ \A n \in Eventful : \A id \in Ids :
             Met(n) /\ At(n, "MakerFinish", id) => id \notin localStore
        /\ \A n \in Eventful : \A id \in Ids :
             n < top /\ At(n, "MakerTx", id) =>
               \/ id \in localStore
               \/ \E m \in Eventful : m < top /\ At(m, "MakerFinish", id)
    BY DEF Local
  <2>2. \A n \in Eventful' : Met(n)' => n < top'
    BY <1>3, <1>4, <1>6, <2>1
  <2>3. top' <= Len(chain')
    BY <1>1, <1>b, <1>2, <1>3
  <2>4. \A id \in localStore' : \E n \in Eventful' : n < top' /\ At(n, "MakerTx", id)'
    BY <1>2, <1>3, <1>7, <2>1
  <2>5. \A n \in Eventful' : \A id \in Ids :
          Met(n)' /\ At(n, "MakerFinish", id)' => id \notin localStore'
    BY <1>3, <1>4, <1>6, <1>7, <2>1
  <2>6. ASSUME NEW n \in Eventful', NEW id \in Ids, n < top', At(n, "MakerTx", id)'
        PROVE  \/ id \in localStore'
               \/ \E m \in Eventful' : m < top' /\ At(m, "MakerFinish", id)'
    <3>1. n \in Eventful /\ n < top /\ At(n, "MakerTx", id)
      BY <1>3, <1>6, <1>7, <2>6
    <3>2. CASE id \in localStore
      BY <1>3, <3>2
    <3>3. CASE \E m \in Eventful : m < top /\ At(m, "MakerFinish", id)
      BY <1>2, <1>3, <1>7, <3>3
    <3>4. QED BY <2>1, <3>1, <3>2, <3>3
  <2>7. QED BY <2>2, <2>3, <2>4, <2>5, <2>6 DEF Local
<1>10. QED BY <1>8, <1>9

\* An event sent has passed, and no other with it (EventLog).
LEMMA EventSendStep ==
  ASSUME TypeOK, Dead, Todo, Rising, Sent, Local, CallsWork, NEW n \in todo, EventSend(n)
  PROVE  Sent' /\ Local'
<1>1. /\ UNCHANGED <<chain, localStore, top, up, toBlock>> /\ up /\ pc = "send" /\ pc' = "log" /\ First(n)
      /\ todo' = todo \ {n} /\ queued' = queued \cup {n}
  BY DEF EventSend, ledger, disk
<1>2. Eventful' = Eventful
  BY <1>1 DEF Eventful
<1>3. \A m \in Eventful : (Passed(m)' => Passed(m) \/ m = n) /\ (Met(m)' => Met(m))
  BY <1>1 DEF Passed, Met
<1>4. Sent'
  BY <1>1, <1>2, <1>3 DEF Sent
<1>5. \A m, kind, id : At(m, kind, id)' <=> At(m, kind, id)
  BY <1>1, <1>2 DEF At
<1>6. Local'
  BY <1>1, <1>2, <1>3, <1>5 DEF Local
<1>7. QED BY <1>4, <1>6

\* What EventLog is to handle next: all events before it have met the stores,
\* and none after it.
LEMMA NextEvent ==
  ASSUME TypeOK, Dead, Todo, Rising, Local, CallsWork, up, pc = "log", NEW n \in todo, First(n)
  PROVE  /\ n \in Eventful /\ n \in Nat /\ n < Len(chain)
         /\ \A m \in Eventful : m < n => Met(m) /\ m < top
         /\ \A m \in Eventful : Met(m) => m < n
<1>1. /\ n \in Eventful /\ n \in Nat /\ n <= toBlock /\ toBlock < Len(chain) /\ Eventful \subseteq Nat
      /\ toBlock \in Nat /\ Len(chain) \in Nat /\ top \in Nat
      /\ \A k \in todo : n <= k
      /\ \A m \in Eventful : n < m /\ m <= toBlock => m \in todo
  BY Numbers DEF Todo, Rising, First
<1>2. ASSUME NEW m \in Eventful, m < n
      PROVE  Met(m) /\ m < top
  <2>1. m <= toBlock /\ m \notin todo
    BY <1>1, <1>2
  <2>2. Met(m)
    BY <2>1 DEF Met, Passed
  <2>3. QED BY <2>2 DEF Local
<1>3. ASSUME NEW m \in Eventful, Met(m)
      PROVE  m < n
  <2>1. m <= toBlock /\ m \notin todo
    BY <1>3 DEF Met, Passed
  <2>2. ~(n < m) /\ m # n
    BY <1>1, <2>1
  <2>3. QED BY <1>1, <2>2
<1>4. QED BY <1>1, <1>2, <1>3

\* One event meets the local store: a MakerTx after all the events before it and
\* before those after it, so no finish of its order has been met (EventLog).
LEMMA EventStoreStep ==
  ASSUME TypeOK, Ordered, Dead, Todo, Rising, Sent, Local, CallsWork, CallsWork',
         NEW n \in todo, EventStore(n)
  PROVE  Sent' /\ Local'
<1>1. /\ UNCHANGED <<chain, up, toBlock>> /\ up /\ pc = "log" /\ First(n) /\ StoreEvent(chain[n])
      /\ IF chain[n].kind = "MakerFinish"
         THEN todo' = todo \ {n} /\ queued' = queued \cup {n} /\ UNCHANGED pc
         ELSE pc' = "send" /\ UNCHANGED <<todo, queued>>
      /\ top' = IF n >= top THEN n + 1 ELSE top
  BY DEF EventStore, ledger, Fault, CallsWork
<1>2. Eventful' = Eventful
  BY <1>1 DEF Eventful
<1>3. \A m, kind, id : At(m, kind, id)' <=> At(m, kind, id)
  BY <1>1, <1>2 DEF At
<1>4. /\ n \in Eventful /\ n \in Nat /\ n < Len(chain)
      /\ \A m \in Eventful : m < n => Met(m) /\ m < top
      /\ \A m \in Eventful : Met(m) => m < n
  BY <1>1, NextEvent
<1>5. Len(chain) \in Nat /\ top \in Nat /\ Eventful \subseteq 1 .. Len(chain) /\ Eventful \subseteq Nat
  BY Numbers
<1>6. chain[n] \in Event
  BY <1>4, EventfulFacts
<1>7. \A m \in Eventful : (Passed(m)' => Passed(m) \/ (m = n /\ chain[n].kind = "MakerFinish"))
                          /\ (Met(m)' => Met(m) \/ m = n)
  <2>1. CASE chain[n].kind = "MakerFinish"
    BY <1>1, <2>1 DEF Passed, Met
  <2>2. CASE chain[n].kind # "MakerFinish"
    <3>1. pc' = "send" /\ todo' = todo
      BY <1>1, <2>2
    <3>2. \A m \in Eventful : (Passed(m)' => Passed(m)) /\ (First(m)' => m = n)
      <4>1. ASSUME NEW m \in Eventful, First(m)'
            PROVE  m = n
        <5>1. m \in todo /\ m <= n /\ n <= m
          BY <1>1, <3>1, <4>1 DEF First
        <5>2. QED BY <1>4, <1>5, <4>1, <5>1
      <4>2. \A m \in Eventful : Passed(m)' => Passed(m)
        BY <1>1, <3>1 DEF Passed
      <4>3. QED BY <4>1, <4>2
    <3>3. QED BY <1>1, <3>1, <3>2, <2>2 DEF Met
  <2>3. QED BY <2>1, <2>2
<1>8. Sent'
  BY <1>1, <1>2, <1>7 DEF Sent
<1>9. n < top' /\ top <= top' /\ top' <= Len(chain) /\ \A m \in Eventful : m < top' => m < top \/ m = n
  <2>1. top <= Len(chain)
    BY DEF Local
  <2>2. n < top' /\ top <= top' /\ top' <= Len(chain)
    BY <1>1, <1>4, <1>5, <2>1
  <2>3. ASSUME NEW m \in Eventful, m < top'
        PROVE  m < top \/ m = n
    BY <1>1, <1>4, <1>5, <2>3
  <2>4. QED BY <2>2, <2>3
<1>10. /\ \A m \in Eventful : Met(m) => m < top
       /\ \A id \in localStore : \E m \in Eventful : m < top /\ At(m, "MakerTx", id)
       /\ \A m \in Eventful : \A id \in Ids :
            Met(m) /\ At(m, "MakerFinish", id) => id \notin localStore
       /\ \A m \in Eventful : \A id \in Ids :
            m < top /\ At(m, "MakerTx", id) =>
              \/ id \in localStore
              \/ \E k \in Eventful : k < top /\ At(k, "MakerFinish", id)
  BY DEF Local
<1>11. /\ localStore' \subseteq localStore \cup {id \in Ids : At(n, "MakerTx", id)}
       /\ \A id \in localStore : id \in localStore' \/ At(n, "MakerFinish", id)
       /\ \A id \in Ids : At(n, "MakerTx", id) => id \in localStore'
       /\ \A id \in Ids : At(n, "MakerFinish", id) => id \notin localStore'
  <2>1. chain[n].kind \in {"MakerTx", "MakerFinish", "TakerTx"}
        /\ (chain[n].kind # "TakerTx" => chain[n].id \in Ids)
    BY <1>6 DEF Event, LocalKinds
  <2>2. \A kind, id : At(n, kind, id) <=> chain[n].kind = kind /\ chain[n].id = id
    BY <1>4 DEF At
  <2>3. CASE chain[n].kind = "MakerTx"
    BY <1>1, <2>1, <2>2, <2>3 DEF StoreEvent
  <2>4. CASE chain[n].kind = "MakerFinish"
    BY <1>1, <2>1, <2>2, <2>4 DEF StoreEvent
  <2>5. CASE chain[n].kind = "TakerTx"
    BY <1>1, <2>1, <2>2, <2>5 DEF StoreEvent
  <2>6. QED BY <2>1, <2>3, <2>4, <2>5
<1>12. \A m \in Eventful : Met(m)' => m < top'
  <2>1. ASSUME NEW m \in Eventful, Met(m)'
        PROVE  m = n \/ m < top
    BY <1>7, <1>10, <2>1
  <2>2. ASSUME NEW m \in Eventful, m < top
        PROVE  m < top'
    BY <1>1, <1>4, <1>5, <2>2
  <2>3. QED BY <1>9, <2>1, <2>2
<1>13. \A id \in localStore' : \E m \in Eventful : m < top' /\ At(m, "MakerTx", id)
  <2>1. ASSUME NEW id \in localStore
        PROVE  \E m \in Eventful : m < top' /\ At(m, "MakerTx", id)
    <3>1. PICK m \in Eventful : m < top /\ At(m, "MakerTx", id)
      BY <1>10, <2>1
    <3>2. m < top'
      BY <1>1, <1>4, <1>5, <3>1
    <3>3. QED BY <3>1, <3>2
  <2>2. QED BY <1>4, <1>9, <1>11, <2>1
<1>14. ASSUME NEW m \in Eventful, NEW id \in Ids, Met(m)', At(m, "MakerFinish", id)
       PROVE  id \notin localStore'
  <2>1. CASE m = n
    BY <1>11, <1>14, <2>1
  <2>2. CASE Met(m)
    <3>1. id \notin localStore /\ m < n
      BY <1>4, <1>10, <1>14, <2>2
    <3>2. ~At(n, "MakerTx", id)
      <4>1. SUFFICES ASSUME At(n, "MakerTx", id) PROVE FALSE
        OBVIOUS
      <4>2. PICK k \in 1 .. m - 1 : At(k, "MakerTx", id)
        BY <1>5, <1>14 DEF Ordered
      <4>3. k \in 1 .. Len(chain) /\ n \in 1 .. Len(chain) /\ k < n
        BY <1>4, <1>5, <3>1, <4>2
      <4>4. k = n
        BY <4>1, <4>2, <4>3 DEF Ordered
      <4>5. QED BY <1>4, <4>3, <4>4
    <3>3. QED BY <1>11, <3>1, <3>2
  <2>3. QED BY <1>7, <1>14, <2>1, <2>2
<1>15. ASSUME NEW m \in Eventful, NEW id \in Ids, m < top', At(m, "MakerTx", id)
       PROVE  \/ id \in localStore'
              \/ \E k \in Eventful : k < top' /\ At(k, "MakerFinish", id)
  <2>1. CASE m = n
    BY <1>11, <1>15, <2>1
  <2>2. CASE m < top /\ id \in localStore
    BY <1>4, <1>9, <1>11, <2>2
  <2>3. CASE m < top /\ \E k \in Eventful : k < top /\ At(k, "MakerFinish", id)
    <3>1. PICK k \in Eventful : k < top /\ At(k, "MakerFinish", id)
      BY <2>3
    <3>2. k < top'
      BY <1>1, <1>4, <1>5, <3>1
    <3>3. QED BY <3>1, <3>2
  <2>4. QED BY <1>9, <1>10, <1>15, <2>1, <2>2, <2>3
<1>16. Local'
  BY <1>1, <1>2, <1>3, <1>9, <1>12, <1>13, <1>14, <1>15 DEF Local
<1>17. QED BY <1>8, <1>16

\* What has passed was sent, and the local store follows what has met it.
LEMMA LocalStep ==
  ASSUME TypeOK, Ordered, Dead, Todo, Rising, Sent, Local, Next
  PROVE  Sent' /\ Local'
<1> SUFFICES ASSUME CallsWork' PROVE Sent' /\ Local'
  BY DEF Sent, Local
<1>a. CallsWork
  BY CallsStep
<1>1. CASE Quiet /\ (BlockNumber \/ FilterLogs \/ EventsDone \/ Stop \/ Crash \/ Restart
                     \/ UNCHANGED <<savedHeight, up, events>>)
  <2>1. UNCHANGED chain
    BY <1>1 DEF Quiet
  <2>2. \A n \in Eventful : (Passed(n)' => Passed(n)) /\ (Met(n)' => Met(n))
    BY <1>1, <1>a, <2>1, PassedKept
  <2>3. QED BY <1>1, <1>a, <2>2, QuietStep
<1>2. ASSUME NEW n \in todo, EventStore(n)
      PROVE  Sent' /\ Local'
  BY <1>a, <1>2, EventStoreStep
<1>3. ASSUME NEW n \in todo, EventSend(n)
      PROVE  Sent' /\ Local'
  BY <1>a, <1>3, EventSendStep
<1>4. ASSUME NEW e \in Event \cup {None}, Mine(e)
      PROVE  Sent' /\ Local'
  BY <1>a, <1>4, GrowStep DEF Mine
<1>5. ASSUME NEW S \in SUBSET Signers, ChangeAnchors(S)
      PROVE  Sent' /\ Local'
  BY <1>a, <1>5, GrowStep DEF ChangeAnchors
<1>6. CASE BlockNumber
  BY <1>1, <1>6 DEF BlockNumber, Quiet, ledger, disk, history
<1>7. CASE FilterLogs
  BY <1>1, <1>7 DEF FilterLogs, Quiet, ledger, disk, history
<1>8. CASE EventsDone
  BY <1>1, <1>8 DEF EventsDone, Quiet, ledger, disk, history
<1>9. CASE Stop
  BY <1>1, <1>9 DEF Stop, Quiet, ledger, history
<1>10. CASE Crash
  BY <1>1, <1>10 DEF Crash, Quiet, ledger, disk, history
<1>11. CASE Restart
  BY <1>1, <1>11 DEF Restart, Quiet, ledger, disk, history
<1>12. CASE ReadAnchors
  BY <1>1, <1>12 DEF ReadAnchors, Quiet, ledger, disk, history
<1>13. CASE ReceiveOrder
  BY <1>1, <1>13 DEF ReceiveOrder, Quiet, ledger
<1>14. CASE ReceiveReceipt
  BY <1>1, <1>14 DEF ReceiveReceipt, Quiet, ledger, disk
<1>15. CASE Drain
  BY <1>1, <1>15 DEF Drain, Quiet, ledger, disk
<1>16. ASSUME NEW m \in Message, Arrive(m)
       PROVE  Sent' /\ Local'
  BY <1>1, <1>16 DEF Arrive, Quiet, ledger, disk, history
<1>17. QED
  BY <1>2, <1>3, <1>4, <1>5, <1>6, <1>7, <1>8, <1>9, <1>10, <1>11, <1>12, <1>13, <1>14, <1>15, <1>16
  DEF Next, GetEvents

\* A TakerTx handled deletes its order from the remote store; a copy stored
\* afterwards is one that came late (EventLog, loop).
LEMMA RemoteStep ==
  ASSUME TypeOK, Dead, Todo, Rising, Local, Remote, Next
  PROVE  Remote'
<1> SUFFICES ASSUME CallsWork' PROVE Remote'
  BY DEF Remote
<1>a. CallsWork
  BY CallsStep
<1>b. \A n \in Eventful :
        n < top /\ chain[n].kind = "TakerTx" /\ remoteStore[chain[n].id] # None => chain[n].id \in late
  BY <1>a DEF Remote
<1>c. remoteStore \in [AllIds -> Signers \cup {None}]
  BY DEF TypeOK
<1>d. \A n \in Eventful : chain[n].kind = "TakerTx" =>
        chain[n].id \in AllIds /\ chain[n] = [kind |-> "TakerTx", id |-> chain[n].id]
  BY EventfulFacts DEF Event, LocalKinds, AllIds
<1>1. CASE UNCHANGED <<chain, top, remoteStore, late>>
  BY <1>b, <1>1 DEF Remote, Eventful
<1>2. ASSUME NEW n \in todo, EventStore(n)
      PROVE  Remote'
  <2>1. /\ UNCHANGED chain /\ up /\ pc = "log" /\ First(n) /\ StoreEvent(chain[n])
        /\ top' = (IF n >= top THEN n + 1 ELSE top)
        /\ late' = (IF chain[n].kind = "TakerTx" THEN late \ {chain[n].id} ELSE late)
    BY <1>2, <1>a DEF EventStore, ledger, Fault, CallsWork
  <2>2. Eventful' = Eventful
    BY <2>1 DEF Eventful
  <2>3. /\ n \in Eventful /\ n \in Nat /\ \A m \in Eventful : m < n => Met(m) /\ m < top
        /\ top \in Nat /\ Eventful \subseteq Nat
    BY <1>a, <2>1, NextEvent, Numbers
  <2>4. ASSUME NEW m \in Eventful, m < top'
        PROVE  m < top \/ m = n
    BY <2>1, <2>3, <2>4
  <2>5. ASSUME NEW m \in Eventful, m < top', chain[m].kind = "TakerTx", remoteStore'[chain[m].id] # None
        PROVE  chain[m].id \in late'
    <3>1. chain[m].id \in AllIds /\ (chain[n].kind = "TakerTx" => chain[n].id \in AllIds)
      BY <1>d, <2>3, <2>5
    <3>2. CASE chain[n].kind = "TakerTx"
      <4>1. remoteStore' = [remoteStore EXCEPT ![chain[n].id] = None]
        BY <2>1, <3>2 DEF StoreEvent
      <4>2. chain[m].id # chain[n].id
        BY <1>c, <2>5, <3>1, <3>2, <4>1
      <4>3. remoteStore'[chain[m].id] = remoteStore[chain[m].id] /\ m < top
        BY <1>c, <2>4, <2>5, <3>1, <4>1, <4>2
      <4>4. QED BY <1>b, <2>1, <2>5, <4>2, <4>3
    <3>3. CASE chain[n].kind # "TakerTx"
      <4>1. remoteStore' = remoteStore /\ late' = late
        BY <2>1, <3>3 DEF StoreEvent
      <4>2. m < top
        BY <2>4, <2>5, <3>3
      <4>3. QED BY <1>b, <2>5, <4>1, <4>2
    <3>4. QED BY <3>2, <3>3
  <2>6. QED BY <2>1, <2>2, <2>5 DEF Remote
<1>3. CASE ReceiveOrder
  <2>1. PICK m : m = Head(messageCh)
    OBVIOUS
  <2>2. UNCHANGED <<chain, top>> /\ messageCh # <<>>
    BY <1>3 DEF ReceiveOrder, Received, ledger
  <2>3. m.id \in AllIds
    BY <2>1, <2>2, HeadFacts DEF Message
  <2>4. Eventful' = Eventful /\ Eventful \subseteq 1 .. Len(chain)
    BY <2>2 DEF Eventful
  <2>5. CASE UNCHANGED <<remoteStore, late>>
    BY <1>1, <2>2, <2>5
  <2>6. CASE /\ remoteStore' = [remoteStore EXCEPT ![m.id] = m.from]
             /\ late' = IF \E n \in 1 .. Len(chain) :
                             n < top /\ chain[n] = [kind |-> "TakerTx", id |-> m.id]
                        THEN late \cup {m.id} ELSE late
    <3>1. ASSUME NEW n \in Eventful, n < top, chain[n].kind = "TakerTx", remoteStore'[chain[n].id] # None
          PROVE  chain[n].id \in late'
      <4>1. CASE chain[n].id = m.id
        BY <1>d, <2>4, <2>6, <3>1, <4>1
      <4>2. CASE chain[n].id # m.id
        <5>1. remoteStore'[chain[n].id] = remoteStore[chain[n].id]
          BY <1>c, <1>d, <2>3, <2>6, <3>1, <4>2
        <5>2. QED BY <1>b, <2>6, <3>1, <5>1
      <4>3. QED BY <4>1, <4>2
    <3>2. QED BY <2>2, <2>4, <3>1 DEF Remote
  <2>7. QED BY <1>3, <2>1, <2>5, <2>6 DEF ReceiveOrder
<1>4. ASSUME Len(chain) < MaxHead, NEW e \in Event \cup {None}, chain' = Append(chain, e),
             UNCHANGED <<top, remoteStore, late>>
      PROVE  Remote'
  <2>1. /\ \A n \in 1 .. Len(chain) : chain'[n] = chain[n]
        /\ Eventful' \subseteq Eventful \cup {Len(chain) + 1} /\ Eventful \subseteq 1 .. Len(chain)
    BY <1>4, Grow DEF Eventful
  <2>2. top <= Len(chain) /\ top \in Nat /\ Len(chain) \in Nat
    BY <1>a, Numbers DEF Local
  <2>3. ASSUME NEW n \in Eventful', n < top
        PROVE  n \in Eventful /\ chain'[n] = chain[n]
    BY <2>1, <2>2, <2>3
  <2>4. QED BY <1>b, <1>4, <2>3 DEF Remote
<1>5. ASSUME NEW e \in Event \cup {None}, Mine(e)
      PROVE  Remote'
  BY <1>4, <1>5 DEF Mine, disk, history
<1>6. ASSUME NEW S \in SUBSET Signers, ChangeAnchors(S)
      PROVE  Remote'
  BY <1>4, <1>6 DEF ChangeAnchors, disk, history
<1>7. QED
  BY <1>1, <1>2, <1>3, <1>5, <1>6
  DEF Next, GetEvents, BlockNumber, FilterLogs, EventsDone, EventSend, ReadAnchors, ReceiveReceipt,
      Drain, Stop, Crash, Restart, Arrive, ledger, disk, history

-----------------------------------------------------------------------------
(* The inductive invariant. *)

\* A hub that was never started has stored and sent nothing (New).
LEMMA InitIInv == Init => IInv
<1> SUFFICES ASSUME Init PROVE IInv
  OBVIOUS
<1>1. /\ StartHead \in Nat /\ MaxHead \in Nat /\ StartHead <= MaxHead /\ Word - 1 \in Nat
      /\ EventCap \in Nat /\ MessageCap \in Nat /\ Window \in Nat /\ Window >= 1
  BY ViewerAssumption DEF ViewerAssumption
<1>2. chain \in Seq(Event \cup {None}) /\ Len(chain) = StartHead /\ Eventful = {}
  <2>1. chain = [n \in 1 .. StartHead |-> None]
    BY DEF Init
  <2>2. chain \in Seq(Event \cup {None}) /\ Len(chain) = StartHead
    BY <1>1, <2>1
  <2>3. Eventful = {}
    BY <2>1, <2>2 DEF Eventful
  <2>4. QED BY <2>2, <2>3
<1>3. eventCh \in Seq(1 .. Len(chain)) /\ Len(eventCh) <= EventCap
      /\ messageCh \in Seq(Message) /\ Len(messageCh) <= MessageCap
  BY <1>1 DEF Init
<1>4. TypeOK
  <2>1. 0 \in 0 .. Word - 1 /\ 0 \in 0 .. MaxHead + 1 /\ Len(chain) \in StartHead .. MaxHead
    BY <1>1, <1>2
  <2>2. remoteStore \in [AllIds -> Signers \cup {None}]
    BY DEF Init
  <2>3. QED BY <1>2, <1>3, <2>1, <2>2 DEF Init, TypeOK
<1>5. Ordered
  BY <1>2 DEF Ordered, At
<1>6. Anchored /\ Dead /\ Todo /\ ActedForAnchors
  BY <1>2 DEF Init, Anchored, Dead, Todo, ActedForAnchors
<1>7. Rising
  BY <1>1, <1>2 DEF Init, Rising, CallsWork
<1>8. Sent /\ Local /\ Remote
  BY <1>1, <1>2 DEF Init, Sent, Local, Remote
<1>9. QED BY <1>4, <1>5, <1>6, <1>7, <1>8 DEF IInv

\* Every step of the hub, of the chain and of the other hubs, and every death
\* and restart, keeps the invariant.
LEMMA NextIInv == IInv /\ [Next]_vars => IInv'
<1> SUFFICES ASSUME IInv, [Next]_vars PROVE IInv'
  OBVIOUS
<1>1. CASE Next
  <2>1. TypeOK /\ Ordered /\ Anchored /\ Dead /\ Todo /\ Rising /\ Sent /\ Local /\ Remote
        /\ ActedForAnchors
    BY DEF IInv
  <2>2. TypeOK'
    BY <1>1, <2>1, TypeStep
  <2>3. Ordered' /\ Anchored'
    BY <1>1, <2>1, OrderedStep, AnchoredStep
  <2>4. Dead' /\ Todo'
    BY <1>1, <2>1, TodoStep
  <2>5. Rising'
    BY <1>1, <2>1, RisingStep
  <2>6. Sent' /\ Local'
    BY <1>1, <2>1, LocalStep
  <2>7. Remote'
    BY <1>1, <2>1, RemoteStep
  <2>8. ActedForAnchors'
    BY <1>1, <2>1, ActedStep
  <2>9. QED BY <2>2, <2>3, <2>4, <2>5, <2>6, <2>7, <2>8 DEF IInv
<1>2. CASE UNCHANGED vars
  <2>1. TypeOK' /\ Anchored' /\ Dead' /\ Todo'
    <3>1. TypeOK'
      BY <1>2 DEF IInv, TypeOK, vars, ledger, disk, events, hub, history, counts
    <3>2. Anchored' /\ Dead' /\ Todo'
      BY <1>2 DEF IInv, Eventful, Anchored, Dead, Todo, vars, ledger, events
    <3>3. QED BY <3>1, <3>2
  <2>2. Ordered'
    BY <1>2 DEF IInv, Ordered, At, Eventful, vars, ledger
  <2>3. Rising' /\ Sent' /\ Local' /\ Remote'
    BY <1>2 DEF IInv, Rising, Sent, Local, Remote, At, Eventful, Passed, Met, First, CallsWork,
                vars, ledger, disk, events, hub, history, counts
  <2>4. ActedForAnchors'
    BY <1>2 DEF IInv, ActedForAnchors, vars, ledger, disk, history
  <2>5. QED BY <2>1, <2>3, <2>4, <2>2 DEF IInv
<1>3. QED BY <1>1, <1>2

\* The invariant holds of every run of the viewer, its types among it.
THEOREM IInvHolds == Spec => []IInv
<1>1. QED BY InitIInv, NextIInv, PTL DEF Spec

-----------------------------------------------------------------------------
(* The properties. *)

\* Whatever fails, an order is stored and a receipt answered only for an address
\* the contract has listed as an anchor (loop, GetAnchors).
THEOREM ActedForAnchorsHolds == Spec => []ActedForAnchors
<1>1. IInv => ActedForAnchors
  BY DEF IInv
<1>2. QED BY <1>1, IInvHolds, PTL

\* While no call fails, no event below the height the hub resumes from, in
\* memory or on disk, is ever passed by, over any deaths and restarts
\* (GetEvents, Stop).
THEOREM EventsCoveredHolds == Spec => []EventsCovered
<1>1. IInv => EventsCovered
  <2> SUFFICES ASSUME IInv, CallsWork, NEW n \in Eventful, n < height \/ n < savedHeight
               PROVE  n \in queued
    BY DEF EventsCovered
  <2>1. /\ TypeOK /\ Dead /\ Todo /\ Sent
        /\ up => savedHeight <= height
        /\ pc # "loop" => height <= toBlock + 1 /\ toBlock < Len(chain)
        /\ pc \in {"log", "send"} => \A m \in todo : height <= m /\ m <= toBlock
    BY DEF IInv, Rising
  <2>2. n \in Nat /\ height \in Nat /\ savedHeight \in Nat /\ toBlock \in Nat
    BY <2>1, Numbers
  <2>3. CASE ~up
    BY <2>1, <2>2, <2>3 DEF Dead, Sent, Passed
  <2>4. CASE up /\ pc \in {"loop", "filter"}
    <3>1. n < height
      BY <2>1, <2>2, <2>4
    <3>2. Passed(n)
      BY <2>4, <3>1 DEF Passed
    <3>3. QED BY <2>1, <3>2 DEF Sent
  <2>5. CASE up /\ pc \in {"log", "send"}
    <3>1. n < height
      BY <2>1, <2>2, <2>5
    <3>2. n <= toBlock /\ n \notin todo
      BY <2>1, <2>2, <2>5, <3>1
    <3>3. Passed(n)
      BY <2>5, <3>2 DEF Passed
    <3>4. QED BY <2>1, <3>3 DEF Sent
  <2>6. QED BY <2>1, <2>3, <2>4, <2>5 DEF TypeOK
<1>2. QED BY <1>1, IInvHolds, PTL

\* Between two rounds the local store is what the chain below the height says,
\* also when a restart has replayed events that were handled before (EventLog).
THEOREM LocalMirrorsChainHolds == Spec => []LocalMirrorsChain
<1>1. IInv => LocalMirrorsChain
  <2> SUFFICES ASSUME IInv, CallsWork, up, pc = "loop", height >= top
               PROVE  localStore = Seen("MakerTx", height) \ Seen("MakerFinish", height)
    BY DEF LocalMirrorsChain
  <2>1. TypeOK /\ Local
    BY DEF IInv
  <2>2. height \in Nat /\ top \in Nat /\ Eventful \subseteq Nat
    BY <2>1, Numbers
  <2>3. \A n \in Eventful : n < height => Met(n) /\ n < top
    BY <2>1 DEF Met, Passed, Local
  <2>4. \A n \in Eventful : n < top => n < height
    BY <2>2
  <2>5. \A kind, id : id \in Seen(kind, height) <=> \E n \in Eventful : n < height /\ At(n, kind, id)
    BY DEF Seen, At
  <2>6. localStore \subseteq Ids
    BY <2>1 DEF TypeOK
  <2>7. \A n \in Eventful : chain[n].kind = "MakerTx" => chain[n].id \in Ids
    BY <2>1, EventfulFacts DEF Event
  <2>8. ASSUME NEW id \in localStore
        PROVE  id \in Seen("MakerTx", height) /\ id \notin Seen("MakerFinish", height)
    <3>1. id \in Seen("MakerTx", height)
      BY <2>1, <2>4, <2>5, <2>8 DEF Local
    <3>2. id \notin Seen("MakerFinish", height)
      BY <2>1, <2>3, <2>5, <2>6, <2>8 DEF Local
    <3>3. QED BY <3>1, <3>2
  <2>9. ASSUME NEW id \in Seen("MakerTx", height), id \notin Seen("MakerFinish", height)
        PROVE  id \in localStore
    <3>1. PICK n \in Eventful : n < height /\ At(n, "MakerTx", id)
      BY <2>5, <2>9
    <3>2. id \in Ids /\ n < top
      BY <2>3, <2>7, <3>1 DEF At
    <3>3. id \in localStore \/ \E m \in Eventful : m < top /\ At(m, "MakerFinish", id)
      BY <2>1, <3>1, <3>2 DEF Local
    <3>4. QED BY <2>4, <2>5, <2>9, <3>3
  <2>10. QED BY <2>8, <2>9
<1>2. QED BY <1>1, IInvHolds, PTL

\* An order taken on SimpleChain stays in the remote store only as a copy that
\* arrived after its TakerTx was handled (EventLog, loop).
THEOREM TakenNotKeptHolds == Spec => []TakenNotKept
<1>1. IInv => TakenNotKept
  BY DEF IInv, Remote, TakenNotKept, Seen
<1>2. QED BY <1>1, IInvHolds, PTL
=============================================================================
