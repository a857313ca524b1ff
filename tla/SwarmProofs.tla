---------------------------- MODULE SwarmProofs ----------------------------
(***************************************************************************)
(* Proofs about Swarm, for any hubs, capacities, time-outs, failing calls   *)
(* and crashes.                                                            *)
(***************************************************************************)
EXTENDS Swarm, TLAPS

Places == {"connect", "send", "wait", "close", "done"}

\* The goroutine for b only comes to close the connection and store b as
\* connected after it verified b's certificates (verifyCert).
ClosesVerified == \A p \in Pairs : dial[p] = "close" => p \in trusted

IInv ==
  /\ trusted \subseteq Pairs
  /\ dial \in [Pairs -> Places]
  /\ connected \in [Hubs -> SUBSET Hubs]
  /\ ClosesVerified
  /\ OnlyTrustedConnected

\* Before any hub was started nobody is connected (swarm.go, New).
LEMMA InitIInv == Init => IInv
  BY DEF Init, Trust, IInv, Places, ClosesVerified, OnlyTrustedConnected

\* A move of the goroutine for b other than to "close" keeps the invariant.
LEMMA GotoElsewhere ==
  ASSUME IInv, NEW p \in Pairs, NEW place \in Places \ {"close"},
         Goto(p, place), UNCHANGED <<trusted, connected>>
  PROVE  IInv'
  BY DEF IInv, Goto, Places, ClosesVerified, OnlyTrustedConnected, Pairs

\* Steps that touch no peer keep the invariant.
LEMMA PeersUnchanged == IInv /\ UNCHANGED <<trusted, dial, connected>> => IInv'
  BY DEF IInv, ClosesVerified, OnlyTrustedConnected

\* Each step of the goroutine of a for b keeps the invariant (tryConnect,
\* verifyCert).
LEMMA DialStep == ASSUME IInv, NEW p \in Pairs, Dial(p) PROVE IInv'
<1>1. CASE Connect(p)
  BY <1>1, GotoElsewhere DEF Connect, Places
<1>2. CASE SendCert(p)
  BY <1>2, GotoElsewhere DEF SendCert, Places
<1>3. CASE ReplyRead(p)
  <2>1. CASE Verified(p)
    BY <1>3, <2>1 DEF ReplyRead, Goto, Verified, IInv, Places, ClosesVerified, OnlyTrustedConnected
  <2>2. CASE ~Verified(p)
    BY <1>3, <2>2, GotoElsewhere DEF ReplyRead, Places
  <2> QED BY <2>1, <2>2
<1>4. CASE WaitFails(p)
  BY <1>4, GotoElsewhere DEF WaitFails, Places
<1>5. CASE WaitTimeout(p)
  BY <1>5, GotoElsewhere DEF WaitTimeout, Places
<1>6. CASE Disconnect(p)
  <2>1. p = <<p[1], p[2]>> /\ p[1] \in Hubs /\ p[2] \in Hubs /\ p \in trusted
    BY <1>6 DEF Disconnect, Pairs, IInv, ClosesVerified
  <2>2. UNCHANGED trusted
    BY <1>6 DEF Disconnect
  <2>3. dial' \in [Pairs -> Places] /\ ClosesVerified'
    BY <1>6, <2>2 DEF Disconnect, Goto, IInv, Places, ClosesVerified
  <2>4. connected' \in [Hubs -> SUBSET Hubs] /\ OnlyTrustedConnected'
    BY <1>6, <2>1, <2>2 DEF Disconnect, IInv, OnlyTrustedConnected
  <2> QED BY <2>2, <2>3, <2>4 DEF IInv
<1>7. CASE DisconnectFails(p)
  BY <1>7, GotoElsewhere DEF DisconnectFails, Places
<1> QED BY <1>1, <1>2, <1>3, <1>4, <1>5, <1>6, <1>7 DEF Dial

\* A handler stores the sender of a certificate as connected only after
\* verifying it; messages change no peer (handleMessage).
LEMMA HandleStep == ASSUME IInv, NEW p \in Pairs, Handle(p) PROVE IInv'
<1>1. CASE HandleCert(p)
  <2>1. p[1] \in Hubs /\ p[2] \in Hubs /\ Back(p) = <<p[2], p[1]>>
    BY DEF Pairs, Back
  <2>2. UNCHANGED <<trusted, dial>> /\ ClosesVerified'
    BY <1>1 DEF HandleCert, IInv, ClosesVerified
  <2>3. connected' = [connected EXCEPT ![p[2]] = IF Back(p) \in trusted THEN @ \cup {p[1]} ELSE @]
    BY <1>1 DEF HandleCert, Verified
  <2>4. connected' \in [Hubs -> SUBSET Hubs] /\ OnlyTrustedConnected'
    BY <2>1, <2>2, <2>3 DEF IInv, OnlyTrustedConnected
  <2> QED BY <2>2, <2>4 DEF IInv
<1>2. CASE HandleMessage(p)
  BY <1>2, PeersUnchanged DEF HandleMessage, peers
<1> QED BY <1>1, <1>2 DEF Handle

\* A crash forgets the connected peers and starts dialling anew.
LEMMA CrashStep == ASSUME IInv, NEW h \in Hubs, Crash(h) PROVE IInv'
<1>1. UNCHANGED trusted /\ connected' = [connected EXCEPT ![h] = {}]
  BY DEF Crash
<1>2. dial' = [p \in Pairs |-> IF p[1] = h THEN "connect" ELSE dial[p]]
  BY DEF Crash
<1>3. dial' \in [Pairs -> Places] /\ ClosesVerified'
  BY <1>1, <1>2 DEF IInv, Places, ClosesVerified
<1>4. connected' \in [Hubs -> SUBSET Hubs] /\ OnlyTrustedConnected'
  BY <1>1 DEF IInv, OnlyTrustedConnected
<1> QED BY <1>1, <1>3, <1>4 DEF IInv

\* Every step of the network keeps the invariant.
LEMMA NextIInv == IInv /\ [Next]_vars => IInv'
<1> SUFFICES ASSUME IInv, [Next]_vars PROVE IInv' OBVIOUS
<1>1. ASSUME NEW p \in Pairs, Dial(p) PROVE IInv'
  BY <1>1, DialStep
<1>2. ASSUME NEW p \in Pairs, Handle(p) PROVE IInv'
  BY <1>2, HandleStep
<1>3. ASSUME NEW p \in Pairs,
             Send(p) \/ SendTimeout(p) \/ LeakedRead(p) \/ Tear(p) \/ Reset(p) \/ Notice(p)
      PROVE  IInv'
  BY <1>3, PeersUnchanged
     DEF Send, SendTo, SendFails, SendTimeout, LeakedRead, Tear, Reset, Notice, peers
<1>4. ASSUME NEW p \in Pairs, Collide(p) PROVE IInv'
  BY <1>4, GotoElsewhere DEF Collide, Places
<1>5. ASSUME NEW h \in Hubs, Take(h) \/ Consume(h) \/ Restart(h) PROVE IInv'
  BY <1>5, PeersUnchanged DEF Take, Consume, Restart, peers
<1>6. ASSUME NEW h \in Hubs, Crash(h) PROVE IInv'
  BY <1>6, CrashStep
<1>7. CASE UNCHANGED vars
  BY <1>7, PeersUnchanged DEF vars, peers
<1> QED BY <1>1, <1>2, <1>3, <1>4, <1>5, <1>6, <1>7 DEF Next

\* The invariant holds in every reachable state.
THEOREM IInvHolds == Spec => []IInv
  BY InitIInv, NextIInv, PTL DEF Spec

\* Whoever dials, answers late, crashes or collides: a hub is stored as
\* connected, and so sent to, only if its certificates were verified.
THEOREM OnlyVerifiedPeers == Spec => []OnlyTrustedConnected
<1>1. IInv => OnlyTrustedConnected
  BY DEF IInv
<1> QED BY <1>1, IInvHolds, PTL

-----------------------------------------------------------------------------
(* Types. *)

PeerType ==
  /\ trusted \subseteq Pairs /\ up \in [Hubs -> BOOLEAN]
  /\ dial \in [Pairs -> Places] /\ connected \in [Hubs -> SUBSET Hubs]
StreamType ==
  /\ stream \in [Pairs -> States]
  /\ wire \in [Pairs -> Seq(Messages \cup {CertFrame})]
  /\ old \in [Pairs -> Seq(Messages \cup {CertFrame})]
  /\ \A p \in Pairs : Len(wire[p]) <= WireCap /\ Len(old[p]) <= WireCap
  /\ replies \in [Pairs -> Nat] /\ leaked \in [Pairs -> BOOLEAN] /\ torn \in [Pairs -> BOOLEAN]
  /\ \A p \in Pairs : ~Open(p) => wire[p] = <<>> /\ replies[p] = 0 /\ ~leaked[p] /\ ~torn[p]
TrafficType ==
  /\ outgoing \in [Hubs -> [msg : Messages \cup {CertFrame}, to : SUBSET Hubs]]
  /\ inbox \in [Hubs -> Seq(Messages)] /\ \A h \in Hubs : Len(inbox[h]) <= InboxCap
  /\ next \in 1 .. MaxMessages + 1
  /\ arrived \in [Pairs -> Seq(Messages)]
  /\ carried \in [Pairs -> BOOLEAN] /\ lateLoss \in [Pairs -> Nat]
CountType == timeouts \in Nat /\ faults \in Nat /\ crashes \in Nat

\* The parts of TypeOK, each carried through by itself.
LEMMA TypeParts == TypeOK <=> PeerType /\ StreamType /\ TrafficType /\ CountType
BY DEF TypeOK, PeerType, StreamType, TrafficType, CountType, Places

\* A pair is of two hubs, and so is the pair back.
LEMMA PairFacts ==
  ASSUME NEW p \in Pairs
  PROVE  p[1] \in Hubs /\ p[2] \in Hubs /\ p = <<p[1], p[2]>> /\ Back(p) \in Pairs /\ Back(Back(p)) = p
BY DEF Pairs, Back

\* A stream in its place.
LEMMA StreamAt ==
  ASSUME StreamType, NEW p \in Pairs
  PROVE  /\ stream[p] \in States
         /\ wire[p] \in Seq(Messages \cup {CertFrame}) /\ old[p] \in Seq(Messages \cup {CertFrame})
         /\ Len(wire[p]) <= WireCap /\ Len(old[p]) <= WireCap
         /\ replies[p] \in Nat /\ leaked[p] \in BOOLEAN /\ torn[p] \in BOOLEAN
         /\ ~Open(p) => wire[p] = <<>> /\ replies[p] = 0 /\ ~leaked[p] /\ ~torn[p]
BY DEF StreamType

\* A step that leaves each stream, if it is not open, empty and without readers
\* keeps the types.
LEMMA StreamBy ==
  ASSUME StreamType,
         stream' \in [Pairs -> States],
         wire' \in [Pairs -> Seq(Messages \cup {CertFrame})],
         old' \in [Pairs -> Seq(Messages \cup {CertFrame})],
         replies' \in [Pairs -> Nat], leaked' \in [Pairs -> BOOLEAN], torn' \in [Pairs -> BOOLEAN],
         \A p \in Pairs : Len(wire'[p]) <= WireCap /\ Len(old'[p]) <= WireCap,
         \A p \in Pairs :
           stream'[p] \notin {"live", "deaf"} =>
             wire'[p] = <<>> /\ replies'[p] = 0 /\ ~leaked'[p] /\ ~torn'[p]
  PROVE  StreamType'
BY DEF StreamType, Open

\* Emptied streams have nothing left; the others are as before.
LEMMA EmptiedFacts ==
  ASSUME StreamType, NEW P, Emptied(P)
  PROVE  /\ wire' \in [Pairs -> Seq(Messages \cup {CertFrame})] /\ replies' \in [Pairs -> Nat]
         /\ leaked' \in [Pairs -> BOOLEAN] /\ torn' \in [Pairs -> BOOLEAN]
         /\ \A p \in Pairs : p \in P => wire'[p] = <<>> /\ replies'[p] = 0 /\ ~leaked'[p] /\ ~torn'[p]
         /\ \A p \in Pairs : p \notin P => /\ wire'[p] = wire[p] /\ replies'[p] = replies[p]
                                           /\ leaked'[p] = leaked[p] /\ torn'[p] = torn[p]
<1>1. wire' \in [Pairs -> Seq(Messages \cup {CertFrame})] /\ replies' \in [Pairs -> Nat]
  BY DEF Emptied, StreamType
<1>2. leaked' \in [Pairs -> BOOLEAN] /\ torn' \in [Pairs -> BOOLEAN]
  <2>1. \A p \in Pairs : leaked[p] \in BOOLEAN /\ torn[p] \in BOOLEAN
    BY DEF StreamType
  <2>2. /\ leaked' = [p \in Pairs |-> IF p \in P THEN FALSE ELSE leaked[p]]
        /\ torn' = [p \in Pairs |-> IF p \in P THEN FALSE ELSE torn[p]]
    BY DEF Emptied
  <2>3. QED BY <2>1, <2>2, Zenon
<1>3. \A p \in Pairs : p \in P => wire'[p] = <<>> /\ replies'[p] = 0
  BY DEF Emptied
<1>4. \A p \in Pairs : p \notin P => wire'[p] = wire[p] /\ replies'[p] = replies[p]
  BY DEF Emptied
<1>5. \A p \in Pairs : p \in P => ~leaked'[p] /\ ~torn'[p]
  BY Zenon DEF Emptied
<1>6. \A p \in Pairs : p \notin P => leaked'[p] = leaked[p] /\ torn'[p] = torn[p]
  BY Zenon DEF Emptied
<1>7. QED BY <1>1, <1>2, <1>3, <1>4, <1>5, <1>6

\* What becomes of streams that break: an open one that the other side closed is
\* stale, and none is open any more (Disconnect, a crash).
LEMMA BrokenStream ==
  ASSUME StreamType, NEW P, NEW known, Broken(P, known)
  PROVE  /\ stream' \in [Pairs -> States]
         /\ \A q \in Pairs : q \notin P => stream'[q] = stream[q]
         /\ \A q \in Pairs : q \in P => stream'[q] \notin {"live", "deaf"}
         /\ \A q \in Pairs : q \in P \cap known => stream'[q] = "none"
<1>1. stream' = [p \in Pairs |->
        CASE p \notin P -> stream[p]
          [] p \in P /\ p \in known -> "none"
          [] p \in P \ known /\ Open(p) -> "stale"
          [] p \in P \ known /\ stream[p] = "none" -> "gone"
          [] OTHER -> stream[p]]
  BY DEF Broken
<1>2. ASSUME NEW q \in Pairs
      PROVE  /\ stream'[q] \in States
             /\ q \notin P => stream'[q] = stream[q]
             /\ q \in P => stream'[q] \notin {"live", "deaf"}
             /\ q \in P \cap known => stream'[q] = "none"
  <2>1. stream[q] \in States
    BY DEF StreamType
  <2>2. CASE q \notin P
    BY <1>1, <2>1, <2>2
  <2>3. CASE q \in P /\ q \in known
    BY <1>1, <2>3 DEF States
  <2>4. CASE q \in P \ known /\ Open(q)
    <3>1. stream[q] # "none"
      BY <2>4 DEF Open
    <3>2. stream'[q] = "stale"
      BY <1>1, <2>4, <3>1
    <3>3. QED BY <2>4, <3>2 DEF States
  <2>5. CASE q \in P \ known /\ stream[q] = "none"
    <3>1. ~Open(q)
      BY <2>5 DEF Open
    <3>2. stream'[q] = "gone"
      BY <1>1, <2>5, <3>1
    <3>3. QED BY <2>5, <3>2 DEF States
  <2>6. CASE q \in P \ known /\ ~Open(q) /\ stream[q] # "none"
    <3>1. stream'[q] = stream[q]
      BY <1>1, <2>6
    <3>2. QED BY <2>1, <2>6, <3>1 DEF Open
  <2>7. QED BY <2>2, <2>3, <2>4, <2>5, <2>6
<1>3. stream' \in [Pairs -> States]
  BY <1>1, <1>2
<1>4. QED BY <1>2, <1>3

\* Streams that break are empty; the others are as before.
LEMMA BrokenType ==
  ASSUME StreamType, NEW P, NEW known, Broken(P, known)
  PROVE  StreamType'
<1>1. Emptied(P) /\ old' = [p \in Pairs |-> IF p \in P THEN <<>> ELSE old[p]]
  BY DEF Broken
<1>2. old' \in [Pairs -> Seq(Messages \cup {CertFrame})]
  BY <1>1 DEF StreamType
<1>3. ASSUME NEW p \in Pairs
      PROVE  /\ Len(wire'[p]) <= WireCap /\ Len(old'[p]) <= WireCap
             /\ stream'[p] \notin {"live", "deaf"} =>
                  wire'[p] = <<>> /\ replies'[p] = 0 /\ ~leaked'[p] /\ ~torn'[p]
  <2>1. Len(<<>>) = 0 /\ 0 <= WireCap
    BY SwarmAssumption DEF SwarmAssumption
  <2>2. CASE p \in P
    <3>1. old'[p] = <<>>
      BY <1>1, <2>2
    <3>2. QED BY <1>1, <2>1, <2>2, <3>1, EmptiedFacts
  <2>3. CASE p \notin P
    <3>1. stream'[p] = stream[p] /\ old'[p] = old[p]
      BY <1>1, <2>3, BrokenStream
    <3>2. QED BY <1>1, <2>3, <3>1, EmptiedFacts, StreamAt DEF Open
  <2>4. QED BY <2>2, <2>3
<1>4. QED BY <1>1, <1>2, <1>3, EmptiedFacts, BrokenStream, StreamBy

\* Adding a frame to a stream with room, and reading the first of its frames
\* (WriteMsg, ReadMsg).
LEMMA FrameFacts ==
  ASSUME NEW w \in Seq(Messages \cup {CertFrame}), NEW m \in Messages \cup {CertFrame}, Len(w) <= WireCap
  PROVE  /\ Len(w) < WireCap => /\ Append(w, m) \in Seq(Messages \cup {CertFrame})
                                /\ Len(Append(w, m)) <= WireCap
         /\ w # <<>> => /\ Tail(w) \in Seq(Messages \cup {CertFrame}) /\ Len(Tail(w)) <= WireCap
                        /\ Head(w) \in Messages \cup {CertFrame}
<1>1. WireCap \in Nat
  BY SwarmAssumption DEF SwarmAssumption
<1>2. ASSUME Len(w) < WireCap
      PROVE  Append(w, m) \in Seq(Messages \cup {CertFrame}) /\ Len(Append(w, m)) <= WireCap
  BY <1>1, <1>2
<1>3. ASSUME w # <<>>
      PROVE  /\ Tail(w) \in Seq(Messages \cup {CertFrame}) /\ Len(Tail(w)) <= WireCap
             /\ Head(w) \in Messages \cup {CertFrame}
  BY <1>1, <1>3
<1>4. QED BY <1>2, <1>3

\* A frame is written to a stream with room (WriteMsg).
LEMMA WriteType ==
  ASSUME StreamType, NEW p \in Pairs, NEW m \in Messages \cup {CertFrame}, Write(p, m),
         UNCHANGED <<old, replies, leaked, torn>>
  PROVE  StreamType'
<1>1. PICK w : w = Append(wire[p], m)
  OBVIOUS
<1>2. /\ Len(wire[p]) < WireCap
      /\ stream' = [stream EXCEPT ![p] = "live"] /\ wire' = [wire EXCEPT ![p] = w]
  BY <1>1 DEF Write
<1>3. w \in Seq(Messages \cup {CertFrame}) /\ Len(w) <= WireCap
  BY <1>1, <1>2, FrameFacts, StreamAt
<1>4. stream' \in [Pairs -> States] /\ wire' \in [Pairs -> Seq(Messages \cup {CertFrame})]
  BY <1>2, <1>3 DEF StreamType, States
<1>5. ASSUME NEW q \in Pairs
      PROVE  /\ Len(wire'[q]) <= WireCap
             /\ stream'[q] \notin {"live", "deaf"} => wire'[q] = <<>> /\ ~Open(q)
  <2>1. CASE q = p
    BY <1>2, <1>3, <2>1 DEF StreamType
  <2>2. CASE q # p
    <3>1. stream'[q] = stream[q] /\ wire'[q] = wire[q]
      BY <1>2, <2>2 DEF StreamType
    <3>2. QED BY <3>1, StreamAt DEF Open
  <2>3. QED BY <2>1, <2>2
<1>6. ASSUME NEW q \in Pairs
      PROVE  /\ Len(wire'[q]) <= WireCap /\ Len(old'[q]) <= WireCap
             /\ stream'[q] \notin {"live", "deaf"} =>
                  wire'[q] = <<>> /\ replies'[q] = 0 /\ ~leaked'[q] /\ ~torn'[q]
  BY <1>5, StreamAt
<1>7. /\ old' \in [Pairs -> Seq(Messages \cup {CertFrame})]
      /\ replies' \in [Pairs -> Nat] /\ leaked' \in [Pairs -> BOOLEAN] /\ torn' \in [Pairs -> BOOLEAN]
  BY DEF StreamType
<1>8. QED BY <1>4, <1>6, <1>7, StreamBy

\* A write that vanishes or fails touches nothing but the state of the stream.
LEMMA StateType ==
  ASSUME StreamType, NEW p \in Pairs, UNCHANGED <<wire, old, replies, leaked, torn>>,
         \A q \in Pairs : q # p => stream'[q] = stream[q],
         stream' \in [Pairs -> States],
         stream'[p] \notin {"live", "deaf"} => ~Open(p)
  PROVE  StreamType'
<1>1. \A q \in Pairs : stream'[q] \notin {"live", "deaf"} => ~Open(q)
  BY DEF Open
<1>2. ASSUME NEW q \in Pairs
      PROVE  /\ Len(wire'[q]) <= WireCap /\ Len(old'[q]) <= WireCap
             /\ stream'[q] \notin {"live", "deaf"} =>
                  wire'[q] = <<>> /\ replies'[q] = 0 /\ ~leaked'[q] /\ ~torn'[q]
  BY <1>1, StreamAt
<1>3. /\ wire' \in [Pairs -> Seq(Messages \cup {CertFrame})] /\ old' \in [Pairs -> Seq(Messages \cup {CertFrame})]
      /\ replies' \in [Pairs -> Nat] /\ leaked' \in [Pairs -> BOOLEAN] /\ torn' \in [Pairs -> BOOLEAN]
  BY DEF StreamType
<1>4. QED BY <1>2, <1>3, StreamBy

\* What becomes of the stream then.
LEMMA VanishFacts ==
  ASSUME StreamType, NEW p \in Pairs, WriteVanishes(p)
  PROVE  /\ wire' = wire /\ stream' \in [Pairs -> States] /\ \A q \in Pairs : q # p => stream'[q] = stream[q]
         /\ stream[p] \in {"gone", "stale", "deaf"} /\ stream'[p] \in {"stale", "deaf"}
         /\ stream'[p] = "deaf" <=> stream[p] = "deaf"
<1>1. /\ stream[p] \in {"gone", "stale", "deaf"} /\ wire' = wire
      /\ stream' = [stream EXCEPT ![p] = IF stream[p] = "gone" THEN "stale" ELSE stream[p]]
  BY DEF WriteVanishes
<1>2. (IF stream[p] = "gone" THEN "stale" ELSE stream[p]) \in {"stale", "deaf"}
  BY <1>1
<1>3. QED BY <1>1, <1>2 DEF StreamType, States

\* And when the write fails: a dead one leaves the cache (streamMgr.remove).
LEMMA FailFacts ==
  ASSUME StreamType, NEW p \in Pairs, WriteFails(p),
         stream' = [stream EXCEPT ![p] = IF @ = "dead" THEN "none" ELSE @]
  PROVE  /\ stream' \in [Pairs -> States] /\ \A q \in Pairs : q # p => stream'[q] = stream[q]
         /\ stream[p] \in {"none", "gone", "dead"} /\ stream'[p] \in {"none", "gone"}
         /\ stream'[p] = "gone" => stream[p] = "gone"
<1>1. stream[p] \in {"none", "gone", "dead"}
  BY DEF WriteFails
<1>2. stream' = [stream EXCEPT ![p] = IF stream[p] = "dead" THEN "none" ELSE stream[p]]
  OBVIOUS
<1>3. (IF stream[p] = "dead" THEN "none" ELSE stream[p]) \in {"none", "gone"}
  BY <1>1
<1>4. QED BY <1>1, <1>2, <1>3 DEF StreamType, States

\* The goroutine for b leaves streams as they should be.
LEMMA DialStreams ==
  ASSUME StreamType, NEW p \in Pairs, Dial(p)
  PROVE  StreamType'
<1>1. CASE Connect(p) \/ WaitFails(p)
  BY <1>1 DEF Connect, WaitFails, streams, StreamType, Open
<1>2. CASE SendCert(p)
  <2>1. UNCHANGED <<old, replies, leaked, torn>>
    BY <1>2 DEF SendCert
  <2>2. CASE Write(p, CertFrame)
    BY <2>1, <2>2, WriteType
  <2>3. CASE WriteVanishes(p)
    BY <2>1, <2>3, VanishFacts, StateType DEF Open
  <2>4. CASE /\ WriteFails(p) /\ UNCHANGED wire
             /\ stream' = [stream EXCEPT ![p] = IF @ = "dead" THEN "none" ELSE @]
    BY <2>1, <2>4, FailFacts, StateType DEF Open
  <2>5. QED BY <1>2, <2>2, <2>3, <2>4 DEF SendCert
<1>3. CASE ReplyRead(p)
  <2>1. replies[p] > 0 /\ replies' = [replies EXCEPT ![p] = replies[p] - 1] /\ replies[p] \in Nat
        /\ UNCHANGED <<stream, wire, old, leaked, torn>>
    BY <1>3, StreamAt DEF ReplyRead
  <2>2. replies[p] - 1 \in Nat
    BY <2>1
  <2>3. Open(p)
    BY <2>1, StreamAt
  <2>4. QED BY <2>1, <2>2, <2>3 DEF StreamType, Open
<1>4. CASE WaitTimeout(p)
  <2>1. leaked' = [leaked EXCEPT ![p] = Open(p)] /\ UNCHANGED <<stream, wire, old, replies, torn>>
    BY <1>4 DEF WaitTimeout
  <2>2. Open(p) \in BOOLEAN
    BY DEF Open
  <2>3. leaked' \in [Pairs -> BOOLEAN]
    BY <2>1, <2>2, Zenon DEF StreamType
  <2>4. \A q \in Pairs : ~Open(q) => ~leaked'[q]
    <3>1. ASSUME NEW q \in Pairs, ~Open(q)
          PROVE  ~leaked'[q]
      <4>1. CASE q = p
        BY <2>1, <3>1, <4>1, Zenon DEF StreamType
      <4>2. CASE q # p
        BY <2>1, <3>1, <4>2, Zenon DEF StreamType
      <4>3. QED BY <4>1, <4>2
    <3>2. QED BY <3>1
  <2>5. \A q \in Pairs : stream'[q] \notin {"live", "deaf"} => ~Open(q)
    BY <2>1 DEF Open
  <2>6. ASSUME NEW q \in Pairs
        PROVE  /\ Len(wire'[q]) <= WireCap /\ Len(old'[q]) <= WireCap
               /\ stream'[q] \notin {"live", "deaf"} =>
                    wire'[q] = <<>> /\ replies'[q] = 0 /\ ~leaked'[q] /\ ~torn'[q]
    BY <2>1, <2>4, <2>5, StreamAt
  <2>7. /\ stream' \in [Pairs -> States] /\ wire' \in [Pairs -> Seq(Messages \cup {CertFrame})]
        /\ old' \in [Pairs -> Seq(Messages \cup {CertFrame})] /\ replies' \in [Pairs -> Nat]
        /\ torn' \in [Pairs -> BOOLEAN]
    BY <2>1 DEF StreamType
  <2>8. QED BY <2>3, <2>6, <2>7, StreamBy
<1>5. CASE Disconnect(p) \/ DisconnectFails(p)
  BY <1>5, BrokenType DEF Disconnect, DisconnectFails
<1>6. QED BY <1>1, <1>2, <1>3, <1>4, <1>5 DEF Dial

\* So do the readers that were left behind, collisions and resets.
LEMMA StrayStreams ==
  ASSUME StreamType, NEW p \in Pairs,
         LeakedRead(p) \/ Tear(p) \/ Collide(p) \/ Reset(p) \/ Notice(p)
  PROVE  StreamType'
<1>1. CASE LeakedRead(p) \/ Tear(p)
  <2>1. PICK r : r \in {0, replies[p] - 1} /\ replies' = [replies EXCEPT ![p] = r]
    BY <1>1 DEF LeakedRead, Tear
  <2>2. /\ UNCHANGED <<stream, wire, old>> /\ replies[p] > 0 /\ replies[p] \in Nat
        /\ \/ \E more \in BOOLEAN : leaked' = [leaked EXCEPT ![p] = more]
           \/ leaked' = leaked
        /\ torn' = torn \/ torn' = [torn EXCEPT ![p] = TRUE]
    BY <1>1, StreamAt DEF LeakedRead, Tear
  <2>3. Open(p) /\ r \in Nat
    BY <2>1, <2>2, StreamAt
  <2>4. replies' \in [Pairs -> Nat] /\ \A q \in Pairs : q # p => replies'[q] = replies[q]
    BY <2>1, <2>3 DEF StreamType
  <2>5. leaked' \in [Pairs -> BOOLEAN] /\ \A q \in Pairs : q # p => leaked'[q] = leaked[q]
    BY <2>2, Zenon DEF StreamType
  <2>6. torn' \in [Pairs -> BOOLEAN] /\ \A q \in Pairs : q # p => torn'[q] = torn[q]
    BY <2>2, Zenon DEF StreamType
  <2>7. ASSUME NEW q \in Pairs
        PROVE  /\ Len(wire'[q]) <= WireCap /\ Len(old'[q]) <= WireCap
               /\ stream'[q] \notin {"live", "deaf"} =>
                    wire'[q] = <<>> /\ replies'[q] = 0 /\ ~leaked'[q] /\ ~torn'[q]
    <3>1. stream'[q] \notin {"live", "deaf"} => ~Open(q) /\ q # p
      BY <2>2, <2>3 DEF Open
    <3>2. QED BY <2>2, <2>4, <2>5, <2>6, <3>1, StreamAt
  <2>8. /\ stream' \in [Pairs -> States] /\ wire' \in [Pairs -> Seq(Messages \cup {CertFrame})]
        /\ old' \in [Pairs -> Seq(Messages \cup {CertFrame})]
    BY <2>2 DEF StreamType
  <2>9. QED BY <2>4, <2>5, <2>6, <2>7, <2>8, StreamBy
<1>2. CASE Collide(p)
  <2>1. stream[p] = "live" /\ stream' = [stream EXCEPT ![p] = "deaf"] /\ UNCHANGED <<wire, old, replies, leaked, torn>>
    BY <1>2 DEF Collide
  <2>2. stream' \in [Pairs -> States] /\ stream'[p] = "deaf" /\ \A q \in Pairs : q # p => stream'[q] = stream[q]
    BY <2>1 DEF StreamType, States
  <2>3. QED BY <2>1, <2>2, StateType
<1>3. CASE Reset(p)
  <2>1. Emptied({p}) /\ stream' = [stream EXCEPT ![p] = "stale"] /\ old' = old
    BY <1>3 DEF Reset
  <2>2. stream' \in [Pairs -> States] /\ \A q \in Pairs : q # p => stream'[q] = stream[q]
    BY <2>1 DEF StreamType, States
  <2>3. ASSUME NEW q \in Pairs
        PROVE  /\ Len(wire'[q]) <= WireCap /\ Len(old'[q]) <= WireCap
               /\ stream'[q] \notin {"live", "deaf"} =>
                    wire'[q] = <<>> /\ replies'[q] = 0 /\ ~leaked'[q] /\ ~torn'[q]
    <3>1. Len(<<>>) = 0 /\ 0 <= WireCap
      BY SwarmAssumption DEF SwarmAssumption
    <3>2. CASE q = p
      BY <2>1, <3>1, <3>2, EmptiedFacts, StreamAt
    <3>3. CASE q # p
      <4>1. q \notin {p} /\ stream'[q] = stream[q] /\ old'[q] = old[q]
        BY <2>1, <2>2, <3>3
      <4>2. QED BY <2>1, <4>1, EmptiedFacts, StreamAt DEF Open
    <3>4. QED BY <3>2, <3>3
  <2>4. old' \in [Pairs -> Seq(Messages \cup {CertFrame})]
    BY <2>1 DEF StreamType
  <2>5. QED BY <2>1, <2>2, <2>3, <2>4, EmptiedFacts, StreamBy
<1>4. CASE Notice(p)
  <2>1. /\ stream[p] \in {"stale", "gone"} /\ UNCHANGED <<wire, old, replies, leaked, torn>>
        /\ stream' = [stream EXCEPT ![p] = IF stream[p] = "stale" THEN "dead" ELSE "none"]
    BY <1>4 DEF Notice
  <2>2. stream' \in [Pairs -> States] /\ \A q \in Pairs : q # p => stream'[q] = stream[q]
    BY <2>1 DEF StreamType, States
  <2>3. ~Open(p)
    BY <2>1 DEF Open
  <2>4. QED BY <2>1, <2>2, <2>3, StateType
<1>5. QED BY <1>1, <1>2, <1>3, <1>4

\* So do the broadcaster and the handlers.
LEMMA SendStreams ==
  ASSUME StreamType, TrafficType, NEW p \in Pairs, Send(p) \/ SendTimeout(p) \/ Handle(p)
  PROVE  StreamType'
<1>1. CASE SendTo(p)
  <2>1. outgoing[p[1]].msg \in Messages \cup {CertFrame} /\ UNCHANGED <<old, replies, leaked, torn>>
    BY <1>1, PairFacts DEF SendTo, TrafficType
  <2>2. CASE Write(p, outgoing[p[1]].msg)
    BY <2>1, <2>2, WriteType
  <2>3. CASE WriteVanishes(p)
    BY <2>1, <2>3, VanishFacts, StateType DEF Open
  <2>4. QED BY <1>1, <2>2, <2>3 DEF SendTo
<1>2. CASE SendFails(p)
  <2>1. /\ WriteFails(p) /\ stream' = [stream EXCEPT ![p] = IF @ = "dead" THEN "none" ELSE @]
        /\ UNCHANGED <<wire, old, replies, leaked, torn>>
    BY <1>2 DEF SendFails
  <2>2. QED BY <2>1, FailFacts, StateType DEF Open
<1>3. CASE SendTimeout(p)
  <2>1. PICK w : w = wire[p]
    OBVIOUS
  <2>2. w \in Seq(Messages \cup {CertFrame}) /\ Len(w) <= WireCap
    BY <2>1, StreamAt
  <2>3. /\ stream' = [stream EXCEPT ![p] = "none"] /\ wire' = [wire EXCEPT ![p] = <<>>]
        /\ old' = [old EXCEPT ![p] = w] /\ replies' = [replies EXCEPT ![p] = 0]
        /\ leaked' = [leaked EXCEPT ![p] = FALSE] /\ torn' = [torn EXCEPT ![p] = FALSE]
    BY <1>3, <2>1 DEF SendTimeout
  <2>4. Len(<<>>) = 0 /\ 0 <= WireCap /\ <<>> \in Seq(Messages \cup {CertFrame})
    BY SwarmAssumption DEF SwarmAssumption
  <2>5. /\ stream' \in [Pairs -> States] /\ replies' \in [Pairs -> Nat]
        /\ wire' \in [Pairs -> Seq(Messages \cup {CertFrame})]
        /\ old' \in [Pairs -> Seq(Messages \cup {CertFrame})]
    BY <2>2, <2>3 DEF StreamType, States
  <2>6. leaked' \in [Pairs -> BOOLEAN] /\ torn' \in [Pairs -> BOOLEAN] /\ ~leaked'[p] /\ ~torn'[p]
        /\ \A q \in Pairs : q # p => leaked'[q] = leaked[q] /\ torn'[q] = torn[q]
    BY <2>3, Zenon DEF StreamType
  <2>7. ASSUME NEW q \in Pairs
        PROVE  /\ Len(wire'[q]) <= WireCap /\ Len(old'[q]) <= WireCap
               /\ stream'[q] \notin {"live", "deaf"} =>
                    wire'[q] = <<>> /\ replies'[q] = 0 /\ ~leaked'[q] /\ ~torn'[q]
    <3>1. CASE q = p
      BY <2>2, <2>3, <2>4, <2>6, <3>1 DEF StreamType
    <3>2. CASE q # p
      <4>1. wire'[q] = wire[q] /\ old'[q] = old[q] /\ stream'[q] = stream[q] /\ replies'[q] = replies[q]
        BY <2>3, <3>2 DEF StreamType
      <4>2. QED BY <2>6, <3>2, <4>1, StreamAt DEF Open
    <3>3. QED BY <3>1, <3>2
  <2>8. QED BY <2>5, <2>6, <2>7, StreamBy
<1>4. CASE Handle(p)
  <2>1. UNCHANGED <<stream, leaked, torn>>
    BY <1>4 DEF Handle, HandleCert, HandleMessage
  <2>2. PICK w, o : w = Tail(wire[p]) /\ o = Tail(old[p])
    OBVIOUS
  <2>3. /\ wire[p] # <<>> => w \in Seq(Messages \cup {CertFrame}) /\ Len(w) <= WireCap
        /\ old[p] # <<>> => o \in Seq(Messages \cup {CertFrame}) /\ Len(o) <= WireCap
    <3>1. wire[p] # <<>> => w \in Seq(Messages \cup {CertFrame}) /\ Len(w) <= WireCap
      BY <2>2, FrameFacts, StreamAt
    <3>2. old[p] # <<>> => o \in Seq(Messages \cup {CertFrame}) /\ Len(o) <= WireCap
      BY <2>2, FrameFacts, StreamAt
    <3>3. QED BY <3>1, <3>2
  <2>4. \/ /\ wire[p] # <<>> /\ wire' = [wire EXCEPT ![p] = w] /\ old' = old
           /\ (replies' = replies \/ replies' = [replies EXCEPT ![p] = replies[p] + 1])
        \/ /\ old[p] # <<>> /\ old' = [old EXCEPT ![p] = o] /\ wire' = wire /\ replies' = replies
    <3>1. CASE HandleCert(p)
      <4>1. replies = [replies EXCEPT ![p] = replies[p]]
        BY DEF StreamType
      <4>2. QED BY <3>1, <4>1, <2>2 DEF HandleCert, Unread
    <3>2. CASE HandleMessage(p)
      BY <3>2, <2>2 DEF HandleMessage, Unread
    <3>3. QED BY <1>4, <3>1, <3>2 DEF Handle
  <2>5. CASE /\ wire[p] # <<>> /\ wire' = [wire EXCEPT ![p] = w] /\ old' = old
             /\ (replies' = replies \/ replies' = [replies EXCEPT ![p] = replies[p] + 1])
    <3>1. Open(p) /\ replies[p] \in Nat /\ replies[p] + 1 \in Nat
      BY <2>5, StreamAt
    <3>2. QED BY <2>1, <2>3, <2>5, <3>1 DEF StreamType, Open
  <2>6. CASE old[p] # <<>> /\ old' = [old EXCEPT ![p] = o] /\ wire' = wire /\ replies' = replies
    BY <2>1, <2>3, <2>6 DEF StreamType, Open
  <2>7. QED BY <2>4, <2>5, <2>6
<1>5. QED BY <1>1, <1>2, <1>3, <1>4 DEF Send

\* The broadcaster goes on to the next peer, or has reached them all.
LEMMA SentFacts ==
  ASSUME TrafficType, NEW p \in Pairs, Sent(p)
  PROVE  /\ outgoing' \in [Hubs -> [msg : Messages \cup {CertFrame}, to : SUBSET Hubs]]
         /\ \A h \in Hubs : h # p[1] => outgoing'[h] = outgoing[h]
         /\ \/ outgoing'[p[1]] = Idle
            \/ /\ outgoing'[p[1]].msg = outgoing[p[1]].msg
               /\ outgoing'[p[1]].to = outgoing[p[1]].to \ {p[2]}
<1>1. outgoing[p[1]] \in [msg : Messages \cup {CertFrame}, to : SUBSET Hubs] /\ p[1] \in Hubs
  BY PairFacts DEF TrafficType
<1>2. PICK n : n = [msg |-> outgoing[p[1]].msg, to |-> outgoing[p[1]].to \ {p[2]}]
  OBVIOUS
<1>3. n \in [msg : Messages \cup {CertFrame}, to : SUBSET Hubs]
      /\ n.msg = outgoing[p[1]].msg /\ n.to = outgoing[p[1]].to \ {p[2]}
  BY <1>1, <1>2
<1>4. Idle \in [msg : Messages \cup {CertFrame}, to : SUBSET Hubs]
  BY DEF Idle
<1>5. outgoing' = [outgoing EXCEPT ![p[1]] = Idle] \/ outgoing' = [outgoing EXCEPT ![p[1]] = n]
  <2>1. [outgoing[p[1]] EXCEPT !.to = outgoing[p[1]].to \ {p[2]}] = n
    BY <1>1, <1>2
  <2>2. QED BY <2>1 DEF Sent
<1>6. CASE outgoing' = [outgoing EXCEPT ![p[1]] = Idle]
  BY <1>1, <1>4, <1>6 DEF TrafficType
<1>7. CASE outgoing' = [outgoing EXCEPT ![p[1]] = n]
  BY <1>1, <1>3, <1>7 DEF TrafficType
<1>8. QED BY <1>5, <1>6, <1>7

\* A late loss is one more, for this pair only; a message that vanishes is none
\* before another was carried.
LEMMA LostFacts ==
  ASSUME TrafficType, NEW p \in Pairs, Fails(p) \/ Vanishes(p)
  PROVE  /\ lateLoss' \in [Pairs -> Nat] /\ carried' = carried
         /\ \A q \in Pairs : q # p => lateLoss'[q] = lateLoss[q]
         /\ lateLoss'[p] = lateLoss[p] \/ (Settled(p) /\ lateLoss'[p] = lateLoss[p] + 1)
         /\ Vanishes(p) /\ ~carried[p] => lateLoss'[p] = lateLoss[p]
<1>1. lateLoss' = lateLoss \/ (Settled(p) /\ lateLoss' = [lateLoss EXCEPT ![p] = lateLoss[p] + 1])
  <2>1. lateLoss = [lateLoss EXCEPT ![p] = lateLoss[p]]
    BY DEF TrafficType
  <2>2. QED BY <2>1 DEF Fails, Vanishes, LostIf
<1>2. carried' = carried
  BY DEF Fails, Vanishes
<1>3. ASSUME Vanishes(p), ~carried[p]
      PROVE  lateLoss'[p] = lateLoss[p]
  <2>1. ~(Settled(p) /\ carried[p])
    BY <1>3
  <2>2. lateLoss' = [lateLoss EXCEPT ![p] = lateLoss[p]]
    BY <1>3, <2>1 DEF Vanishes, LostIf
  <2>3. QED BY <2>2 DEF TrafficType
<1>4. /\ lateLoss' \in [Pairs -> Nat]
      /\ \A q \in Pairs : q # p => lateLoss'[q] = lateLoss[q]
      /\ lateLoss'[p] = lateLoss[p] \/ (Settled(p) /\ lateLoss'[p] = lateLoss[p] + 1)
  <2>1. lateLoss[p] \in Nat /\ lateLoss[p] + 1 \in Nat
    BY DEF TrafficType
  <2>2. CASE lateLoss' = lateLoss
    BY <2>2 DEF TrafficType
  <2>3. CASE Settled(p) /\ lateLoss' = [lateLoss EXCEPT ![p] = lateLoss[p] + 1]
    <3>1. /\ lateLoss' \in [Pairs -> Nat] /\ lateLoss'[p] = lateLoss[p] + 1
          /\ \A q \in Pairs : q # p => lateLoss'[q] = lateLoss[q]
      BY <2>1, <2>3 DEF TrafficType
    <3>2. QED BY <2>3, <3>1
  <2>4. QED BY <1>1, <2>2, <2>3
<1>5. QED BY <1>2, <1>3, <1>4

\* A message handed to the role goes to the end of both sequences.
LEMMA PassOnFacts ==
  ASSUME TrafficType, NEW p \in Pairs, NEW m \in Messages, PassOn(p, m)
  PROVE  /\ inbox' \in [Hubs -> Seq(Messages)] /\ \A h \in Hubs : Len(inbox'[h]) <= InboxCap
         /\ arrived' \in [Pairs -> Seq(Messages)]
         /\ arrived'[p] = Append(arrived[p], m)
         /\ \A q \in Pairs : q # p => arrived'[q] = arrived[q]
<1>1. p[2] \in Hubs /\ inbox \in [Hubs -> Seq(Messages)] /\ arrived \in [Pairs -> Seq(Messages)]
      /\ InboxCap \in Nat
  BY PairFacts, SwarmAssumption DEF TrafficType, SwarmAssumption
<1>2. PICK b : b = Append(inbox[p[2]], m)
  OBVIOUS
<1>3. PICK a : a = Append(arrived[p], m)
  OBVIOUS
<1>4. /\ inbox' = [inbox EXCEPT ![p[2]] = b] /\ arrived' = [arrived EXCEPT ![p] = a]
      /\ Len(inbox[p[2]]) < InboxCap
  BY <1>2, <1>3 DEF PassOn
<1>5. a \in Seq(Messages)
  BY <1>1, <1>3
<1>6. b \in Seq(Messages) /\ Len(b) <= InboxCap
  BY <1>1, <1>2, <1>4
<1>7. QED BY <1>1, <1>3, <1>4, <1>5, <1>6 DEF TrafficType

\* What is on its way keeps its types.
LEMMA TrafficStep ==
  ASSUME PeerType, StreamType, TrafficType, [Next]_vars
  PROVE  TrafficType'
<1>1. MaxMessages \in Nat /\ InboxCap \in Nat
  BY SwarmAssumption DEF SwarmAssumption
<1>2. CASE UNCHANGED traffic
  BY <1>2 DEF traffic, TrafficType
<1>3. ASSUME NEW p \in Pairs, SendTo(p)
      PROVE  TrafficType'
  <2>1. Sent(p) /\ UNCHANGED <<inbox, next, arrived>>
    BY <1>3 DEF SendTo
  <2>2. CASE lateLoss' = lateLoss /\ carried' = [carried EXCEPT ![p] = Settled(p)]
    <3>1. Settled(p) \in BOOLEAN
      BY DEF Settled
    <3>2. carried' \in [Pairs -> BOOLEAN]
      BY <2>2, <3>1, Zenon DEF TrafficType
    <3>3. QED BY <2>1, <2>2, <3>2, SentFacts DEF TrafficType
  <2>3. CASE Vanishes(p)
    BY <2>1, <2>3, SentFacts, LostFacts DEF TrafficType
  <2>4. QED BY <1>3, <2>2, <2>3 DEF SendTo
<1>4. ASSUME NEW p \in Pairs, SendFails(p) \/ SendTimeout(p) \/ Collide(p)
      PROVE  TrafficType'
  <2>1. Sent(p) /\ (Fails(p) \/ Vanishes(p)) /\ UNCHANGED <<inbox, next, arrived>>
    BY <1>4 DEF SendFails, SendTimeout, Collide
  <2>2. QED BY <2>1, SentFacts, LostFacts DEF TrafficType
<1>5. ASSUME NEW p \in Pairs, HandleMessage(p)
      PROVE  TrafficType'
  <2>1. PICK m \in Messages : PassOn(p, m)
    <3>1. /\ wire[p] # <<>> => Head(wire[p]) \in Messages \cup {CertFrame}
          /\ old[p] # <<>> => Head(old[p]) \in Messages \cup {CertFrame}
      BY DEF StreamType
    <3>2. QED BY <1>5, <3>1 DEF HandleMessage, Unread
  <2>2. UNCHANGED <<outgoing, next, carried, lateLoss>>
    BY <1>5 DEF HandleMessage
  <2>3. QED BY <2>1, <2>2, PassOnFacts DEF TrafficType
<1>6. ASSUME NEW h \in Hubs, Take(h)
      PROVE  TrafficType'
  <2>1. PICK n : n = [msg |-> next, to |-> connected[h]]
    OBVIOUS
  <2>2. next <= MaxMessages /\ next' = next + 1 /\ outgoing' = [outgoing EXCEPT ![h] = n]
        /\ UNCHANGED <<inbox, arrived, carried, lateLoss>>
    BY <1>6, <2>1 DEF Take
  <2>3. next \in 1 .. MaxMessages /\ next' \in 1 .. MaxMessages + 1
    BY <1>1, <2>2 DEF TrafficType
  <2>4. n \in [msg : Messages \cup {CertFrame}, to : SUBSET Hubs]
    BY <2>1, <2>3 DEF Messages, PeerType
  <2>5. QED BY <2>2, <2>3, <2>4 DEF TrafficType
<1>7. ASSUME NEW h \in Hubs, Consume(h)
      PROVE  TrafficType'
  <2>1. PICK b : b = Tail(inbox[h])
    OBVIOUS
  <2>2. inbox[h] # <<>> /\ inbox' = [inbox EXCEPT ![h] = b]
        /\ UNCHANGED <<outgoing, next, arrived, carried, lateLoss>>
    BY <1>7, <2>1 DEF Consume
  <2>3. inbox[h] \in Seq(Messages) /\ Len(inbox[h]) <= InboxCap
    BY DEF TrafficType
  <2>4. b \in Seq(Messages) /\ Len(b) <= InboxCap
    BY <1>1, <2>1, <2>2, <2>3
  <2>5. QED BY <2>2, <2>4 DEF TrafficType
<1>8. ASSUME NEW h \in Hubs, Crash(h)
      PROVE  TrafficType'
  <2>1. /\ outgoing' = [outgoing EXCEPT ![h] = Idle] /\ inbox' = [inbox EXCEPT ![h] = <<>>]
        /\ lateLoss' = [p \in Pairs |-> IF h \in {p[1], p[2]} THEN 0 ELSE lateLoss[p]]
        /\ carried' = [p \in Pairs |-> h \notin {p[1], p[2]} /\ carried[p]]
        /\ UNCHANGED <<next, arrived>>
    BY <1>8 DEF Crash
  <2>2. Idle \in [msg : Messages \cup {CertFrame}, to : SUBSET Hubs]
    BY DEF Idle
  <2>3. lateLoss' \in [Pairs -> Nat]
    BY <2>1 DEF TrafficType
  <2>4. inbox' \in [Hubs -> Seq(Messages)] /\ \A b \in Hubs : Len(inbox'[b]) <= InboxCap
    <3>1. <<>> \in Seq(Messages) /\ Len(<<>>) <= InboxCap
      BY <1>1
    <3>2. QED BY <2>1, <3>1 DEF TrafficType
  <2>5. carried' \in [Pairs -> BOOLEAN]
    BY <2>1, Zenon
  <2>6. QED BY <2>1, <2>2, <2>3, <2>4, <2>5 DEF TrafficType
<1>9. QED
  <2>1. ASSUME NEW p \in Pairs,
               Dial(p) \/ HandleCert(p) \/ LeakedRead(p) \/ Tear(p) \/ Reset(p) \/ Notice(p)
        PROVE  UNCHANGED traffic
    BY <2>1 DEF Dial, Connect, SendCert, ReplyRead, WaitFails, WaitTimeout, Disconnect, DisconnectFails,
                HandleCert, LeakedRead, Tear, Reset, Notice
  <2>2. ASSUME NEW h \in Hubs, Restart(h)
        PROVE  UNCHANGED traffic
    BY <2>2 DEF Restart
  <2>3. QED BY <1>2, <1>3, <1>4, <1>5, <1>6, <1>7, <1>8, <2>1, <2>2 DEF Next, Handle, Send, vars

\* A step counts each kind of failure at most once.
LEMMA CountSteps ==
  ASSUME [Next]_vars
  PROVE  /\ timeouts' = timeouts \/ timeouts' = timeouts + 1
         /\ faults' = faults \/ faults' = faults + 1
         /\ crashes' = crashes \/ crashes' = crashes + 1
<1>1. ASSUME NEW p \in Pairs, Dial(p)
      PROVE  /\ timeouts' = timeouts \/ timeouts' = timeouts + 1
             /\ faults' = faults \/ faults' = faults + 1
             /\ crashes' = crashes
  BY <1>1 DEF Dial, Connect, SendCert, ReplyRead, WaitFails, WaitTimeout, Disconnect, DisconnectFails,
              WriteFails, Fault, counts
<1>2. ASSUME NEW p \in Pairs, Send(p) \/ SendTimeout(p)
      PROVE  /\ timeouts' = timeouts \/ timeouts' = timeouts + 1
             /\ faults' = faults \/ faults' = faults + 1
             /\ crashes' = crashes
  BY <1>2 DEF Send, SendTo, SendFails, SendTimeout, WriteFails, Fault, counts
<1>3. ASSUME NEW p \in Pairs,
             Handle(p) \/ LeakedRead(p) \/ Tear(p) \/ Collide(p) \/ Reset(p) \/ Notice(p)
      PROVE  UNCHANGED counts
  BY <1>3 DEF Handle, HandleCert, HandleMessage, LeakedRead, Tear, Collide, Reset, Notice
<1>4. ASSUME NEW h \in Hubs, Take(h) \/ Consume(h) \/ Restart(h)
      PROVE  UNCHANGED counts
  BY <1>4 DEF Take, Consume, Restart
<1>5. ASSUME NEW h \in Hubs, Crash(h)
      PROVE  timeouts' = timeouts /\ faults' = faults /\ crashes' = crashes + 1
  BY <1>5 DEF Crash
<1>6. QED BY <1>1, <1>2, <1>3, <1>4, <1>5 DEF Next, vars, counts

\* Everything keeps its type.
LEMMA TypeStep ==
  ASSUME IInv, TypeOK, [Next]_vars
  PROVE  TypeOK'
<1>1. PeerType /\ StreamType /\ TrafficType /\ CountType
  BY TypeParts
<1>2. TrafficType'
  BY <1>1, TrafficStep
<1>3. up' \in [Hubs -> BOOLEAN]
  <2>1. up' = up \/ (\E h \in Hubs : up' = [up EXCEPT ![h] = TRUE] \/ up' = [up EXCEPT ![h] = FALSE])
    <3>1. ASSUME NEW p \in Pairs, Dial(p) \/ Handle(p) \/ Send(p)
          PROVE  up' = up
      BY <3>1 DEF Dial, Handle, Send, Connect, SendCert, ReplyRead, WaitFails, WaitTimeout, Disconnect,
                  DisconnectFails, SendTo, SendFails, HandleCert, HandleMessage, peers
    <3>2. ASSUME NEW p \in Pairs,
                 LeakedRead(p) \/ Tear(p) \/ SendTimeout(p) \/ Collide(p) \/ Reset(p) \/ Notice(p)
          PROVE  up' = up
      BY <3>2 DEF LeakedRead, Tear, SendTimeout, Collide, Reset, Notice, peers
    <3>3. ASSUME NEW h \in Hubs, Take(h) \/ Consume(h)
          PROVE  up' = up
      BY <3>3 DEF Take, Consume, peers
    <3>4. ASSUME NEW h \in Hubs, Crash(h) \/ Restart(h)
          PROVE  up' = [up EXCEPT ![h] = TRUE] \/ up' = [up EXCEPT ![h] = FALSE]
      BY <3>4 DEF Crash, Restart
    <3>5. QED BY <3>1, <3>2, <3>3, <3>4 DEF Next, vars, peers
  <2>2. QED BY <1>1, <2>1 DEF PeerType
<1>4. CountType'
  <2>1. /\ timeouts' = timeouts \/ timeouts' = timeouts + 1
        /\ faults' = faults \/ faults' = faults + 1
        /\ crashes' = crashes \/ crashes' = crashes + 1
    BY CountSteps
  <2>2. QED BY <1>1, <2>1 DEF CountType
<1>5. PeerType'
  BY <1>3, NextIInv DEF IInv, PeerType
<1>6. StreamType'
  <2>1. ASSUME NEW p \in Pairs, Dial(p)
        PROVE  StreamType'
    BY <1>1, <2>1, DialStreams
  <2>2. ASSUME NEW p \in Pairs,
               \/ Send(p) \/ SendTimeout(p) \/ Handle(p)
               \/ LeakedRead(p) \/ Tear(p) \/ Collide(p) \/ Reset(p) \/ Notice(p)
        PROVE  StreamType'
    BY <1>1, <2>2, SendStreams, StrayStreams
  <2>3. ASSUME NEW h \in Hubs, Crash(h)
        PROVE  StreamType'
    BY <1>1, <2>3, BrokenType DEF Crash
  <2>4. CASE UNCHANGED streams
    BY <1>1, <2>4 DEF streams, StreamType, Open
  <2>5. QED BY <2>1, <2>2, <2>3, <2>4 DEF Next, Take, Consume, Restart, vars
<1>7. QED
  <2>1. TypeOK' <=> PeerType' /\ StreamType' /\ TrafficType' /\ CountType'
    BY DEF TypeOK, PeerType, StreamType, TrafficType, CountType, Places
  <2>2. QED BY <1>2, <1>4, <1>5, <1>6, <2>1

\* Before any hub was started there are no streams and no messages.
LEMMA InitType == Init => TypeOK
<1> SUFFICES ASSUME Init PROVE TypeOK
  OBVIOUS
<1>1. MaxMessages \in Nat /\ InboxCap \in Nat /\ WireCap \in Nat
  BY SwarmAssumption DEF SwarmAssumption
<1>2. PeerType
  BY DEF Init, Trust, PeerType, Places
<1>3. StreamType
  <2>1. /\ stream \in [Pairs -> States] /\ replies \in [Pairs -> Nat]
        /\ wire \in [Pairs -> Seq(Messages \cup {CertFrame})]
        /\ old \in [Pairs -> Seq(Messages \cup {CertFrame})]
        /\ \A p \in Pairs : wire[p] = <<>> /\ old[p] = <<>> /\ replies[p] = 0
    BY DEF Init, States
  <2>2. /\ leaked \in [Pairs -> BOOLEAN] /\ torn \in [Pairs -> BOOLEAN]
        /\ \A p \in Pairs : ~leaked[p] /\ ~torn[p]
    BY Zenon DEF Init
  <2>3. Len(<<>>) <= WireCap
    BY <1>1
  <2>4. QED BY <2>1, <2>2, <2>3 DEF StreamType
<1>4. TrafficType
  BY <1>1 DEF Init, TrafficType, Idle
<1>5. CountType
  BY DEF Init, CountType
<1>6. QED BY <1>2, <1>3, <1>4, <1>5, TypeParts

\* Every hub's state, streams and messages are what their declarations say.
THEOREM TypeCorrect == Spec => []TypeOK
<1>1. IInv /\ TypeOK /\ [Next]_vars => TypeOK'
  BY TypeStep
<1>2. QED BY <1>1, InitType, IInvHolds, PTL DEF Spec

-----------------------------------------------------------------------------
(* What is lost once two hubs are done dialling. *)

\* A hub that is down dials anew.
Down == \A p \in Pairs : ~up[p[1]] => dial[p] = "connect"

\* Nothing counts before both are done.  Once a message was carried, the stream is
\* one that loses none unnoticed; and as long as a closed one waits to be found
\* out, the message that will be lost by it has not been counted yet.
LossAt(p) ==
  /\ ~Settled(p) => lateLoss[p] = 0 /\ ~carried[p]
  /\ carried[p] => stream[p] \in {"none", "live"}
  /\ stream[p] \notin {"none", "live"} => lateLoss[p] <= timeouts + faults
  /\ lateLoss[p] <= 1 + timeouts + faults
Loss == \A p \in Pairs : LossAt(p)

\* A hub that is down stays at the beginning (Crash, Restart).
LEMMA DownStep ==
  ASSUME TypeOK, Down, [Next]_vars
  PROVE  Down'
<1>1. ASSUME NEW h \in Hubs, Crash(h)
      PROVE  Down'
  <2>1. up' = [up EXCEPT ![h] = FALSE] /\ dial' = [p \in Pairs |-> IF p[1] = h THEN "connect" ELSE dial[p]]
    BY <1>1 DEF Crash
  <2>2. QED BY <2>1, PairFacts DEF Down, TypeOK
<1>2. ASSUME NEW h \in Hubs, Restart(h)
      PROVE  Down'
  <2>1. up' = [up EXCEPT ![h] = TRUE] /\ dial' = dial
    BY <1>2 DEF Restart
  <2>2. QED BY <2>1, PairFacts DEF Down, TypeOK
<1>3. ASSUME NEW p \in Pairs, NEW place, up[p[1]], Goto(p, place), UNCHANGED up
      PROVE  Down'
  BY <1>3 DEF Goto, Down, TypeOK
<1>4. CASE UNCHANGED <<up, dial>>
  BY <1>4 DEF Down
<1>5. ASSUME NEW p \in Pairs, Dial(p) \/ Collide(p)
      PROVE  Down'
  BY <1>3, <1>5 DEF Dial, Connect, SendCert, ReplyRead, WaitFails, WaitTimeout, Disconnect, DisconnectFails,
                    Collide, Sending
<1>6. ASSUME NEW p \in Pairs,
             Handle(p) \/ Send(p) \/ SendTimeout(p) \/ LeakedRead(p) \/ Tear(p) \/ Reset(p) \/ Notice(p)
      PROVE  UNCHANGED <<up, dial>>
  BY <1>6 DEF Handle, HandleCert, HandleMessage, Send, SendTo, SendFails, SendTimeout, LeakedRead, Tear,
              Reset, Notice, peers
<1>7. ASSUME NEW h \in Hubs, Take(h) \/ Consume(h)
      PROVE  UNCHANGED <<up, dial>>
  BY <1>7 DEF Take, Consume, peers
<1>8. QED BY <1>1, <1>2, <1>4, <1>5, <1>6, <1>7 DEF Next, vars, peers

\* Failures are only ever added.
LEMMA FailuresGrow ==
  ASSUME TypeOK, [Next]_vars
  PROVE  /\ timeouts \in Nat /\ timeouts' \in Nat /\ faults \in Nat /\ faults' \in Nat
         /\ timeouts <= timeouts' /\ faults <= faults'
BY CountSteps DEF TypeOK

\* A pair for which the count starts anew.
LEMMA LossFresh ==
  ASSUME TypeOK, [Next]_vars, NEW q \in Pairs, lateLoss'[q] = 0, ~carried'[q]
  PROVE  LossAt(q)'
<1>1. PICK t, f \in Nat : t = timeouts' /\ f = faults'
  BY FailuresGrow
<1>2. 0 <= t + f /\ 0 <= 1 + t + f
  OBVIOUS
<1>3. QED BY <1>1, <1>2 DEF LossAt

\* A pair that is as before, or whose stream is no worse.
LEMMA LossKept ==
  ASSUME TypeOK, [Next]_vars, NEW q \in Pairs, LossAt(q),
         Settled(q)' <=> Settled(q), lateLoss'[q] = lateLoss[q], carried'[q] = carried[q],
         stream'[q] \notin {"none", "live"} => stream[q] \notin {"none", "live"}
  PROVE  LossAt(q)'
<1>1. /\ lateLoss[q] <= timeouts + faults => lateLoss[q] <= timeouts' + faults'
      /\ lateLoss[q] <= 1 + timeouts + faults => lateLoss[q] <= 1 + timeouts' + faults'
  <2>1. PICK l \in Nat : l = lateLoss[q]
    BY DEF TypeOK
  <2>2. QED BY <2>1, FailuresGrow
<1>2. QED BY <1>1 DEF LossAt

\* The goroutine for b loses nothing that counts, since it is not done; when it is,
\* nothing was lost yet.
LEMMA DialLoss ==
  ASSUME TypeOK, Loss, [Next]_vars, NEW p \in Pairs, Dial(p)
  PROVE  Loss'
<1>1. dial[p] # "done" /\ UNCHANGED <<lateLoss, carried>>
  BY DEF Dial, Connect, SendCert, ReplyRead, WaitFails, WaitTimeout, Disconnect, DisconnectFails, traffic
<1>2. \A q \in Pairs : q # p => dial'[q] = dial[q]
  BY DEF Dial, Connect, SendCert, ReplyRead, WaitFails, WaitTimeout, Disconnect, DisconnectFails, Goto, TypeOK
<1>3. \A q \in Pairs : q # p /\ q # Back(p) => stream'[q] = stream[q]
  <2>1. CASE Disconnect(p) \/ DisconnectFails(p)
    BY <2>1, BrokenStream, TypeParts DEF Disconnect, DisconnectFails
  <2>2. CASE SendCert(p)
    BY <2>2 DEF SendCert, Write, WriteVanishes, TypeOK
  <2>3. CASE ~Disconnect(p) /\ ~DisconnectFails(p) /\ ~SendCert(p)
    BY <2>3 DEF Dial, Connect, ReplyRead, WaitFails, WaitTimeout, streams
  <2>4. QED BY <2>1, <2>2, <2>3
<1>4. ASSUME NEW q \in Pairs
      PROVE  LossAt(q)'
  <2>1. CASE q = p \/ q = Back(p)
    <3>1. ~Settled(q)
      BY <1>1, <2>1, PairFacts DEF Settled
    <3>2. lateLoss[q] = 0 /\ ~carried[q]
      BY <3>1 DEF Loss, LossAt
    <3>3. QED BY <1>1, <3>2, LossFresh
  <2>2. CASE q # p /\ q # Back(p)
    <3>1. Back(q) # p /\ Back(q) \in Pairs
      BY <2>2, PairFacts
    <3>2. Settled(q)' <=> Settled(q)
      BY <1>2, <2>2, <3>1 DEF Settled, Back
    <3>3. LossAt(q) /\ stream'[q] = stream[q]
      BY <1>3, <2>2 DEF Loss
    <3>4. QED BY <1>1, <3>2, <3>3, LossKept
  <2>3. QED BY <2>1, <2>2
<1>5. QED BY <1>4 DEF Loss

\* What the broadcaster does to a pair does not touch the others.
LEMMA SendKept ==
  ASSUME TypeOK, NEW p \in Pairs, SendTo(p) \/ SendFails(p) \/ SendTimeout(p) \/ Collide(p)
  PROVE  /\ \A q \in Pairs : q # p => /\ stream'[q] = stream[q] /\ lateLoss'[q] = lateLoss[q]
                                      /\ carried'[q] = carried[q]
         /\ \A q \in Pairs : Settled(q)' <=> Settled(q)
<1>1. \A q \in Pairs : q # p => stream'[q] = stream[q]
  BY DEF SendTo, Write, WriteVanishes, SendFails, SendTimeout, Collide, TypeOK
<1>2. /\ \A q \in Pairs : q # p => lateLoss'[q] = lateLoss[q]
      /\ carried' = carried \/ carried' = [carried EXCEPT ![p] = Settled(p)]
  <2>1. \/ Fails(p) \/ Vanishes(p)
        \/ lateLoss' = lateLoss /\ carried' = [carried EXCEPT ![p] = Settled(p)]
    BY DEF SendTo, SendFails, SendTimeout, Collide
  <2>2. CASE Fails(p) \/ Vanishes(p)
    BY <2>2, LostFacts, TypeParts
  <2>3. QED BY <2>1, <2>2
<1>3. \A q \in Pairs : q # p => carried'[q] = carried[q]
  BY <1>2, Zenon DEF TypeOK
<1>4. \A q \in Pairs : Settled(q)' <=> Settled(q)
  <2>1. CASE Collide(p)
    <3>1. dial[p] = "send" /\ dial' = [dial EXCEPT ![p] = "wait"]
      BY <2>1 DEF Collide, Goto
    <3>2. dial'[p] # "done" /\ dial[p] # "done" /\ \A q \in Pairs : q # p => dial'[q] = dial[q]
      BY <3>1 DEF TypeOK
    <3>3. QED BY <3>2, PairFacts DEF Settled, Back
  <2>2. CASE SendTo(p) \/ SendFails(p) \/ SendTimeout(p)
    BY <2>2 DEF SendTo, SendFails, SendTimeout, peers, Settled, Back
  <2>3. QED BY <2>1, <2>2
<1>5. QED BY <1>1, <1>2, <1>3, <1>4

\* A message that is not lost, or vanishes before any was carried (AsyncSend).
LEMMA SendToLoss ==
  ASSUME TypeOK, Loss, [Next]_vars, NEW p \in Pairs, SendTo(p)
  PROVE  LossAt(p)'
<1>1. LossAt(p) /\ (Settled(p)' <=> Settled(p))
  BY SendKept DEF Loss
<1>2. CASE Write(p, outgoing[p[1]].msg) /\ UNCHANGED lateLoss /\ carried' = [carried EXCEPT ![p] = Settled(p)]
  <2>1. stream'[p] = "live" /\ lateLoss'[p] = lateLoss[p]
    BY <1>2 DEF Write, TypeOK
  <2>2. carried'[p] <=> Settled(p)
    BY <1>2, Zenon DEF TypeOK
  <2>3. lateLoss[p] <= 1 + timeouts + faults => lateLoss[p] <= 1 + timeouts' + faults'
    <3>1. PICK l \in Nat : l = lateLoss[p]
      BY DEF TypeOK
    <3>2. QED BY <3>1, FailuresGrow
  <2>4. QED BY <1>1, <2>1, <2>2, <2>3 DEF LossAt
<1>3. CASE WriteVanishes(p) /\ Vanishes(p)
  <2>1. stream[p] \notin {"none", "live"}
    BY <1>3 DEF WriteVanishes
  <2>2. ~carried[p]
    BY <1>1, <2>1 DEF LossAt
  <2>3. lateLoss'[p] = lateLoss[p] /\ carried' = carried
    BY <1>3, <2>2, LostFacts, TypeParts
  <2>4. QED BY <1>1, <2>1, <2>3, LossKept
<1>4. QED BY <1>2, <1>3 DEF SendTo

\* A message lost by a stream that is found dead, by a call that fails, or by a
\* write that times out (AsyncSend, streamMgr.get).
LEMMA SendFailsLoss ==
  ASSUME TypeOK, Loss, Down, [Next]_vars, NEW p \in Pairs, SendFails(p) \/ SendTimeout(p) \/ Collide(p)
  PROVE  LossAt(p)'
<1>1. LossAt(p) /\ (Settled(p)' <=> Settled(p))
  BY SendKept DEF Loss
<1>2. /\ Fails(p) \/ Vanishes(p)
      /\ carried' = carried /\ lateLoss[p] \in Nat
      /\ lateLoss'[p] = lateLoss[p] \/ (Settled(p) /\ lateLoss'[p] = lateLoss[p] + 1)
  <2>1. Fails(p) \/ Vanishes(p)
    BY DEF SendFails, SendTimeout, Collide
  <2>2. QED BY <2>1, LostFacts, TypeParts DEF TypeOK
<1>3. CASE ~Settled(p)
  BY <1>1, <1>2, <1>3, LossFresh DEF LossAt
<1>4. CASE Settled(p) /\ SendFails(p)
  <2>1. up[p[2]]
    <3>1. dial[Back(p)] = "done" /\ Back(p) \in Pairs /\ Back(p)[1] = p[2]
      BY <1>4, PairFacts DEF Settled, Back
    <3>2. QED BY <3>1 DEF Down
  <2>2. stream'[p] \in {"none", "gone"} /\ (stream'[p] = "gone" => stream[p] = "gone")
        /\ (carried[p] => stream'[p] = "none")
    <3>1. WriteFails(p) /\ stream' = [stream EXCEPT ![p] = IF @ = "dead" THEN "none" ELSE @]
      BY <1>4 DEF SendFails
    <3>2. stream'[p] \in {"none", "gone"} /\ (stream'[p] = "gone" => stream[p] = "gone")
      BY <3>1, FailFacts, TypeParts
    <3>3. QED BY <1>1, <3>2 DEF LossAt
  <2>3. timeouts' = timeouts /\ timeouts \in Nat /\ faults \in Nat
        /\ ((stream[p] = "dead" /\ faults' = faults) \/ faults' = faults + 1)
    BY <1>4, <2>1 DEF SendFails, WriteFails, Fault, TypeOK
  <2>4. CASE stream[p] = "dead" /\ faults' = faults
    <3>1. lateLoss[p] <= timeouts + faults
      BY <1>1, <2>4 DEF LossAt
    <3>2. lateLoss'[p] <= 1 + timeouts' + faults'
      BY <1>2, <2>3, <2>4, <3>1
    <3>3. stream'[p] = "none"
      BY <2>2, <2>4
    <3>4. QED BY <1>1, <1>4, <3>2, <3>3 DEF LossAt
  <2>5. CASE faults' = faults + 1
    <3>1. lateLoss[p] <= 1 + timeouts + faults /\ (stream'[p] = "gone" => lateLoss[p] <= timeouts + faults)
      BY <1>1, <2>2 DEF LossAt
    <3>2. lateLoss'[p] <= 1 + timeouts' + faults' /\ (stream'[p] = "gone" => lateLoss'[p] <= timeouts' + faults')
      BY <1>2, <2>3, <2>5, <3>1
    <3>3. carried'[p] => stream'[p] = "none"
      BY <1>2, <2>2
    <3>4. QED BY <1>1, <1>4, <2>2, <3>2, <3>3 DEF LossAt
  <2>6. QED BY <2>3, <2>4, <2>5
<1>5. CASE Settled(p) /\ SendTimeout(p)
  <2>1. timeouts' = timeouts + 1 /\ faults' = faults /\ stream'[p] = "none" /\ timeouts \in Nat /\ faults \in Nat
    BY <1>5 DEF SendTimeout, TypeOK
  <2>2. lateLoss[p] <= 1 + timeouts + faults
    BY <1>1 DEF LossAt
  <2>3. lateLoss'[p] <= 1 + timeouts' + faults'
    BY <1>2, <2>1, <2>2
  <2>4. QED BY <1>1, <1>5, <2>1, <2>3 DEF LossAt
<1>6. CASE Collide(p)
  BY <1>3, <1>6 DEF Collide, Settled
<1>7. QED BY <1>3, <1>4, <1>5, <1>6

\* A crash starts the count anew for the pairs of its hub.
LEMMA CrashLoss ==
  ASSUME TypeOK, Loss, [Next]_vars, NEW h \in Hubs, Crash(h)
  PROVE  Loss'
<1>1. /\ dial' = [p \in Pairs |-> IF p[1] = h THEN "connect" ELSE dial[p]]
      /\ lateLoss' = [p \in Pairs |-> IF h \in {p[1], p[2]} THEN 0 ELSE lateLoss[p]]
      /\ carried' = [p \in Pairs |-> h \notin {p[1], p[2]} /\ carried[p]]
  BY DEF Crash
<1>2. ASSUME NEW q \in Pairs
      PROVE  LossAt(q)'
  <2>1. CASE h \in {q[1], q[2]}
    <3>1. lateLoss'[q] = 0
      BY <1>1, <2>1
    <3>2. ~carried'[q]
      BY <1>1, <2>1, Zenon
    <3>3. QED BY <3>1, <3>2, LossFresh
  <2>2. CASE h \notin {q[1], q[2]}
    <3>1. stream'[q] = stream[q]
      BY <2>2, BrokenStream, TypeParts DEF Crash
    <3>2. Settled(q)' <=> Settled(q)
      BY <1>1, <2>2, PairFacts DEF Settled, Back
    <3>3. lateLoss'[q] = lateLoss[q]
      BY <1>1, <2>2
    <3>4. carried'[q] = carried[q]
      <4>1. carried[q] \in BOOLEAN
        BY DEF TypeOK
      <4>2. carried'[q] <=> carried[q]
        BY <1>1, <2>2, Zenon
      <4>3. carried'[q] \in BOOLEAN
        BY <1>1, Zenon
      <4>4. QED BY <4>1, <4>2, <4>3
    <3>5. LossAt(q)
      BY DEF Loss
    <3>6. QED BY <3>1, <3>2, <3>3, <3>4, <3>5, LossKept
  <2>3. QED BY <2>1, <2>2
<1>3. QED BY <1>2 DEF Loss

\* No step loses more.
LEMMA LossStep ==
  ASSUME TypeOK, Down, Loss, [Next]_vars
  PROVE  Loss'
<1>1. ASSUME NEW p \in Pairs, Dial(p)
      PROVE  Loss'
  BY <1>1, DialLoss
<1>2. ASSUME NEW p \in Pairs, SendTo(p) \/ SendFails(p) \/ SendTimeout(p) \/ Collide(p)
      PROVE  Loss'
  <2>1. LossAt(p)'
    BY <1>2, SendToLoss, SendFailsLoss
  <2>2. ASSUME NEW q \in Pairs, q # p
        PROVE  LossAt(q)'
    <3>1. LossAt(q)
      BY DEF Loss
    <3>2. /\ stream'[q] = stream[q] /\ lateLoss'[q] = lateLoss[q] /\ carried'[q] = carried[q]
          /\ Settled(q)' <=> Settled(q)
      BY <1>2, <2>2, SendKept
    <3>3. QED BY <3>1, <3>2, LossKept
  <2>3. QED BY <2>1, <2>2 DEF Loss
<1>3. ASSUME NEW h \in Hubs, Crash(h)
      PROVE  Loss'
  BY <1>3, CrashLoss
<1>4. CASE /\ UNCHANGED <<dial, lateLoss, carried>>
           /\ \A q \in Pairs : stream'[q] \notin {"none", "live"} => stream[q] \notin {"none", "live"}
  <2>1. ASSUME NEW q \in Pairs
        PROVE  LossAt(q)'
    <3>1. Settled(q)' <=> Settled(q)
      BY <1>4 DEF Settled, Back
    <3>2. LossAt(q)
      BY DEF Loss
    <3>3. QED BY <1>4, <3>1, <3>2, LossKept
  <2>2. QED BY <2>1 DEF Loss
<1>5. ASSUME NEW p \in Pairs, Reset(p) \/ Notice(p)
      PROVE  Loss'
  <2>1. UNCHANGED <<dial, lateLoss, carried>> /\ stream[p] \notin {"none", "live"}
    BY <1>5 DEF Reset, Notice, peers, traffic
  <2>2. \A q \in Pairs : q # p => stream'[q] = stream[q]
    BY <1>5 DEF Reset, Notice, TypeOK
  <2>3. QED BY <1>4, <2>1, <2>2
<1>6. ASSUME NEW p \in Pairs, Handle(p) \/ LeakedRead(p) \/ Tear(p)
      PROVE  UNCHANGED <<dial, stream, lateLoss, carried>>
  BY <1>6 DEF Handle, HandleCert, HandleMessage, LeakedRead, Tear, peers, traffic
<1>7. ASSUME NEW h \in Hubs, Take(h) \/ Consume(h) \/ Restart(h)
      PROVE  UNCHANGED <<dial, stream, lateLoss, carried>>
  BY <1>7 DEF Take, Consume, Restart, peers, streams, traffic
<1>8. CASE UNCHANGED vars
  BY <1>4, <1>8 DEF vars, peers, streams, traffic
<1>9. QED
  BY <1>1, <1>2, <1>3, <1>4, <1>5, <1>6, <1>7, <1>8 DEF Next, Send

\* Once two hubs are both done dialling and a message arrived on the stream from
\* one to the other, none vanishes on it any more; and with the write that fails
\* on a closed stream, one for each write that timed out and one for each failing
\* call, no more are lost, whoever closed the connection last and however long
\* the other takes to see it (AsyncSend, Disconnect, NewStream).
THEOREM LossBoundedHolds == Spec => []LossBounded
<1>1. Init => Down /\ Loss
  <2> SUFFICES ASSUME Init PROVE Down /\ Loss
    OBVIOUS
  <2>1. Down
    BY DEF Init, Down
  <2>2. ASSUME NEW p \in Pairs
        PROVE  LossAt(p)
    <3>1. lateLoss[p] = 0 /\ timeouts = 0 /\ faults = 0 /\ stream[p] = "none"
      BY DEF Init
    <3>2. ~carried[p]
      BY Zenon DEF Init
    <3>3. QED BY <3>1, <3>2 DEF LossAt
  <2>3. QED BY <2>1, <2>2 DEF Loss
<1>2. TypeOK /\ Down /\ Loss /\ [Next]_vars => Down' /\ Loss'
  BY DownStep, LossStep
<1>3. Loss => LossBounded
  BY DEF Loss, LossAt, LossBounded
<1>4. QED BY <1>1, <1>2, <1>3, TypeCorrect, PTL DEF Spec

-----------------------------------------------------------------------------
(* The order of arrival. *)

\* m was broadcast before what is being sent to p[2], and before what comes next.
Before(p, m) == m < next /\ (p[2] \in outgoing[p[1]].to => m < outgoing[p[1]].msg)

\* Nothing is left on a stream that was given up, and what arrived, what is on the
\* stream and what is being sent were broadcast in this order.
Ordered(p) ==
  /\ old[p] = <<>>
  /\ \A i, j \in 1 .. Len(arrived[p]) : i < j => arrived[p][i] < arrived[p][j]
  /\ \A i \in 1 .. Len(arrived[p]), j \in 1 .. Len(wire[p]) :
       wire[p][j] # CertFrame => arrived[p][i] < wire[p][j]
  /\ \A i, j \in 1 .. Len(wire[p]) : i < j /\ wire[p][j] # CertFrame => wire[p][i] < wire[p][j]
  /\ \A i \in 1 .. Len(arrived[p]) : Before(p, arrived[p][i])
  /\ \A i \in 1 .. Len(wire[p]) : Before(p, wire[p][i])
Numbered(h) == outgoing[h].msg < next /\ (outgoing[h].to # {} => outgoing[h].msg # CertFrame)
InOrder ==
  timeouts = 0 => (\A p \in Pairs : Ordered(p)) /\ \A h \in Hubs : Numbered(h)

\* What is left of a stream when its first frame is read.
LEMMA TailFacts ==
  ASSUME NEW S, NEW w \in Seq(S), w # <<>>
  PROVE  /\ Head(w) = w[1] /\ 1 \in 1 .. Len(w)
         /\ \A j \in 1 .. Len(Tail(w)) : Tail(w)[j] = w[j + 1] /\ j + 1 \in 1 .. Len(w) /\ 1 < j + 1
<1>1. PICK l \in Nat : l = Len(w) /\ l >= 1
  OBVIOUS
<1>2. Len(Tail(w)) = l - 1
  BY <1>1
<1>3. 1 \in 1 .. l /\ \A j \in 1 .. l - 1 : j + 1 \in 1 .. l /\ 1 < j + 1
  BY <1>1
<1>4. \A j \in 1 .. Len(Tail(w)) : Tail(w)[j] = w[j + 1]
  OBVIOUS
<1>5. QED BY <1>1, <1>2, <1>3, <1>4

\* A sequence with one element more.
LEMMA LastFacts ==
  ASSUME NEW S, NEW w \in Seq(S), NEW m, NEW v, v = Append(w, m)
  PROVE  \A j \in 1 .. Len(v) : \/ j \in 1 .. Len(w) /\ v[j] = w[j]
                                \/ /\ j \notin 1 .. Len(w) /\ v[j] = m
                                   /\ \A i \in 1 .. Len(v) : i < j => i \in 1 .. Len(w)
                                   /\ \A i \in 1 .. Len(v) : ~ j < i
<1>1. PICK l \in Nat : l = Len(w)
  OBVIOUS
<1>2. Len(v) = l + 1
  BY <1>1
<1>3. \A j \in 1 .. l : v[j] = w[j]
  BY <1>1
<1>4. v[l + 1] = m
  BY <1>1
<1>5. \A j \in 1 .. l + 1 :
        \/ j \in 1 .. l
        \/ /\ j = l + 1 /\ j \notin 1 .. l /\ \A i \in 1 .. l + 1 : i < j => i \in 1 .. l
           /\ \A i \in 1 .. l + 1 : ~ j < i
  BY <1>1
<1>6. QED BY <1>1, <1>2, <1>3, <1>4, <1>5

\* Frames are numbers, 0 for certificates.
LEMMA FrameNumbers ==
  ASSUME TypeOK, NEW p \in Pairs
  PROVE  /\ \A i \in 1 .. Len(wire[p]) : wire[p][i] \in Nat
         /\ \A i \in 1 .. Len(arrived[p]) : arrived[p][i] \in Nat
<1>1. Messages \subseteq Nat /\ Messages \cup {CertFrame} \subseteq Nat
  BY SwarmAssumption DEF SwarmAssumption, Messages, CertFrame
<1>2. /\ wire[p] \in Seq(Messages \cup {CertFrame}) /\ arrived[p] \in Seq(Messages)
      /\ old[p] \in Seq(Messages \cup {CertFrame})
  BY DEF TypeOK
<1>3. QED BY <1>1, <1>2

\* A pair whose frames stay or go as a whole keeps its order.
LEMMA OrderedKept ==
  ASSUME TypeOK, NEW q \in Pairs, Ordered(q),
         old'[q] = <<>>, arrived'[q] = arrived[q], wire'[q] = wire[q] \/ wire'[q] = <<>>,
         \A m \in Nat : Before(q, m) => Before(q, m)'
  PROVE  Ordered(q)'
<1>1. /\ \A i \in 1 .. Len(wire[q]) : wire[q][i] \in Nat
      /\ \A i \in 1 .. Len(arrived[q]) : arrived[q][i] \in Nat
  BY FrameNumbers
<1>2. \A i \in 1 .. Len(arrived[q]) : Before(q, arrived[q][i])'
  <2>1. ASSUME NEW i \in 1 .. Len(arrived[q])
        PROVE  Before(q, arrived[q][i])'
    <3>1. PICK m \in Nat : m = arrived[q][i] /\ m = arrived'[q][i]
      BY <1>1, <2>1
    <3>2. Before(q, m)
      BY <3>1 DEF Ordered
    <3>3. Before(q, m)'
      BY <3>2
    <3>4. QED BY <3>1, <3>3 DEF Before
  <2>2. QED BY <2>1 DEF Before
<1>3. \A i \in 1 .. Len(wire'[q]) : Before(q, wire[q][i])' /\ wire'[q] = wire[q]
  BY <1>1 DEF Ordered
<1>4. QED BY <1>1, <1>2, <1>3 DEF Ordered

\* What the broadcaster does to the order of what is being sent (Sent).
LEMMA SentOrder ==
  ASSUME TypeOK, NEW p \in Pairs, Sent(p), next' = next, \A h \in Hubs : Numbered(h)
  PROVE  /\ \A q \in Pairs, m \in Nat : Before(q, m) => Before(q, m)'
         /\ \A h \in Hubs : Numbered(h)'
         /\ p[2] \notin outgoing'[p[1]].to
<1>1. /\ \A h \in Hubs : h # p[1] => outgoing'[h] = outgoing[h]
      /\ \/ outgoing'[p[1]] = Idle
         \/ /\ outgoing'[p[1]].msg = outgoing[p[1]].msg
            /\ outgoing'[p[1]].to = outgoing[p[1]].to \ {p[2]}
  BY SentFacts, TypeParts
<1>2. Idle.msg = 0 /\ Idle.to = {} /\ 0 < next
  BY DEF Idle, CertFrame, TypeOK
<1>3. /\ outgoing'[p[1]].to \subseteq outgoing[p[1]].to /\ p[2] \notin outgoing'[p[1]].to
      /\ outgoing'[p[1]].to # {} => outgoing'[p[1]].msg = outgoing[p[1]].msg
      /\ outgoing'[p[1]].msg \in {0, outgoing[p[1]].msg}
  BY <1>1, <1>2
<1>4. ASSUME NEW q \in Pairs, NEW m \in Nat, Before(q, m)
      PROVE  Before(q, m)'
  <2>1. CASE q[1] = p[1]
    BY <1>3, <1>4, <2>1 DEF Before
  <2>2. CASE q[1] # p[1]
    BY <1>1, <1>4, <2>2, PairFacts DEF Before
  <2>3. QED BY <2>1, <2>2
<1>5. ASSUME NEW h \in Hubs
      PROVE  Numbered(h)'
  <2>1. CASE h = p[1]
    BY <1>2, <1>3, <2>1 DEF Numbered
  <2>2. CASE h # p[1]
    BY <1>1, <2>2 DEF Numbered
  <2>3. QED BY <2>1, <2>2
<1>6. QED BY <1>3, <1>4, <1>5

\* A message written goes behind all that was broadcast before it; so does a
\* certificate, which has no place of its own (SendTo, SendCert).
LEMMA WriteOrder ==
  ASSUME TypeOK, NEW p \in Pairs, Ordered(p), NEW m \in Nat,
         old'[p] = <<>>, arrived' = arrived, wire'[p] = Append(wire[p], m),
         \A n \in Nat : Before(p, n) => Before(p, n)',
         Before(p, m)',
         m # CertFrame => /\ \A i \in 1 .. Len(arrived[p]) : arrived[p][i] < m
                          /\ \A i \in 1 .. Len(wire[p]) : wire[p][i] < m
  PROVE  Ordered(p)'
<1>1. /\ \A i \in 1 .. Len(wire[p]) : wire[p][i] \in Nat
      /\ \A i \in 1 .. Len(arrived[p]) : arrived[p][i] \in Nat
  BY FrameNumbers
<1>2. PICK v : v = Append(wire[p], m)
  OBVIOUS
<1>3. \A j \in 1 .. Len(v) : \/ j \in 1 .. Len(wire[p]) /\ v[j] = wire[p][j]
                             \/ /\ j \notin 1 .. Len(wire[p]) /\ v[j] = m
                                /\ \A i \in 1 .. Len(v) : i < j => i \in 1 .. Len(wire[p])
                                /\ \A i \in 1 .. Len(v) : ~ j < i
  <2>1. wire[p] \in Seq(Messages \cup {CertFrame})
    BY DEF TypeOK
  <2>2. QED BY <1>2, <2>1, LastFacts
<1>4. wire'[p] = v
  BY <1>2
<1>5. /\ \A i, j \in 1 .. Len(arrived[p]) : i < j => arrived[p][i] < arrived[p][j]
      /\ \A i \in 1 .. Len(arrived[p]) : Before(p, arrived[p][i])'
  BY <1>1 DEF Ordered
<1>6. ASSUME NEW j \in 1 .. Len(v)
      PROVE  /\ v[j] # CertFrame =>
                  /\ \A i \in 1 .. Len(arrived[p]) : arrived[p][i] < v[j]
                  /\ \A i \in 1 .. Len(v) : i < j => v[i] < v[j]
             /\ Before(p, v[j])'
  <2>1. CASE j \in 1 .. Len(wire[p]) /\ v[j] = wire[p][j]
    <3>1. \A i \in 1 .. Len(arrived[p]) : v[j] # CertFrame => arrived[p][i] < v[j]
      BY <2>1 DEF Ordered
    <3>2. ASSUME NEW i \in 1 .. Len(v), i < j, v[j] # CertFrame
          PROVE  v[i] < v[j]
      BY <1>3, <2>1, <3>2 DEF Ordered
    <3>3. Before(p, v[j])'
      <4>1. PICK n \in Nat : n = v[j] /\ n = wire[p][j]
        BY <1>1, <2>1
      <4>2. Before(p, n)
        BY <2>1, <4>1 DEF Ordered
      <4>3. Before(p, n)'
        BY <4>2
      <4>4. QED BY <4>1, <4>3
    <3>4. QED BY <3>1, <3>2, <3>3
  <2>2. CASE /\ j \notin 1 .. Len(wire[p]) /\ v[j] = m
             /\ \A i \in 1 .. Len(v) : i < j => i \in 1 .. Len(wire[p])
    <3>1. \A i \in 1 .. Len(v) : i < j => v[i] = wire[p][i] /\ i \in 1 .. Len(wire[p])
      BY <1>3, <2>2
    <3>2. QED BY <2>2, <3>1
  <2>3. QED BY <1>3, <2>1, <2>2
<1>7. QED BY <1>4, <1>5, <1>6 DEF Ordered

\* The first frame read is the one broadcast first (HandleCert, HandleMessage).
LEMMA ReadOrder ==
  ASSUME TypeOK, NEW p \in Pairs, Ordered(p), wire[p] # <<>>,
         old'[p] = <<>>, wire'[p] = Tail(wire[p]),
         \/ arrived'[p] = arrived[p]
         \/ Head(wire[p]) # CertFrame /\ arrived'[p] = Append(arrived[p], Head(wire[p])),
         UNCHANGED <<outgoing, next>>
  PROVE  Ordered(p)'
<1>1. /\ \A i \in 1 .. Len(wire[p]) : wire[p][i] \in Nat
      /\ \A i \in 1 .. Len(arrived[p]) : arrived[p][i] \in Nat
  BY FrameNumbers
<1>2. PICK v, m : v = Tail(wire[p]) /\ m = Head(wire[p])
  OBVIOUS
<1>3. /\ m = wire[p][1] /\ 1 \in 1 .. Len(wire[p])
      /\ \A j \in 1 .. Len(v) : v[j] = wire[p][j + 1] /\ j + 1 \in 1 .. Len(wire[p]) /\ 1 < j + 1
  <2>1. wire[p] \in Seq(Messages \cup {CertFrame})
    BY DEF TypeOK
  <2>2. QED BY <1>2, <2>1, TailFacts
<1>4. \A n : Before(p, n) <=> Before(p, n)'
  BY DEF Before
<1>5. /\ \A i, j \in 1 .. Len(v) : i < j /\ v[j] # CertFrame => v[i] < v[j]
      /\ \A i \in 1 .. Len(v) : Before(p, v[i])
      /\ \A i \in 1 .. Len(arrived[p]), j \in 1 .. Len(v) : v[j] # CertFrame => arrived[p][i] < v[j]
  <2>1. ASSUME NEW i \in 1 .. Len(v), NEW j \in 1 .. Len(v), i < j, v[j] # CertFrame
        PROVE  v[i] < v[j]
    <3>1. i + 1 < j + 1
      BY <2>1
    <3>2. QED BY <1>3, <2>1, <3>1 DEF Ordered
  <2>2. \A i \in 1 .. Len(v) : Before(p, v[i])
    BY <1>3 DEF Ordered
  <2>3. \A i \in 1 .. Len(arrived[p]), j \in 1 .. Len(v) : v[j] # CertFrame => arrived[p][i] < v[j]
    BY <1>3 DEF Ordered
  <2>4. QED BY <2>1, <2>2, <2>3
<1>6. CASE arrived'[p] = arrived[p]
  <2>1. /\ \A i, j \in 1 .. Len(arrived[p]) : i < j => arrived[p][i] < arrived[p][j]
        /\ \A i \in 1 .. Len(arrived[p]) : Before(p, arrived[p][i])
    BY DEF Ordered
  <2>2. wire'[p] = v
    BY <1>2
  <2>3. QED BY <1>4, <1>5, <1>6, <2>1, <2>2 DEF Ordered
<1>7. CASE m # CertFrame /\ arrived'[p] = Append(arrived[p], m)
  <2>1. PICK a : a = Append(arrived[p], m)
    OBVIOUS
  <2>2. \A j \in 1 .. Len(a) : \/ j \in 1 .. Len(arrived[p]) /\ a[j] = arrived[p][j]
                               \/ /\ j \notin 1 .. Len(arrived[p]) /\ a[j] = m
                                  /\ \A i \in 1 .. Len(a) : i < j => i \in 1 .. Len(arrived[p])
                                  /\ \A i \in 1 .. Len(a) : ~ j < i
    <3>1. arrived[p] \in Seq(Messages)
      BY DEF TypeOK
    <3>2. QED BY <2>1, <3>1, LastFacts
  <2>3. /\ \A i \in 1 .. Len(arrived[p]) : arrived[p][i] < m
        /\ \A j \in 1 .. Len(v) : v[j] # CertFrame => m < v[j]
        /\ Before(p, m)
    BY <1>3, <1>7 DEF Ordered
  <2>4. \A i, j \in 1 .. Len(a) : i < j => a[i] < a[j]
    <3>1. ASSUME NEW i \in 1 .. Len(a), NEW j \in 1 .. Len(a), i < j
          PROVE  a[i] < a[j]
      <4>1. i \in 1 .. Len(arrived[p]) /\ a[i] = arrived[p][i]
        BY <2>2, <3>1
      <4>2. CASE j \in 1 .. Len(arrived[p]) /\ a[j] = arrived[p][j]
        BY <3>1, <4>1, <4>2 DEF Ordered
      <4>3. CASE a[j] = m
        BY <2>3, <4>1, <4>3
      <4>4. QED BY <2>2, <4>2, <4>3
    <3>2. QED BY <3>1
  <2>5. \A i \in 1 .. Len(a), j \in 1 .. Len(v) : v[j] # CertFrame => a[i] < v[j]
    BY <1>5, <2>2, <2>3
  <2>6. \A i \in 1 .. Len(a) : Before(p, a[i])
    BY <2>2, <2>3 DEF Ordered
  <2>7. wire'[p] = v /\ arrived'[p] = a
    BY <1>2, <1>7, <2>1
  <2>8. QED BY <1>4, <1>5, <2>4, <2>5, <2>6, <2>7 DEF Ordered
<1>8. QED BY <1>2, <1>6, <1>7

\* The broadcaster writes to one peer; the others are as before (SendTo).
LEMMA SendToOrder ==
  ASSUME TypeOK, \A q \in Pairs : Ordered(q), \A h \in Hubs : Numbered(h), NEW p \in Pairs, SendTo(p)
  PROVE  (\A q \in Pairs : Ordered(q)') /\ \A h \in Hubs : Numbered(h)'
<1>1. Sent(p) /\ next' = next /\ old' = old /\ arrived' = arrived /\ Sending(p)
  BY DEF SendTo
<1>2. /\ \A q \in Pairs, m \in Nat : Before(q, m) => Before(q, m)'
      /\ \A h \in Hubs : Numbered(h)'
      /\ p[2] \notin outgoing'[p[1]].to
  BY <1>1, SentOrder
<1>3. ASSUME NEW q \in Pairs, wire'[q] = wire[q]
      PROVE  Ordered(q)'
  <2>1. old'[q] = <<>> /\ Ordered(q)
    BY <1>1 DEF Ordered
  <2>2. QED BY <1>1, <1>2, <1>3, <2>1, OrderedKept
<1>4. ASSUME Write(p, outgoing[p[1]].msg)
      PROVE  Ordered(p)' /\ \A q \in Pairs : q # p => wire'[q] = wire[q]
  <2>1. PICK m : m = outgoing[p[1]].msg
    OBVIOUS
  <2>2. m \in Nat
    <3>1. outgoing[p[1]].msg \in Messages \cup {CertFrame}
      BY PairFacts DEF TypeOK
    <3>2. QED BY <2>1, <3>1, SwarmAssumption DEF SwarmAssumption, Messages, CertFrame
  <2>3. p[2] \in outgoing[p[1]].to /\ m < next
    BY <1>1, <2>1, PairFacts DEF Sending, Numbered
  <2>4. wire'[p] = Append(wire[p], m)
    BY <1>4, <2>1 DEF Write, TypeOK
  <2>5. Before(p, m)'
    BY <1>1, <1>2, <2>3 DEF Before
  <2>6. Ordered(p) /\ old'[p] = <<>>
    BY <1>1 DEF Ordered
  <2>7. /\ \A i \in 1 .. Len(arrived[p]) : arrived[p][i] < m
        /\ \A i \in 1 .. Len(wire[p]) : wire[p][i] < m
    BY <2>1, <2>3, <2>6 DEF Ordered, Before
  <2>8. Ordered(p)'
    BY <1>1, <1>2, <2>2, <2>4, <2>5, <2>6, <2>7, WriteOrder
  <2>9. \A q \in Pairs : q # p => wire'[q] = wire[q]
    BY <1>4 DEF Write, TypeOK
  <2>10. QED BY <2>8, <2>9
<1>5. CASE Write(p, outgoing[p[1]].msg)
  BY <1>2, <1>3, <1>4, <1>5
<1>6. CASE WriteVanishes(p)
  BY <1>2, <1>3, <1>6 DEF WriteVanishes
<1>7. QED BY <1>5, <1>6 DEF SendTo

\* A certificate has no place in the order (SendCert).
LEMMA SendCertOrder ==
  ASSUME TypeOK, \A q \in Pairs : Ordered(q), \A h \in Hubs : Numbered(h), NEW p \in Pairs, SendCert(p)
  PROVE  (\A q \in Pairs : Ordered(q)') /\ \A h \in Hubs : Numbered(h)'
<1>1. UNCHANGED <<old, outgoing, next, arrived>>
  BY DEF SendCert, traffic
<1>2. /\ \A q \in Pairs, m \in Nat : Before(q, m) => Before(q, m)'
      /\ \A h \in Hubs : Numbered(h)'
      /\ \A q \in Pairs : Ordered(q) /\ old'[q] = <<>>
  BY <1>1 DEF Before, Numbered, Ordered
<1>3. ASSUME NEW q \in Pairs, wire'[q] = wire[q]
      PROVE  Ordered(q)'
  BY <1>1, <1>2, <1>3, OrderedKept
<1>4. CASE wire' = wire
  BY <1>2, <1>3, <1>4
<1>5. CASE wire' = [wire EXCEPT ![p] = Append(@, CertFrame)]
  <2>1. wire'[p] = Append(wire[p], 0) /\ \A q \in Pairs : q # p => wire'[q] = wire[q]
    <3>1. PICK w : w = Append(wire[p], 0)
      OBVIOUS
    <3>2. wire' = [wire EXCEPT ![p] = w]
      BY <1>5, <3>1 DEF CertFrame
    <3>3. wire \in [Pairs -> Seq(Messages \cup {CertFrame})]
      BY DEF TypeOK
    <3>4. QED BY <3>1, <3>2, <3>3
  <2>2. 0 < next /\ outgoing[p[1]] \in [msg : Messages \cup {CertFrame}, to : SUBSET Hubs]
    <3>1. TrafficType
      BY TypeParts
    <3>2. 0 < next
      BY <3>1 DEF TrafficType
    <3>3. outgoing[p[1]] \in [msg : Messages \cup {CertFrame}, to : SUBSET Hubs]
      BY <3>1, PairFacts DEF TrafficType
    <3>4. QED BY <3>2, <3>3
  <2>3. outgoing[p[1]].to # {} => 0 < outgoing[p[1]].msg
    <3>1. outgoing[p[1]].msg \in Messages \cup {CertFrame}
      BY <2>2
    <3>2. outgoing[p[1]].to # {} => outgoing[p[1]].msg # CertFrame
      BY PairFacts DEF Numbered
    <3>3. QED BY <3>1, <3>2, SwarmAssumption DEF Messages, CertFrame, SwarmAssumption
  <2>4. Before(p, 0)'
    BY <1>1, <2>2, <2>3 DEF Before
  <2>5. Ordered(p)'
    BY <1>1, <1>2, <2>1, <2>4, WriteOrder DEF CertFrame
  <2>6. QED BY <1>2, <1>3, <2>1, <2>5
<1>6. QED BY <1>4, <1>5 DEF SendCert, Write, WriteVanishes

\* b's handler takes the first frame (HandleCert, HandleMessage).
LEMMA HandleOrder ==
  ASSUME TypeOK, \A q \in Pairs : Ordered(q), \A h \in Hubs : Numbered(h), NEW p \in Pairs, Handle(p)
  PROVE  (\A q \in Pairs : Ordered(q)') /\ \A h \in Hubs : Numbered(h)'
<1>1. UNCHANGED <<outgoing, next>>
  BY DEF Handle, HandleCert, HandleMessage, traffic
<1>2. /\ \A q \in Pairs, m \in Nat : Before(q, m) => Before(q, m)'
      /\ \A h \in Hubs : Numbered(h)'
      /\ \A q \in Pairs : Ordered(q) /\ old[q] = <<>>
  BY <1>1 DEF Before, Numbered, Ordered
<1>3. /\ old' = old /\ wire[p] # <<>> /\ wire' = [wire EXCEPT ![p] = Tail(@)]
      /\ arrived' = arrived \/ (Head(wire[p]) # CertFrame /\ PassOn(p, Head(wire[p])))
  BY <1>2 DEF Handle, HandleCert, HandleMessage, Unread, traffic
<1>4. wire'[p] = Tail(wire[p]) /\ \A q \in Pairs : q # p => wire'[q] = wire[q]
  BY <1>3 DEF TypeOK
<1>5. /\ \A q \in Pairs : q # p => arrived'[q] = arrived[q]
      /\ \/ arrived'[p] = arrived[p]
         \/ Head(wire[p]) # CertFrame /\ arrived'[p] = Append(arrived[p], Head(wire[p]))
  BY <1>3 DEF PassOn, TypeOK
<1>6. Ordered(p)'
  BY <1>1, <1>2, <1>3, <1>4, <1>5, ReadOrder
<1>7. ASSUME NEW q \in Pairs, q # p
      PROVE  Ordered(q)'
  BY <1>2, <1>3, <1>4, <1>5, <1>7, OrderedKept
<1>8. QED BY <1>2, <1>6, <1>7

\* A message is taken from the role and numbered (Take).
LEMMA TakeOrder ==
  ASSUME TypeOK, \A q \in Pairs : Ordered(q), \A h \in Hubs : Numbered(h), NEW h \in Hubs, Take(h)
  PROVE  (\A q \in Pairs : Ordered(q)') /\ \A g \in Hubs : Numbered(g)'
<1>1. /\ UNCHANGED <<old, wire, arrived>> /\ next \in Nat /\ next > 0 /\ next' = next + 1
      /\ outgoing' = [outgoing EXCEPT ![h] = [msg |-> next, to |-> connected[h]]]
  BY SwarmAssumption DEF Take, streams, TypeOK, SwarmAssumption
<1>2. /\ outgoing'[h].msg = next
      /\ \A g \in Hubs : g # h => outgoing'[g] = outgoing[g]
  BY <1>1 DEF TypeOK
<1>3. ASSUME NEW q \in Pairs, NEW m \in Nat, Before(q, m)
      PROVE  Before(q, m)'
  <2>1. m < next /\ m < next'
    BY <1>1, <1>3 DEF Before
  <2>2. CASE q[1] = h
    BY <1>2, <2>1, <2>2 DEF Before
  <2>3. CASE q[1] # h
    BY <1>2, <1>3, <2>1, <2>3, PairFacts DEF Before
  <2>4. QED BY <2>2, <2>3
<1>4. ASSUME NEW g \in Hubs
      PROVE  Numbered(g)'
  <2>1. CASE g = h
    BY <1>1, <1>2, <2>1 DEF Numbered, CertFrame
  <2>2. CASE g # h
    <3>1. outgoing[g].msg \in Nat
      BY SwarmAssumption DEF SwarmAssumption, TypeOK, Messages, CertFrame
    <3>2. outgoing'[g] = outgoing[g] /\ Numbered(g)
      BY <1>2, <2>2
    <3>3. QED BY <1>1, <3>1, <3>2 DEF Numbered
  <2>3. QED BY <2>1, <2>2
<1>5. ASSUME NEW q \in Pairs
      PROVE  Ordered(q)'
  <2>1. Ordered(q) /\ old'[q] = <<>>
    BY <1>1 DEF Ordered
  <2>2. QED BY <1>1, <1>3, <2>1, OrderedKept
<1>6. QED BY <1>4, <1>5

\* Frames go as a whole (Disconnect, a crash, a reset).
LEMMA FramesGo ==
  ASSUME \/ \E P, known : Broken(P, known)
         \/ \E p \in Pairs : Emptied({p}) /\ old' = old
  PROVE  \A q \in Pairs : (wire'[q] = wire[q] \/ wire'[q] = <<>>) /\ (old'[q] = old[q] \/ old'[q] = <<>>)
BY DEF Broken, Emptied

\* So does the message that was to be sent by a stream that breaks, or vanishes
\* on one (a failed write, a collision).
LEMMA BreakOrder ==
  ASSUME TypeOK, \A q \in Pairs : Ordered(q), \A h \in Hubs : Numbered(h), UNCHANGED <<next, arrived>>,
         \A q \in Pairs : (wire'[q] = wire[q] \/ wire'[q] = <<>>) /\ (old'[q] = old[q] \/ old'[q] = <<>>),
         \/ outgoing' = outgoing
         \/ \E p \in Pairs : Sent(p)
         \/ \E h \in Hubs : outgoing' = [outgoing EXCEPT ![h] = Idle]
  PROVE  (\A q \in Pairs : Ordered(q)') /\ \A h \in Hubs : Numbered(h)'
<1>1. (\A q \in Pairs, m \in Nat : Before(q, m) => Before(q, m)') /\ \A h \in Hubs : Numbered(h)'
  <2>1. CASE outgoing' = outgoing
    BY <2>1 DEF Before, Numbered
  <2>2. ASSUME NEW p \in Pairs, Sent(p)
        PROVE  (\A q \in Pairs, m \in Nat : Before(q, m) => Before(q, m)') /\ \A h \in Hubs : Numbered(h)'
    BY <2>2, SentOrder
  <2>3. ASSUME NEW h \in Hubs, outgoing' = [outgoing EXCEPT ![h] = Idle]
        PROVE  (\A q \in Pairs, m \in Nat : Before(q, m) => Before(q, m)') /\ \A g \in Hubs : Numbered(g)'
    <3>1. /\ outgoing'[h].msg = 0 /\ outgoing'[h].to = {} /\ 0 < next
          /\ \A g \in Hubs : g # h => outgoing'[g] = outgoing[g]
      BY <2>3 DEF Idle, CertFrame, TypeOK
    <3>2. ASSUME NEW q \in Pairs, NEW m \in Nat, Before(q, m)
          PROVE  Before(q, m)'
      BY <3>1, <3>2, PairFacts DEF Before
    <3>3. ASSUME NEW g \in Hubs
          PROVE  Numbered(g)'
      BY <3>1 DEF Numbered
    <3>4. QED BY <3>2, <3>3
  <2>4. QED BY <2>1, <2>2, <2>3
<1>2. ASSUME NEW q \in Pairs
      PROVE  Ordered(q)'
  <2>1. Ordered(q) /\ old'[q] = <<>>
    BY DEF Ordered
  <2>2. QED BY <1>1, <2>1, OrderedKept
<1>3. QED BY <1>1, <1>2

\* As long as no write timed out, no step disturbs the order.
LEMMA OrderStep ==
  ASSUME TypeOK, InOrder, [Next]_vars
  PROVE  InOrder'
<1> SUFFICES ASSUME timeouts' = 0
             PROVE  (\A q \in Pairs : Ordered(q)') /\ \A h \in Hubs : Numbered(h)'
  BY DEF InOrder
<1>1. timeouts = 0
  BY FailuresGrow
<1>2. (\A q \in Pairs : Ordered(q)) /\ \A h \in Hubs : Numbered(h)
  BY <1>1 DEF InOrder
<1>3. ASSUME NEW p \in Pairs, SendTo(p) \/ SendCert(p) \/ Handle(p)
      PROVE  (\A q \in Pairs : Ordered(q)') /\ \A h \in Hubs : Numbered(h)'
  BY <1>2, <1>3, SendToOrder, SendCertOrder, HandleOrder
<1>4. ASSUME NEW h \in Hubs, Take(h)
      PROVE  (\A q \in Pairs : Ordered(q)') /\ \A g \in Hubs : Numbered(g)'
  BY <1>2, <1>4, TakeOrder
<1>5. ASSUME NEW p \in Pairs, SendTimeout(p)
      PROVE  FALSE
  BY <1>1, <1>5 DEF SendTimeout
<1>6. ASSUME NEW p \in Pairs,
             \/ Dial(p) /\ ~SendCert(p)
             \/ SendFails(p) \/ Collide(p) \/ LeakedRead(p) \/ Tear(p) \/ Reset(p) \/ Notice(p)
      PROVE  (\A q \in Pairs : Ordered(q)') /\ \A h \in Hubs : Numbered(h)'
  <2>1. /\ UNCHANGED <<next, arrived>> /\ (outgoing' = outgoing \/ Sent(p))
        /\ \/ UNCHANGED <<wire, old>>
           \/ \E P, known : Broken(P, known)
           \/ Emptied({p}) /\ old' = old
    BY <1>6 DEF Dial, Connect, ReplyRead, WaitFails, WaitTimeout, Disconnect, DisconnectFails, SendFails,
                Collide, LeakedRead, Tear, Reset, Notice, streams, traffic
  <2>2. \A q \in Pairs : (wire'[q] = wire[q] \/ wire'[q] = <<>>) /\ (old'[q] = old[q] \/ old'[q] = <<>>)
    BY <2>1, FramesGo
  <2>3. QED BY <1>2, <2>1, <2>2, BreakOrder
<1>7. ASSUME NEW h \in Hubs, Crash(h) \/ Consume(h) \/ Restart(h)
      PROVE  (\A q \in Pairs : Ordered(q)') /\ \A g \in Hubs : Numbered(g)'
  <2>1. /\ UNCHANGED <<next, arrived>>
        /\ outgoing' = outgoing \/ outgoing' = [outgoing EXCEPT ![h] = Idle]
        /\ UNCHANGED <<wire, old>> \/ (\E P, known : Broken(P, known))
    BY <1>7 DEF Crash, Consume, Restart, streams, traffic
  <2>2. \A q \in Pairs : (wire'[q] = wire[q] \/ wire'[q] = <<>>) /\ (old'[q] = old[q] \/ old'[q] = <<>>)
    BY <2>1, FramesGo
  <2>3. QED BY <1>2, <2>1, <2>2, BreakOrder
<1>8. CASE UNCHANGED vars
  <2>1. UNCHANGED <<next, arrived, outgoing, wire, old>>
    BY <1>8 DEF vars, streams, traffic
  <2>2. QED BY <1>2, <2>1, BreakOrder
<1>9. QED BY <1>3, <1>4, <1>5, <1>6, <1>7, <1>8 DEF Next, Send

\* What one hub broadcasts reaches the role of another in the order of the
\* broadcasts, as long as no stream was given up that still buffered messages:
\* not after a crash, a reset or a reconnection, whoever closed the stream
\* (AsyncSend, streamMgr.remove).
THEOREM ArriveInOrderHolds == Spec => []ArriveInOrder
<1>1. Init => InOrder
  <2> SUFFICES ASSUME Init PROVE InOrder
    OBVIOUS
  <2>1. \A p \in Pairs : old[p] = <<>> /\ arrived[p] = <<>> /\ wire[p] = <<>>
    BY DEF Init
  <2>2. \A p \in Pairs : Ordered(p)
    BY <2>1 DEF Ordered
  <2>3. \A h \in Hubs : Numbered(h)
    BY DEF Init, Numbered, Idle, CertFrame
  <2>4. QED BY <2>2, <2>3 DEF InOrder
<1>2. TypeOK /\ InOrder /\ [Next]_vars => InOrder'
  BY OrderStep
<1>3. TypeOK /\ InOrder => ArriveInOrder
  <2> SUFFICES ASSUME TypeOK, InOrder, timeouts = 0, NEW p \in Pairs,
                      NEW i \in 1 .. MaxMessages, NEW j \in 1 .. MaxMessages,
                      i < j, j <= Len(arrived[p])
               PROVE  arrived[p][i] < arrived[p][j]
    BY DEF ArriveInOrder
  <2>1. PICK l \in Nat : l = Len(arrived[p])
    BY DEF TypeOK
  <2>2. i \in 1 .. l /\ j \in 1 .. l
    BY <2>1, SwarmAssumption DEF SwarmAssumption
  <2>3. Ordered(p)
    BY DEF InOrder
  <2>4. QED BY <2>1, <2>2, <2>3 DEF Ordered
<1>4. QED BY <1>1, <1>2, <1>3, TypeCorrect, PTL DEF Spec

=============================================================================
