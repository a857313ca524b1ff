-------------------------------- MODULE Swarm --------------------------------
(***************************************************************************)
(* The network of hubs: swarm/ (handshake, connectedPeers, broadcast) over *)
(* hubnet/ (one cached stream per peer, framing, timeouts) over libp2p.    *)
(*                                                                         *)
(* Each hub a runs, for each configured peer b, a goroutine that retries   *)
(* Connect, SendCert, then one of ReplyRead, WaitFails, WaitTimeout, and   *)
(* at last Disconnect, until it is done; a goroutine that broadcasts what  *)
(* its role sends (Take, SendTo, SendFails, SendTimeout); and a handler    *)
(* per incoming stream (HandleCert, HandleMessage).  The goroutine for b   *)
(* and the broadcaster share the cached stream to b; Disconnect closes the *)
(* connection, with all the streams on it, and the other side goes on      *)
(* writing to its own until it sees the close (Notice).                    *)
(*                                                                         *)
(* wire[<<a, b>>] holds what a wrote on its stream to b and b's handler    *)
(* has not read.  A frame is written and read as a whole, except that two  *)
(* goroutines may write to one stream at once (Collide) and two may read   *)
(* answers from one (Tear): from there on that direction of the stream     *)
(* makes no sense to its reader.                                           *)
(***************************************************************************)
EXTENDS Integers, Sequences, Certificates

CONSTANTS
  Hubs,         \* the hubs of network.toml
  WireCap,      \* frames that a stream buffers
  InboxCap,     \* capacity of messageCh (4096)
  Senders,      \* hubs whose roles have something to send
  MaxMessages,  \* bound on the messages of the roles
  MaxTimeouts,  \* bound on answers and writes that come too late
  MaxFaults,    \* bound on calls of libp2p that fail with the peer up
  MaxCrashes    \* bound on Crash

ASSUME SwarmAssumption ==
  /\ Senders \subseteq Hubs
  /\ WireCap \in Nat \ {0} /\ InboxCap \in Nat \ {0}
  /\ MaxMessages \in Nat /\ MaxTimeouts \in Nat /\ MaxFaults \in Nat /\ MaxCrashes \in Nat

VARIABLES
  trusted,    \* <<a, b>>: b's certificates lead to the CA of a
  up,         \* the process runs
  dial,       \* where the goroutine of a for b is
  connected,  \* connectedPeers of each hub
  stream,     \* a's cached stream to b, see States
  wire,       \* unread frames on it: CertFrame or a message
  old,        \* unread frames of a stream a gave up after a slow write
  replies,    \* certificates b answered on a's stream, unread
  leaked,     \* some reader of a gave up waiting for such an answer and reads on
  torn,       \* two readers split such an answer between them
  outgoing,   \* the message a broadcasts and the peers it still has to reach
  inbox,      \* messageCh
  next,       \* history: number of the next message of a role
  arrived,    \* history: messages of a in the order b's handlers passed them on
  carried,    \* history: one of a reached b's stream since both were done dialling
  lateLoss,   \* history: messages from a to b lost since then (Fails, Vanishes)
  timeouts, faults, crashes

peers   == <<trusted, up, dial, connected>>
streams == <<stream, wire, old, replies, leaked, torn>>
traffic == <<outgoing, inbox, next, arrived, carried, lateLoss>>
counts  == <<timeouts, faults, crashes>>
vars    == <<peers, streams, traffic, counts>>

Pairs     == {p \in Hubs \X Hubs : p[1] # p[2]}
CertFrame == 0
Messages  == 1 .. MaxMessages
Idle      == [msg |-> CertFrame, to |-> {}]

\* "none": no stream is cached, the next write opens one.  "gone": the same, and a
\*   has not seen that b closed their connection, on which it would be opened.
\* "live": what a writes reaches b's handler.  "deaf": since a collision the
\*   handler takes all that comes for one long frame.
\* "stale": b closed it and a has not seen that, writes succeed.  "dead": the
\*   next write fails.
States == {"none", "gone", "live", "deaf", "stale", "dead"}
Open(p) == stream[p] \in {"live", "deaf"}

TypeOK ==
  /\ trusted \subseteq Pairs /\ up \in [Hubs -> BOOLEAN]
  /\ dial \in [Pairs -> {"connect", "send", "wait", "close", "done"}]
  /\ connected \in [Hubs -> SUBSET Hubs]
  /\ stream \in [Pairs -> States]
  /\ wire \in [Pairs -> Seq(Messages \cup {CertFrame})]
  /\ old \in [Pairs -> Seq(Messages \cup {CertFrame})]
  /\ \A p \in Pairs : Len(wire[p]) <= WireCap /\ Len(old[p]) <= WireCap
  /\ replies \in [Pairs -> Nat] /\ leaked \in [Pairs -> BOOLEAN] /\ torn \in [Pairs -> BOOLEAN]
  /\ \A p \in Pairs : ~Open(p) => wire[p] = <<>> /\ replies[p] = 0 /\ ~leaked[p] /\ ~torn[p]
  /\ outgoing \in [Hubs -> [msg : Messages \cup {CertFrame}, to : SUBSET Hubs]]
  /\ inbox \in [Hubs -> Seq(Messages)] /\ \A h \in Hubs : Len(inbox[h]) <= InboxCap
  /\ next \in 1 .. MaxMessages + 1
  /\ arrived \in [Pairs -> Seq(Messages)]
  /\ carried \in [Pairs -> BOOLEAN] /\ lateLoss \in [Pairs -> Nat]
  /\ timeouts \in Nat /\ faults \in Nat /\ crashes \in Nat

Back(p) == <<p[2], p[1]>>
Settled(p) == dial[p] = "done" /\ dial[Back(p)] = "done"

Fault == faults < MaxFaults /\ faults' = faults + 1

\* A message whose write fails, and one whose write succeeds and that is lost.  Of
\* the latter only those count that come after one that was not lost.
LostIf(p, late) == lateLoss' = [lateLoss EXCEPT ![p] = IF late THEN @ + 1 ELSE @]
Fails(p)    == LostIf(p, Settled(p)) /\ UNCHANGED carried
Vanishes(p) == LostIf(p, Settled(p) /\ carried[p]) /\ UNCHANGED carried

\* Frames and readers of the streams in P are gone.
Emptied(P) ==
  /\ wire' = [p \in Pairs |-> IF p \in P THEN <<>> ELSE wire[p]]
  /\ replies' = [p \in Pairs |-> IF p \in P THEN 0 ELSE replies[p]]
  /\ leaked' = [p \in Pairs |-> IF p \in P THEN FALSE ELSE leaked[p]]
  /\ torn' = [p \in Pairs |-> IF p \in P THEN FALSE ELSE torn[p]]

\* The streams of P break, of which the sides in known know: what was under way
\* is lost.  The others have not seen it yet.
Broken(P, known) ==
  /\ stream' = [p \in Pairs |->
       CASE p \notin P -> stream[p]
         [] p \in P /\ p \in known -> "none"
         [] p \in P \ known /\ Open(p) -> "stale"
         [] p \in P \ known /\ stream[p] = "none" -> "gone"
         [] OTHER -> stream[p]]
  /\ Emptied(P)
  /\ old' = [p \in Pairs |-> IF p \in P THEN <<>> ELSE old[p]]

-----------------------------------------------------------------------------
(* The goroutine of a for b: p = <<a, b>>. *)

Goto(p, place) == dial' = [dial EXCEPT ![p] = place]

\* a connection whose end a has not seen will do
Connect(p) ==
  /\ up[p[1]] /\ dial[p] = "connect"
  /\ up[p[2]] \/ stream[p] \in {"gone", "stale"}
  /\ Goto(p, "send")
  /\ UNCHANGED <<trusted, up, connected, streams, traffic, counts>>

\* A frame of a put on its stream to b, opened if need be, or vanishing on it.
Delivers(p) == stream[p] = "live" \/ (stream[p] = "none" /\ up[p[2]])
Write(p, frame) ==
  /\ Delivers(p) /\ Len(wire[p]) < WireCap
  /\ stream' = [stream EXCEPT ![p] = "live"]
  /\ wire' = [wire EXCEPT ![p] = Append(@, frame)]
WriteVanishes(p) ==
  /\ stream[p] \in {"gone", "stale", "deaf"}
  /\ stream' = [stream EXCEPT ![p] = IF @ = "gone" THEN "stale" ELSE @]
  /\ UNCHANGED wire

\* No stream can be opened (b is down, or NewStream fails all the same), or the
\* write fails: the stream leaves the cache.
WriteFails(p) ==
  \/ /\ stream[p] = "dead" \/ (stream[p] \in {"none", "gone"} /\ ~up[p[2]])
     /\ UNCHANGED faults
  \/ stream[p] \in {"none", "gone"} /\ up[p[2]] /\ Fault

\* streamMgr.get and send: when one fails, so does the attempt
SendCert_KeepsDead(p) ==
  /\ up[p[1]] /\ dial[p] = "send"
  /\ \/ /\ Write(p, CertFrame) \/ WriteVanishes(p)
        /\ Goto(p, "wait") /\ UNCHANGED faults
     \/ WriteFails(p) /\ Goto(p, "connect") /\ UNCHANGED <<stream, wire>>
  /\ UNCHANGED <<trusted, up, connected, old, replies, leaked, torn, traffic, timeouts, crashes>>
SendCert(p) ==
  /\ up[p[1]] /\ dial[p] = "send"
  /\ \/ /\ Write(p, CertFrame) \/ WriteVanishes(p)
        /\ Goto(p, "wait") /\ UNCHANGED faults
     \/ /\ WriteFails(p) /\ Goto(p, "connect")
        /\ stream' = [stream EXCEPT ![p] = IF @ = "dead" THEN "none" ELSE @] /\ UNCHANGED wire
  /\ UNCHANGED <<trusted, up, connected, old, replies, leaked, torn, traffic, timeouts, crashes>>

\* a accepts both certificates of b (verifyCerts)
Verified(p) == p \in trusted

\* verifyCert goes on with the answer
ReplyRead(p) ==
  /\ up[p[1]] /\ dial[p] = "wait" /\ replies[p] > 0
  /\ replies' = [replies EXCEPT ![p] = @ - 1]
  /\ Goto(p, IF Verified(p) THEN "close" ELSE "connect")
  /\ UNCHANGED <<trusted, up, connected, stream, wire, old, leaked, torn, traffic, counts>>

\* the stream broke; waitMsg returns nil and Send keeps the stream in the cache
WaitFails(p) ==
  /\ up[p[1]] /\ dial[p] = "wait" /\ stream[p] \in {"none", "gone", "dead"}
  /\ Goto(p, "connect")
  /\ UNCHANGED <<trusted, up, connected, streams, traffic, counts>>

\* Five seconds pass.  The reader stays on the stream and takes what comes later.
Unanswered(p) ==
  \/ stream[p] = "stale" \/ torn[p]
  \/ /\ replies[p] = 0
     /\ \A i \in DOMAIN wire[p] : wire[p][i] # CertFrame
     /\ \A i \in DOMAIN old[p] : old[p][i] # CertFrame
WaitTimeout(p) ==
  /\ up[p[1]] /\ dial[p] = "wait" /\ (Open(p) \/ stream[p] = "stale")
  /\ \/ Unanswered(p) /\ UNCHANGED timeouts
     \/ ~Unanswered(p) /\ timeouts < MaxTimeouts /\ timeouts' = timeouts + 1
  /\ leaked' = [leaked EXCEPT ![p] = Open(p)]
  /\ Goto(p, "connect")
  /\ UNCHANGED <<trusted, up, connected, stream, wire, old, replies, torn, traffic, faults, crashes>>

\* A reader that was left behind takes an answer that is meant for the next one.
\* Others may have been left with it.
LeakedRead(p) ==
  /\ up[p[1]] /\ leaked[p] /\ replies[p] > 0
  /\ replies' = [replies EXCEPT ![p] = @ - 1]
  /\ \E more \in BOOLEAN : leaked' = [leaked EXCEPT ![p] = more]
  /\ UNCHANGED <<peers, stream, wire, old, torn, traffic, counts>>

\* ReadMsg reads three times, without a lock: two readers split an answer, and
\* whoever reads the stream from then on starts in the middle of one.  (leaked
\* does not count the readers: the second is one that waits or another left behind.)
Tear(p) ==
  /\ up[p[1]] /\ leaked[p] /\ replies[p] > 0
  /\ torn' = [torn EXCEPT ![p] = TRUE]
  /\ replies' = [replies EXCEPT ![p] = 0]
  /\ UNCHANGED <<peers, stream, wire, old, leaked, traffic, counts>>

\* ClosePeer closes the connection; then the peer is connected, unless ClosePeer
\* reports an error.
Disconnect(p) ==
  /\ up[p[1]] /\ dial[p] = "close"
  /\ Broken({p, Back(p)}, {p})
  /\ connected' = [connected EXCEPT ![p[1]] = @ \cup {p[2]}]
  /\ Goto(p, "done")
  /\ UNCHANGED <<trusted, up, traffic, counts>>

DisconnectFails(p) ==
  /\ up[p[1]] /\ dial[p] = "close" /\ Fault
  /\ Broken({p, Back(p)}, {p})
  /\ Goto(p, "connect")
  /\ UNCHANGED <<trusted, up, connected, traffic, timeouts, crashes>>

\* a sees that the connection was closed.
Notice(p) ==
  /\ up[p[1]] /\ stream[p] \in {"stale", "gone"}
  /\ stream' = [stream EXCEPT ![p] = IF @ = "stale" THEN "dead" ELSE "none"]
  /\ UNCHANGED <<peers, wire, old, replies, leaked, torn, traffic, counts>>

-----------------------------------------------------------------------------
(* The broadcaster of a. *)

Take(a) ==
  /\ a \in Senders /\ up[a] /\ outgoing[a] = Idle /\ next <= MaxMessages /\ connected[a] # {}
  /\ outgoing' = [outgoing EXCEPT ![a] = [msg |-> next, to |-> connected[a]]]
  /\ next' = next + 1
  /\ UNCHANGED <<peers, streams, inbox, arrived, carried, lateLoss, counts>>

Sent(p) ==
  LET rest == outgoing[p[1]].to \ {p[2]}
  IN outgoing' = [outgoing EXCEPT ![p[1]] = IF rest = {} THEN Idle ELSE [@ EXCEPT !.to = rest]]

Sending(p) == up[p[1]] /\ p[2] \in outgoing[p[1]].to

SendTo(p) ==
  /\ Sending(p) /\ Sent(p)
  /\ \/ /\ Write(p, outgoing[p[1]].msg) /\ UNCHANGED lateLoss
        /\ carried' = [carried EXCEPT ![p] = Settled(p)]
     \/ WriteVanishes(p) /\ Vanishes(p)
  /\ UNCHANGED <<peers, old, replies, leaked, torn, inbox, next, arrived, counts>>

\* the error is logged, the message is gone
SendFails_Kept(p) ==
  /\ Sending(p) /\ WriteFails(p)
  /\ Sent(p) /\ Fails(p)
  /\ UNCHANGED <<peers, streams, inbox, next, arrived, timeouts, crashes>>
SendFails(p) ==
  /\ Sending(p) /\ WriteFails(p)
  /\ stream' = [stream EXCEPT ![p] = IF @ = "dead" THEN "none" ELSE @]
  /\ Sent(p) /\ Fails(p)
  /\ UNCHANGED <<peers, wire, old, replies, leaked, torn, inbox, next, arrived, timeouts, crashes>>

\* The write deadline passes while the peer does not read: the stream is left
\* open and forgotten, what it buffers may still be read.  (An answer that would
\* still come by it counts as late.)
SendTimeout(p) ==
  /\ Sending(p)
  /\ stream[p] = "live" /\ Len(wire[p]) = WireCap /\ old[p] = <<>>
  /\ timeouts < MaxTimeouts /\ timeouts' = timeouts + 1
  /\ stream' = [stream EXCEPT ![p] = "none"]
  /\ old' = [old EXCEPT ![p] = wire[p]] /\ wire' = [wire EXCEPT ![p] = <<>>]
  /\ replies' = [replies EXCEPT ![p] = 0]
  /\ leaked' = [leaked EXCEPT ![p] = FALSE] /\ torn' = [torn EXCEPT ![p] = FALSE]
  /\ Sent(p) /\ Fails(p)
  /\ UNCHANGED <<peers, inbox, next, arrived, faults, crashes>>

\* WriteMsg writes three times: the goroutine for b and the broadcaster garble
\* each other's frame.  b takes the rest for the body of a frame, or finds that
\* it is none, at once or later, and resets the stream.
Collide(p) ==
  /\ Sending(p) /\ dial[p] = "send" /\ stream[p] = "live"
  /\ stream' = [stream EXCEPT ![p] = "deaf"]
  /\ Goto(p, "wait") /\ Sent(p) /\ Vanishes(p)
  /\ UNCHANGED <<trusted, up, connected, wire, old, replies, leaked, torn, inbox, next, arrived, counts>>

Reset(p) ==
  /\ up[p[2]] /\ stream[p] = "deaf" /\ wire[p] = <<>>
  /\ stream' = [stream EXCEPT ![p] = "stale"]
  /\ Emptied({p})
  /\ UNCHANGED <<peers, old, traffic, counts>>

-----------------------------------------------------------------------------
(* b's handlers of the streams from a. *)

\* A frame taken from the stream, or from the one that was given up.
Unread(p, frames) == up[p[2]] /\ frames # <<>>

\* GetCertMsg: a is verified, connected and answered on the stream the request
\* came by, or ignored.
HandleCert_Unverified(p) ==
  /\ Unread(p, wire[p]) /\ Head(wire[p]) = CertFrame
  /\ wire' = [wire EXCEPT ![p] = Tail(@)]
  /\ connected' = [connected EXCEPT ![p[2]] = @ \cup {p[1]}]
  /\ replies' = [replies EXCEPT ![p] = @ + 1]
  /\ UNCHANGED <<trusted, up, dial, stream, old, leaked, torn, traffic, counts>>
HandleCert(p) ==
  /\ \/ /\ Unread(p, wire[p]) /\ Head(wire[p]) = CertFrame
        /\ wire' = [wire EXCEPT ![p] = Tail(@)] /\ UNCHANGED old
        /\ replies' = [replies EXCEPT ![p] = IF Verified(Back(p)) /\ ~torn[p] THEN @ + 1 ELSE @]
     \/ /\ Unread(p, old[p]) /\ Head(old[p]) = CertFrame
        /\ old' = [old EXCEPT ![p] = Tail(@)] /\ UNCHANGED <<wire, replies>>
  /\ connected' = [connected EXCEPT ![p[2]] = IF Verified(Back(p)) THEN @ \cup {p[1]} ELSE @]
  /\ UNCHANGED <<trusted, up, dial, stream, leaked, torn, traffic, counts>>

\* CtxSignMsg, RtxSignMsg: swarm.messageCh <- &ev
PassOn(p, m) ==
  /\ Len(inbox[p[2]]) < InboxCap
  /\ inbox' = [inbox EXCEPT ![p[2]] = Append(@, m)]
  /\ arrived' = [arrived EXCEPT ![p] = Append(@, m)]

HandleMessage_Spawned(p) ==
  /\ Unread(p, wire[p])
  /\ \E i \in DOMAIN wire[p] :
       /\ wire[p][i] # CertFrame /\ PassOn(p, wire[p][i])
       /\ wire' = [wire EXCEPT ![p] = SubSeq(@, 1, i - 1) \o SubSeq(@, i + 1, Len(@))]
  /\ UNCHANGED <<peers, stream, old, replies, leaked, torn, outgoing, next, carried, lateLoss, counts>>
HandleMessage(p) ==
  /\ \/ /\ Unread(p, wire[p]) /\ Head(wire[p]) # CertFrame
        /\ PassOn(p, Head(wire[p]))
        /\ wire' = [wire EXCEPT ![p] = Tail(@)] /\ UNCHANGED old
     \/ /\ Unread(p, old[p]) /\ Head(old[p]) # CertFrame
        /\ PassOn(p, Head(old[p]))
        /\ old' = [old EXCEPT ![p] = Tail(@)] /\ UNCHANGED wire
  /\ UNCHANGED <<peers, stream, replies, leaked, torn, outgoing, next, carried, lateLoss, counts>>

\* the role takes a message
Consume(b) ==
  /\ up[b] /\ inbox[b] # <<>>
  /\ inbox' = [inbox EXCEPT ![b] = Tail(@)]
  /\ UNCHANGED <<peers, streams, outgoing, next, arrived, carried, lateLoss, counts>>

-----------------------------------------------------------------------------

Crash(a) ==
  /\ up[a] /\ crashes < MaxCrashes /\ crashes' = crashes + 1
  /\ up' = [up EXCEPT ![a] = FALSE]
  /\ Broken({p \in Pairs : a \in {p[1], p[2]}}, {p \in Pairs : p[1] = a})
  /\ connected' = [connected EXCEPT ![a] = {}]
  /\ dial' = [p \in Pairs |-> IF p[1] = a THEN "connect" ELSE dial[p]]
  /\ outgoing' = [outgoing EXCEPT ![a] = Idle] /\ inbox' = [inbox EXCEPT ![a] = <<>>]
  /\ lateLoss' = [p \in Pairs |-> IF a \in {p[1], p[2]} THEN 0 ELSE lateLoss[p]]
  /\ carried' = [p \in Pairs |-> a \notin {p[1], p[2]} /\ carried[p]]
  /\ UNCHANGED <<trusted, next, arrived, timeouts, faults>>

Restart(a) ==
  /\ ~up[a] /\ up' = [up EXCEPT ![a] = TRUE]
  /\ UNCHANGED <<trusted, dial, connected, streams, traffic, counts>>

\* Each hub was given some folder of certificates.
Trust(folder) == {p \in Pairs : VerifyCerts(folder[p[1]], folder[p[2]])}

Init ==
  /\ \E folder \in [Hubs -> Folders] : trusted = Trust(folder)
  /\ up = [h \in Hubs |-> FALSE]
  /\ dial = [p \in Pairs |-> "connect"] /\ connected = [h \in Hubs |-> {}]
  /\ stream = [p \in Pairs |-> "none"]
  /\ wire = [p \in Pairs |-> <<>>] /\ old = [p \in Pairs |-> <<>>]
  /\ replies = [p \in Pairs |-> 0]
  /\ leaked = [p \in Pairs |-> FALSE] /\ torn = [p \in Pairs |-> FALSE]
  /\ outgoing = [h \in Hubs |-> Idle] /\ inbox = [h \in Hubs |-> <<>>]
  /\ next = 1 /\ arrived = [p \in Pairs |-> <<>>]
  /\ carried = [p \in Pairs |-> FALSE] /\ lateLoss = [p \in Pairs |-> 0]
  /\ timeouts = 0 /\ faults = 0 /\ crashes = 0

Dial(p) ==
  \/ Connect(p) \/ SendCert(p) \/ ReplyRead(p) \/ WaitFails(p) \/ WaitTimeout(p)
  \/ Disconnect(p) \/ DisconnectFails(p)
Handle(p) == HandleCert(p) \/ HandleMessage(p)
Send(p)   == SendTo(p) \/ SendFails(p)

Next ==
  \/ \E p \in Pairs : Dial(p) \/ Handle(p) \/ Send(p)
                      \/ LeakedRead(p) \/ Tear(p) \/ SendTimeout(p)
                      \/ Collide(p) \/ Reset(p) \/ Notice(p)
  \/ \E h \in Hubs : Take(h) \/ Consume(h) \/ Crash(h) \/ Restart(h)

Spec == Init /\ [][Next]_vars

\* Goroutines are scheduled, timers fire, a close is seen in the end, roles take
\* their messages, and a hub that died is started again; nothing is assumed of
\* crashes, late answers, failing calls, collisions and what comes of them, or
\* what the roles send.
Fairness ==
  /\ \A p \in Pairs : WF_vars(Dial(p)) /\ WF_vars(Handle(p)) /\ WF_vars(Send(p)) /\ WF_vars(Notice(p))
  /\ \A h \in Hubs : WF_vars(Consume(h)) /\ WF_vars(Restart(h))
FairSpec == Spec /\ Fairness

-----------------------------------------------------------------------------
(* Properties. *)

\* Two hubs that accept each other's certificates end up in each other's
\* connectedPeers for good, although each closes the connection the other may be
\* using (verifyCert), unless readers that gave up are left over and over on the
\* stream by which the one asks the other: nothing replaces a cached stream on
\* which answers fail to come, or come to the wrong reader (P2P.Send, waitMsg).
HubsMeet ==
  \A p \in Pairs :
    <>[]({p, Back(p)} \subseteq trusted => p[2] \in connected[p[1]]) \/ []<>leaked[p]

\* Once two hubs are both done dialling, messages from one to the other may vanish
\* until one does not or the last close is seen; after that at most one more is
\* lost, by the write that fails on the closed stream, and one for each write
\* that timed out and each call that failed (AsyncSend, Disconnect).
LossBounded == \A p \in Pairs : lateLoss[p] <= 1 + timeouts + faults

\* What one hub broadcasts arrives in the order of its broadcasts, unless a slow
\* stream was given up while it still buffered messages (streamMgr.remove).
ArriveInOrder ==
  timeouts = 0 =>
    \A p \in Pairs, i, j \in 1 .. MaxMessages :
      i < j /\ j <= Len(arrived[p]) => arrived[p][i] < arrived[p][j]

\* A hub sends to another only after it has verified both its certificates,
\* whichever of the two dialled (verifyCert, handleMessage): that the other one
\* accepts the sender is not enough.
OnlyTrustedConnected == \A p \in Hubs \X Hubs : p[2] \in connected[p[1]] => p \in trusted

=============================================================================
