--------------------------- MODULE CrossNetProofs ---------------------------
(***************************************************************************)
(* Proofs about CrossNet, for any hubs, orders, contracts, losses and      *)
(* replays: how often Fabric moves money for an order, and that one        *)
(* courier and any number of viewers keep the promise of Transfer.         *)
(***************************************************************************)
EXTENDS CrossNet, FiniteSetTheorems, TLAPS

\* id names an order or a contract that somebody made.
Exists(id) == \/ id \in Makes /\ maker[id] # "none"
              \/ id \in Pres /\ contract[id] # "none"

\* What is under way is about orders and contracts that were made, and a receipt
\* for an order names a transfer that Fabric made.
Genuine ==
  \A x \in UnderWay :
    /\ x[2].body.kind = "order" => Exists(x[2].body.id)
    /\ x[2].body.kind = "receipt" /\ x[2].body.id \in Makes
         => x[2].body.hash \in 1 .. moved[x[2].body.id]

\* So are the events of both chains, and what viewers store.
Logged ==
  \A i \in 1 .. Len(log) :
    /\ log[i].kind = "MakerTx" => log[i].id \in Makes /\ Exists(log[i].id)
    /\ log[i].kind = "TakerTx" => log[i].id \in taken
Recorded ==
  \A i \in 1 .. Len(blocks) :
    /\ blocks[i].kind = "Init" => blocks[i].id \in Pres /\ Exists(blocks[i].id)
    /\ blocks[i].kind = "OutOnceCompleted" => blocks[i].hash \in 1 .. moved[blocks[i].id]
Stored == \A v \in Viewers : \A o \in remote[v] : Exists(o.body.id)
Moved  == \A id \in Ids : moved[id] > 0 => Exists(id)
Taken  == \A p \in taken : Exists(p)

\* Viewers report to the contract only transfers that were made.
Reported ==
  \A m \in Makes :
    /\ takerHash[m] <= moved[m]
    /\ maker[m] = "paid" => takerHash[m] > 0

Bagged  == IsABag(net) /\ \A c \in Couriers : IsFiniteSet(receipts[c])
Heights == \A v \in Viewers : height[v] <= Len(log)
Once ==
  \A i, j \in 1 .. Len(log) :
    log[i].kind = "MakerTx" /\ log[j].kind = "MakerTx" /\ log[i].id = log[j].id => i = j

\* Viewers that have yet to announce m, and the announcements of m on their way
\* to couriers that will act on them.
Yet(m) ==
  {v \in Viewers : \A i \in 1 .. height[v] : ~(log[i].kind = "MakerTx" /\ log[i].id = m)}
Asks(m, x) == x[1] \in outchain /\ x[2].body.kind = "order" /\ x[2].body.id = m
Copies(m) == {y \in UnderWay \X (Nat \ {0}) : Asks(m, y[1]) /\ y[2] <= net[y[1]]}

Counted ==
  \A m \in Makes :
    /\ IsFiniteSet(Copies(m))
    /\ moved[m] + Cardinality(Copies(m)) + Cardinality(Yet(m)) * Cardinality(outchain)
         <= (Cardinality(Viewers) + replays) * Cardinality(outchain)

IInv ==
  /\ TypeOK /\ Genuine /\ Logged /\ Recorded /\ Stored /\ Moved /\ Taken /\ Reported
  /\ Bagged /\ Heights /\ Once /\ Counted

\* With one courier, couriers hear from viewers only.
OneCourier == \A a, b \in Couriers : a = b
Answered ==
  \A c \in Couriers :
    /\ receipts[c] \subseteq taken
    /\ \A x \in UnderWay : x[1] = c /\ x[2].body.kind = "receipt" => x[2].body.id \in taken

USE CrossNetAssumption

-----------------------------------------------------------------------------
(* The bag of messages under way. *)

Copied(x) == IF x \in UnderWay THEN net[x] ELSE 0

\* Sending to every other hub adds one copy for each of them.
LEMMA BroadcastFacts ==
  ASSUME IsABag(net), NEW a, NEW m, Broadcast(a, m)
  PROVE  /\ IsABag(net')
         /\ UnderWay' = UnderWay \cup {<<h, m>> : h \in Hubs \ {a}}
         /\ \A x \in UnderWay' :
              net'[x] <= Copied(x) + IF \E h \in Hubs \ {a} : x = <<h, m>> THEN 1 ELSE 0
<1> DEFINE S == {<<h, m>> : h \in Hubs \ {a}}
<1>1. net' = [x \in DOMAIN net \cup S |->
                (IF x \in DOMAIN net THEN net[x] ELSE 0) + (IF x \in S THEN 1 ELSE 0)]
  BY DEF Broadcast, SetToBag, (+)
<1>2. \A x \in DOMAIN net : net[x] \in Nat /\ net[x] > 0
  BY DEF IsABag
<1>3. DOMAIN net' = DOMAIN net \cup S
  BY <1>1
<1>4. \A x \in DOMAIN net' : net'[x] \in {n \in Nat : n > 0}
  BY <1>1, <1>2
<1>5. IsABag(net')
  BY <1>1, <1>4, <1>3 DEF IsABag
<1>6. \A x : x \in S <=> \E h \in Hubs \ {a} : x = <<h, m>>
  OBVIOUS
<1>7. \A x \in UnderWay' : net'[x] = Copied(x) + IF x \in S THEN 1 ELSE 0
  BY <1>1, <1>3 DEF UnderWay, BagToSet, Copied
<1>8. \A x \in UnderWay' : net'[x] \in Nat /\ Copied(x) \in Nat
  BY <1>2, <1>4 DEF UnderWay, BagToSet, Copied
<1> HIDE DEF S
<1> QED BY <1>3, <1>5, <1>6, <1>7, <1>8 DEF UnderWay, BagToSet, S

\* Taking a message removes one copy of it and nothing else.
LEMMA GotFacts ==
  ASSUME IsABag(net), NEW h, NEW m, Got(h, m)
  PROVE  /\ IsABag(net')
         /\ <<h, m>> \in UnderWay /\ UnderWay' \subseteq UnderWay
         /\ \A x \in UnderWay' : net'[x] <= IF x = <<h, m>> THEN net[x] - 1 ELSE net[x]
<1> DEFINE S == {<<h, m>>}
           B == [x \in DOMAIN net |-> IF x \in S THEN net[x] - 1 ELSE net[x]]
<1>1. net (-) SetToBag(S) = [x \in {d \in DOMAIN B : B[d] > 0} |-> B[x]]
  <2>1. DOMAIN SetToBag(S) = S /\ \A x \in S : SetToBag(S)[x] = 1
    BY DEF SetToBag
  <2>2. B = [x \in DOMAIN net |-> IF x \in DOMAIN SetToBag(S)
                                   THEN net[x] - SetToBag(S)[x] ELSE net[x]]
    BY <2>1
  <2>3. PICK T : T = SetToBag(S)
    OBVIOUS
  <2>4. B = [x \in DOMAIN net |-> IF x \in DOMAIN T THEN net[x] - T[x] ELSE net[x]]
    BY <2>2, <2>3
  <2> HIDE DEF B
  <2>5. net (-) T = [x \in {d \in DOMAIN B : B[d] > 0} |-> B[x]]
    BY <2>4 DEF (-)
  <2> QED BY <2>3, <2>5
<1>2. \A x \in DOMAIN net : net[x] \in Nat /\ net[x] > 0
  BY DEF IsABag
<1>3. <<h, m>> \in DOMAIN net /\ net' = [x \in {d \in DOMAIN B : B[d] > 0} |-> B[x]]
  BY <1>1 DEF Got, UnderWay, BagToSet
<1>4. \A x \in DOMAIN net' : x \in DOMAIN net /\ net'[x] = B[x] /\ B[x] > 0 /\ B[x] \in Nat
  BY <1>2, <1>3
<1>5. IsABag(net')
  BY <1>3, <1>4 DEF IsABag
<1> QED BY <1>2, <1>3, <1>4, <1>5 DEF UnderWay, BagToSet

-----------------------------------------------------------------------------
(* Counting announcements. *)

\* There are no more viewers yet to announce an order than viewers.
LEMMA YetFacts ==
  ASSUME NEW m
  PROVE  IsFiniteSet(Yet(m)) /\ Cardinality(Yet(m)) \in Nat
<1> Yet(m) \in SUBSET Viewers
  BY DEF Yet
<1> QED BY FS_Subset, FS_CardinalityType

\* New events change nothing for viewers that have not come to them.
LEMMA YetKept ==
  ASSUME NEW m, TypeOK, Heights, UNCHANGED height,
         NEW e, log' \in {log, Append(log, e)}
  PROVE  Yet(m)' = Yet(m)
<1>1. \A v \in Viewers : \A i \in 1 .. height[v] : log'[i] = log[i]
  <2> SUFFICES ASSUME NEW v \in Viewers, NEW i \in 1 .. height[v], log' = Append(log, e)
               PROVE  log'[i] = log[i]
    OBVIOUS
  <2>1. i \in 1 .. Len(log)
    BY DEF Heights, TypeOK
  <2> QED BY <2>1 DEF TypeOK
<1> QED BY <1>1 DEF Yet

\* Taking a message leaves no more announcements, and one less if it was one.
LEMMA CopiesGot ==
  ASSUME NEW q, IsABag(net), IsFiniteSet(Copies(q)), NEW h, NEW m, Got(h, m), UNCHANGED outchain
  PROVE  /\ IsFiniteSet(Copies(q)') /\ Cardinality(Copies(q)') \in Nat
         /\ Cardinality(Copies(q)) \in Nat
         /\ Cardinality(Copies(q)') <= Cardinality(Copies(q))
         /\ Asks(q, <<h, m>>) => Cardinality(Copies(q)') + 1 <= Cardinality(Copies(q))
<1> DEFINE x == <<h, m>>
           t == <<x, net[x]>>
<1>1. /\ x \in UnderWay /\ UnderWay' \subseteq UnderWay
      /\ \A y \in UnderWay' : net'[y] <= IF y = x THEN net[y] - 1 ELSE net[y]
  BY GotFacts
<1>2. \A y \in UnderWay : net[y] \in Nat /\ net[y] > 0
  BY DEF IsABag, UnderWay, BagToSet
<1>3. \A y \in UnderWay' : net'[y] \in Nat
  BY GotFacts DEF IsABag, UnderWay, BagToSet
<1>4. \A y \in Copies(q)' : y \in Copies(q) /\ y # t
  BY <1>1, <1>2, <1>3 DEF Copies, Asks
<1>5. Copies(q)' \in SUBSET Copies(q) /\ Copies(q)' \in SUBSET (Copies(q) \ {t})
  BY <1>4
<1>6. Asks(q, x) => t \in Copies(q)
  BY <1>1, <1>2 DEF Copies
<1>7. IsFiniteSet(Copies(q)') /\ Cardinality(Copies(q)') <= Cardinality(Copies(q))
  BY <1>5, FS_Subset
<1>8. /\ IsFiniteSet(Copies(q) \ {t})
      /\ Cardinality(Copies(q) \ {t}) = IF t \in Copies(q) THEN Cardinality(Copies(q)) - 1
                                         ELSE Cardinality(Copies(q))
  BY FS_RemoveElement
<1>9. Cardinality(Copies(q)') <= Cardinality(Copies(q) \ {t})
  BY <1>5, <1>8, FS_Subset
<1>10. Cardinality(Copies(q)') \in Nat /\ Cardinality(Copies(q)) \in Nat
  BY <1>7, FS_CardinalityType
<1> QED BY <1>6, <1>7, <1>8, <1>9, <1>10

\* A message that is no order for q adds no announcement of it.
LEMMA CopiesOther ==
  ASSUME NEW q, IsABag(net), IsFiniteSet(Copies(q)), NEW a, NEW m, Broadcast(a, m),
         UNCHANGED outchain, ~(m.body.kind = "order" /\ m.body.id = q)
  PROVE  /\ IsFiniteSet(Copies(q)') /\ Cardinality(Copies(q)') \in Nat
         /\ Cardinality(Copies(q)) \in Nat
         /\ Cardinality(Copies(q)') <= Cardinality(Copies(q))
<1>1. \A x \in UnderWay : net[x] \in Nat /\ net[x] > 0
  BY DEF IsABag, UnderWay, BagToSet
<1>2. \A x \in UnderWay' : net'[x] \in Nat
  BY BroadcastFacts DEF IsABag, UnderWay, BagToSet
<1>3. \A y \in Copies(q)' : y \in Copies(q)
  <2> SUFFICES ASSUME NEW y \in Copies(q)' PROVE y \in Copies(q)
    OBVIOUS
  <2>1. y[1] \in UnderWay' /\ Asks(q, y[1]) /\ y[2] <= net'[y[1]] /\ y[2] \in Nat \ {0}
        /\ y = <<y[1], y[2]>>
    BY DEF Copies, Asks
  <2>2. ~ \E h \in Hubs \ {a} : y[1] = <<h, m>>
    BY <2>1 DEF Asks
  <2>3. y[1] \in UnderWay /\ net'[y[1]] <= net[y[1]]
    BY <1>1, <2>1, <2>2, BroadcastFacts DEF Copied
  <2> QED BY <1>1, <1>2, <2>1, <2>3 DEF Copies
<1>4. Copies(q)' \in SUBSET Copies(q)
  BY <1>3
<1> QED BY <1>4, FS_Subset, FS_CardinalityType

\* A viewer that announces q adds one announcement for each courier that acts.
LEMMA CopiesOrder ==
  ASSUME NEW q, IsABag(net), IsFiniteSet(Copies(q)), NEW a, NEW m, Broadcast(a, m),
         UNCHANGED outchain, IsFiniteSet(outchain)
  PROVE  /\ IsFiniteSet(Copies(q)') /\ Cardinality(Copies(q)') \in Nat
         /\ Cardinality(Copies(q)) \in Nat /\ Cardinality(outchain) \in Nat
         /\ Cardinality(Copies(q)') <= Cardinality(Copies(q)) + Cardinality(outchain)
<1> DEFINE new(c) == <<<<c, m>>, Copied(<<c, m>>) + 1>>
           New == {new(c) : c \in outchain}
<1>1. \A x \in UnderWay : net[x] \in Nat /\ net[x] > 0
  BY DEF IsABag, UnderWay, BagToSet
<1>2. \A x \in UnderWay' : net'[x] \in Nat
  BY BroadcastFacts DEF IsABag, UnderWay, BagToSet
<1>3. \A y \in Copies(q)' : y \in Copies(q) \/ y \in New
  <2> SUFFICES ASSUME NEW y \in Copies(q)', y \notin Copies(q) PROVE y \in New
    OBVIOUS
  <2>1. y[1] \in UnderWay' /\ Asks(q, y[1]) /\ y[2] <= net'[y[1]] /\ y[2] \in Nat \ {0}
        /\ y = <<y[1], y[2]>>
    BY DEF Copies, Asks
  <2>2. y[2] > Copied(y[1]) /\ Copied(y[1]) \in Nat
    BY <1>1, <2>1 DEF Copies, Copied
  <2>3. net'[y[1]] <= Copied(y[1]) + IF \E h \in Hubs \ {a} : y[1] = <<h, m>> THEN 1 ELSE 0
    BY <2>1, BroadcastFacts
  <2>4. PICK h \in Hubs : y[1] = <<h, m>>
    BY <1>2, <2>1, <2>2, <2>3
  <2>5. y[2] = Copied(y[1]) + 1
    BY <1>2, <2>1, <2>2, <2>3
  <2>6. h \in outchain
    BY <2>1, <2>4 DEF Asks
  <2> QED BY <2>1, <2>4, <2>5, <2>6
<1>4. IsFiniteSet(New) /\ Cardinality(New) <= Cardinality(outchain)
  <2> DEFINE f == [c \in outchain |-> new(c)]
  <2>1. f \in Surjection(outchain, New)
    BY DEF Surjection
  <2> HIDE DEF f, New
  <2> QED BY <2>1, FS_Surjection
<1> HIDE DEF New
<1>5. /\ IsFiniteSet(Copies(q) \cup New)
      /\ Cardinality(Copies(q) \cup New)
           = Cardinality(Copies(q)) + Cardinality(New) - Cardinality(Copies(q) \cap New)
      /\ IsFiniteSet(Copies(q) \cap New)
  BY <1>4, FS_Union, FS_Intersection
<1>6. Copies(q)' \in SUBSET (Copies(q) \cup New)
  BY <1>3
<1>7. IsFiniteSet(Copies(q)') /\ Cardinality(Copies(q)') <= Cardinality(Copies(q) \cup New)
  BY <1>5, <1>6, FS_Subset
<1>8. /\ Cardinality(Copies(q)') \in Nat /\ Cardinality(Copies(q)) \in Nat
      /\ Cardinality(New) \in Nat /\ Cardinality(outchain) \in Nat
      /\ Cardinality(Copies(q) \cap New) \in Nat
  BY <1>4, <1>5, <1>7, FS_CardinalityType
<1> QED BY <1>4, <1>5, <1>7, <1>8

\* Nothing under way changes for an action that sends and takes nothing.
LEMMA CopiesSame ==
  ASSUME NEW q, IsFiniteSet(Copies(q)), UNCHANGED <<net, outchain>>
  PROVE  /\ IsFiniteSet(Copies(q)') /\ Cardinality(Copies(q)') \in Nat
         /\ Cardinality(Copies(q)) \in Nat
         /\ Cardinality(Copies(q)') <= Cardinality(Copies(q))
<1> Copies(q)' = Copies(q)
  BY DEF Copies, Asks, UnderWay
<1> QED BY FS_CardinalityType

\* The hubs are finitely many, and so are the couriers with the flag.
LEMMA HubsFinite ==
  TypeOK => /\ IsFiniteSet(outchain) /\ Cardinality(outchain) \in Nat
            /\ Cardinality(Viewers) \in Nat
<1> SUFFICES ASSUME TypeOK PROVE IsFiniteSet(outchain)
  BY FS_CardinalityType
<1> outchain \in SUBSET Couriers
  BY DEF TypeOK
<1> QED BY FS_Subset

\* Announcements times couriers, when there is one announcement more.
LEMMA Times ==
  ASSUME NEW a \in Nat, NEW b \in Nat
  PROVE  a * b \in Nat /\ (a + 1) * b = a * b + b
OBVIOUS

\* Fewer announcements to the same couriers make fewer transfers.
LEMMA TimesMonotone ==
  ASSUME NEW a \in Nat, NEW b \in Nat, NEW c \in Nat, a <= c
  PROVE  a * b <= c * b
OBVIOUS

\* What no viewer announces leaves the count as it is, or lowers it.
LEMMA CountedKept ==
  ASSUME IInv, TypeOK', UNCHANGED <<outchain, replays>>,
         \A q \in Makes : /\ Yet(q)' = Yet(q)
                          /\ IsFiniteSet(Copies(q)') /\ Cardinality(Copies(q)') \in Nat
                          /\ Cardinality(Copies(q)) \in Nat
                          /\ moved'[q] + Cardinality(Copies(q)')
                               <= moved[q] + Cardinality(Copies(q))
  PROVE  Counted'
<1> SUFFICES ASSUME NEW q \in Makes
             PROVE  moved'[q] + Cardinality(Copies(q)') + Cardinality(Yet(q)') * Cardinality(outchain)
                      <= (Cardinality(Viewers) + replays) * Cardinality(outchain)
  BY DEF Counted
<1> DEFINE k == Cardinality(Yet(q)) * Cardinality(outchain)
           b == (Cardinality(Viewers) + replays) * Cardinality(outchain)
<1>1. k \in Nat /\ b \in Nat
  <2> Cardinality(Yet(q)) \in Nat
    BY YetFacts
  <2> Cardinality(outchain) \in Nat /\ Cardinality(Viewers) \in Nat
    BY HubsFinite DEF IInv
  <2> replays \in Nat
    BY DEF IInv, TypeOK
  <2> Cardinality(Viewers) + replays \in Nat
    OBVIOUS
  <2> QED BY Times
<1>2. moved[q] \in Nat /\ moved'[q] \in Nat
  BY DEF IInv, TypeOK, Ids
<1>3. moved[q] + Cardinality(Copies(q)) + k <= b
  BY DEF IInv, Counted
<1> HIDE DEF k, b
<1>4. moved'[q] + Cardinality(Copies(q)') + k <= b
  BY <1>1, <1>2, <1>3
<1> QED BY <1>4 DEF k, b

\* An action that neither sends, moves money nor handles an event leaves the
\* count of each order as it is.
LEMMA CountedQuiet ==
  ASSUME IInv, TypeOK', UNCHANGED <<moved, height, outchain, net, replays>>,
         NEW e, log' \in {log, Append(log, e)}
  PROVE  Counted'
<1> SUFFICES ASSUME NEW q \in Makes
             PROVE  /\ Yet(q)' = Yet(q)
                    /\ IsFiniteSet(Copies(q)') /\ Cardinality(Copies(q)') \in Nat
                    /\ Cardinality(Copies(q)) \in Nat
                    /\ moved[q] + Cardinality(Copies(q)') <= moved[q] + Cardinality(Copies(q))
  BY CountedKept
<1>1. Yet(q)' = Yet(q)
  BY YetKept DEF IInv
<1>2. /\ IsFiniteSet(Copies(q)') /\ Cardinality(Copies(q)') \in Nat
      /\ Cardinality(Copies(q)) \in Nat
      /\ Cardinality(Copies(q)') <= Cardinality(Copies(q))
  BY CopiesSame DEF IInv, Counted
<1>3. moved[q] \in Nat
  BY DEF IInv, TypeOK, Ids
<1> QED BY <1>1, <1>2, <1>3

\* What was made stays made.
LEMMA ExistsKept ==
  ASSUME NEW id, Exists(id),
         \/ UNCHANGED maker
         \/ \E m \in Makes, s \in {"open", "paid"} : maker' = [maker EXCEPT ![m] = s],
         \/ UNCHANGED contract
         \/ \E p \in Pres : contract' = [contract EXCEPT ![p] = "Init"]
         \/ \E S : contract' = [p \in Pres |-> IF p \in S THEN "Finished" ELSE contract[p]],
         TypeOK
  PROVE  Exists(id)'
BY DEF Exists, TypeOK

-----------------------------------------------------------------------------
(* The inductive invariant. *)

\* Before anything is made there is nothing to announce, and nothing under way.
LEMMA InitIInv == Init => IInv
<1> SUFFICES ASSUME Init PROVE IInv
  OBVIOUS
<1>1. UnderWay = {} /\ IsABag(net)
  BY DEF Init, EmptyBag, SetToBag, UnderWay, BagToSet, IsABag
<1>2. TypeOK
  BY <1>1 DEF Init, TypeOK, Ids
<1>3. Genuine /\ Logged /\ Recorded /\ Stored /\ Moved /\ Taken /\ Reported /\ Once /\ Heights
  BY <1>1 DEF Init, Genuine, Logged, Recorded, Stored, Moved, Taken, Reported, Once, Heights, Ids
<1>4. Bagged
  BY <1>1, FS_EmptySet DEF Init, Bagged
<1>5. ASSUME NEW m \in Makes PROVE Copies(m) = {} /\ Yet(m) = Viewers /\ moved[m] = 0
  BY <1>1 DEF Init, Copies, Yet, Ids
<1>6. Counted
  <2>1. /\ Cardinality(Viewers) \in Nat /\ Cardinality(outchain) \in Nat
        /\ Cardinality(Viewers) * Cardinality(outchain) \in Nat
    BY <1>2, HubsFinite, Times
  <2>2. Cardinality(Viewers) + replays = Cardinality(Viewers)
    BY <2>1 DEF Init
  <2> SUFFICES ASSUME NEW m \in Makes
               PROVE  /\ IsFiniteSet(Copies(m))
                      /\ moved[m] + Cardinality(Copies(m)) + Cardinality(Yet(m)) * Cardinality(outchain)
                           <= Cardinality(Viewers) * Cardinality(outchain)
    BY <2>2 DEF Counted
  <2>3. IsFiniteSet(Copies(m)) /\ Cardinality(Copies(m)) = 0
    BY <1>5, FS_EmptySet
  <2> QED BY <1>5, <2>1, <2>3
<1> QED BY <1>2, <1>3, <1>4, <1>6 DEF IInv

\* A new maker order (cmd/maker) keeps the invariant: it is logged once.
LEMMA MakeStep == ASSUME IInv, NEW m \in Makes, Make(m) PROVE IInv'
<1> DEFINE e == Event("MakerTx", m, 0)
<1>1. /\ maker[m] = "none" /\ maker' = [maker EXCEPT ![m] = "open"] /\ log' = Append(log, e)
      /\ UNCHANGED <<signers, takerHash, taken, contract, moved, blocks, height, remote, number,
                     records, requests, receipts, outchain, net, replays, lost>>
  BY DEF Make, fabric, viewer, courier, counts
<1>2. TypeOK'
  BY <1>1 DEF IInv, TypeOK, Event, Ids, UnderWay
<1>3. \A id : Exists(id) => Exists(id)'
  BY <1>1, ExistsKept DEF IInv
<1>4. Exists(m)'
  BY <1>1 DEF Exists, IInv, TypeOK
<1>5. /\ Len(log') = Len(log) + 1 /\ log'[Len(log) + 1] = e /\ Len(log) \in Nat
      /\ \A i \in 1 .. Len(log) : log'[i] = log[i]
  BY <1>1 DEF IInv, TypeOK
<1>6. Logged' /\ Heights'
  BY <1>1, <1>3, <1>4, <1>5 DEF IInv, TypeOK, Logged, Heights, Event
<1>7. Once'
  <2>1. \A i \in 1 .. Len(log) : ~(log[i].kind = "MakerTx" /\ log[i].id = m)
    BY <1>1 DEF IInv, Logged, Exists
  <2> QED BY <1>5, <2>1 DEF IInv, Once, Event
<1>8. Genuine' /\ Recorded' /\ Stored' /\ Moved' /\ Taken' /\ Bagged'
  BY <1>1, <1>3 DEF IInv, Genuine, Recorded, Stored, Moved, Taken, Bagged, UnderWay
<1>9. Reported'
  BY <1>1 DEF IInv, TypeOK, Reported
<1>10. Counted'
  BY <1>1, <1>2, CountedQuiet
<1> QED BY <1>2, <1>6, <1>7, <1>8, <1>9, <1>10 DEF IInv

\* Taking a contract (cmd/taker) keeps the invariant: a quorum, hence somebody,
\* stored its order.
LEMMA TakeStep == ASSUME IInv, NEW p \in Pres, Take(p) PROVE IInv'
<1> DEFINE e == Event("TakerTx", p, 0)
<1>1. /\ taken' = taken \cup {p} /\ log' = Append(log, e)
      /\ UNCHANGED <<maker, signers, takerHash, contract, moved, blocks, height, remote, number,
                     records, requests, receipts, outchain, net, replays, lost>>
  BY DEF Take, fabric, viewer, courier, counts
<1>2. Exists(p)
  <2>1. Cardinality({}) = 0
    BY FS_EmptySet
  <2>2. Vouching(p) # {}
    <3> SUFFICES ASSUME Vouching(p) = {} PROVE FALSE
      OBVIOUS
    <3>1. Cardinality(Vouching(p)) >= Quorum
      BY DEF Take
    <3>2. Cardinality(Vouching(p)) = 0
      BY <2>1
    <3> QED BY <3>1, <3>2, CrossNetAssumption DEF CrossNetAssumption
  <2> QED BY <2>2 DEF Vouching, IInv, Stored
<1>3. TypeOK'
  BY <1>1 DEF IInv, TypeOK, Event, Ids, UnderWay
<1>4. \A id : Exists(id)' <=> Exists(id)
  BY <1>1 DEF Exists
<1>5. /\ Len(log') = Len(log) + 1 /\ log'[Len(log) + 1] = e /\ Len(log) \in Nat
      /\ \A i \in 1 .. Len(log) : log'[i] = log[i]
  BY <1>1 DEF IInv, TypeOK
<1>6. Logged' /\ Heights' /\ Once'
  <2>1. e.kind = "TakerTx" /\ e.id = p
    BY DEF Event
  <2>2. Logged'
    BY <1>1, <1>4, <1>5, <2>1 DEF IInv, Logged
  <2>3. Heights'
    BY <1>1, <1>5 DEF IInv, TypeOK, Heights
  <2>4. Once'
    BY <1>5, <2>1 DEF IInv, Once
  <2> QED BY <2>2, <2>3, <2>4
<1>7. Genuine' /\ Recorded' /\ Stored' /\ Moved' /\ Taken' /\ Bagged' /\ Reported'
  BY <1>1, <1>2, <1>4
  DEF IInv, Genuine, Recorded, Stored, Moved, Taken, Bagged, Reported, UnderWay
<1>8. Counted'
  BY <1>1, <1>3, CountedQuiet
<1> QED BY <1>3, <1>6, <1>7, <1>8 DEF IInv

\* A precommitted contract keeps the invariant.
LEMMA PrecommitStep == ASSUME IInv, NEW p \in Pres, Precommit(p) PROVE IInv'
<1> DEFINE e == Event("Init", p, 0)
<1>1. /\ contract' = [contract EXCEPT ![p] = "Init"] /\ blocks' = Append(blocks, e)
      /\ UNCHANGED <<maker, signers, takerHash, taken, log, moved, height, remote, number,
                     records, requests, receipts, outchain, net, replays, lost>>
  BY DEF Precommit, simple, viewer, courier, counts
<1>2. TypeOK'
  BY <1>1 DEF IInv, TypeOK, Event, Ids, UnderWay
<1>3. \A id : Exists(id) => Exists(id)'
  BY <1>1, ExistsKept DEF IInv
<1>4. Exists(p)'
  BY <1>1 DEF Exists, IInv, TypeOK
<1>5. /\ Len(blocks') = Len(blocks) + 1 /\ blocks'[Len(blocks) + 1] = e /\ Len(blocks) \in Nat
      /\ \A i \in 1 .. Len(blocks) : blocks'[i] = blocks[i]
  BY <1>1 DEF IInv, TypeOK
<1>6. Recorded'
  BY <1>1, <1>3, <1>4, <1>5 DEF IInv, Recorded, Event
<1>7. Genuine' /\ Stored' /\ Moved' /\ Taken' /\ Bagged' /\ Reported' /\ Logged' /\ Heights' /\ Once'
  BY <1>1, <1>3
  DEF IInv, Genuine, Stored, Moved, Taken, Bagged, Reported, UnderWay, Logged, Heights, Once
<1>8. Counted'
  BY <1>1, <1>2, CountedQuiet
<1> QED BY <1>2, <1>6, <1>7, <1>8 DEF IInv

\* What the hubs sign is a message.
LEMMA SignedTyped ==
  ASSUME NEW a \in Hubs, NEW id \in Ids \cup {Blank}, NEW hash \in Nat
  PROVE  SignCtx(a, id) \in Message /\ SignRtx(a, id, hash) \in Message
BY DEF SignCtx, SignRtx, Sign, Order, Receipt, Message, Body, HubChain, SimpleChain

\* What a sequence of orders or receipts holds is one of them.
LEMMA ElementOf ==
  ASSUME NEW S, NEW s \in Seq(S), NEW i \in 1 .. Len(s)
  PROVE  s[i] \in S
OBVIOUS

\* A viewer that handles an event has announced at most the order of that event.
LEMMA YetAdvance ==
  ASSUME IInv, NEW v \in Viewers, height[v] < Len(log), height' = [height EXCEPT ![v] = @ + 1],
         UNCHANGED log, NEW q
  PROVE  IF log[height[v] + 1].kind = "MakerTx" /\ log[height[v] + 1].id = q
         THEN v \in Yet(q) /\ Yet(q)' = Yet(q) \ {v}
         ELSE Yet(q)' = Yet(q)
<1> DEFINE n == height[v] + 1
           At(i) == log[i].kind = "MakerTx" /\ log[i].id = q
<1>1. n \in 1 .. Len(log) /\ height[v] \in Nat /\ height'[v] = n
      /\ \A u \in Viewers \ {v} : height'[u] = height[u]
  BY DEF IInv, TypeOK
<1>2. \A i \in 1 .. n : i = n \/ i \in 1 .. height[v]
  BY <1>1
<1>3. \A u \in Viewers : u # v => (u \in Yet(q)' <=> u \in Yet(q))
  BY <1>1 DEF Yet
<1>4. v \in Yet(q)' <=> v \in Yet(q) /\ ~At(n)
  <2>1. v \in Yet(q)' <=> \A i \in 1 .. n : ~At(i)
    BY <1>1 DEF Yet
  <2>2. v \in Yet(q) <=> \A i \in 1 .. height[v] : ~At(i)
    BY DEF Yet
  <2>3. n \in 1 .. n /\ \A i \in 1 .. height[v] : i \in 1 .. n
    BY <1>1
  <2> QED BY <1>2, <2>1, <2>2, <2>3
<1>5. At(n) => v \in Yet(q)
  BY <1>1 DEF IInv, Once, Yet
<1>6. Yet(q)' \subseteq Viewers /\ Yet(q) \subseteq Viewers
  BY DEF Yet
<1>7. IF At(n) THEN v \in Yet(q) /\ Yet(q)' = Yet(q) \ {v} ELSE Yet(q)' = Yet(q)
  <2> HIDE DEF At, n
  <2>1. CASE At(n)
    BY <1>3, <1>4, <1>5, <1>6, <2>1
  <2>2. CASE ~At(n)
    <3>1. v \in Yet(q)' <=> v \in Yet(q)
      BY <1>4, <2>2
    <3>2. Yet(q)' \subseteq Yet(q) /\ Yet(q) \subseteq Yet(q)'
      BY <1>3, <1>6, <3>1
    <3>3. Yet(q)' = Yet(q)
      BY <3>2
    <3> QED BY <2>2, <3>3
  <2> QED BY <2>1, <2>2
<1> QED BY <1>7

\* Announcing an order moves v from those yet to announce it to the messages.
LEMMA CountedAnnounced ==
  ASSUME IInv, TypeOK', NEW m \in Makes, NEW v \in Viewers,
         UNCHANGED <<moved, outchain, replays>>,
         Broadcast(v, SignCtx(v, m)), v \in Yet(m), Yet(m)' = Yet(m) \ {v},
         \A q \in Makes \ {m} : Yet(q)' = Yet(q)
  PROVE  Counted'
<1> DEFINE k == Cardinality(outchain)
           b == (Cardinality(Viewers) + replays) * k
<1>1. IsFiniteSet(outchain) /\ k \in Nat /\ Cardinality(Viewers) \in Nat
  BY HubsFinite DEF IInv
<1>2. b \in Nat
  <2>1. Cardinality(Viewers) + replays \in Nat
    BY <1>1 DEF IInv, TypeOK
  <2> QED BY <1>1, <2>1, Times
<1>3. ASSUME NEW q \in Makes
      PROVE  /\ IsFiniteSet(Copies(q)) /\ moved[q] \in Nat
             /\ moved[q] + Cardinality(Copies(q)) + Cardinality(Yet(q)) * k <= b
             /\ Cardinality(Yet(q)) * k \in Nat
  <2>1. Cardinality(Yet(q)) \in Nat
    BY YetFacts
  <2> QED BY <1>1, <2>1, Times DEF IInv, Counted, TypeOK, Ids
<1>4. /\ IsFiniteSet(Copies(m)')
      /\ moved[m] + Cardinality(Copies(m)') + Cardinality(Yet(m)') * k <= b
  <2>1. /\ IsFiniteSet(Copies(m)') /\ Cardinality(Copies(m)') \in Nat
        /\ Cardinality(Copies(m)) \in Nat
        /\ Cardinality(Copies(m)') <= Cardinality(Copies(m)) + k
    BY <1>1, <1>3, CopiesOrder DEF IInv, Bagged
  <2>2. IsFiniteSet(Yet(m)) /\ Cardinality(Yet(m)) \in Nat
    BY YetFacts
  <2>3. IsFiniteSet(Yet(m)') /\ Cardinality(Yet(m)') = Cardinality(Yet(m)) - 1
    BY <2>2, FS_RemoveElement
  <2>4. Cardinality(Yet(m)') \in Nat
    BY <2>3, FS_CardinalityType
  <2>5. Cardinality(Yet(m)) * k = Cardinality(Yet(m)') * k + k /\ Cardinality(Yet(m)') * k \in Nat
    <3>1. Cardinality(Yet(m)) = Cardinality(Yet(m)') + 1
      BY <2>2, <2>3, <2>4
    <3> QED BY <1>1, <2>4, <3>1, Times
  <2>6. moved[m] \in Nat /\ moved[m] + Cardinality(Copies(m)) + Cardinality(Yet(m)) * k <= b
    BY <1>3
  <2> HIDE DEF k, b
  <2> QED BY <1>1, <1>2, <2>1, <2>5, <2>6
<1>5. ASSUME NEW q \in Makes \ {m}
      PROVE  /\ IsFiniteSet(Copies(q)')
             /\ moved[q] + Cardinality(Copies(q)') + Cardinality(Yet(q)') * k <= b
  <2>1. ~(SignCtx(v, m).body.kind = "order" /\ SignCtx(v, m).body.id = q)
    BY DEF SignCtx, Sign, Order
  <2>2. /\ IsFiniteSet(Copies(q)') /\ Cardinality(Copies(q)') \in Nat
        /\ Cardinality(Copies(q)) \in Nat
        /\ Cardinality(Copies(q)') <= Cardinality(Copies(q))
    BY <1>3, <2>1, CopiesOther DEF IInv, Bagged
  <2>3. Yet(q)' = Yet(q)
    OBVIOUS
  <2> HIDE DEF k, b
  <2> QED BY <1>2, <1>3, <2>2, <2>3
<1> QED BY <1>4, <1>5 DEF Counted

\* A viewer that handles an event (EventLog) keeps the invariant.
LEMMA HandleLogStep == ASSUME IInv, NEW v \in Viewers, HandleLog(v) PROVE IInv'
<1> DEFINE e == log[height[v] + 1]
<1>1. /\ height[v] < Len(log) /\ height' = [height EXCEPT ![v] = @ + 1]
      /\ UNCHANGED <<maker, signers, takerHash, taken, log, contract, moved, blocks, number,
                     records, requests, receipts, outchain, replays, lost>>
  BY DEF HandleLog, simple, fabric, courier, counts
<1>2. /\ height[v] + 1 \in 1 .. Len(log) /\ e.id \in Ids
      /\ e \in [kind : {"MakerTx", "TakerTx", "MakerFinish"}, id : Ids, hash : {0}]
  <2>1. height[v] + 1 \in 1 .. Len(log)
    BY <1>1 DEF IInv, TypeOK
  <2>2. e \in [kind : {"MakerTx", "TakerTx", "MakerFinish"}, id : Ids, hash : {0}]
    <3> DEFINE R == [kind : {"MakerTx", "TakerTx", "MakerFinish"}, id : Ids, hash : {0}]
    <3>1. log \in Seq(R)
      BY DEF IInv, TypeOK
    <3> HIDE DEF R
    <3>2. log[height[v] + 1] \in R
      BY <2>1, <3>1, ElementOf
    <3> QED BY <3>2 DEF R
  <2> HIDE DEF e
  <2> QED BY <2>1, <2>2
<1>3. /\ e.kind = "MakerTx" => e.id \in Makes /\ Exists(e.id)
      /\ e.kind = "TakerTx" => e.id \in taken /\ e.id \in Pres
  BY <1>2 DEF IInv, Logged, TypeOK
<1>4. v \in Hubs /\ \A id : Exists(id)' <=> Exists(id)
  BY <1>1 DEF Hubs, Exists
<1>5. remote' \in [Viewers -> SUBSET Message] /\ \A u \in Viewers : remote'[u] \subseteq remote[u]
  <2>1. UNCHANGED remote \/ remote' = [remote EXCEPT ![v] = {o \in @ : o.body.id # e.id}]
    BY DEF HandleLog
  <2> HIDE DEF e
  <2>2. remote \in [Viewers -> SUBSET Message]
    BY DEF IInv, TypeOK
  <2>3. CASE remote' = [remote EXCEPT ![v] = {o \in @ : o.body.id # e.id}]
    <3>1. {o \in remote[v] : o.body.id # e.id} \in SUBSET Message
      BY <2>2
    <3> QED BY <2>2, <2>3, <3>1
  <2> QED BY <2>1, <2>2, <2>3
<1>6. \A q : IF e.kind = "MakerTx" /\ e.id = q THEN v \in Yet(q) /\ Yet(q)' = Yet(q) \ {v}
             ELSE Yet(q)' = Yet(q)
  BY <1>1, YetAdvance
<1>7. /\ e.kind = "MakerTx" => Broadcast(v, SignCtx(v, e.id))
      /\ e.kind = "TakerTx" => Broadcast(v, SignRtx(v, e.id, 0))
      /\ e.kind = "MakerFinish" => UNCHANGED net
  BY DEF HandleLog
<1>8. /\ UnderWay' \subseteq Hubs \X Message /\ IsABag(net') /\ Genuine'
  <2>1. CASE e.kind = "MakerTx"
    <3>1. UnderWay' = UnderWay \cup {<<h, SignCtx(v, e.id)>> : h \in Hubs \ {v}} /\ IsABag(net')
      BY <1>7, <2>1, BroadcastFacts DEF IInv, Bagged
    <3>2. SignCtx(v, e.id) \in Message
      BY <1>2, <1>4, SignedTyped
    <3>3. SignCtx(v, e.id).body.kind = "order" /\ SignCtx(v, e.id).body.id = e.id
      BY DEF SignCtx, Sign, Order
    <3> HIDE DEF e
    <3> QED BY <1>1, <1>3, <1>4, <2>1, <3>1, <3>2, <3>3 DEF IInv, TypeOK, Genuine
  <2>2. CASE e.kind = "TakerTx"
    <3>1. UnderWay' = UnderWay \cup {<<h, SignRtx(v, e.id, 0)>> : h \in Hubs \ {v}} /\ IsABag(net')
      BY <1>7, <2>2, BroadcastFacts DEF IInv, Bagged
    <3>2. SignRtx(v, e.id, 0) \in Message
      BY <1>2, <1>4, SignedTyped
    <3>3. /\ SignRtx(v, e.id, 0).body.kind = "receipt" /\ SignRtx(v, e.id, 0).body.id = e.id
          /\ e.id \notin Makes
      BY <1>3, <2>2, CrossNetAssumption DEF SignRtx, Sign, Receipt, CrossNetAssumption
    <3> HIDE DEF e
    <3> QED BY <1>1, <1>3, <1>4, <2>2, <3>1, <3>2, <3>3 DEF IInv, TypeOK, Genuine
  <2>3. CASE e.kind = "MakerFinish"
    BY <1>1, <1>4, <1>7, <2>3 DEF IInv, TypeOK, Genuine, UnderWay, Bagged
  <2> QED BY <1>2, <2>1, <2>2, <2>3
<1>9. TypeOK'
  <2>1. height' \in [Viewers -> Nat]
    BY <1>1 DEF IInv, TypeOK
  <2> HIDE DEF e
  <2> QED BY <1>1, <1>5, <1>8, <2>1 DEF IInv, TypeOK
<1>10. Logged' /\ Recorded' /\ Stored' /\ Moved' /\ Taken' /\ Reported' /\ Once' /\ Bagged'
  BY <1>1, <1>4, <1>5, <1>8
  DEF IInv, Logged, Recorded, Stored, Moved, Taken, Reported, Once, Bagged
<1>11. Heights'
  BY <1>1 DEF IInv, TypeOK, Heights
<1>12. Counted'
  <2>1. CASE e.kind = "MakerTx"
    <3>1. PICK m \in Makes : m = e.id
      BY <1>3, <2>1
    <3>2. Broadcast(v, SignCtx(v, m))
      BY <1>7, <2>1, <3>1
    <3> HIDE DEF e
    <3>3. v \in Yet(m) /\ Yet(m)' = Yet(m) \ {v}
      BY <1>6, <2>1, <3>1
    <3>4. ASSUME NEW q \in Makes \ {m} PROVE Yet(q)' = Yet(q)
      BY <1>6, <3>1
    <3>5. UNCHANGED <<moved, outchain, replays>>
      BY <1>1
    <3> QED BY <1>9, <3>2, <3>3, <3>4, <3>5, CountedAnnounced
  <2>2. CASE e.kind # "MakerTx"
    <3> SUFFICES ASSUME NEW q \in Makes
                 PROVE  /\ IsFiniteSet(Copies(q)') /\ Cardinality(Copies(q)') \in Nat
                        /\ Cardinality(Copies(q)) \in Nat
                        /\ moved[q] + Cardinality(Copies(q)') <= moved[q] + Cardinality(Copies(q))
      BY <1>1, <1>6, <1>9, <2>2, CountedKept
    <3>1. ~(SignRtx(v, e.id, 0).body.kind = "order" /\ SignRtx(v, e.id, 0).body.id = q)
      BY DEF SignRtx, Sign, Receipt
    <3>2. UNCHANGED net \/ Broadcast(v, SignRtx(v, e.id, 0))
      BY <1>2, <1>7, <2>2
    <3>3. IsABag(net) /\ IsFiniteSet(Copies(q)) /\ moved[q] \in Nat
      BY DEF IInv, Bagged, Counted, TypeOK, Ids
    <3> HIDE DEF e
    <3>4. /\ IsFiniteSet(Copies(q)') /\ Cardinality(Copies(q)') \in Nat
          /\ Cardinality(Copies(q)) \in Nat
          /\ Cardinality(Copies(q)') <= Cardinality(Copies(q))
      BY <1>1, <3>1, <3>2, <3>3, CopiesOther, CopiesSame
    <3> QED BY <3>3, <3>4
  <2> QED BY <2>1, <2>2
<1> QED BY <1>8, <1>9, <1>10, <1>11, <1>12 DEF IInv

\* Taking a message leaves only messages that were there.
LEMMA TakenFacts ==
  ASSUME IInv, NEW h, NEW m, Got(h, m)
  PROVE  /\ IsABag(net') /\ UnderWay' \subseteq UnderWay /\ <<h, m>> \in UnderWay
         /\ m \in Message
<1>1. IsABag(net') /\ UnderWay' \subseteq UnderWay /\ <<h, m>> \in UnderWay
  BY GotFacts DEF IInv, Bagged
<1>2. UnderWay \subseteq Hubs \X Message
  BY DEF IInv, TypeOK
<1> QED BY <1>1, <1>2

\* What is under way stays genuine when nothing new is sent.
LEMMA GenuineKept ==
  ASSUME IInv, TypeOK', UnderWay' \subseteq UnderWay,
         \A id : Exists(id) => Exists(id)', \A id \in Ids : moved[id] <= moved'[id]
  PROVE  Genuine'
<1> SUFFICES ASSUME NEW x \in UnderWay'
             PROVE  /\ x[2].body.kind = "order" => Exists(x[2].body.id)'
                    /\ x[2].body.kind = "receipt" /\ x[2].body.id \in Makes
                         => x[2].body.hash \in 1 .. moved'[x[2].body.id]
  BY DEF Genuine
<1>1. /\ x[2].body.kind = "order" => Exists(x[2].body.id)
      /\ x[2].body.kind = "receipt" /\ x[2].body.id \in Makes
           => x[2].body.hash \in 1 .. moved[x[2].body.id]
  BY DEF IInv, Genuine
<1>2. \A id \in Makes : moved[id] \in Nat /\ moved'[id] \in Nat /\ moved[id] <= moved'[id]
  BY DEF IInv, TypeOK, Ids
<1> QED BY <1>1, <1>2

\* A message that leads to no transfer leaves the count or lowers it.
LEMMA CountedGot ==
  ASSUME IInv, TypeOK', NEW h, NEW m, Got(h, m), UNCHANGED <<moved, height, outchain, replays>>,
         NEW e, log' \in {log, Append(log, e)}
  PROVE  Counted'
<1> SUFFICES ASSUME NEW q \in Makes
             PROVE  /\ Yet(q)' = Yet(q)
                    /\ IsFiniteSet(Copies(q)') /\ Cardinality(Copies(q)') \in Nat
                    /\ Cardinality(Copies(q)) \in Nat
                    /\ moved[q] + Cardinality(Copies(q)') <= moved[q] + Cardinality(Copies(q))
  BY CountedKept
<1>1. Yet(q)' = Yet(q)
  BY YetKept DEF IInv
<1>2. /\ IsFiniteSet(Copies(q)') /\ Cardinality(Copies(q)') \in Nat
      /\ Cardinality(Copies(q)) \in Nat
      /\ Cardinality(Copies(q)') <= Cardinality(Copies(q))
  BY CopiesGot DEF IInv, Counted, Bagged
<1>3. moved[q] \in Nat
  BY DEF IInv, TypeOK, Ids
<1> QED BY <1>1, <1>2, <1>3

\* A viewer that stores another hub's order keeps the invariant.
LEMMA ReceiveOrderStep ==
  ASSUME IInv, NEW v \in Viewers, NEW m, ReceiveOrder(v, m) PROVE IInv'
<1>1. /\ Got(v, m) /\ m.body.kind = "order"
      /\ remote' = [remote EXCEPT ![v] = @ \cup {SignSimpleCtx(v, m)}]
      /\ UNCHANGED <<maker, signers, takerHash, taken, log, contract, moved, blocks, height, number,
                     records, requests, receipts, outchain, replays, lost>>
  BY DEF ReceiveOrder, simple, fabric, courier, counts
<1>2. IsABag(net') /\ UnderWay' \subseteq UnderWay /\ <<v, m>> \in UnderWay /\ m \in Message
  BY <1>1, TakenFacts
<1>3. SignSimpleCtx(v, m) \in Message /\ SignSimpleCtx(v, m).body = m.body
  BY <1>2 DEF SignSimpleCtx, Sign, Message, Hubs, SimpleChain, HubChain
<1>4. Exists(m.body.id)
  BY <1>1, <1>2 DEF IInv, Genuine
<1>5. \A id : Exists(id)' <=> Exists(id)
  BY <1>1 DEF Exists
<1>6. TypeOK'
  <2>1. remote' \in [Viewers -> SUBSET Message]
    BY <1>1, <1>3 DEF IInv, TypeOK
  <2>2. UnderWay' \subseteq Hubs \X Message
    BY <1>2 DEF IInv, TypeOK
  <2> QED BY <1>1, <2>1, <2>2 DEF IInv, TypeOK
<1>7. Stored'
  <2> SUFFICES ASSUME NEW u \in Viewers, NEW o \in remote'[u] PROVE Exists(o.body.id)'
    BY DEF Stored
  <2>1. o \in remote[u] \/ o = SignSimpleCtx(v, m)
    BY <1>1 DEF IInv, TypeOK
  <2> QED BY <1>3, <1>4, <1>5, <2>1 DEF IInv, Stored
<1>8. Genuine'
  <2> \A id \in Ids : moved[id] <= moved'[id]
    BY <1>1 DEF IInv, TypeOK
  <2> QED BY <1>2, <1>5, <1>6, GenuineKept
<1>9. Logged' /\ Recorded' /\ Moved' /\ Taken' /\ Reported' /\ Bagged' /\ Heights' /\ Once'
  BY <1>1, <1>2, <1>5
  DEF IInv, Logged, Recorded, Moved, Taken, Reported, Bagged, Heights, Once
<1>10. Counted'
  BY <1>1, <1>6, CountedGot
<1> QED BY <1>6, <1>7, <1>8, <1>9, <1>10 DEF IInv

\* A message that is lost keeps the invariant.
LEMMA LoseStep == ASSUME IInv, NEW h, NEW m, Lose(h, m) PROVE IInv'
<1>1. /\ Got(h, m) /\ lost' = lost + 1
      /\ UNCHANGED <<maker, signers, takerHash, taken, log, contract, moved, blocks, height, remote,
                     number, records, requests, receipts, outchain, replays>>
  BY DEF Lose, simple, fabric, viewer, courier
<1>2. IsABag(net') /\ UnderWay' \subseteq UnderWay
  BY <1>1, TakenFacts
<1>3. \A id : Exists(id)' <=> Exists(id)
  BY <1>1 DEF Exists
<1>4. TypeOK'
  BY <1>1, <1>2 DEF IInv, TypeOK
<1>5. Genuine'
  <2> \A id \in Ids : moved[id] <= moved'[id]
    BY <1>1 DEF IInv, TypeOK
  <2> QED BY <1>2, <1>3, <1>4, GenuineKept
<1>6. Logged' /\ Recorded' /\ Stored' /\ Moved' /\ Taken' /\ Reported' /\ Bagged' /\ Heights' /\ Once'
  BY <1>1, <1>2, <1>3
  DEF IInv, Logged, Recorded, Stored, Moved, Taken, Reported, Bagged, Heights, Once
<1>7. Counted'
  BY <1>1, <1>4, CountedGot
<1> QED BY <1>4, <1>5, <1>6, <1>7 DEF IInv

\* A courier that queues a receipt keeps the invariant.
LEMMA QueueReceiptStep ==
  ASSUME IInv, NEW c \in Couriers, NEW m, QueueReceipt(c, m) PROVE IInv'
<1>1. /\ Got(c, m) /\ receipts' = [receipts EXCEPT ![c] = @ \cup {m.body.id}]
      /\ UNCHANGED <<maker, signers, takerHash, taken, log, contract, moved, blocks, height, remote,
                     number, records, requests, outchain, replays, lost>>
  BY DEF QueueReceipt, simple, fabric, viewer, counts
<1>2. IsABag(net') /\ UnderWay' \subseteq UnderWay /\ m \in Message
  BY <1>1, TakenFacts
<1>3. \A id : Exists(id)' <=> Exists(id)
  BY <1>1 DEF Exists
<1>4. TypeOK'
  <2>1. m.body.id \in Ids \cup {Blank}
    BY <1>2 DEF Message, Body
  <2>2. receipts' \in [Couriers -> SUBSET (Ids \cup {Blank})]
    BY <1>1, <2>1 DEF IInv, TypeOK
  <2>3. UnderWay' \subseteq Hubs \X Message
    BY <1>2 DEF IInv, TypeOK
  <2> QED BY <1>1, <2>2, <2>3 DEF IInv, TypeOK
<1>5. Genuine'
  <2> \A id \in Ids : moved[id] <= moved'[id]
    BY <1>1 DEF IInv, TypeOK
  <2> QED BY <1>2, <1>3, <1>4, GenuineKept
<1>6. Bagged'
  <2> SUFFICES ASSUME NEW d \in Couriers PROVE IsFiniteSet(receipts'[d])
    BY <1>2 DEF Bagged
  <2>1. IsFiniteSet(receipts[d])
    BY DEF IInv, Bagged
  <2>2. IsFiniteSet(receipts[d] \cup {m.body.id})
    BY <2>1, FS_AddElement
  <2>3. receipts'[d] = receipts[d] \/ receipts'[d] = receipts[d] \cup {m.body.id}
    BY <1>1 DEF IInv, TypeOK
  <2> QED BY <2>1, <2>2, <2>3
<1>7. Logged' /\ Recorded' /\ Stored' /\ Moved' /\ Taken' /\ Reported' /\ Heights' /\ Once'
  BY <1>1, <1>3
  DEF IInv, Logged, Recorded, Stored, Moved, Taken, Reported, Heights, Once
<1>8. Counted'
  BY <1>1, <1>4, CountedGot
<1> QED BY <1>4, <1>5, <1>6, <1>7, <1>8 DEF IInv

\* A viewer that reports a receipt to the contract (makerFinish) keeps the
\* invariant: the receipt names a transfer that was made.
LEMMA ReceiveReceiptStep ==
  ASSUME IInv, NEW v \in Viewers, NEW msg, ReceiveReceipt(v, msg) PROVE IInv'
<1> DEFINE r == msg.body
           e == Event("MakerFinish", r.id, 0)
<1>1. /\ Got(v, msg) /\ msg.body.kind = "receipt"
      /\ UNCHANGED <<taken, contract, moved, blocks, height, remote, number,
                     records, requests, receipts, outchain, replays, lost>>
  BY DEF ReceiveReceipt, simple, fabric, viewer, courier, counts
<1>2. IsABag(net') /\ UnderWay' \subseteq UnderWay /\ <<v, msg>> \in UnderWay /\ msg \in Message
  BY <1>1, TakenFacts
<1>3. \/ ~Reports(v, r) /\ UNCHANGED <<maker, signers, takerHash, log>>
      \/ /\ Reports(v, r)
         /\ signers' = [signers EXCEPT ![r.id] = @ \cup {v}]
         /\ takerHash' = [takerHash EXCEPT ![r.id] = r.hash]
         /\ \/ maker' = [maker EXCEPT ![r.id] = "paid"] /\ log' = Append(log, e)
            \/ UNCHANGED <<maker, log>>
  BY DEF ReceiveReceipt, simple
<1>4. Reports(v, r) => r.id \in Makes /\ maker[r.id] = "open" /\ r.hash \in 1 .. moved[r.id]
  BY <1>1, <1>2 DEF Reports, IInv, Genuine
<1>5. \A id : Exists(id) => Exists(id)'
  BY <1>1, <1>3, <1>4, ExistsKept DEF IInv
<1> HIDE DEF r
<1>6. TypeOK'
  <2>1. UnderWay' \subseteq Hubs \X Message
    BY <1>2 DEF IInv, TypeOK
  <2>2. /\ maker' \in [Makes -> {"none", "open", "paid"}]
        /\ signers' \in [Makes -> SUBSET Viewers] /\ takerHash' \in [Makes -> Nat]
    <3>1. CASE UNCHANGED <<maker, signers, takerHash, log>>
      BY <3>1 DEF IInv, TypeOK
    <3>2. CASE Reports(v, r)
      <4>1. r.id \in Makes /\ r.hash \in Nat
        BY <1>4, <3>2 DEF IInv, TypeOK, Ids
      <4>2. takerHash' \in [Makes -> Nat]
        BY <1>3, <4>1, ZenonT(60) DEF IInv, TypeOK
      <4>3. signers' \in [Makes -> SUBSET Viewers]
        <5>1. signers \in [Makes -> SUBSET Viewers] /\ signers[r.id] \cup {v} \in SUBSET Viewers
          BY <4>1 DEF IInv, TypeOK
        <5> QED BY <1>3, <3>2, <5>1
      <4>4. maker' \in [Makes -> {"none", "open", "paid"}]
        BY <1>3, <4>1, ZenonT(60) DEF IInv, TypeOK
      <4> QED BY <4>2, <4>3, <4>4
    <3> QED BY <1>3, <3>1, <3>2
  <2>3. log' \in Seq([kind : {"MakerTx", "TakerTx", "MakerFinish"}, id : Ids, hash : {0}])
    <3>1. CASE UNCHANGED log
      BY <3>1 DEF IInv, TypeOK
    <3>2. CASE Reports(v, r) /\ log' = Append(log, e)
      BY <1>4, <3>2 DEF IInv, TypeOK, Ids, Event
    <3> QED BY <1>3, <3>1, <3>2
  <2> QED BY <1>1, <2>1, <2>2, <2>3 DEF IInv, TypeOK
<1>7. Reported'
  <2>1. CASE UNCHANGED <<maker, signers, takerHash, log>>
    BY <1>1, <2>1 DEF IInv, Reported
  <2>2. CASE Reports(v, r)
    <3>1. /\ r.id \in Makes /\ takerHash'[r.id] = r.hash
          /\ r.hash <= moved'[r.id] /\ r.hash > 0
      BY <1>1, <1>3, <1>4, <2>2 DEF IInv, TypeOK, Ids
    <3>2. \A m \in Makes \ {r.id} : UNCHANGED <<takerHash[m], maker[m], moved[m]>>
      BY <1>1, <1>3, <1>4, <2>2 DEF IInv, TypeOK
    <3> QED BY <3>1, <3>2 DEF IInv, Reported
  <2> QED BY <1>3, <2>1, <2>2
<1>8. /\ Len(log) \in Nat /\ Len(log') \in Nat /\ Len(log') >= Len(log)
      /\ \A i \in 1 .. Len(log') : (i \in 1 .. Len(log) /\ log'[i] = log[i]) \/ log'[i].kind = "MakerFinish"
  <2>1. CASE UNCHANGED log
    BY <2>1 DEF IInv, TypeOK
  <2>2. CASE log' = Append(log, e)
    BY <2>2 DEF IInv, TypeOK, Event
  <2> QED BY <1>3, <2>1, <2>2
<1>9. Logged' /\ Heights'
  <2>1. Logged'
    BY <1>1, <1>5, <1>8 DEF IInv, Logged
  <2>2. Heights'
    BY <1>1, <1>8 DEF IInv, TypeOK, Heights
  <2> QED BY <2>1, <2>2
<1>10. Once'
  BY <1>8 DEF IInv, Once
<1>11. Genuine'
  <2> \A id \in Ids : moved[id] <= moved'[id]
    BY <1>1 DEF IInv, TypeOK
  <2> QED BY <1>2, <1>5, <1>6, GenuineKept
<1>12. Recorded' /\ Stored' /\ Moved' /\ Taken' /\ Bagged'
  BY <1>1, <1>2, <1>5
  DEF IInv, Recorded, Stored, Moved, Taken, Bagged
<1>13. Counted'
  BY <1>1, <1>3, <1>6, CountedGot
<1> QED BY <1>6, <1>7, <1>9, <1>10, <1>11, <1>12, <1>13 DEF IInv

\* A viewer that is started again may announce every order once more.
LEMMA ReplayStep == ASSUME IInv, NEW v \in Viewers, Replay(v) PROVE IInv'
<1>1. PICK h \in 0 .. height[v] - 1 :
        /\ height' = [height EXCEPT ![v] = h] /\ replays' = replays + 1
        /\ UNCHANGED <<maker, signers, takerHash, taken, log, contract, moved, blocks, remote,
                       number, records, requests, receipts, outchain, net, lost>>
  BY DEF Replay, simple, fabric, courier
<1>2. h \in Nat /\ height[v] \in Nat /\ h <= height[v]
  BY <1>1 DEF IInv, TypeOK
<1>3. TypeOK'
  <2> height' \in [Viewers -> Nat] /\ replays' \in Nat
    BY <1>1, <1>2 DEF IInv, TypeOK
  <2> QED BY <1>1 DEF IInv, TypeOK, UnderWay
<1>4. Heights'
  <2>1. height'[v] = h /\ \A u \in Viewers \ {v} : height'[u] = height[u]
    BY <1>1 DEF IInv, TypeOK
  <2>2. height[v] <= Len(log) /\ Len(log) \in Nat /\ log' = log
    BY <1>1 DEF IInv, TypeOK, Heights
  <2>3. h <= Len(log)
    BY <1>2, <2>2
  <2> QED BY <2>1, <2>2, <2>3 DEF IInv, Heights
<1>5. \A id : Exists(id)' <=> Exists(id)
  BY <1>1 DEF Exists
<1>6. Genuine' /\ Logged' /\ Recorded' /\ Stored' /\ Moved' /\ Taken' /\ Reported' /\ Bagged' /\ Once'
  BY <1>1, <1>5
  DEF IInv, Genuine, Logged, Recorded, Stored, Moved, Taken, Reported, Bagged, Once, UnderWay
<1>7. Counted'
  <2> SUFFICES ASSUME NEW q \in Makes
               PROVE  /\ IsFiniteSet(Copies(q)')
                      /\ moved'[q] + Cardinality(Copies(q)') + Cardinality(Yet(q)') * Cardinality(outchain')
                           <= (Cardinality(Viewers) + replays') * Cardinality(outchain')
    BY DEF Counted
  <2> DEFINE k == Cardinality(outchain)
  <2>1. /\ k \in Nat /\ Cardinality(Viewers) \in Nat /\ replays \in Nat /\ moved[q] \in Nat
    BY HubsFinite DEF IInv, TypeOK, Ids
  <2>2. Copies(q)' = Copies(q) /\ IsFiniteSet(Copies(q)) /\ Cardinality(Copies(q)) \in Nat
    <3>1. Copies(q)' = Copies(q)
      BY <1>1 DEF Copies, Asks, UnderWay
    <3> QED BY <3>1, FS_CardinalityType DEF IInv, Counted
  <2>3. IsFiniteSet(Yet(q)) /\ Cardinality(Yet(q)) \in Nat
    BY YetFacts
  <2>4. Yet(q)' \in SUBSET (Yet(q) \cup {v})
    BY <1>1 DEF Yet, IInv, TypeOK
  <2>5. /\ IsFiniteSet(Yet(q) \cup {v}) /\ Cardinality(Yet(q) \cup {v}) \in Nat
        /\ Cardinality(Yet(q) \cup {v}) <= Cardinality(Yet(q)) + 1
    <3>1. /\ IsFiniteSet(Yet(q) \cup {v})
          /\ Cardinality(Yet(q) \cup {v}) = IF v \in Yet(q) THEN Cardinality(Yet(q))
                                             ELSE Cardinality(Yet(q)) + 1
      BY <2>3, FS_AddElement
    <3> QED BY <2>3, <3>1
  <2>6. /\ IsFiniteSet(Yet(q)') /\ Cardinality(Yet(q)') \in Nat
        /\ Cardinality(Yet(q)') <= Cardinality(Yet(q)) + 1
    BY <2>3, <2>4, <2>5, FS_Subset, FS_CardinalityType
  <2>7. Cardinality(Yet(q)') * k <= Cardinality(Yet(q)) * k + k /\ Cardinality(Yet(q)') * k \in Nat
    <3>1. Cardinality(Yet(q)') * k <= (Cardinality(Yet(q)) + 1) * k
      BY <2>1, <2>3, <2>6, TimesMonotone
    <3>2. (Cardinality(Yet(q)) + 1) * k = Cardinality(Yet(q)) * k + k
      BY <2>1, <2>3, Times
    <3> QED BY <2>1, <2>6, <3>1, <3>2, Times
  <2>8. (Cardinality(Viewers) + replays') * k = (Cardinality(Viewers) + replays) * k + k
    <3>1. Cardinality(Viewers) + replays' = (Cardinality(Viewers) + replays) + 1
      BY <1>1, <2>1
    <3>2. Cardinality(Viewers) + replays \in Nat
      BY <2>1
    <3> QED BY <2>1, <3>1, <3>2, Times
  <2>9. moved[q] + Cardinality(Copies(q)) + Cardinality(Yet(q)) * k
          <= (Cardinality(Viewers) + replays) * k
    BY DEF IInv, Counted
  <2>10. Cardinality(Yet(q)) * k \in Nat /\ (Cardinality(Viewers) + replays) * k \in Nat
    BY <2>1, <2>3, Times
  <2> HIDE DEF k
  <2>11. moved[q] + Cardinality(Copies(q)) + Cardinality(Yet(q)') * k
           <= (Cardinality(Viewers) + replays') * k
    BY <2>1, <2>2, <2>7, <2>8, <2>9, <2>10
  <2>12. moved' = moved /\ outchain' = outchain
    BY <1>1
  <2> QED BY <2>2, <2>11, <2>12 DEF k
<1> QED BY <1>3, <1>4, <1>6, <1>7 DEF IInv

\* A courier that handles an event of the chaincode (AddCrossTxs) keeps the
\* invariant: what it announces was precommitted, what it answers was moved.
LEMMA HandleBlockStep == ASSUME IInv, NEW c \in Couriers, HandleBlock(c) PROVE IInv'
<1> DEFINE e == blocks[number[c] + 1]
           R == [kind : {"Init", "OutOnceCompleted", "Finished"}, id : Ids, hash : Nat]
<1>1. /\ number[c] < Len(blocks) /\ number' = [number EXCEPT ![c] = @ + 1]
      /\ UNCHANGED <<maker, signers, takerHash, taken, log, contract, moved, blocks, height, remote,
                     requests, receipts, outchain, replays, lost>>
  BY DEF HandleBlock, simple, fabric, viewer, counts
<1>2. number[c] + 1 \in 1 .. Len(blocks) /\ e \in R
  <2>1. number[c] + 1 \in 1 .. Len(blocks)
    BY <1>1 DEF IInv, TypeOK
  <2>2. blocks \in Seq(R)
    BY DEF IInv, TypeOK
  <2> HIDE DEF R
  <2> QED BY <2>1, <2>2, ElementOf
<1>3. /\ e.kind = "Init" => e.id \in Pres /\ Exists(e.id)
      /\ e.kind = "OutOnceCompleted" => e.hash \in 1 .. moved[e.id]
  BY <1>2 DEF IInv, Recorded
<1>4. c \in Hubs /\ \A id : Exists(id)' <=> Exists(id)
  BY <1>1 DEF Hubs, Exists
<1>5. \/ /\ e.kind = "Init" /\ records' = [records EXCEPT ![c] = @ \cup {e.id}]
         /\ Broadcast(c, SignCtx(c, e.id))
      \/ /\ e.kind = "OutOnceCompleted" /\ UNCHANGED records
         /\ Broadcast(c, SignRtx(c, AnswerId(c, e.id), e.hash))
      \/ UNCHANGED <<records, net>>
  BY DEF HandleBlock
<1>6. PICK id, hash : id = e.id /\ hash = e.hash
  OBVIOUS
<1>7. /\ id \in Ids /\ hash \in Nat
      /\ e.kind = "Init" => id \in Pres /\ Exists(id)
      /\ e.kind = "OutOnceCompleted" => hash \in 1 .. moved[id]
  BY <1>2, <1>3, <1>6
<1>8. \/ /\ e.kind = "Init" /\ records' = [records EXCEPT ![c] = @ \cup {id}]
         /\ Broadcast(c, SignCtx(c, id))
      \/ /\ e.kind = "OutOnceCompleted" /\ UNCHANGED records
         /\ \E a \in {id, Blank} : Broadcast(c, SignRtx(c, a, hash))
      \/ UNCHANGED <<records, net>>
  BY <1>5, <1>6 DEF AnswerId
<1> HIDE DEF e
<1>9. /\ UnderWay' \subseteq Hubs \X Message /\ IsABag(net') /\ Genuine'
      /\ \A q \in Makes : /\ IsFiniteSet(Copies(q)') /\ Cardinality(Copies(q)') \in Nat
                          /\ Cardinality(Copies(q)) \in Nat
                          /\ Cardinality(Copies(q)') <= Cardinality(Copies(q))
  <2>1. IsABag(net) /\ \A q \in Makes : IsFiniteSet(Copies(q))
    BY DEF IInv, Bagged, Counted
  <2>2. CASE e.kind = "Init" /\ Broadcast(c, SignCtx(c, id))
    <3>1. UnderWay' = UnderWay \cup {<<h, SignCtx(c, id)>> : h \in Hubs \ {c}} /\ IsABag(net')
      BY <2>1, <2>2, BroadcastFacts
    <3>2. SignCtx(c, id) \in Message
      BY <1>4, <1>7, SignedTyped
    <3>3. SignCtx(c, id).body.kind = "order" /\ SignCtx(c, id).body.id = id /\ id \notin Makes
      BY <1>7, <2>2, CrossNetAssumption DEF SignCtx, Sign, Order, CrossNetAssumption
    <3>4. UnderWay' \subseteq Hubs \X Message
      BY <1>4, <3>1, <3>2 DEF IInv, TypeOK
    <3>5. Genuine'
      BY <1>1, <1>4, <1>7, <2>2, <3>1, <3>3 DEF IInv, Genuine
    <3> QED BY <1>1, <2>1, <2>2, <3>1, <3>3, <3>4, <3>5, CopiesOther
  <2>3. ASSUME e.kind = "OutOnceCompleted", NEW a \in {id, Blank}, Broadcast(c, SignRtx(c, a, hash))
        PROVE  <1>9!:
    <3>1. UnderWay' = UnderWay \cup {<<h, SignRtx(c, a, hash)>> : h \in Hubs \ {c}} /\ IsABag(net')
      BY <2>1, <2>3, BroadcastFacts
    <3>2. SignRtx(c, a, hash) \in Message
      BY <1>4, <1>7, SignedTyped
    <3>3. /\ SignRtx(c, a, hash).body.kind = "receipt" /\ SignRtx(c, a, hash).body.id = a
          /\ SignRtx(c, a, hash).body.hash = hash
      BY DEF SignRtx, Sign, Receipt
    <3>4. a \in Makes => a = id /\ hash \in 1 .. moved[a]
      BY <1>7, <2>3, CrossNetAssumption DEF CrossNetAssumption
    <3>5. UnderWay' \subseteq Hubs \X Message
      BY <1>4, <3>1, <3>2 DEF IInv, TypeOK
    <3>6. Genuine'
      BY <1>1, <1>4, <3>1, <3>3, <3>4 DEF IInv, Genuine
    <3> QED BY <1>1, <2>1, <2>3, <3>1, <3>3, <3>5, <3>6, CopiesOther
  <2>4. CASE UNCHANGED net
    BY <1>1, <1>4, <2>1, <2>4, CopiesSame DEF IInv, TypeOK, Genuine, UnderWay
  <2> QED BY <1>8, <2>2, <2>3, <2>4
<1>10. TypeOK'
  <2>1. number' \in [Couriers -> Nat]
    BY <1>1 DEF IInv, TypeOK
  <2>2. records' \in [Couriers -> SUBSET Pres]
    <3>1. CASE UNCHANGED records
      BY <3>1 DEF IInv, TypeOK
    <3>2. CASE id \in Pres /\ records' = [records EXCEPT ![c] = @ \cup {id}]
      BY <3>2 DEF IInv, TypeOK
    <3> QED BY <1>7, <1>8, <3>1, <3>2
  <2> QED BY <1>1, <1>9, <2>1, <2>2 DEF IInv, TypeOK
<1>11. Logged' /\ Recorded' /\ Stored' /\ Moved' /\ Taken' /\ Reported' /\ Once' /\ Bagged' /\ Heights'
  BY <1>1, <1>4, <1>9
  DEF IInv, Logged, Recorded, Stored, Moved, Taken, Reported, Once, Bagged, Heights
<1>12. Counted'
  <2> SUFFICES ASSUME NEW q \in Makes
               PROVE  /\ Yet(q)' = Yet(q)
                      /\ moved[q] + Cardinality(Copies(q)') <= moved[q] + Cardinality(Copies(q))
    BY <1>1, <1>9, <1>10, CountedKept
  <2>1. Yet(q)' = Yet(q)
    BY <1>1, YetKept DEF IInv
  <2>2. moved[q] \in Nat
    BY DEF IInv, TypeOK, Ids
  <2> QED BY <1>9, <2>1, <2>2
<1> QED BY <1>9, <1>10, <1>11, <1>12 DEF IInv

\* A courier with the flag that takes an order makes one transfer, and there is
\* one announcement less (receive, HandleRequests).
LEMMA ReceiveRequestStep ==
  ASSUME IInv, NEW c \in Couriers, NEW m, ReceiveRequest(c, m) PROVE IInv'
<1>1. /\ Got(c, m) /\ m.body.kind = "order"
      /\ UNCHANGED <<maker, signers, takerHash, taken, log, contract, height, remote, number,
                     records, receipts, outchain, replays, lost>>
  BY DEF ReceiveRequest, simple, viewer, counts
<1>2. IsABag(net') /\ UnderWay' \subseteq UnderWay /\ <<c, m>> \in UnderWay
  BY <1>1, TakenFacts
<1>3. PICK id : id = m.body.id
  OBVIOUS
<1>4. Exists(id) /\ id \in Ids
  <2> Exists(id)
    BY <1>1, <1>2, <1>3 DEF IInv, Genuine
  <2> QED BY DEF Exists, Ids
<1> DEFINE Moves ==
             /\ c \in outchain
             /\ requests' = [requests EXCEPT ![c] = @ \cup {id}]
             /\ moved' = [moved EXCEPT ![id] = @ + 1]
             /\ blocks' = Append(blocks, Event("OutOnceCompleted", id, moved[id] + 1))
<1>5. UNCHANGED <<requests, moved, blocks>> \/ Moves
  BY <1>3, <1>4 DEF ReceiveRequest, IInv, TypeOK
<1>6. \A i : Exists(i)' <=> Exists(i)
  BY <1>1 DEF Exists
<1>7. TypeOK'
  <2>1. UnderWay' \subseteq Hubs \X Message
    BY <1>2 DEF IInv, TypeOK
  <2>2. /\ moved' \in [Ids -> Nat] /\ requests' \in [Couriers -> SUBSET Ids]
        /\ blocks' \in Seq([kind : {"Init", "OutOnceCompleted", "Finished"}, id : Ids, hash : Nat])
    <3>1. CASE UNCHANGED <<requests, moved, blocks>>
      BY <3>1 DEF IInv, TypeOK
    <3>2. CASE Moves
      <4>1. moved' \in [Ids -> Nat] /\ requests' \in [Couriers -> SUBSET Ids]
        BY <1>4, <3>2 DEF IInv, TypeOK
      <4>2. moved[id] + 1 \in Nat
        BY <1>4 DEF IInv, TypeOK
      <4>3. Event("OutOnceCompleted", id, moved[id] + 1)
              \in [kind : {"Init", "OutOnceCompleted", "Finished"}, id : Ids, hash : Nat]
        BY <1>4, <4>2 DEF Event
      <4> QED BY <3>2, <4>1, <4>3 DEF IInv, TypeOK
    <3> QED BY <1>5, <3>1, <3>2
  <2> QED BY <1>1, <2>1, <2>2 DEF IInv, TypeOK
<1>8. \A i \in Ids :
        /\ moved[i] \in Nat /\ moved'[i] \in Nat /\ moved[i] <= moved'[i]
        /\ \/ moved'[i] = moved[i]
           \/ i = id /\ moved'[i] = moved[i] + 1 /\ c \in outchain
  <2> SUFFICES ASSUME NEW i \in Ids
               PROVE  /\ moved[i] \in Nat /\ moved'[i] \in Nat /\ moved[i] <= moved'[i]
                      /\ \/ moved'[i] = moved[i]
                         \/ i = id /\ moved'[i] = moved[i] + 1 /\ c \in outchain
    OBVIOUS
  <2>1. moved[i] \in Nat
    BY DEF IInv, TypeOK
  <2>2. \/ moved'[i] = moved[i]
        \/ i = id /\ moved'[i] = moved[i] + 1 /\ c \in outchain
    <3>1. CASE Moves
      BY <1>4, <3>1 DEF IInv, TypeOK
    <3> QED BY <1>5, <3>1
  <2> HIDE DEF Moves
  <2> QED BY <2>1, <2>2
<1>9. Genuine'
  BY <1>2, <1>6, <1>7, <1>8, GenuineKept
<1>10. Moved'
  BY <1>4, <1>6, <1>8 DEF IInv, Moved
<1>11. Reported'
  BY <1>1, <1>8 DEF IInv, TypeOK, Reported, Ids
<1>12. Recorded'
  <2> SUFFICES ASSUME NEW i \in 1 .. Len(blocks')
               PROVE  /\ blocks'[i].kind = "Init" => blocks'[i].id \in Pres /\ Exists(blocks[i].id)'
                      /\ blocks'[i].kind = "OutOnceCompleted" =>
                           blocks'[i].hash \in 1 .. moved'[blocks'[i].id]
    BY DEF Recorded
  <2>1. ASSUME i \in 1 .. Len(blocks), blocks'[i] = blocks[i]
        PROVE  blocks[i].id \in Ids /\ blocks[i].hash \in Nat
    <3> DEFINE R == [kind : {"Init", "OutOnceCompleted", "Finished"}, id : Ids, hash : Nat]
    <3>1. blocks \in Seq(R)
      BY DEF IInv, TypeOK
    <3> HIDE DEF R
    <3>2. blocks[i] \in R
      BY <2>1, <3>1, ElementOf
    <3> QED BY <3>2 DEF R
  <2>2. CASE i \in 1 .. Len(blocks) /\ blocks'[i] = blocks[i]
    <3>1. /\ blocks[i].kind = "Init" => blocks[i].id \in Pres /\ Exists(blocks[i].id)
          /\ blocks[i].kind = "OutOnceCompleted" => blocks[i].hash \in 1 .. moved[blocks[i].id]
      BY <2>2 DEF IInv, Recorded
    <3>2. PICK j : j = blocks[i].id
      OBVIOUS
    <3>3. j \in Ids /\ blocks[i].hash \in Nat /\ blocks'[i] = blocks[i]
      BY <2>1, <2>2, <3>2
    <3>4. blocks'[i].kind = "Init" => blocks'[i].id \in Pres /\ Exists(blocks[i].id)'
      BY <1>6, <1>8, <3>1, <3>2, <3>3
    <3>5. blocks'[i].kind = "OutOnceCompleted" => blocks'[i].hash \in 1 .. moved'[blocks'[i].id]
      <4>1. PICK n : n = blocks[i].hash
        OBVIOUS
      <4>2. n \in 1 .. moved[j] => n \in 1 .. moved'[j]
        BY <1>6, <1>8, <3>3
      <4> QED BY <3>1, <3>2, <3>3, <4>1, <4>2
    <3> QED BY <3>4, <3>5
  <2>3. CASE blocks'[i] = Event("OutOnceCompleted", id, moved[id] + 1) /\ moved'[id] = moved[id] + 1
    BY <1>4, <1>8, <2>3 DEF Event
  <2>4. \/ i \in 1 .. Len(blocks) /\ blocks'[i] = blocks[i]
        \/ blocks'[i] = Event("OutOnceCompleted", id, moved[id] + 1) /\ moved'[id] = moved[id] + 1
    <3> DEFINE R == [kind : {"Init", "OutOnceCompleted", "Finished"}, id : Ids, hash : Nat]
    <3>1. blocks \in Seq(R) /\ moved \in [Ids -> Nat]
      BY DEF IInv, TypeOK
    <3> HIDE DEF R
    <3>2. CASE UNCHANGED blocks
      BY <3>2
    <3>3. ASSUME Moves
          PROVE  moved'[id] = moved[id] + 1 /\ blocks' = Append(blocks, Event("OutOnceCompleted", id, moved[id] + 1))
      BY <1>4, <3>1, <3>3
    <3>4. CASE Moves
      <4>1. PICK last : last = Event("OutOnceCompleted", id, moved[id] + 1)
        OBVIOUS
      <4>2. blocks' = Append(blocks, last)
        BY <3>3, <3>4, <4>1
      <4>3. (i \in 1 .. Len(blocks) /\ blocks'[i] = blocks[i]) \/ blocks'[i] = last
        BY <3>1, <4>2
      <4> QED BY <3>3, <3>4, <4>1, <4>3
    <3> QED BY <1>5, <3>2, <3>4
  <2> QED BY <2>2, <2>3, <2>4
<1>13. Logged' /\ Stored' /\ Taken' /\ Bagged' /\ Heights' /\ Once'
  BY <1>1, <1>2, <1>6 DEF IInv, Logged, Stored, Taken, Bagged, Heights, Once
<1>14. Counted'
  <2> SUFFICES ASSUME NEW q \in Makes
               PROVE  /\ Yet(q)' = Yet(q)
                      /\ IsFiniteSet(Copies(q)') /\ Cardinality(Copies(q)') \in Nat
                      /\ Cardinality(Copies(q)) \in Nat
                      /\ moved'[q] + Cardinality(Copies(q)') <= moved[q] + Cardinality(Copies(q))
    BY <1>1, <1>7, CountedKept
  <2>1. Yet(q)' = Yet(q)
    BY <1>1, YetKept DEF IInv
  <2>2. /\ IsFiniteSet(Copies(q)') /\ Cardinality(Copies(q)') \in Nat
        /\ Cardinality(Copies(q)) \in Nat
        /\ Cardinality(Copies(q)') <= Cardinality(Copies(q))
        /\ Asks(q, <<c, m>>) => Cardinality(Copies(q)') + 1 <= Cardinality(Copies(q))
    BY <1>1, CopiesGot DEF IInv, Counted, Bagged
  <2>3. q \in Ids
    BY DEF Ids
  <2>4. \/ moved'[q] = moved[q]
        \/ Asks(q, <<c, m>>) /\ moved'[q] = moved[q] + 1
    BY <1>1, <1>3, <1>8, <2>3 DEF Asks
  <2> QED BY <1>8, <2>1, <2>2, <2>3, <2>4
<1> QED BY <1>7, <1>9, <1>10, <1>11, <1>12, <1>13, <1>14 DEF IInv

\* The elements of a finite set, in a sequence.
LEMMA SetToSeqFacts ==
  ASSUME NEW S, IsFiniteSet(S)
  PROVE  SetToSeq(S) \in Seq(S)
<1> DEFINE n == Cardinality(S)
<1>1. n \in Nat /\ ExistsBijection(1 .. n, S)
  BY FS_CardinalityType
<1>2. \E f \in [1 .. n -> S] : IsInjective(f)
  BY <1>1 DEF ExistsBijection, Bijection, Injection, Surjection, IsInjective
<1>3. SetToSeq(S) \in [1 .. n -> S]
  BY <1>2 DEF SetToSeq
<1> HIDE DEF n
<1> QED BY <1>1, <1>3

\* Committing a batch of receipts (ProcessCrossTxReceipts) keeps the invariant.
LEMMA ProcessReceiptsStep ==
  ASSUME IInv, NEW c \in Couriers, ProcessReceipts(c) PROVE IInv'
<1> DEFINE S == Unfinished(receipts[c])
           F == {Event("Finished", p, 0) : p \in S}
           R == [kind : {"Init", "OutOnceCompleted", "Finished"}, id : Ids, hash : Nat]
<1>1. /\ receipts' = [receipts EXCEPT ![c] = {}]
      /\ UNCHANGED <<maker, signers, takerHash, taken, log, moved, height, remote, number,
                     records, requests, outchain, net, replays, lost>>
      /\ \/ UNCHANGED <<contract, blocks>>
         \/ /\ receipts[c] \subseteq records[c]
            /\ contract' = [p \in Pres |-> IF p \in S THEN "Finished" ELSE contract[p]]
            /\ blocks' = blocks \o SetToSeq(F)
  BY DEF ProcessReceipts, simple, viewer, counts
<1>2. IsFiniteSet(F) /\ S \subseteq receipts[c]
  <2>1. IsFiniteSet(S) /\ S \subseteq receipts[c]
    <3>1. S \in SUBSET receipts[c] /\ IsFiniteSet(receipts[c])
      BY DEF Unfinished, IInv, Bagged
    <3> QED BY <3>1, FS_Subset
  <2> DEFINE f == [p \in S |-> Event("Finished", p, 0)]
  <2>2. f \in Surjection(S, F)
    BY DEF Surjection
  <2> HIDE DEF f, F, S
  <2> QED BY <2>1, <2>2, FS_Surjection
<1>3. records[c] \subseteq Pres /\ blocks \in Seq(R)
  BY DEF IInv, TypeOK
<1>4. receipts[c] \subseteq records[c] => \A x \in F : x \in R /\ x.kind = "Finished"
  BY <1>2, <1>3 DEF Event, Ids
<1>5. SetToSeq(F) \in Seq(F)
  BY <1>2, SetToSeqFacts
<1>6. \A id : Exists(id) => Exists(id)'
  BY <1>1, ExistsKept DEF IInv
<1> HIDE DEF S, F, R
<1>7. blocks' \in Seq(R)
  <2>1. CASE receipts[c] \subseteq records[c] /\ blocks' = blocks \o SetToSeq(F)
    <3>1. F \subseteq R
      BY <1>4, <2>1
    <3>2. SetToSeq(F) \in Seq(R)
      BY <1>5, <3>1
    <3> QED BY <1>3, <2>1, <3>2
  <2> QED BY <1>1, <1>3, <2>1
<1>8. TypeOK'
  <2>1. contract' \in [Pres -> {"none", "Init", "Finished"}]
    BY <1>1 DEF IInv, TypeOK
  <2>2. receipts' \in [Couriers -> SUBSET (Ids \cup {Blank})]
    BY <1>1 DEF IInv, TypeOK
  <2> QED BY <1>1, <1>7, <2>1, <2>2 DEF IInv, TypeOK, UnderWay, R
<1>9. Recorded'
  <2> SUFFICES ASSUME NEW i \in 1 .. Len(blocks')
               PROVE  /\ blocks'[i].kind = "Init" => blocks'[i].id \in Pres /\ Exists(blocks[i].id)'
                      /\ blocks'[i].kind = "OutOnceCompleted" =>
                           blocks'[i].hash \in 1 .. moved'[blocks'[i].id]
    BY DEF Recorded
  <2>1. \/ i \in 1 .. Len(blocks) /\ blocks'[i] = blocks[i]
        \/ blocks'[i].kind = "Finished"
    <3>1. CASE UNCHANGED blocks
      BY <3>1
    <3>2. CASE receipts[c] \subseteq records[c] /\ blocks' = blocks \o SetToSeq(F)
      <4>1. (i \in 1 .. Len(blocks) /\ blocks'[i] = blocks[i]) \/ blocks'[i] \in F
        BY <1>3, <1>5, <3>2
      <4> QED BY <1>4, <3>2, <4>1
    <3> QED BY <1>1, <3>1, <3>2
  <2>2. CASE i \in 1 .. Len(blocks) /\ blocks'[i] = blocks[i]
    <3>1. PICK j : j = blocks[i].id
      OBVIOUS
    <3> QED BY <1>1, <1>6, <2>2, <3>1 DEF IInv, Recorded
  <2> QED BY <2>1, <2>2
<1>10. Bagged'
  BY <1>1, FS_EmptySet DEF IInv, TypeOK, Bagged
<1>11. Genuine' /\ Logged' /\ Stored' /\ Moved' /\ Taken' /\ Reported' /\ Heights' /\ Once'
  BY <1>1, <1>6
  DEF IInv, Genuine, Logged, Stored, Moved, Taken, Reported, Heights, Once, UnderWay
<1>12. Counted'
  BY <1>1, <1>8, CountedQuiet
<1> QED BY <1>8, <1>9, <1>10, <1>11, <1>12 DEF IInv

\* Every step of the network keeps the invariant.
LEMMA NextIInv == IInv /\ [Next]_vars => IInv'
<1> SUFFICES ASSUME IInv, [Next]_vars PROVE IInv'
  OBVIOUS
<1>1. ASSUME NEW m \in Makes, Make(m) PROVE IInv'
  BY <1>1, MakeStep
<1>2. ASSUME NEW p \in Pres, Take(p) \/ Precommit(p) PROVE IInv'
  BY <1>2, TakeStep, PrecommitStep
<1>3. ASSUME NEW v \in Viewers, ViewerStep(v) PROVE IInv'
  <2>1. CASE HandleLog(v)
    BY <2>1, HandleLogStep
  <2>2. ASSUME NEW x \in UnderWay, x[1] = v, Deliver(v, x[2]) PROVE IInv'
    <3>1. v \notin Couriers
      BY CrossNetAssumption DEF CrossNetAssumption
    <3> QED BY <2>2, <3>1, ReceiveOrderStep, ReceiveReceiptStep DEF Deliver
  <2> QED BY <1>3, <2>1, <2>2 DEF ViewerStep
<1>4. ASSUME NEW v \in Viewers, Replay(v) PROVE IInv'
  BY <1>4, ReplayStep
<1>5. ASSUME NEW c \in Couriers, CourierStep(c) PROVE IInv'
  <2>1. CASE HandleBlock(c) \/ ProcessReceipts(c)
    BY <2>1, HandleBlockStep, ProcessReceiptsStep
  <2>2. ASSUME NEW x \in UnderWay, x[1] = c, Deliver(c, x[2]) PROVE IInv'
    <3>1. c \notin Viewers
      BY CrossNetAssumption DEF CrossNetAssumption
    <3> QED BY <2>2, <3>1, ReceiveRequestStep, QueueReceiptStep DEF Deliver
  <2> QED BY <1>5, <2>1, <2>2 DEF CourierStep
<1>6. ASSUME NEW x \in UnderWay, Lose(x[1], x[2]) PROVE IInv'
  BY <1>6, LoseStep
<1>7. CASE UNCHANGED vars
  <2>1. /\ UNCHANGED <<maker, signers, takerHash, taken, log, contract, moved, blocks, height, remote,
                       number, records, requests, receipts, outchain, net, replays, lost>>
    BY <1>7 DEF vars, simple, fabric, viewer, courier, counts
  <2>2. TypeOK'
    BY <2>1 DEF IInv, TypeOK, UnderWay
  <2>3. \A id : Exists(id)' <=> Exists(id)
    BY <2>1 DEF Exists
  <2>4. Counted'
    BY <2>1, <2>2, CountedQuiet
  <2> QED BY <2>1, <2>2, <2>3, <2>4
          DEF IInv, Genuine, Logged, Recorded, Stored, Moved, Taken, Reported, Bagged, Heights,
              Once, UnderWay
<1> QED BY <1>1, <1>2, <1>3, <1>4, <1>5, <1>6, <1>7 DEF Next

\* The inductive invariant holds in every state of the network.
THEOREM IInvHolds == Spec => []IInv
<1> QED BY InitIInv, NextIInv, PTL DEF Spec

\* For any hubs and whatever is lost, overtaken or announced again, Fabric moves
\* money for an order at most once for each viewer, each replay and each courier
\* with the flag, and never for an order nobody made.
THEOREM TransfersBoundedHolds == Spec => []TransfersBounded
<1>1. IInv => TransfersBounded
  <2> SUFFICES ASSUME IInv, NEW m \in Makes
               PROVE  /\ moved[m] <= (Cardinality(Viewers) + replays) * Cardinality(outchain)
                      /\ moved[m] > 0 => maker[m] # "none"
    BY DEF TransfersBounded
  <2> DEFINE k == Cardinality(Yet(m)) * Cardinality(outchain)
             b == (Cardinality(Viewers) + replays) * Cardinality(outchain)
  <2>1. /\ Cardinality(Yet(m)) \in Nat /\ Cardinality(outchain) \in Nat
        /\ Cardinality(Viewers) \in Nat /\ replays \in Nat
    BY YetFacts, HubsFinite DEF IInv, TypeOK
  <2>2. k \in Nat /\ b \in Nat
    <3>1. Cardinality(Viewers) + replays \in Nat
      BY <2>1
    <3> QED BY <2>1, <3>1, Times
  <2>3. IsFiniteSet(Copies(m)) /\ moved[m] + Cardinality(Copies(m)) + k <= b
    BY DEF IInv, Counted
  <2>4. Cardinality(Copies(m)) \in Nat /\ moved[m] \in Nat
    BY <2>3, FS_CardinalityType DEF IInv, TypeOK, Ids
  <2>5. moved[m] > 0 => maker[m] # "none"
    BY CrossNetAssumption DEF IInv, Moved, Exists, Ids, CrossNetAssumption
  <2> HIDE DEF k, b
  <2>6. moved[m] <= b
    BY <2>2, <2>3, <2>4
  <2> QED BY <2>5, <2>6 DEF b
<1> QED BY <1>1, IInvHolds, PTL

-----------------------------------------------------------------------------
(* One courier and any number of viewers keep the promise of Transfer. *)

\* Receipts heard stay those of taken contracts while no new message is under way.
LEMMA AnsweredKept ==
  ASSUME Answered, taken \subseteq taken', UNCHANGED receipts, UnderWay' \subseteq UnderWay
  PROVE  Answered'
BY DEF Answered

\* A courier hears receipts of taken contracts only: what it says itself goes to
\* viewers, and no other courier answers.
LEMMA NextAnswered == ASSUME OneCourier, IInv, Answered, [Next]_vars PROVE Answered'
<1>1. ASSUME NEW m \in Makes, Make(m) PROVE Answered'
  BY <1>1, AnsweredKept DEF Make, courier, UnderWay
<1>2. ASSUME NEW p \in Pres, Take(p) \/ Precommit(p) PROVE Answered'
  BY <1>2, AnsweredKept DEF Take, Precommit, simple, courier, UnderWay
<1>3. ASSUME NEW v \in Viewers, HandleLog(v) PROVE Answered'
  <2> DEFINE e == log[height[v] + 1]
  <2>1. UNCHANGED <<taken, receipts>> /\ IsABag(net)
    BY <1>3 DEF HandleLog, simple, courier, IInv, Bagged
  <2>2. e.kind = "TakerTx" => e.id \in taken
    BY <1>3 DEF HandleLog, IInv, Logged, TypeOK
  <2>3. CASE e.kind = "MakerTx"
    <3>1. UnderWay' = UnderWay \cup {<<h, SignCtx(v, e.id)>> : h \in Hubs \ {v}}
      BY <1>3, <2>1, <2>3, BroadcastFacts DEF HandleLog
    <3>2. SignCtx(v, e.id).body.kind = "order"
      BY DEF SignCtx, Sign, Order
    <3> HIDE DEF e
    <3> QED BY <2>1, <3>1, <3>2 DEF Answered
  <2>4. CASE e.kind = "TakerTx"
    <3>1. UnderWay' = UnderWay \cup {<<h, SignRtx(v, e.id, 0)>> : h \in Hubs \ {v}}
      BY <1>3, <2>1, <2>4, BroadcastFacts DEF HandleLog
    <3>2. SignRtx(v, e.id, 0).body.id = e.id
      BY DEF SignRtx, Sign, Receipt
    <3> HIDE DEF e
    <3> QED BY <2>1, <2>2, <2>4, <3>1, <3>2 DEF Answered
  <2>5. CASE UNCHANGED net
    BY <2>1, <2>5, AnsweredKept DEF UnderWay
  <2> QED BY <1>3, <2>3, <2>4, <2>5 DEF HandleLog
<1>4. ASSUME NEW v \in Viewers, NEW m, ReceiveOrder(v, m) \/ ReceiveReceipt(v, m) PROVE Answered'
  <2>1. UNCHANGED <<taken, receipts>> /\ Got(v, m)
    BY <1>4 DEF ReceiveOrder, ReceiveReceipt, simple, courier
  <2> QED BY <2>1, TakenFacts, AnsweredKept
<1>5. ASSUME NEW v \in Viewers, Replay(v) PROVE Answered'
  BY <1>5, AnsweredKept DEF Replay, simple, courier, UnderWay
<1>6. ASSUME NEW c \in Couriers, HandleBlock(c) PROVE Answered'
  <2>1. UNCHANGED <<taken, receipts>> /\ IsABag(net)
    BY <1>6 DEF HandleBlock, simple, IInv, Bagged
  <2>2. ASSUME NEW m, Broadcast(c, m) PROVE Answered'
    <3>1. UnderWay' = UnderWay \cup {<<h, m>> : h \in Hubs \ {c}}
      BY <2>1, <2>2, BroadcastFacts
    <3>2. \A h \in Hubs \ {c} : h \notin Couriers
      BY DEF OneCourier
    <3> QED BY <2>1, <3>1, <3>2 DEF Answered
  <2>3. CASE UNCHANGED net
    BY <2>1, <2>3, AnsweredKept DEF UnderWay
  <2> QED BY <1>6, <2>2, <2>3 DEF HandleBlock
<1>7. ASSUME NEW c \in Couriers, NEW m, ReceiveRequest(c, m) PROVE Answered'
  <2>1. UNCHANGED <<taken, receipts>> /\ Got(c, m)
    BY <1>7 DEF ReceiveRequest, simple
  <2> QED BY <2>1, TakenFacts, AnsweredKept
<1>8. ASSUME NEW c \in Couriers, NEW m, QueueReceipt(c, m) PROVE Answered'
  <2>1. /\ UNCHANGED taken /\ Got(c, m) /\ m.body.kind = "receipt"
        /\ receipts' = [receipts EXCEPT ![c] = @ \cup {m.body.id}]
    BY <1>8 DEF QueueReceipt, simple
  <2>2. UnderWay' \subseteq UnderWay /\ <<c, m>> \in UnderWay
    BY <2>1, TakenFacts
  <2>3. m.body.id \in taken
    BY <2>1, <2>2 DEF Answered
  <2>4. \A d \in Couriers : receipts'[d] \subseteq receipts[d] \cup {m.body.id}
    BY <2>1 DEF IInv, TypeOK
  <2> QED BY <2>1, <2>2, <2>3, <2>4 DEF Answered
<1>9. ASSUME NEW c \in Couriers, ProcessReceipts(c) PROVE Answered'
  <2>1. /\ UNCHANGED <<taken, net>> /\ receipts' = [receipts EXCEPT ![c] = {}]
    BY <1>9 DEF ProcessReceipts, simple
  <2>2. \A d \in Couriers : receipts'[d] \subseteq receipts[d]
    BY <2>1 DEF IInv, TypeOK
  <2> QED BY <2>1, <2>2 DEF Answered, UnderWay
<1>10. ASSUME NEW x \in UnderWay, Lose(x[1], x[2]) PROVE Answered'
  <2>1. UNCHANGED <<taken, receipts>> /\ Got(x[1], x[2])
    BY <1>10 DEF Lose, simple, courier
  <2> QED BY <2>1, TakenFacts, AnsweredKept, ZenonT(60)
<1>11. CASE UNCHANGED vars
  BY <1>11, AnsweredKept DEF vars, simple, courier, UnderWay
<1>12. ASSUME NEW v \in Viewers, ViewerStep(v) PROVE Answered'
  BY <1>3, <1>4, <1>12, CrossNetAssumption DEF ViewerStep, Deliver, CrossNetAssumption
<1>13. ASSUME NEW c \in Couriers, CourierStep(c) PROVE Answered'
  BY <1>6, <1>7, <1>8, <1>9, <1>13, CrossNetAssumption DEF CourierStep, Deliver, CrossNetAssumption
<1> QED BY <1>1, <1>2, <1>5, <1>10, <1>11, <1>12, <1>13 DEF Next

\* A makerFinish that pays is a payment for a transfer that was made; one that
\* does not pay yet shows nothing (ReceiveReceipt).
LEMMA ReceiptPays ==
  ASSUME IInv, NEW v \in Viewers, NEW msg, ReceiveReceipt(v, msg)
  PROVE  Promise!Next \/ UNCHANGED Promise!money
<1> DEFINE r == msg.body
<1>1. /\ Got(v, msg) /\ msg.body.kind = "receipt" /\ UNCHANGED <<taken, contract, moved>>
  BY DEF ReceiveReceipt, simple, fabric
<1>2. <<v, msg>> \in UnderWay
  BY <1>1, TakenFacts
<1>3. \/ UNCHANGED <<maker, takerHash>>
      \/ /\ Reports(v, r) /\ takerHash' = [takerHash EXCEPT ![r.id] = r.hash]
         /\ maker' = [maker EXCEPT ![r.id] = "paid"] \/ UNCHANGED maker
  BY DEF ReceiveReceipt, simple
<1>4. Reports(v, r) => r.id \in Makes /\ maker[r.id] = "open" /\ r.hash \in 1 .. moved[r.id]
  BY <1>1, <1>2 DEF Reports, IInv, Genuine
<1> HIDE DEF r
<1>5. CASE UNCHANGED <<maker, takerHash>>
  BY <1>1, <1>5 DEF Promise!money
<1>6. CASE Reports(v, r) /\ UNCHANGED maker /\ takerHash' = [takerHash EXCEPT ![r.id] = r.hash]
  <2>1. \A m \in Makes : maker[m] = "paid" => takerHash'[m] = takerHash[m]
    BY <1>4, <1>6 DEF IInv, TypeOK
  <2> QED BY <1>1, <1>6, <2>1 DEF Promise!money
<1>7. CASE /\ Reports(v, r) /\ maker' = [maker EXCEPT ![r.id] = "paid"]
           /\ takerHash' = [takerHash EXCEPT ![r.id] = r.hash]
  <2> PICK m \in Makes : m = r.id
    BY <1>4, <1>7
  <2> PICK n \in 1 .. moved[m] : n = r.hash
    BY <1>4, <1>7
  <2>1. maker[m] = "open" /\ \A q \in Makes : q # m => maker'[q] = maker[q]
    BY <1>4, <1>7 DEF IInv, TypeOK
  <2>2. maker'[m] = "paid" /\ takerHash'[m] = n
        /\ \A q \in Makes : q # m => takerHash'[q] = takerHash[q]
    BY <1>7 DEF IInv, TypeOK
  <2>3. [q \in Makes |-> IF maker'[q] = "paid" THEN takerHash'[q] ELSE 0]
          = [[q \in Makes |-> IF maker[q] = "paid" THEN takerHash[q] ELSE 0] EXCEPT ![m] = n]
    BY <2>1, <2>2
  <2>4. Promise!Pay(m)
    BY <1>1, <1>7, <2>1, <2>3 DEF Promise!Pay
  <2> QED BY <2>4 DEF Promise!Next
<1> QED BY <1>3, <1>5, <1>6, <1>7

\* A courier that acts on an order makes a transfer for an order that was made.
LEMMA RequestMoves ==
  ASSUME IInv, NEW c \in Couriers, NEW m, ReceiveRequest(c, m)
  PROVE  Promise!Next \/ UNCHANGED Promise!money
<1>1. /\ Got(c, m) /\ m.body.kind = "order" /\ UNCHANGED <<maker, takerHash, taken, contract>>
      /\ UNCHANGED moved \/ moved' = [moved EXCEPT ![m.body.id] = @ + 1]
  BY DEF ReceiveRequest, simple
<1>2. <<c, m>> \in UnderWay
  BY <1>1, TakenFacts
<1>3. PICK id : id = m.body.id
  OBVIOUS
<1>4. Exists(id)
  BY <1>1, <1>2, <1>3 DEF IInv, Genuine
<1>5. CASE UNCHANGED moved
  BY <1>1, <1>5 DEF Promise!money
<1>6. CASE id \in Makes /\ moved' = [moved EXCEPT ![id] = @ + 1]
  <2>1. maker[id] # "none"
    BY <1>4, <1>6, CrossNetAssumption DEF Exists, CrossNetAssumption
  <2>2. [q \in Makes |-> moved'[q]] = [[q \in Makes |-> moved[q]] EXCEPT ![id] = @ + 1]
    BY <1>6 DEF IInv, TypeOK, Ids
  <2>3. Promise!Move(id)
    BY <1>1, <2>1, <2>2 DEF Promise!Move
  <2> QED BY <1>6, <2>3 DEF Promise!Next
<1>7. CASE id \notin Makes /\ moved' = [moved EXCEPT ![id] = @ + 1]
  <2>1. [q \in Makes |-> moved'[q]] = [q \in Makes |-> moved[q]]
    BY <1>7 DEF IInv, TypeOK, Ids
  <2> QED BY <1>1, <2>1 DEF Promise!money
<1> QED BY <1>1, <1>3, <1>5, <1>6, <1>7

\* Committing receipts finishes contracts that were taken.
LEMMA ReceiptsFinish ==
  ASSUME IInv, Answered, NEW c \in Couriers, ProcessReceipts(c)
  PROVE  Promise!Next \/ UNCHANGED Promise!money
<1> DEFINE S == Unfinished(receipts[c])
<1>1. /\ UNCHANGED <<maker, takerHash, taken, moved>>
      /\ \/ UNCHANGED contract
         \/ /\ receipts[c] \subseteq records[c]
            /\ contract' = [p \in Pres |-> IF p \in S THEN "Finished" ELSE contract[p]]
  BY DEF ProcessReceipts, simple
<1>2. CASE UNCHANGED contract
  BY <1>1, <1>2 DEF Promise!money
<1>3. CASE /\ receipts[c] \subseteq records[c]
           /\ contract' = [p \in Pres |-> IF p \in S THEN "Finished" ELSE contract[p]]
  <2>1. S \in SUBSET Pres /\ \A p \in S : contract[p] = "Init" /\ p \in taken
    BY <1>3 DEF Unfinished, Answered, IInv, TypeOK
  <2> HIDE DEF S
  <2>2. Promise!Finish(S)
    BY <1>1, <1>3, <2>1 DEF Promise!Finish
  <2> QED BY <2>1, <2>2 DEF Promise!Next
<1> QED BY <1>1, <1>2, <1>3

\* Every step of the network is a step of Transfer or changes nothing there.
LEMMA StepRefines == IInv /\ Answered /\ [Next]_vars => [Promise!Next]_Promise!money
<1> SUFFICES ASSUME IInv, Answered, [Next]_vars PROVE Promise!Next \/ UNCHANGED Promise!money
  OBVIOUS
<1>1. ASSUME UNCHANGED <<maker, takerHash, taken, contract, moved>> PROVE UNCHANGED Promise!money
  BY <1>1 DEF Promise!money
<1>2. ASSUME NEW m \in Makes, Make(m) PROVE Promise!Next
  <2>1. [q \in Makes |-> IF maker'[q] = "paid" THEN takerHash'[q] ELSE 0]
          = [q \in Makes |-> IF maker[q] = "paid" THEN takerHash[q] ELSE 0]
    BY <1>2 DEF Make, IInv, TypeOK
  <2>2. Promise!Open(m)
    BY <1>2, <2>1 DEF Make, fabric, Promise!Open
  <2> QED BY <2>2 DEF Promise!Next
<1>3. ASSUME NEW p \in Pres, Take(p) PROVE Promise!Next
  <2>1. Exists(p)'
    BY <1>3, TakeStep DEF IInv, Taken, Take
  <2>2. contract[p] # "none"
    BY <1>3, <2>1, CrossNetAssumption DEF Exists, Take, fabric, CrossNetAssumption
  <2>3. Promise!Take(p)
    BY <1>3, <2>2 DEF Take, fabric, Promise!Take
  <2> QED BY <2>3 DEF Promise!Next
<1>4. ASSUME NEW p \in Pres, Precommit(p) PROVE Promise!Next
  <2>1. Promise!Precommit(p)
    BY <1>4 DEF Precommit, simple, Promise!Precommit
  <2> QED BY <2>1 DEF Promise!Next
<1>5. ASSUME NEW v \in Viewers, ViewerStep(v) PROVE Promise!Next \/ UNCHANGED Promise!money
  <2>1. CASE HandleLog(v)
    BY <1>1, <2>1 DEF HandleLog, simple, fabric
  <2>2. ASSUME NEW x \in UnderWay, x[1] = v, Deliver(v, x[2])
        PROVE  Promise!Next \/ UNCHANGED Promise!money
    <3>1. v \notin Couriers
      BY CrossNetAssumption DEF CrossNetAssumption
    <3>2. CASE ReceiveOrder(v, x[2])
      BY <1>1, <3>2 DEF ReceiveOrder, simple, fabric
    <3> QED BY <2>2, <3>1, <3>2, ReceiptPays DEF Deliver
  <2> QED BY <1>5, <2>1, <2>2 DEF ViewerStep
<1>6. ASSUME NEW v \in Viewers, Replay(v) PROVE UNCHANGED Promise!money
  BY <1>1, <1>6 DEF Replay, simple, fabric
<1>7. ASSUME NEW c \in Couriers, CourierStep(c) PROVE Promise!Next \/ UNCHANGED Promise!money
  <2>1. CASE HandleBlock(c)
    BY <1>1, <2>1 DEF HandleBlock, simple, fabric
  <2>2. ASSUME NEW x \in UnderWay, x[1] = c, Deliver(c, x[2])
        PROVE  Promise!Next \/ UNCHANGED Promise!money
    <3>1. c \notin Viewers
      BY CrossNetAssumption DEF CrossNetAssumption
    <3>2. CASE QueueReceipt(c, x[2])
      BY <1>1, <3>2 DEF QueueReceipt, simple, fabric
    <3> QED BY <2>2, <3>1, <3>2, RequestMoves DEF Deliver
  <2> QED BY <1>7, <2>1, <2>2, ReceiptsFinish DEF CourierStep
<1>8. ASSUME NEW x \in UnderWay, Lose(x[1], x[2]) PROVE UNCHANGED Promise!money
  BY <1>1, <1>8 DEF Lose, simple, fabric
<1>9. CASE UNCHANGED vars
  BY <1>1, <1>9 DEF vars, simple, fabric
<1> QED BY <1>2, <1>3, <1>4, <1>5, <1>6, <1>7, <1>8, <1>9 DEF Next

\* With one courier the hubs keep the promise of Transfer, whatever is lost,
\* overtaken or announced again: an order is paid only for a transfer that Fabric
\* made for it, and a contract finished only after it was taken.  A second
\* courier would answer what the first one announces, and break the latter.
THEOREM OneCourierKeepsPromise == ASSUME OneCourier PROVE Spec => ImplementsTransfer
<1>1. Init => Answered
  <2> SUFFICES ASSUME Init PROVE Answered
    OBVIOUS
  <2> UnderWay = {}
    BY DEF Init, EmptyBag, SetToBag, UnderWay, BagToSet
  <2> QED BY DEF Init, Answered
<1>2. Init => Promise!Init
  BY DEF Init, Promise!Init, Ids
<1>3. IInv /\ Answered /\ [Next]_vars => Answered'
  BY NextAnswered
<1> QED BY <1>1, <1>2, <1>3, StepRefines, IInvHolds, PTL DEF Spec, ImplementsTransfer, Promise!Spec
=============================================================================
