--------------------------- MODULE OutchainProofs ---------------------------
(***************************************************************************)
(* An order that goes from SimpleChain to Fabric: the contract that takes  *)
(* and pays it, and the courier that answers it.                           *)
(*                                                                         *)
(* CrossDemo and AnchorRegistry, for any addresses, users, orders, foreign *)
(* transactions and arguments: lists and mappings agree, signatures are    *)
(* counted once each, an order is paid or taken with the signatures asked  *)
(* for, and paid once, and the money is there.                             *)
(*                                                                         *)
(* OutOnce: every answer to the hub is for a request that was paid and     *)
(* names a transfer, another's only after a race within one block; and     *)
(* none is blank while the store works and nobody else commits.            *)
(***************************************************************************)
EXTENDS CrossDemo, OutOnce, FiniteSetTheorems, WellFoundedInduction, TLAPS

\* The parts of RegistryConsistent, and that nobody is removed before the
\* chain is registered.
Listed == \A i \in DOMAIN list : anchor[list[i]].is /\ anchor[list[i]].position = i - 1
Ringed == \A i \in DOMAIN dels : removed[dels[i]] = [is |-> TRUE, position |-> i - 1]
Buried == \A a \in Addrs : removed[a].is => a \in Range(dels) /\ ~anchor[a].is
Fresh  == ~registered => dels = <<>>

Registry == RegistryTypeOK /\ Listed /\ Ringed /\ Buried /\ Fresh

\* Everything but the sign of the balance, which only its sum tells (Solvent).
Typed ==
  /\ maxValue \in Nat /\ reward \in Nat /\ totalReward \in Nat /\ balance \in Int
  /\ maker \in [Orders -> Maker] /\ signed \in [Orders -> SUBSET Addrs]
  /\ takerTx \in [DOMAIN Foreign -> Nat]
  /\ asked \in [Orders -> Asked]
  /\ reports \subseteq Addrs \X Orders \X Hashes /\ paid \in Seq(Payment)
  /\ takes \in [DOMAIN Foreign -> [need : 0..255, by : SUBSET Addrs]]
  /\ stray \in Nat /\ ownerOps \in Nat

\* An order not made has no signatures and no value, and one with a value was
\* made; without a pinned transaction nobody has signed.
Unmade ==
  \A o \in Orders :
    /\ asked[o] = NotAsked => maker[o].value = 0 /\ signed[o] = {}
    /\ maker[o].value > 0 /\ maker[o].hash = NoHash => signed[o] = {}

\* A count that may still grow has room for it: 255 signatures pay any order.
Room == \A o \in Orders : maker[o].value > 0 => maker[o].count <= 254

\* What was paid is closed for good.
Closed == \A i \in DOMAIN paid : maker[paid[i].id].value = 0 /\ asked[paid[i].id] # NotAsked

\* Orders are signed and paid out in order (makerStart, makerFinish).
Orderly == Unmade /\ Room /\ Closed /\ SignaturesCounted /\ PaidByQuorum /\ PaidOnce

IInv == Registry /\ Typed /\ Orderly /\ TakenByQuorum

-----------------------------------------------------------------------------
(* The registry of anchors. *)

\* The contract's limits.
LEMMA Limits ==
  /\ MaxAnchors \in Nat /\ MaxAnchors <= 64 /\ RingCap \in Nat /\ RingCap >= 1 /\ RingCap <= 64
  /\ IsFiniteSet(Addrs)
BY AnchorRegistryAssumption DEF AnchorRegistryAssumption

\* A place below the limits fits the contract's small integers.
LEMMA Small ==
  ASSUME NEW n \in Nat, n + 1 <= MaxAnchors \/ n < RingCap
  PROVE  n \in 0..63
BY Limits

\* What is left when a list loses its last entry (removeAnchors).
LEMMA FrontFacts ==
  ASSUME NEW S, NEW s \in Seq(S), Len(s) >= 1
  PROVE  /\ Front(s) \in Seq(S) /\ Len(Front(s)) = Len(s) - 1
         /\ \A i \in 1 .. Len(s) - 1 : Front(s)[i] = s[i]
<1>1. Len(s) \in Nat
  OBVIOUS
<1>2. PICK l \in Nat : l = Len(s) /\ l >= 1
  BY <1>1
<1>3. l - 1 \in 0 .. l
  BY <1>2
<1>4. PICK n \in 0 .. Len(s) : n = Len(s) - 1
  BY <1>2, <1>3
<1>5. PICK t : t = SubSeq(s, 1, n)
  OBVIOUS
<1>6. t \in Seq(S) /\ Len(t) = n /\ \A i \in 1 .. n : t[i] = s[i]
  BY <1>5
<1>7. t = Front(s)
  BY <1>4, <1>5 DEF Front
<1>8. QED BY <1>4, <1>6, <1>7

\* A list with one entry more (addAnchors, deleteAnchor).
LEMMA AppendFacts ==
  ASSUME NEW s \in Seq(Addrs), NEW a \in Addrs, NEW t, t = Append(s, a)
  PROVE  /\ t \in Seq(Addrs) /\ Len(t) = Len(s) + 1 /\ Len(s) \in Nat
         /\ \A i \in 1 .. Len(s) : t[i] = s[i] /\ s[i] \in Addrs
         /\ t[Len(s) + 1] = a
         /\ \A i \in DOMAIN t : i \in 1 .. Len(s) \/ i = Len(s) + 1
<1>1. t \in Seq(Addrs) /\ Len(t) = Len(s) + 1 /\ Len(s) \in Nat
  OBVIOUS
<1>2. DOMAIN s = 1 .. Len(s) /\ DOMAIN t = 1 .. Len(s) + 1
  BY <1>1
<1>3. \A i \in 1 .. Len(s) : t[i] = s[i] /\ s[i] \in Addrs
  OBVIOUS
<1>4. t[Len(s) + 1] = a
  OBVIOUS
<1>5. \A i \in DOMAIN t : i \in 1 .. Len(s) \/ i = Len(s) + 1
  BY <1>1, <1>2
<1>6. QED BY <1>1, <1>3, <1>4, <1>5

\* The places of a list.
LEMMA Places ==
  ASSUME NEW S, NEW s \in Seq(S)
  PROVE  Len(s) \in Nat /\ \A i : i \in DOMAIN s <=> i \in 1 .. Len(s)
OBVIOUS

\* The entries of a list are addresses.
LEMMA Entry ==
  ASSUME NEW s \in Seq(Addrs), NEW i \in DOMAIN s
  PROVE  s[i] \in Addrs /\ i \in 1 .. Len(s) /\ Len(s) \in Nat
OBVIOUS

\* The owner registers the foreign chain with distinct anchors (chainRegister).
LEMMA RegisterStep ==
  ASSUME Registry, NEW batch \in Seq(Addrs), NEW count \in 0..255, ChainRegister(batch, count)
  PROVE  Registry'
<1>1. /\ registered' = TRUE /\ need' = count /\ list' = batch /\ Len(batch) <= MaxAnchors
      /\ UNCHANGED <<dels, removed, delId>> /\ dels = <<>>
      /\ \A i, j \in DOMAIN batch : batch[i] = batch[j] => i = j
  BY DEF ChainRegister, IsInjective, ring, Registry, Fresh
<1>2. Len(batch) \in Nat /\ Len(batch) <= 64
  BY <1>1, Limits
<1>3. anchor \in [Addrs -> Anchor] /\ anchor' \in [Addrs -> Anchor]
  <2>1. anchor \in [Addrs -> Anchor]
    BY DEF Registry, RegistryTypeOK
  <2>2. ASSUME NEW a \in Range(batch)
        PROVE  NewAnchor((CHOOSE i \in DOMAIN batch : batch[i] = a) - 1) \in Anchor
    <3>1. PICK k \in 1 .. Len(batch) : k = CHOOSE i \in DOMAIN batch : batch[i] = a
      BY <2>2, Places DEF Range
    <3>2. k \in 1 .. 64
      BY <1>2
    <3>3. k - 1 \in 0..63
      BY <3>2
    <3>4. QED BY <3>1, <3>3 DEF NewAnchor, Anchor
  <2>3. QED BY <2>1, <2>2 DEF ChainRegister
<1>4. ASSUME NEW i \in DOMAIN batch
      PROVE  anchor'[batch[i]] = [is |-> TRUE, position |-> i - 1, status |-> TRUE]
  <2>1. batch[i] \in Addrs /\ batch[i] \in Range(batch)
    BY Entry DEF Range
  <2>2. (CHOOSE j \in DOMAIN batch : batch[j] = batch[i]) = i
    BY <1>1
  <2>3. QED BY <2>1, <2>2 DEF ChainRegister, NewAnchor
<1>5. RegistryTypeOK'
  BY <1>1, <1>3 DEF Registry, RegistryTypeOK
<1>6. Listed'
  <2>1. ASSUME NEW i \in DOMAIN batch
        PROVE  anchor'[batch[i]].is /\ anchor'[batch[i]].position = i - 1
    <3>1. anchor'[batch[i]] = [is |-> TRUE, position |-> i - 1, status |-> TRUE]
      BY <1>4
    <3>2. QED BY <3>1
  <2>2. QED BY <1>1, <2>1 DEF Listed
<1>7. Ringed' /\ Fresh'
  BY <1>1 DEF Registry, Ringed, Fresh
<1>8. Buried'
  BY <1>1 DEF Registry, Buried, Range
<1>9. QED BY <1>5, <1>6, <1>7, <1>8 DEF Registry

\* A new anchor takes the next place of the list (addAnchors).
LEMMA AddAnchorStep ==
  ASSUME Registry, NEW a \in Addrs, AddAnchor(a)
  PROVE  Registry'
<1>1. /\ registered /\ Len(list) + 1 <= MaxAnchors /\ ~anchor[a].is /\ ~removed[a].is
      /\ anchor' = [anchor EXCEPT ![a] = NewAnchor(Len(list))] /\ list' = Append(list, a)
      /\ UNCHANGED <<registered, need, dels, removed, delId>>
  BY DEF AddAnchor, ring
<1>2. list \in Seq(Addrs) /\ Len(list) \in Nat /\ anchor \in [Addrs -> Anchor]
  BY DEF Registry, RegistryTypeOK
<1>3. /\ list' \in Seq(Addrs) /\ Len(list') = Len(list) + 1 /\ Len(list) \in 0..63
      /\ \A i \in 1 .. Len(list) : list'[i] = list[i] /\ list[i] \in Addrs
      /\ list'[Len(list) + 1] = a
      /\ \A i \in DOMAIN list' : i \in 1 .. Len(list) \/ i = Len(list) + 1
  <2>1. /\ list' \in Seq(Addrs) /\ Len(list') = Len(list) + 1
        /\ \A i \in 1 .. Len(list) : list'[i] = list[i] /\ list[i] \in Addrs
        /\ list'[Len(list) + 1] = a
        /\ \A i \in DOMAIN list' : i \in 1 .. Len(list) \/ i = Len(list) + 1
    BY <1>1, <1>2, AppendFacts
  <2>2. PICK n \in Nat : n = Len(list) /\ n + 1 <= MaxAnchors
    BY <1>1, <1>2
  <2>3. n \in 0..63
    BY <2>2, Small
  <2>4. QED BY <2>1, <2>2, <2>3
<1>4. anchor' \in [Addrs -> Anchor]
  BY <1>1, <1>2, <1>3 DEF NewAnchor, Anchor
<1>5. RegistryTypeOK'
  BY <1>1, <1>3, <1>4 DEF Registry, RegistryTypeOK
<1>6. Listed'
  <2>1. ASSUME NEW i \in 1 .. Len(list)
        PROVE  anchor'[list'[i]].is /\ anchor'[list'[i]].position = i - 1
    <3>1. anchor[list[i]].is /\ anchor[list[i]].position = i - 1 /\ list[i] # a
      BY <1>1, <1>2, Places DEF Registry, Listed
    <3>2. QED BY <1>1, <1>2, <1>3, <3>1
  <2>2. anchor'[a] = NewAnchor(Len(list))
    BY <1>1, <1>2
  <2>3. ASSUME NEW i \in DOMAIN list', i = Len(list) + 1
        PROVE  anchor'[list'[i]].is /\ anchor'[list'[i]].position = i - 1
    BY <1>2, <1>3, <2>2, <2>3 DEF NewAnchor
  <2>4. QED BY <1>3, <2>1, <2>3 DEF Listed
<1>7. Ringed' /\ Fresh'
  BY <1>1 DEF Registry, Ringed, Fresh
<1>8. Buried'
  BY <1>1, <1>2 DEF Registry, Buried
<1>9. QED BY <1>5, <1>6, <1>7, <1>8 DEF Registry

\* The ring of removed anchors still knows its places after it has gone round
\* (deleteAnchor).
LEMMA BuryStep ==
  ASSUME Registry, NEW a \in Addrs, Bury(a)
  PROVE  /\ dels' \in Seq(Addrs) /\ Len(dels') <= RingCap /\ removed' \in [Addrs -> Removed]
         /\ delId' \in 0..(RingCap - 1)
         /\ Ringed'
         /\ \A b \in Addrs : removed'[b].is => b \in Range(dels') /\ (b = a \/ removed[b].is)
<1>1. /\ dels \in Seq(Addrs) /\ Len(dels) \in Nat /\ Len(dels) <= RingCap /\ ~removed[a].is
      /\ removed \in [Addrs -> Removed] /\ delId \in 0..(RingCap - 1)
      /\ \A i \in 1 .. Len(dels) : removed[dels[i]] = [is |-> TRUE, position |-> i - 1] /\ dels[i] \in Addrs
      /\ \A i \in 1 .. Len(dels) : removed[dels[i]].is /\ removed[dels[i]].position = i - 1
      /\ \A b \in Addrs : removed[b].is => \E i \in 1 .. Len(dels) : dels[i] = b
  <2>1. dels \in Seq(Addrs) /\ Len(dels) \in Nat /\ \A i : i \in DOMAIN dels <=> i \in 1 .. Len(dels)
    BY Places DEF Registry, RegistryTypeOK
  <2>2. \A b \in Addrs : removed[b].is => \E i \in 1 .. Len(dels) : dels[i] = b
    BY <2>1 DEF Registry, Buried, Range
  <2>3. \A i \in 1 .. Len(dels) : removed[dels[i]] = [is |-> TRUE, position |-> i - 1] /\ dels[i] \in Addrs
    BY <2>1, Entry DEF Registry, Ringed
  <2>4. Len(dels) <= RingCap /\ removed \in [Addrs -> Removed] /\ delId \in 0..(RingCap - 1)
    BY DEF Registry, RegistryTypeOK
  <2>5. ASSUME NEW i \in 1 .. Len(dels)
        PROVE  removed[dels[i]].is /\ removed[dels[i]].position = i - 1
    <3>1. removed[dels[i]] = [is |-> TRUE, position |-> i - 1]
      BY <2>3
    <3>2. QED BY <3>1
  <2>6. ~removed[a].is
    BY DEF Bury
  <2>7. QED BY <2>1, <2>2, <2>3, <2>4, <2>5, <2>6
<1>2. CASE Len(dels) < RingCap
  <2>1. /\ dels' = Append(dels, a) /\ delId' = delId
        /\ removed' = [removed EXCEPT ![a] = [is |-> TRUE, position |-> Len(dels)]]
    BY <1>2 DEF Bury
  <2>2. /\ dels' \in Seq(Addrs) /\ Len(dels') = Len(dels) + 1 /\ Len(dels) \in 0..63
        /\ \A i \in 1 .. Len(dels) : dels'[i] = dels[i]
        /\ dels'[Len(dels) + 1] = a
        /\ \A i \in DOMAIN dels' : i \in 1 .. Len(dels) \/ i = Len(dels) + 1
    <3>1. /\ dels' \in Seq(Addrs) /\ Len(dels') = Len(dels) + 1
          /\ \A i \in 1 .. Len(dels) : dels'[i] = dels[i]
          /\ dels'[Len(dels) + 1] = a
          /\ \A i \in DOMAIN dels' : i \in 1 .. Len(dels) \/ i = Len(dels) + 1
      BY <1>1, <2>1, AppendFacts
    <3>2. PICK n \in Nat : n = Len(dels) /\ n < RingCap
      BY <1>1, <1>2
    <3>3. n \in 0..63
      BY <3>2, Small
    <3>4. QED BY <3>1, <3>2, <3>3
  <2>3. Len(dels') <= RingCap
    BY <1>1, <1>2, <2>2, Limits
  <2>4. removed' \in [Addrs -> Removed]
    BY <1>1, <2>1, <2>2 DEF Removed
  <2>5. \A i \in 1 .. Len(dels) : dels[i] # a
    <3>1. \A i \in 1 .. Len(dels) : removed[dels[i]].is
      BY <1>1
    <3>2. QED BY <1>1, <3>1
  <2>6. Ringed'
    <3>1. \A i \in 1 .. Len(dels) : removed'[dels'[i]] = [is |-> TRUE, position |-> i - 1]
      BY <1>1, <2>1, <2>2, <2>5, ZenonT(60)
    <3>2. removed'[a] = [is |-> TRUE, position |-> Len(dels)]
      BY <1>1, <2>1
    <3>3. ASSUME NEW i \in DOMAIN dels', i = Len(dels) + 1
          PROVE  removed'[dels'[i]] = [is |-> TRUE, position |-> i - 1]
      BY <1>1, <2>2, <3>2, <3>3
    <3>4. QED BY <2>2, <3>1, <3>3 DEF Ringed
  <2>7. ASSUME NEW b \in Addrs, removed'[b].is
        PROVE  b \in Range(dels') /\ (b = a \/ removed[b].is)
    <3>1. CASE b = a
      <4>1. Len(dels) + 1 \in DOMAIN dels'
        BY <1>1, <2>2, Places
      <4>2. QED BY <2>2, <3>1, <4>1 DEF Range
    <3>2. CASE b # a
      <4>1. removed[b].is
        BY <1>1, <2>1, <2>7, <3>2
      <4>2. PICK i \in 1 .. Len(dels) : dels[i] = b
        BY <1>1, <4>1
      <4>3. i \in DOMAIN dels' /\ dels'[i] = b
        BY <1>1, <2>2, <4>2, Places
      <4>4. QED BY <4>1, <4>3 DEF Range
    <3>3. QED BY <3>1, <3>2
  <2>8. QED BY <1>1, <2>1, <2>2, <2>4, <2>6, <2>7, <2>3
<1>3. CASE ~(Len(dels) < RingCap)
  <2>1. PICK d : d = delId + 1
    OBVIOUS
  <2>2. d \in 1 .. Len(dels) /\ Len(dels) = RingCap /\ delId \in 0..63
    <3>1. /\ Len(dels) \in Nat /\ Len(dels) <= RingCap /\ delId \in 0..(RingCap - 1)
          /\ RingCap \in Nat /\ RingCap <= 64
      BY <1>1, Limits
    <3>2. QED BY <1>3, <2>1, <3>1
  <2>3. PICK b \in Addrs : b = dels[d]
    BY <1>1, <2>2
  <2>4. /\ dels' = [dels EXCEPT ![d] = a] /\ delId' = (delId + 1) % RingCap
        /\ removed' = [removed EXCEPT ![b] = NotRemoved, ![a] = [is |-> TRUE, position |-> delId]]
    BY <1>3, <2>1, <2>3 DEF Bury
  <2>5. /\ dels' \in Seq(Addrs) /\ Len(dels') = Len(dels)
        /\ \A i \in 1 .. Len(dels) : dels'[i] = IF i = d THEN a ELSE dels[i]
    BY <1>1, <2>2, <2>4
  <2>6. \A i : i \in DOMAIN dels' <=> i \in 1 .. Len(dels)
    BY <2>5, Places
  <2>7. removed[b].is /\ b # a /\ \A i \in 1 .. Len(dels) : (i # d => dels[i] # b) /\ dels[i] # a
    <3>1. removed[b] = [is |-> TRUE, position |-> d - 1]
      BY <1>1, <2>2, <2>3
    <3>2. \A i \in 1 .. Len(dels) : removed[dels[i]].is /\ removed[dels[i]].position = i - 1
      BY <1>1
    <3>3. removed[b].is /\ removed[b].position = d - 1 /\ ~removed[a].is
      BY <1>1, <3>1
    <3>4. ASSUME NEW i \in 1 .. Len(dels), i # d
          PROVE  dels[i] # b
      BY <2>2, <3>2, <3>3, <3>4
    <3>5. QED BY <3>2, <3>3, <3>4
  <2>8. /\ removed' \in [Addrs -> Removed]
        /\ removed'[a] = [is |-> TRUE, position |-> delId] /\ removed'[b] = NotRemoved
        /\ \A c \in Addrs : c # a /\ c # b => removed'[c] = removed[c]
    <3>1. NotRemoved \in Removed /\ [is |-> TRUE, position |-> delId] \in Removed
      BY <2>2 DEF Removed, NotRemoved
    <3>2. QED BY <1>1, <2>4, <2>7, <3>1
  <2>9. delId' \in 0..(RingCap - 1)
    <3>1. delId + 1 \in Nat /\ RingCap \in Nat /\ RingCap > 0
      BY <1>1, Limits
    <3>2. QED BY <2>4, <3>1
  <2>10. Ringed'
    <3>1. ASSUME NEW i \in 1 .. Len(dels), i # d
          PROVE  removed'[dels'[i]] = [is |-> TRUE, position |-> i - 1]
      BY <1>1, <2>5, <2>7, <2>8, <3>1
    <3>2. removed'[dels'[d]] = [is |-> TRUE, position |-> d - 1]
      BY <1>1, <2>1, <2>2, <2>5, <2>8
    <3>3. QED BY <2>6, <3>1, <3>2 DEF Ringed
  <2>11. ASSUME NEW c \in Addrs, removed'[c].is
         PROVE  c \in Range(dels') /\ (c = a \/ removed[c].is)
    <3>1. CASE c = a
      BY <2>2, <2>5, <2>6, <3>1 DEF Range
    <3>2. CASE c # a
      <4>1. c # b /\ removed[c].is
        BY <2>8, <2>11, <3>2 DEF NotRemoved
      <4>2. PICK i \in 1 .. Len(dels) : dels[i] = c
        BY <1>1, <4>1
      <4>3. i # d
        BY <2>3, <4>1, <4>2
      <4>4. QED BY <2>5, <2>6, <4>1, <4>2, <4>3 DEF Range
    <3>3. QED BY <3>1, <3>2
  <2>12. Len(dels') <= RingCap
    BY <1>1, <2>5
  <2>13. QED BY <2>5, <2>8, <2>9, <2>10, <2>11, <2>12
<1>4. QED BY <1>2, <1>3

\* The first anchor of the list makes room, and the last takes its place and
\* knows it (removeAnchors).
LEMMA RemoveAnchorStep ==
  ASSUME Registry, NEW a \in Addrs, RemoveAnchor(a)
  PROVE  Registry'
<1>1. /\ registered /\ list # <<>> /\ ~anchor[a].is /\ Bury(a)
      /\ UNCHANGED <<registered, need>>
      /\ list \in Seq(Addrs) /\ Len(list) <= MaxAnchors /\ anchor \in [Addrs -> Anchor]
  BY DEF RemoveAnchor, Registry, RegistryTypeOK
<1>2. Len(list) \in Nat /\ Len(list) >= 1
  BY <1>1
<1>3. PICK n \in Nat : n = Len(list) /\ n >= 1
  BY <1>2
<1>4. n <= MaxAnchors /\ n <= 64
  <2>1. n <= MaxAnchors
    BY <1>1, <1>3
  <2>2. QED BY <2>1, Limits
<1>5. PICK p \in 0..63 : p = anchor[a].position
  BY <1>1 DEF Anchor
<1>6. PICK last \in Addrs : last = list[n]
  <2>1. n \in DOMAIN list
    BY <1>1, <1>3, Places
  <2>2. QED BY <1>1, <2>1, Entry
<1>7. ASSUME NEW i \in 1 .. n
      PROVE  list[i] \in Addrs /\ anchor[list[i]].is /\ anchor[list[i]].position = i - 1
  <2>1. i \in DOMAIN list
    BY <1>1, <1>3, Places
  <2>2. QED BY <1>1, <2>1, Entry DEF Registry, Listed
<1>8. anchor[last].is /\ anchor[last].position = n - 1 /\ last # a
  <2>1. n \in 1 .. n
    BY <1>3
  <2>2. QED BY <1>1, <1>6, <1>7, <2>1
<1>9. IF p + 1 < n
      THEN /\ list' = Front([list EXCEPT ![p + 1] = last])
           /\ anchor' = [anchor EXCEPT ![last].position = p, ![a] = NoAnchor]
      ELSE list' = Front(list) /\ anchor' = [anchor EXCEPT ![a] = NoAnchor]
  <2>1. PICK at, moved : at = anchor[a].position + 1 /\ moved = list[Len(list)]
    OBVIOUS
  <2>2. IF at < Len(list)
        THEN /\ list' = Front([list EXCEPT ![at] = moved])
             /\ anchor' = [anchor EXCEPT ![moved].position = at - 1, ![a] = NoAnchor]
        ELSE list' = Front(list) /\ anchor' = [anchor EXCEPT ![a] = NoAnchor]
    BY <2>1 DEF RemoveAnchor
  <2>3. at = p + 1 /\ at - 1 = p
    BY <1>5, <2>1
  <2>4. moved = last /\ Len(list) = n
    BY <1>3, <1>6, <2>1
  <2>5. QED BY <2>2, <2>3, <2>4
<1>10. n >= 1
  BY <1>3
<1>11. PICK d \in 1 .. n : d = (IF p + 1 < n THEN p + 1 ELSE n)
  BY <1>10
<1>12. /\ list' \in Seq(Addrs) /\ Len(list') = n - 1
       /\ \A i \in 1 .. n - 1 : list'[i] = IF i = d THEN last ELSE list[i]
  <2>1. CASE p + 1 < n
    <3>1. PICK u : u = [list EXCEPT ![d] = last]
      OBVIOUS
    <3>2. u \in Seq(Addrs) /\ Len(u) = n /\ \A i \in 1 .. n : u[i] = IF i = d THEN last ELSE list[i]
      BY <1>1, <1>3, <3>1
    <3>3. PICK t : t = Front(u)
      OBVIOUS
    <3>4. t \in Seq(Addrs) /\ Len(t) = n - 1 /\ \A i \in 1 .. n - 1 : t[i] = u[i]
      BY <1>3, <3>2, <3>3, FrontFacts
    <3>5. \A i \in 1 .. n - 1 : i \in 1 .. n
      OBVIOUS
    <3>6. list' = t
      BY <1>9, <1>11, <2>1, <3>1, <3>3
    <3>7. QED BY <3>2, <3>4, <3>5, <3>6
  <2>2. CASE ~(p + 1 < n)
    <3>1. list' = Front(list) /\ \A i \in 1 .. n - 1 : i # d
      BY <1>9, <1>11, <2>2
    <3>2. Front(list) \in Seq(Addrs) /\ Len(Front(list)) = n - 1
          /\ \A i \in 1 .. n - 1 : Front(list)[i] = list[i]
      BY <1>1, <1>2, <1>3, FrontFacts
    <3>3. QED BY <3>1, <3>2
  <2>3. QED BY <2>1, <2>2
<1>13. /\ anchor' \in [Addrs -> Anchor] /\ anchor'[a] = NoAnchor
       /\ \A b \in Addrs : b # a /\ b # last => anchor'[b] = anchor[b]
       /\ \A b \in Addrs : b # a => anchor'[b].is = anchor[b].is
       /\ (d < n => anchor'[last].position = d - 1)
  <2>1. NoAnchor \in Anchor
    BY DEF NoAnchor, Anchor
  <2>2. CASE p + 1 < n
    <3>1. d = p + 1 /\ d - 1 = p
      BY <1>11, <2>2
    <3>2. anchor' = [anchor EXCEPT ![last].position = p, ![a] = NoAnchor]
      BY <1>9, <2>2
    <3>3. [anchor[last] EXCEPT !.position = p] \in Anchor
          /\ [anchor[last] EXCEPT !.position = p].position = p
          /\ [anchor[last] EXCEPT !.position = p].is = anchor[last].is
      BY <1>1 DEF Anchor
    <3>4. /\ anchor' \in [Addrs -> Anchor] /\ anchor'[a] = NoAnchor
          /\ anchor'[last] = [anchor[last] EXCEPT !.position = p]
          /\ \A b \in Addrs : b # a /\ b # last => anchor'[b] = anchor[b]
      BY <1>1, <1>8, <2>1, <3>2, <3>3
    <3>5. QED BY <3>1, <3>3, <3>4
  <2>3. CASE ~(p + 1 < n)
    <3>1. ~(d < n)
      BY <1>3, <1>11, <2>3
    <3>2. anchor' = [anchor EXCEPT ![a] = NoAnchor]
      BY <1>9, <2>3
    <3>3. QED BY <1>1, <2>1, <3>1, <3>2
  <2>4. QED BY <2>2, <2>3
<1>14. ASSUME NEW i \in 1 .. n - 1
       PROVE  anchor'[list'[i]].is /\ anchor'[list'[i]].position = i - 1
  <2>1. i \in 1 .. n
    BY <1>3
  <2>2. CASE i = d
    <3>1. d < n
      BY <1>3, <2>2
    <3>2. list'[i] = last
      BY <1>12, <2>2
    <3>3. QED BY <1>8, <1>13, <2>2, <3>1, <3>2
  <2>3. CASE i # d
    <3>1. list'[i] = list[i]
      BY <1>12, <2>3
    <3>2. list[i] # a /\ list[i] # last
      <4>1. anchor[list[i]].is /\ anchor[list[i]].position = i - 1
        BY <1>7, <2>1
      <4>2. i - 1 # n - 1
        BY <1>3
      <4>3. QED BY <1>1, <1>8, <4>1, <4>2
    <3>3. anchor'[list[i]] = anchor[list[i]]
      BY <1>7, <1>13, <2>1, <3>2
    <3>4. QED BY <1>7, <2>1, <3>1, <3>3
  <2>4. QED BY <2>2, <2>3
<1>15. Listed'
  <2>1. n - 1 \in Nat
    BY <1>3
  <2>2. \A i : i \in DOMAIN list' => i \in 1 .. n - 1
    BY <1>12, Places
  <2>3. QED BY <1>14, <2>2 DEF Listed
<1>16. /\ dels' \in Seq(Addrs) /\ Len(dels') <= RingCap /\ removed' \in [Addrs -> Removed]
       /\ delId' \in 0..(RingCap - 1) /\ Ringed'
       /\ \A b \in Addrs : removed'[b].is => b \in Range(dels') /\ (b = a \/ removed[b].is)
  BY <1>1, BuryStep
<1>17. Len(list') <= MaxAnchors
  <2>1. PICK m \in Nat : m = n - 1
    BY <1>3
  <2>2. m <= MaxAnchors
    BY <1>4, <2>1, Limits
  <2>3. QED BY <1>12, <2>1, <2>2
<1>18. RegistryTypeOK'
  <2>1. registered' \in BOOLEAN /\ need' \in 0..255
    BY <1>1 DEF Registry, RegistryTypeOK
  <2>2. QED BY <1>12, <1>13, <1>16, <1>17, <2>1 DEF RegistryTypeOK
<1>19. Buried'
  <2>1. ASSUME NEW b \in Addrs, removed'[b].is
        PROVE  b \in Range(dels') /\ ~anchor'[b].is
    <3>1. CASE b = a
      BY <1>13, <1>16, <2>1, <3>1 DEF NoAnchor
    <3>2. CASE b # a
      BY <1>13, <1>16, <2>1, <3>2 DEF Registry, Buried
    <3>3. QED BY <3>1, <3>2
  <2>2. QED BY <2>1 DEF Buried
<1>20. Fresh'
  BY <1>1 DEF Fresh
<1>21. QED BY <1>15, <1>16, <1>18, <1>19, <1>20 DEF Registry

\* Suspending or reinstating an anchor moves nobody (setAnchorStatus).
LEMMA StatusStep ==
  ASSUME Registry, NEW a \in Addrs, NEW status \in BOOLEAN, SetAnchorStatus(a, status)
  PROVE  Registry'
<1>1. /\ anchor \in [Addrs -> Anchor] /\ anchor' = [anchor EXCEPT ![a].status = status]
      /\ UNCHANGED <<registered, need, list, dels, removed, delId>>
  BY DEF SetAnchorStatus, ring, Registry, RegistryTypeOK
<1>2. [anchor[a] EXCEPT !.status = status] \in Anchor
      /\ [anchor[a] EXCEPT !.status = status].is = anchor[a].is
      /\ [anchor[a] EXCEPT !.status = status].position = anchor[a].position
  BY <1>1 DEF Anchor
<1>3. /\ anchor' \in [Addrs -> Anchor]
      /\ \A b \in Addrs : anchor'[b].is = anchor[b].is /\ anchor'[b].position = anchor[b].position
  BY <1>1, <1>2
<1>4. RegistryTypeOK'
  BY <1>1, <1>3 DEF Registry, RegistryTypeOK
<1>5. Listed'
  <2>1. list \in Seq(Addrs)
    BY DEF Registry, RegistryTypeOK
  <2>2. ASSUME NEW i \in DOMAIN list
        PROVE  anchor'[list[i]].is /\ anchor'[list[i]].position = i - 1
    <3>1. list[i] \in Addrs
      BY <2>1, Entry
    <3>2. anchor[list[i]].is /\ anchor[list[i]].position = i - 1
      BY DEF Registry, Listed
    <3>3. QED BY <1>3, <3>1, <3>2
  <2>3. QED BY <1>1, <2>2 DEF Listed
<1>6. Ringed' /\ Fresh'
  BY <1>1 DEF Registry, Ringed, Fresh
<1>7. Buried'
  BY <1>1, <1>3 DEF Registry, Buried
<1>8. QED BY <1>4, <1>5, <1>6, <1>7 DEF Registry

\* A registry nobody touches keeps its shape; so does one whose count changes
\* (setSignConfirmCount).
LEMMA RegistryKept ==
  ASSUME Registry, UNCHANGED <<registered, anchors, ring>>, need' \in 0..255
  PROVE  Registry'
<1>1. UNCHANGED <<registered, list, anchor, dels, removed, delId>>
  BY DEF anchors, ring
<1>2. RegistryTypeOK'
  BY <1>1 DEF Registry, RegistryTypeOK
<1>3. Listed' /\ Ringed' /\ Buried' /\ Fresh'
  BY <1>1 DEF Registry, Listed, Ringed, Buried, Fresh
<1>4. QED BY <1>2, <1>3 DEF Registry

\* Arguments of transactions are what the contract's types allow.
LEMMA Arguments ==
  /\ NoHash \notin Hashes /\ Anyone \notin Users /\ TakerOf \in [Hashes -> Users]
  /\ Counts \subseteq 0..255 /\ Batches \subseteq Seq(Addrs)
  /\ Values \subseteq Nat /\ Rewards \subseteq Nat /\ Attached \subseteq Nat /\ Signatures \subseteq Seq(Addrs)
  /\ \A c \in DOMAIN Foreign : Foreign[c].value \in Nat
BY CrossDemoAssumption DEF CrossDemoAssumption

\* Whatever the owner and the users do, the contract's lists and mappings of
\* anchors agree.
LEMMA RegistryStep ==
  ASSUME Registry, Next
  PROVE  Registry'
<1>1. need \in 0..255
  BY DEF Registry, RegistryTypeOK
<1>2. CASE UNCHANGED registry
  BY <1>1, <1>2, RegistryKept DEF registry
<1>3. ASSUME NEW batch \in Batches, NEW count \in Counts, NEW max \in Values, Register(batch, count, max)
      PROVE  Registry'
  BY <1>3, Arguments, RegisterStep DEF Register
<1>4. ASSUME NEW a \in Addrs, AddAnchors(a)
      PROVE  Registry'
  BY <1>4, AddAnchorStep DEF AddAnchors
<1>5. ASSUME NEW a \in Addrs, RemoveAnchors(a)
      PROVE  Registry'
  BY <1>5, RemoveAnchorStep DEF RemoveAnchors
<1>6. ASSUME NEW a \in Addrs, NEW s \in BOOLEAN, ChangeStatus(a, s)
      PROVE  Registry'
  BY <1>6, StatusStep DEF ChangeStatus
<1>7. ASSUME NEW count \in Counts, ChangeCount(count)
      PROVE  Registry'
  BY <1>7, Arguments, RegistryKept DEF ChangeCount, SetSignConfirmCount
<1>8. /\ \A r \in Rewards : SetReward(r) => UNCHANGED registry
      /\ \A max \in Values : SetMaxValue(max) => UNCHANGED registry
      /\ \A a \in Addrs, r \in Rewards : AccumulateRewards(a, r) => UNCHANGED registry
  BY DEF SetReward, SetMaxValue, AccumulateRewards
<1>9. \A o \in Orders, v \in Values, from \in Users, to \in Users \cup {Anyone} :
        MakerStart(o, v, from, to) => UNCHANGED registry
  BY DEF MakerStart
<1>10. \A a \in Addrs, o \in Orders, h \in Hashes, wei \in Attached : MakerFinish(a, o, h, wei) => UNCHANGED registry
  BY DEF MakerFinish
<1>11. \A sender \in Users, c \in DOMAIN Foreign, s \in Signatures :
         Taker(sender, c, s) => UNCHANGED registry
  BY DEF Taker
<1>12. QED
  BY <1>2, <1>3, <1>4, <1>5, <1>6, <1>7, <1>8, <1>9, <1>10, <1>11 DEF Next

-----------------------------------------------------------------------------
(* The orders. *)

\* A new order has no signatures and the value sent less the reward
\* (makerStart).
LEMMA StartFacts ==
  ASSUME Typed, NEW o \in Orders, NEW value \in Values, NEW from \in Users, NEW to \in Users \cup {Anyone},
         MakerStart(o, value, from, to)
  PROVE  /\ asked[o] = NotAsked /\ asked'[o] # NotAsked /\ asked' \in [Orders -> Asked]
         /\ maker' \in [Orders -> Maker] /\ maker'[o].hash = NoHash /\ maker'[o].count = 0
         /\ \A p \in Orders : p # o => maker'[p] = maker[p] /\ asked'[p] = asked[p]
         /\ signed' = signed /\ reports' = reports /\ paid' = paid
         /\ UNCHANGED <<takerTx, takes, stray, ownerOps, maxValue, reward>>
         /\ totalReward' \in Nat /\ balance' \in Int
<1>1. /\ asked[o] = NotAsked /\ asked' = [asked EXCEPT ![o] = [from |-> from, to |-> to]]
      /\ UNCHANGED <<registry, signed, takerTx, reports, paid, takes, stray, ownerOps, maxValue, reward>>
      /\ maker' = [maker EXCEPT ![o] = [NoMaker EXCEPT !.value = value - reward, !.to = to]]
      /\ value >= reward /\ totalReward' = totalReward + reward /\ balance' = balance + value
  BY DEF MakerStart
<1>2. value \in Nat /\ reward \in Nat /\ totalReward \in Nat /\ balance \in Int /\ Anyone \notin Users
  BY Arguments DEF Typed
<1>3. value - reward \in Nat /\ totalReward' \in Nat /\ balance' \in Int
  BY <1>1, <1>2
<1>4. PICK m : m = [NoMaker EXCEPT !.value = value - reward, !.to = to]
  OBVIOUS
<1>5. m \in Maker /\ m.hash = NoHash /\ m.count = 0
  <2>1. NoMaker \in Maker /\ NoMaker.hash = NoHash /\ NoMaker.count = 0
    BY DEF Maker, NoMaker
  <2>2. QED BY <1>3, <1>4, <2>1, ZenonT(60) DEF Maker
<1>6. [from |-> from, to |-> to] \in Asked /\ [from |-> from, to |-> to] # NotAsked
  BY <1>2 DEF Asked, NotAsked
<1>7. maker \in [Orders -> Maker] /\ asked \in [Orders -> Asked]
  BY DEF Typed
<1>8. /\ asked' \in [Orders -> Asked] /\ asked'[o] # NotAsked
      /\ maker' \in [Orders -> Maker] /\ maker'[o] = m
      /\ \A p \in Orders : p # o => maker'[p] = maker[p] /\ asked'[p] = asked[p]
  BY <1>1, <1>4, <1>5, <1>6, <1>7
<1>9. QED BY <1>1, <1>3, <1>5, <1>8

\* What a signature of an open order does: one anchor more, until they are as
\* many as are asked for and the order is paid and deleted.
Finished(a, o, h, wei) ==
  /\ maker[o].value > 0 /\ a \notin signed[o] /\ maker[o].hash \in {NoHash, h}
  /\ signed' \in [Orders -> SUBSET Addrs] /\ maker' \in [Orders -> Maker]
  /\ signed'[o] = signed[o] \cup {a}
  /\ \A p \in Orders : p # o => maker'[p] = maker[p] /\ signed'[p] = signed[p]
  /\ reports' = reports \cup {<<a, o, h>>} /\ asked' = asked
  /\ UNCHANGED <<funds, takerTx, takes, ownerOps>>
  /\ need \in 0..255 /\ balance' \in Int /\ wei \in Nat /\ stray' = stray + wei
  /\ \E count \in 1..255 :
       /\ count = maker[o].count + 1
       /\ \/ /\ count >= need /\ maker'[o].value = 0 /\ balance' = balance + wei - maker[o].value
             /\ paid' = Append(paid, [id |-> o, hash |-> h, need |-> need])
          \/ /\ count <= 254 /\ paid' = paid /\ balance' = balance + wei
             /\ maker'[o].value = maker[o].value /\ maker'[o].count = count /\ maker'[o].hash = h

\* At 255 signatures any order is paid, so the 8-bit count never wraps
\* (makerFinish).
LEMMA FinishFacts ==
  ASSUME Registry, Typed, Room, NEW a \in Addrs, NEW o \in Orders, NEW h \in Hashes, NEW wei \in Attached,
         MakerFinish(a, o, h, wei)
  PROVE  Finished(a, o, h, wei)
<1>1. /\ maker[o].value > 0 /\ a \notin signed[o] /\ maker[o].hash \in {NoHash, h}
      /\ signed' = [signed EXCEPT ![o] = signed[o] \cup {a}]
      /\ reports' = reports \cup {<<a, o, h>>}
      /\ wei \in Nat /\ stray' = stray + wei
      /\ UNCHANGED <<registry, funds, takerTx, asked, takes, ownerOps>>
  BY Arguments DEF MakerFinish, SignedOnce, HashFits, Typed
<1>2. PICK c : c = (maker[o].count + 1) % 256
  OBVIOUS
<1>3. /\ maker \in [Orders -> Maker] /\ maker[o] \in Maker /\ balance \in Int /\ need \in 0..255
      /\ TakerOf[h] \in Users
  BY Arguments DEF Typed, Registry, RegistryTypeOK
<1>4. maker[o].count \in 0..254 /\ maker[o].value \in Nat
  <2>1. maker[o].count \in 0..255 /\ maker[o].count <= 254
    BY <1>1, <1>3 DEF Maker, Room
  <2>2. QED BY <1>3, <2>1 DEF Maker
<1>5. c \in 1..255 /\ c = maker[o].count + 1
  BY <1>2, <1>4
<1>6. \/ /\ c >= need /\ Pay(o, h, c, wei)
         /\ paid' = Append(paid, [id |-> o, hash |-> h, need |-> need])
      \/ /\ c < need
         /\ maker' = [maker EXCEPT ![o].count = c, ![o].hash = h, ![o].to = TakerOf[h]]
         /\ balance' = balance + wei /\ UNCHANGED paid
  BY <1>2 DEF MakerFinish
<1>7. /\ signed' \in [Orders -> SUBSET Addrs] /\ signed'[o] = signed[o] \cup {a}
       /\ \A p \in Orders : p # o => signed'[p] = signed[p]
  BY <1>1 DEF Typed
<1>8. CASE /\ c >= need /\ Pay(o, h, c, wei)
           /\ paid' = Append(paid, [id |-> o, hash |-> h, need |-> need])
  <2>1. /\ maker' = [maker EXCEPT ![o] = NoMaker]
        /\ balance' \in Int /\ balance' = balance + wei - maker[o].value
    BY <1>1, <1>3, <1>4, <1>8 DEF Pay
  <2>2. NoMaker \in Maker /\ NoMaker.value = 0
    BY DEF NoMaker, Maker
  <2>3. /\ maker' \in [Orders -> Maker] /\ maker'[o].value = 0
        /\ \A p \in Orders : p # o => maker'[p] = maker[p]
    BY <1>3, <2>1, <2>2
  <2>4. QED BY <1>1, <1>3, <1>5, <1>8, <1>7, <2>1, <2>3 DEF Finished
<1>9. CASE /\ c < need
           /\ maker' = [maker EXCEPT ![o].count = c, ![o].hash = h, ![o].to = TakerOf[h]]
           /\ balance' = balance + wei /\ UNCHANGED paid
  <2>1. c <= 254 /\ c \in 0..255
    BY <1>3, <1>5, <1>9
  <2>2. PICK m : m = [maker[o] EXCEPT !.count = c, !.hash = h, !.to = TakerOf[h]]
    OBVIOUS
  <2>3. m \in Maker /\ m.value = maker[o].value /\ m.count = c /\ m.hash = h
    BY <1>3, <1>4, <2>1, <2>2 DEF Maker
  <2>4. maker' = [maker EXCEPT ![o] = m]
    <3>1. maker' = [maker EXCEPT ![o] = [maker[o] EXCEPT !.count = c, !.hash = h, !.to = TakerOf[h]]]
      BY <1>3, <1>9
    <3>2. QED BY <2>2, <3>1
  <2>5. /\ maker' \in [Orders -> Maker] /\ maker'[o] = m
        /\ \A p \in Orders : p # o => maker'[p] = maker[p]
    BY <1>3, <2>3, <2>4
  <2>6. balance' \in Int /\ balance' = balance + wei /\ paid' = paid
    BY <1>1, <1>3, <1>9
  <2>7. QED BY <1>1, <1>3, <1>5, <1>7, <2>1, <2>3, <2>5, <2>6 DEF Finished
<1>10. QED BY <1>6, <1>8, <1>9

\* Transactions that touch no order.
OrdersQuiet == UNCHANGED <<order, history>>

\* What a transaction is: one of the owner, a start, a finish or a take.
LEMMA Transactions ==
  ASSUME Next
  PROVE  \/ OrdersQuiet /\ UNCHANGED takerTx
         \/ \E o \in Orders, v \in Values, from \in Users, to \in Users \cup {Anyone} :
              MakerStart(o, v, from, to)
         \/ \E a \in Addrs, o \in Orders, h \in Hashes, wei \in Attached : MakerFinish(a, o, h, wei)
         \/ \E sender \in Users, c \in DOMAIN Foreign, s \in Signatures : Taker(sender, c, s)
BY DEF Next, OrdersQuiet, Register, AddAnchors, RemoveAnchors, ChangeStatus, ChangeCount, SetReward,
       SetMaxValue, AccumulateRewards

\* The contract's storage keeps its types.
LEMMA TypedStep ==
  ASSUME Registry, Typed, Room, Next
  PROVE  Typed'
<1>1. /\ maxValue \in Nat /\ reward \in Nat /\ totalReward \in Nat /\ balance \in Int /\ ownerOps \in Nat
      /\ maker \in [Orders -> Maker] /\ signed \in [Orders -> SUBSET Addrs]
      /\ asked \in [Orders -> Asked] /\ paid \in Seq(Payment)
      /\ reports \subseteq Addrs \X Orders \X Hashes
  BY DEF Typed
<1>2. CASE OrdersQuiet /\ UNCHANGED takerTx /\ maxValue' \in Nat /\ reward' \in Nat /\ totalReward' \in Nat
           /\ balance' \in Int /\ ownerOps' \in Nat
  BY <1>2 DEF Typed, OrdersQuiet, order, history
<1>3. ASSUME NEW batch \in Batches, NEW count \in Counts, NEW max \in Values, Register(batch, count, max)
      PROVE  Typed'
  BY <1>1, <1>2, <1>3, Arguments DEF Register, OrdersQuiet
<1>4. ASSUME NEW a \in Addrs, AddAnchors(a) \/ RemoveAnchors(a) \/ \E s \in BOOLEAN : ChangeStatus(a, s)
      PROVE  Typed'
  BY <1>1, <1>2, <1>4 DEF AddAnchors, RemoveAnchors, ChangeStatus, Owner, OrdersQuiet, funds
<1>5. ASSUME NEW count \in Counts, ChangeCount(count)
      PROVE  Typed'
  BY <1>1, <1>2, <1>5 DEF ChangeCount, Owner, OrdersQuiet, funds
<1>6. ASSUME NEW r \in Rewards, SetReward(r)
      PROVE  Typed'
  BY <1>1, <1>2, <1>6, Arguments DEF SetReward, Owner, OrdersQuiet
<1>7. ASSUME NEW max \in Values, SetMaxValue(max)
      PROVE  Typed'
  BY <1>1, <1>2, <1>7, Arguments DEF SetMaxValue, Owner, OrdersQuiet
<1>8. ASSUME NEW a \in Addrs, NEW r \in Rewards, AccumulateRewards(a, r)
      PROVE  Typed'
  <2>1. r \in Nat
    BY Arguments
  <2>2. totalReward' \in Nat /\ balance' \in Int
    BY <1>1, <1>8, <2>1 DEF AccumulateRewards
  <2>3. UNCHANGED <<maxValue, reward, order, takerTx, history>> /\ ownerOps' = ownerOps + 1
    BY <1>8 DEF AccumulateRewards, Owner
  <2>4. OrdersQuiet /\ UNCHANGED takerTx /\ maxValue' \in Nat /\ reward' \in Nat /\ ownerOps' \in Nat
    BY <1>1, <2>3 DEF OrdersQuiet
  <2>5. QED BY <1>2, <2>2, <2>4
<1>9. ASSUME NEW o \in Orders, NEW v \in Values, NEW from \in Users, NEW to \in Users \cup {Anyone},
             MakerStart(o, v, from, to)
      PROVE  Typed'
  BY <1>9, StartFacts DEF Typed
<1>10. ASSUME NEW a \in Addrs, NEW o \in Orders, NEW h \in Hashes, NEW wei \in Attached,
         MakerFinish(a, o, h, wei)
      PROVE  Typed'
  <2>1. /\ signed' \in [Orders -> SUBSET Addrs] /\ maker' \in [Orders -> Maker]
        /\ reports' = reports \cup {<<a, o, h>>} /\ asked' = asked
        /\ UNCHANGED <<funds, takerTx, takes, ownerOps>>
        /\ need \in 0..255 /\ balance' \in Int /\ wei \in Nat /\ stray' = stray + wei
        /\ paid' = paid \/ paid' = Append(paid, [id |-> o, hash |-> h, need |-> need])
    <3>1. Finished(a, o, h, wei)
      BY <1>10, FinishFacts
    <3>2. QED BY <3>1 DEF Finished
  <2>2. PICK payment : payment = [id |-> o, hash |-> h, need |-> need]
    OBVIOUS
  <2>3. paid' \in Seq(Payment)
    <3>1. payment \in Payment
      BY <2>1, <2>2 DEF Payment
    <3>2. paid' = paid \/ paid' = Append(paid, payment)
      BY <2>1, <2>2
    <3>3. QED BY <1>1, <3>1, <3>2
  <2>4. reports' \subseteq Addrs \X Orders \X Hashes
    BY <1>1, <2>1
  <2>5. stray' \in Nat
    BY <2>1 DEF Typed
  <2>6. QED BY <2>1, <2>3, <2>4, <2>5 DEF Typed, funds
<1>11. ASSUME NEW sender \in Users, NEW c \in DOMAIN Foreign, NEW s \in Signatures, Taker(sender, c, s)
       PROVE  Typed'
  <2>1. PICK by : /\ takes' = [takes EXCEPT ![c] = [need |-> need, by |-> by]]
                  /\ by = Accepted(sender = Foreign[c].from, s)
    BY <1>11 DEF Taker
  <2>2. by \in SUBSET Addrs
    BY <2>1, Arguments DEF Accepted, Range
  <2>3. need \in 0..255
    BY DEF Registry, RegistryTypeOK
  <2>4. [need |-> need, by |-> by] \in [need : 0..255, by : SUBSET Addrs]
    BY <2>2, <2>3
  <2>5. takes' \in [DOMAIN Foreign -> [need : 0..255, by : SUBSET Addrs]]
    BY <2>1, <2>4 DEF Typed
  <2>6. takerTx' \in [DOMAIN Foreign -> Nat]
    BY <1>11, Arguments DEF Taker, Typed
  <2>7. QED BY <1>11, <2>5, <2>6 DEF Taker, Typed, funds, order
<1>12. QED
  BY <1>3, <1>4, <1>5, <1>6, <1>7, <1>8, <1>9, <1>10, <1>11 DEF Next

\* A transaction that leaves the orders of this chain alone.
OrdersSame == UNCHANGED <<maker, signed, asked, reports, paid>>

\* Transactions on other things leave the orders as they are.
LEMMA OrdersKept ==
  ASSUME Orderly, OrdersSame
  PROVE  Orderly'
BY DEF Orderly, OrdersSame, Unmade, Room, Closed, SignaturesCounted, PaidByQuorum, PaidOnce

\* An order made is one that was neither signed nor paid before (makerStart).
LEMMA StartStep ==
  ASSUME Typed, Orderly, NEW o \in Orders, NEW v \in Values, NEW from \in Users, NEW to \in Users \cup {Anyone},
         MakerStart(o, v, from, to)
  PROVE  Orderly'
<1>1. /\ asked[o] = NotAsked /\ asked'[o] # NotAsked
      /\ maker'[o].hash = NoHash /\ maker'[o].count = 0
      /\ signed' = signed /\ reports' = reports /\ paid' = paid
  BY StartFacts
<1>2. \A p \in Orders : p # o => maker'[p] = maker[p] /\ asked'[p] = asked[p]
  BY StartFacts
<1>3. paid \in Seq(Payment)
  BY DEF Typed
<1>4. signed[o] = {}
  BY <1>1 DEF Orderly, Unmade
<1>5. Unmade'
  <2>1. ASSUME NEW p \in Orders
        PROVE  /\ asked'[p] = NotAsked => maker'[p].value = 0 /\ signed[p] = {}
               /\ maker'[p].value > 0 /\ maker'[p].hash = NoHash => signed[p] = {}
    BY <1>1, <1>2, <1>4 DEF Orderly, Unmade
  <2>2. QED BY <1>1, <2>1 DEF Unmade
<1>6. Room'
  BY <1>1, <1>2 DEF Orderly, Room
<1>7. ASSUME NEW i \in DOMAIN paid
      PROVE  paid[i].id \in Orders /\ paid[i].id # o /\ maker[paid[i].id].value = 0
             /\ asked[paid[i].id] # NotAsked
  <2>1. paid[i] \in Payment
    BY <1>3
  <2>2. QED BY <1>1, <2>1 DEF Orderly, Closed, Payment
<1>8. Closed'
  BY <1>1, <1>2, <1>7 DEF Closed
<1>9. SignaturesCounted'
  <2>1. Cardinality({}) = 0
    BY FS_EmptySet
  <2>2. ASSUME NEW p \in Orders, maker'[p].value > 0
        PROVE  /\ maker'[p].count = Cardinality(signed[p])
               /\ \A a \in signed[p] : <<a, p, maker'[p].hash>> \in reports
    BY <1>1, <1>2, <1>4, <2>1, <2>2 DEF Orderly, SignaturesCounted
  <2>3. QED BY <1>1, <2>2 DEF SignaturesCounted
<1>10. PaidByQuorum' /\ PaidOnce'
  BY <1>1 DEF Orderly, PaidByQuorum, PaidOnce
<1>11. QED BY <1>5, <1>6, <1>8, <1>9, <1>10 DEF Orderly

\* The anchors that reported a transaction of an order.
Reporters(o, h) == {a \in Addrs : <<a, o, h>> \in reports}

\* A finish adds a different anchor to those that reported the pinned
\* transaction; when it pays, they are as many as are asked for, and the order
\* is closed (makerFinish).
LEMMA FinishStep ==
  ASSUME Registry, Typed, Orderly, NEW a \in Addrs, NEW o \in Orders, NEW h \in Hashes, NEW wei \in Attached,
         MakerFinish(a, o, h, wei)
  PROVE  Orderly'
<1>1. Finished(a, o, h, wei)
  BY FinishFacts DEF Orderly
<1>2. /\ maker[o].value > 0 /\ a \notin signed[o] /\ maker[o].hash \in {NoHash, h}
      /\ reports' = reports \cup {<<a, o, h>>}
      /\ asked' = asked /\ need \in 0..255
  BY <1>1 DEF Finished
<1>3. PICK count \in 1..255 :
        /\ count = maker[o].count + 1
        /\ \/ /\ count >= need /\ maker'[o].value = 0
              /\ paid' = Append(paid, [id |-> o, hash |-> h, need |-> need])
           \/ /\ count <= 254 /\ paid' = paid
              /\ maker'[o].value = maker[o].value /\ maker'[o].count = count /\ maker'[o].hash = h
  BY <1>1 DEF Finished
<1>4. signed[o] \subseteq Addrs /\ paid \in Seq(Payment)
  BY DEF Typed
<1>5. /\ signed'[o] = signed[o] \cup {a}
       /\ \A p \in Orders : p # o => maker'[p] = maker[p] /\ signed'[p] = signed[p]
  BY <1>1 DEF Finished
<1>6. /\ signed'[o] = signed[o] \cup {a} /\ signed[o] \subseteq Addrs
      /\ \A p \in Orders : p # o => maker'[p] = maker[p] /\ signed'[p] = signed[p]
      /\ maker'[o].value > 0 => maker'[o].count = count /\ maker'[o].hash = h /\ count <= 254
  BY <1>3, <1>4, <1>5
<1>7. IsFiniteSet(signed[o]) /\ IsFiniteSet(signed[o] \cup {a})
      /\ Cardinality(signed[o] \cup {a}) = count
  <2>1. IsFiniteSet(signed[o])
    BY <1>6, Limits, FS_Subset
  <2>2. maker[o].count = Cardinality(signed[o])
    BY <1>2 DEF Orderly, SignaturesCounted
  <2>3. /\ IsFiniteSet(signed[o] \cup {a})
        /\ Cardinality(signed[o] \cup {a}) = Cardinality(signed[o]) + 1
    BY <1>2, <2>1, FS_AddElement
  <2>4. QED BY <1>3, <2>1, <2>2, <2>3
<1>8. \A b \in signed[o] \cup {a} : <<b, o, h>> \in reports'
  <2>1. \A b \in signed[o] : <<b, o, maker[o].hash>> \in reports /\ maker[o].hash = h
    BY <1>2 DEF Orderly, SignaturesCounted, Unmade
  <2>2. QED BY <1>2, <2>1
<1>9. asked[o] # NotAsked /\ h # NoHash
  BY <1>2, Arguments DEF Orderly, Unmade
<1>10. Unmade'
  <2>1. ASSUME NEW p \in Orders
        PROVE  /\ asked[p] = NotAsked => maker'[p].value = 0 /\ signed'[p] = {}
               /\ maker'[p].value > 0 /\ maker'[p].hash = NoHash => signed'[p] = {}
    BY <1>6, <1>9 DEF Orderly, Unmade
  <2>2. QED BY <1>2, <2>1 DEF Unmade
<1>11. Room'
  BY <1>6 DEF Orderly, Room
<1>12. SignaturesCounted'
  <2>1. ASSUME NEW p \in Orders, maker'[p].value > 0
        PROVE  /\ maker'[p].count = Cardinality(signed'[p])
               /\ \A b \in signed'[p] : <<b, p, maker'[p].hash>> \in reports'
    BY <1>2, <1>6, <1>7, <1>8, <2>1 DEF Orderly, SignaturesCounted
  <2>2. QED BY <2>1 DEF SignaturesCounted
<1>13. ASSUME NEW i \in DOMAIN paid
       PROVE  paid[i].id \in Orders /\ paid[i].id # o
  <2>1. paid[i] \in Payment
    BY <1>4
  <2>2. QED BY <1>2, <2>1 DEF Orderly, Closed, Payment
<1>14. ASSUME NEW p, NEW g, NEW n \in 0..255, Cardinality(Reporters(p, g)) >= n
       PROVE  Cardinality(Reporters(p, g)') >= n
  <2>1. Reporters(p, g) \subseteq Reporters(p, g)' /\ Reporters(p, g)' \subseteq Addrs
    BY <1>2 DEF Reporters
  <2>2. IsFiniteSet(Reporters(p, g)')
    BY <2>1, Limits, FS_Subset
  <2>3. /\ IsFiniteSet(Reporters(p, g))
        /\ Cardinality(Reporters(p, g)) <= Cardinality(Reporters(p, g)')
    BY <2>1, <2>2, FS_Subset
  <2>4. Cardinality(Reporters(p, g)) \in Nat /\ Cardinality(Reporters(p, g)') \in Nat
    BY <2>2, <2>3, FS_CardinalityType
  <2>5. QED BY <1>14, <2>3, <2>4
<1>15. CASE paid' = paid
  <2>1. Closed'
    BY <1>2, <1>6, <1>13, <1>15 DEF Orderly, Closed
  <2>2. PaidByQuorum'
    <3>1. ASSUME NEW i \in DOMAIN paid
          PROVE  Cardinality({b \in Addrs : <<b, paid[i].id, paid[i].hash>> \in reports'}) >= paid[i].need
      <4>1. PICK p, g, n : p = paid[i].id /\ g = paid[i].hash /\ n = paid[i].need
        OBVIOUS
      <4>2. n \in 0..255 /\ Cardinality(Reporters(p, g)) >= n
        <5>1. paid[i] \in Payment
          BY <1>4
        <5>2. n \in 0..255
          BY <4>1, <5>1 DEF Payment
        <5>3. QED BY <4>1, <5>2 DEF Orderly, PaidByQuorum, Reporters
      <4>3. Cardinality(Reporters(p, g)') >= n
        BY <1>14, <4>2
      <4>4. QED BY <4>1, <4>3 DEF Reporters
    <3>2. QED BY <1>15, <3>1 DEF PaidByQuorum
  <2>3. PaidOnce'
    BY <1>15 DEF Orderly, PaidOnce
  <2>4. QED BY <1>10, <1>11, <1>12, <2>1, <2>2, <2>3 DEF Orderly
<1>16. CASE /\ count >= need /\ maker'[o].value = 0
            /\ paid' = Append(paid, [id |-> o, hash |-> h, need |-> need])
  <2>1. PICK l \in Nat : l = Len(paid)
    BY <1>4
  <2>2. /\ \A i \in DOMAIN paid' : i \in DOMAIN paid \/ i = l + 1
        /\ \A i \in DOMAIN paid : paid'[i] = paid[i] /\ paid[i] \in Payment
        /\ paid'[l + 1] = [id |-> o, hash |-> h, need |-> need]
    BY <1>4, <1>16, <2>1
  <2>3. Closed'
    <3>1. ASSUME NEW i \in DOMAIN paid
          PROVE  maker'[paid'[i].id].value = 0 /\ asked'[paid'[i].id] # NotAsked
      BY <1>2, <1>6, <1>13, <2>2 DEF Orderly, Closed
    <3>2. maker'[o].value = 0 /\ asked'[o] # NotAsked
      BY <1>2, <1>9, <1>16
    <3>3. QED BY <2>2, <3>1, <3>2 DEF Closed
  <2>4. PaidByQuorum'
    <3>1. ASSUME NEW i \in DOMAIN paid
          PROVE  Cardinality({b \in Addrs : <<b, paid'[i].id, paid'[i].hash>> \in reports'}) >= paid'[i].need
      <4>1. PICK p, g, n : p = paid[i].id /\ g = paid[i].hash /\ n = paid[i].need
        OBVIOUS
      <4>2. n \in 0..255 /\ Cardinality(Reporters(p, g)) >= n
        BY <2>2, <4>1 DEF Orderly, PaidByQuorum, Reporters, Payment
      <4>3. Cardinality(Reporters(p, g)') >= n
        BY <1>14, <4>2
      <4>4. QED BY <2>2, <4>1, <4>3 DEF Reporters
    <3>2. Cardinality({b \in Addrs : <<b, o, h>> \in reports'}) >= need
      <4>1. PICK R : R = {b \in Addrs : <<b, o, h>> \in reports'}
        OBVIOUS
      <4>2. signed[o] \cup {a} \subseteq R /\ R \subseteq Addrs
        BY <1>6, <1>8, <4>1
      <4>3. IsFiniteSet(R)
        BY <4>2, Limits, FS_Subset
      <4>4. count <= Cardinality(R) /\ Cardinality(R) \in Nat
        BY <1>7, <4>2, <4>3, FS_Subset, FS_CardinalityType
      <4>5. PICK c \in Nat : c = Cardinality(R)
        BY <4>4
      <4>6. PICK n \in 0..255 : n = need
        BY <1>2
      <4>7. count >= n
        BY <1>16, <4>6
      <4>8. c >= n
        <5>1. count <= c
          BY <4>4, <4>5
        <5>2. QED BY <4>7, <5>1
      <4>9. Cardinality(R) >= need
        BY <4>5, <4>6, <4>8
      <4>10. QED BY <4>1, <4>9, Zenon
    <3>3. ASSUME NEW i, i = l + 1
          PROVE  Cardinality({b \in Addrs : <<b, paid'[i].id, paid'[i].hash>> \in reports'}) >= paid'[i].need
      <4>1. paid'[i].id = o /\ paid'[i].hash = h /\ paid'[i].need = need
        BY <2>2, <3>3
      <4>2. QED BY <3>2, <4>1
    <3>4. ASSUME NEW i \in DOMAIN paid'
          PROVE  Cardinality({b \in Addrs : <<b, paid'[i].id, paid'[i].hash>> \in reports'}) >= paid'[i].need
      BY <2>2, <3>1, <3>3, Zenon
    <3>5. QED BY <3>4 DEF PaidByQuorum
  <2>5. PaidOnce'
    <3>1. ASSUME NEW i \in DOMAIN paid', NEW j \in DOMAIN paid', paid'[i].id = paid'[j].id
          PROVE  i = j
      <4>1. CASE i \in DOMAIN paid /\ j \in DOMAIN paid
        BY <2>2, <3>1, <4>1 DEF Orderly, PaidOnce
      <4>2. CASE i \in DOMAIN paid /\ j = l + 1
        BY <1>13, <2>2, <3>1, <4>2
      <4>3. CASE j \in DOMAIN paid /\ i = l + 1
        BY <1>13, <2>2, <3>1, <4>3
      <4>4. QED BY <2>2, <3>1, <4>1, <4>2, <4>3
    <3>2. QED BY <3>1 DEF PaidOnce
  <2>6. QED BY <1>10, <1>11, <1>12, <2>3, <2>4, <2>5 DEF Orderly
<1>17. QED BY <1>3, <1>15, <1>16

-----------------------------------------------------------------------------
(* Orders of the foreign chain. *)

\* Counting bits counts no more than there are elements: several anchors may
\* share a bit, and the count is taken modulo 63 (bitCount).
LEMMA BitsBounded ==
  ASSUME NEW S, IsFiniteSet(S), NEW P, NEW f \in Surjection(S, P)
  PROVE  /\ BitCount(P) \in Nat
         /\ BitCount(P) <= Cardinality(S)
<1>1. IsFiniteSet(P) /\ Cardinality(P) <= Cardinality(S)
  BY FS_Surjection
<1>2. Cardinality(P) \in Nat /\ Cardinality(S) \in Nat
  BY <1>1, FS_CardinalityType
<1>3. PICK n \in Nat : n = Cardinality(P)
  BY <1>2
<1>4. n % 63 \in Nat /\ n % 63 <= n
  OBVIOUS
<1>5. BitCount(P) = n % 63
  BY <1>3 DEF BitCount
<1>6. QED BY <1>1, <1>2, <1>3, <1>4, <1>5

\* What verifySignAndCount and verifyOwnerSignAndCount return is at most the
\* number of different anchors they accept: an anchor and a removed anchor are
\* never the same address, so the sum of the two counts takes none twice.
LEMMA CountsAccepted ==
  ASSUME Registry, NEW s \in Signatures
  PROVE  /\ SignCount(s) <= Cardinality(Accepted(FALSE, s))
         /\ OwnerSignCount(s) <= Cardinality(Accepted(TRUE, s))
         /\ SignCount(s) \in Nat /\ OwnerSignCount(s) \in Nat
         /\ Accepted(FALSE, s) \subseteq Addrs /\ Accepted(TRUE, s) \subseteq Addrs
<1>1. Range(s) \subseteq Addrs
  BY Arguments DEF Range
<1>2. PICK A : A = {b \in Range(s) : Active(b)}
  OBVIOUS
<1>3. PICK K : K = {b \in Range(s) : anchor[b].is}
  OBVIOUS
<1>4. PICK D : D = {b \in Range(s) : removed[b].is}
  OBVIOUS
<1>5. IsFiniteSet(A) /\ IsFiniteSet(K) /\ IsFiniteSet(D) /\ A \subseteq Addrs /\ K \subseteq Addrs /\ D \subseteq Addrs
  <2>1. A \subseteq Addrs /\ K \subseteq Addrs /\ D \subseteq Addrs
    BY <1>1, <1>2, <1>3, <1>4
  <2>2. QED BY <2>1, Limits, FS_Subset
<1>6. PICK PA : PA = {anchor[a].position : a \in A}
  OBVIOUS
<1>7. PICK PK : PK = {anchor[a].position : a \in K}
  OBVIOUS
<1>8. PICK PD : PD = {removed[a].position : a \in D}
  OBVIOUS
<1>9. BitCount(PA) \in Nat /\ BitCount(PA) <= Cardinality(A)
  <2>1. [a \in A |-> anchor[a].position] \in Surjection(A, PA)
    BY <1>6 DEF Surjection
  <2>2. QED BY <1>5, <2>1, BitsBounded
<1>10. BitCount(PK) \in Nat /\ BitCount(PK) <= Cardinality(K)
  <2>1. [a \in K |-> anchor[a].position] \in Surjection(K, PK)
    BY <1>7 DEF Surjection
  <2>2. QED BY <1>5, <2>1, BitsBounded
<1>11. BitCount(PD) \in Nat /\ BitCount(PD) <= Cardinality(D)
  <2>1. [a \in D |-> removed[a].position] \in Surjection(D, PD)
    BY <1>8 DEF Surjection
  <2>2. QED BY <1>5, <2>1, BitsBounded
<1>12. K \cap D = {}
  BY <1>3, <1>4, <1>5 DEF Registry, Buried
<1>13. IsFiniteSet(K \cup D) /\ Cardinality(K \cup D) = Cardinality(K) + Cardinality(D)
  <2>1. /\ IsFiniteSet(K \cup D)
        /\ Cardinality(K \cup D) = Cardinality(K) + Cardinality(D) - Cardinality(K \cap D)
    BY <1>5, FS_Union
  <2>2. Cardinality(K \cap D) = 0
    BY <1>12, FS_EmptySet
  <2>3. Cardinality(K) \in Nat /\ Cardinality(D) \in Nat
    BY <1>5, FS_CardinalityType
  <2>4. QED BY <2>1, <2>2, <2>3
<1>14. Accepted(FALSE, s) = A /\ Accepted(TRUE, s) = K \cup D
  BY <1>2, <1>3, <1>4 DEF Accepted
<1>15. SignCount(s) = BitCount(PA) /\ OwnerSignCount(s) = BitCount(PK) + BitCount(PD)
  BY <1>2, <1>3, <1>4, <1>6, <1>7, <1>8 DEF SignCount, OwnerSignCount
<1>16. Cardinality(K) \in Nat /\ Cardinality(D) \in Nat /\ Cardinality(A) \in Nat
  BY <1>5, FS_CardinalityType
<1>17. BitCount(PK) + BitCount(PD) \in Nat /\ BitCount(PK) + BitCount(PD) <= Cardinality(K \cup D)
  BY <1>10, <1>11, <1>13, <1>16
<1>18. QED BY <1>5, <1>9, <1>14, <1>15, <1>17

\* The number of addresses in an accepted list, and the number asked for.
LEMMA AcceptedNumber ==
  ASSUME Registry, NEW s \in Signatures, NEW own \in BOOLEAN
  PROVE  Cardinality(Accepted(own, s)) \in Nat /\ need \in 0..255
<1>1. need \in 0..255
  BY DEF Registry, RegistryTypeOK
<1>2. Accepted(own, s) \subseteq Addrs
  BY Arguments DEF Accepted, Range
<1>3. IsFiniteSet(Accepted(own, s))
  BY <1>2, Limits, FS_Subset
<1>4. QED BY <1>1, <1>3, FS_CardinalityType

\* An order is taken with as many different anchors as are asked for (taker).
LEMMA TakenStep ==
  ASSUME Registry, Typed, TakenByQuorum, Next
  PROVE  TakenByQuorum'
<1>1. ASSUME NEW sender \in Users, NEW c \in DOMAIN Foreign, NEW s \in Signatures, Taker(sender, c, s)
      PROVE  TakenByQuorum'
  <2>1. PICK by : /\ takes' = [takes EXCEPT ![c] = [need |-> need, by |-> by]]
                  /\ Cardinality(by) >= need
    <3>1. CASE sender = Foreign[c].from
      <4>1. /\ OwnerSignCount(s) >= need
            /\ takes' = [takes EXCEPT ![c] = [need |-> need, by |-> Accepted(TRUE, s)]]
        BY <1>1, <3>1 DEF Taker
      <4>2. PICK n \in Nat : n = Cardinality(Accepted(TRUE, s))
        BY AcceptedNumber
      <4>3. PICK k \in 0..255 : k = need
        BY AcceptedNumber
      <4>4. PICK m \in Nat : m = OwnerSignCount(s)
        BY CountsAccepted
      <4>5. m <= n
        BY <4>2, <4>4, CountsAccepted
      <4>6. m >= k
        BY <4>1, <4>3, <4>4
      <4>7. Cardinality(Accepted(TRUE, s)) >= need
        <5>1. n >= k
          BY <4>5, <4>6
        <5>2. QED BY <4>2, <4>3, <5>1
      <4>8. QED BY <4>1, <4>7
    <3>2. CASE sender # Foreign[c].from
      <4>1. /\ SignCount(s) >= need
            /\ takes' = [takes EXCEPT ![c] = [need |-> need, by |-> Accepted(FALSE, s)]]
        BY <1>1, <3>2 DEF Taker
      <4>2. PICK n \in Nat : n = Cardinality(Accepted(FALSE, s))
        BY AcceptedNumber
      <4>3. PICK k \in 0..255 : k = need
        BY AcceptedNumber
      <4>4. PICK m \in Nat : m = SignCount(s)
        BY CountsAccepted
      <4>5. m <= n
        BY <4>2, <4>4, CountsAccepted
      <4>6. m >= k
        BY <4>1, <4>3, <4>4
      <4>7. Cardinality(Accepted(FALSE, s)) >= need
        <5>1. n >= k
          BY <4>5, <4>6
        <5>2. QED BY <4>2, <4>3, <5>1
      <4>8. QED BY <4>1, <4>7
    <3>3. QED BY <3>1, <3>2
  <2>2. takes'[c].need = need /\ takes'[c].by = by /\ \A d \in DOMAIN Foreign : d # c => takes'[d] = takes[d]
    BY <2>1 DEF Typed
  <2>3. QED BY <2>1, <2>2 DEF TakenByQuorum
<1>2. CASE takes' = takes
  BY <1>2 DEF TakenByQuorum
<1>3. \/ takes' = takes
      \/ \E sender \in Users, c \in DOMAIN Foreign, s \in Signatures : Taker(sender, c, s)
  <2>1. OrdersQuiet => takes' = takes
    BY DEF OrdersQuiet, history
  <2>2. ASSUME NEW o \in Orders, NEW v \in Values, NEW from \in Users, NEW to \in Users \cup {Anyone},
               MakerStart(o, v, from, to)
        PROVE  takes' = takes
    BY <2>2 DEF MakerStart
  <2>3. ASSUME NEW a \in Addrs, NEW o \in Orders, NEW h \in Hashes, NEW wei \in Attached,
         MakerFinish(a, o, h, wei)
        PROVE  takes' = takes
    BY <2>3 DEF MakerFinish
  <2>4. QED BY <2>1, <2>2, <2>3, Transactions, Zenon
<1>4. QED BY <1>1, <1>2, <1>3

-----------------------------------------------------------------------------
(* Sums, and the induction they need. *)

\* Every nonempty set of numbers has a least one.
LEMMA NatMin ==
  ASSUME NEW T \in SUBSET Nat, T # {}
  PROVE  \E x \in T : \A y \in T : x <= y
<1>1. PICK R : R = OpToRel(<, Nat)
  OBVIOUS
<1>2. IsWellFoundedOn(R, Nat)
  BY <1>1, NatLessThanWellFounded
<1>3. PICK x \in T : \A y \in T : ~ (<<y, x>> \in R)
  BY <1>2, WFMin
<1>4. R = {ss \in Nat \X Nat : ss[1] < ss[2]}
  BY <1>1, Zenon DEF OpToRel
<1>5. ASSUME NEW y \in Nat, NEW z \in Nat, y < z
      PROVE  <<y, z>> \in R
  <2>1. PICK p : p = <<y, z>>
    OBVIOUS
  <2>2. p \in Nat \X Nat /\ p[1] = y /\ p[2] = z
    BY <2>1
  <2>3. p[1] < p[2]
    BY <2>2, <1>5
  <2>4. p \in {ss \in Nat \X Nat : ss[1] < ss[2]}
    BY <2>2, <2>3, Zenon
  <2>5. QED BY <2>1, <2>4, <1>4
<1>6. \A y \in T : y \in Nat /\ x \in Nat /\ ~ (y < x)
  BY <1>3, <1>5, Zenon
<1>7. QED BY <1>6

\* Induction over the numbers, for a set.
LEMMA Induction ==
  ASSUME NEW G \in SUBSET Nat, 0 \in G, \A n \in G : n + 1 \in G
  PROVE  \A n \in Nat : n \in G
<1>1. SUFFICES ASSUME Nat \ G # {} PROVE FALSE
  OBVIOUS
<1>2. PICK n \in Nat \ G : \A m \in Nat \ G : n <= m
  BY <1>1, NatMin
<1>3. n # 0 /\ n - 1 \in Nat
  BY <1>2
<1>4. PICK m \in Nat : m = n - 1
  BY <1>3
<1>5. m \in G
  BY <1>2, <1>4
<1>6. m + 1 \in G /\ m + 1 = n
  BY <1>4, <1>5, <1>2
<1>7. QED BY <1>6

\* The fold of MapThenSumSet: g adds up f over the subsets of S, taking out one
\* element at a time.
First(s) == CHOOSE x \in s : TRUE
Adds(g, f, S) ==
  \A s \in SUBSET S : g[s] = IF s = {} THEN 0 ELSE f[First(s)] + g[s \ {First(s)}]

LEMMA FirstOut ==
  ASSUME NEW S, IsFiniteSet(S), NEW s \in SUBSET S, s # {}
  PROVE  /\ First(s) \in s /\ First(s) \in S /\ s \ {First(s)} \in SUBSET S
         /\ Cardinality(s) \in Nat \ {0}
         /\ Cardinality(s \ {First(s)}) = Cardinality(s) - 1
<1>1. First(s) \in s
  BY DEF First
<1>2. IsFiniteSet(s)
  BY FS_Subset
<1>3. QED BY <1>1, <1>2, FS_RemoveElement, FS_CardinalityType, FS_EmptySet

\* Induction over the subsets of a finite set.
LEMMA SubsetInduction ==
  ASSUME NEW S, IsFiniteSet(S), NEW G \in SUBSET SUBSET S, {} \in G,
         \A s \in SUBSET S : s # {} /\ s \ {First(s)} \in G => s \in G
  PROVE  \A s \in SUBSET S : s \in G
<1> DEFINE Done == {n \in Nat : \A s \in SUBSET S : Cardinality(s) = n => s \in G}
<1>1. 0 \in Done
  <2>1. \A s \in SUBSET S : Cardinality(s) = 0 => s = {}
    <3>1. TAKE s \in SUBSET S
    <3>2. HAVE Cardinality(s) = 0
    <3>3. QED BY <3>2, FirstOut
  <2>2. QED BY <2>1
<1>2. ASSUME NEW n \in Done
      PROVE  n + 1 \in Done
  <2>1. n \in Nat /\ n + 1 \in Nat /\ n + 1 # 0
    OBVIOUS
  <2>2. ASSUME NEW s \in SUBSET S, Cardinality(s) = n + 1
        PROVE  s \in G
    <3>1. s # {}
      BY <2>1, <2>2, FS_EmptySet
    <3>2. PICK t : t = s \ {First(s)}
      OBVIOUS
    <3>3. t \in SUBSET S /\ Cardinality(t) = Cardinality(s) - 1
      BY <3>1, <3>2, FirstOut
    <3>4. Cardinality(t) = n
      BY <2>1, <2>2, <3>3
    <3>5. t \in G
      BY <3>3, <3>4, <1>2
    <3>6. QED BY <3>1, <3>2, <3>5
  <2>3. QED BY <2>1, <2>2
<1>3. \A n \in Nat : n \in Done
  <2>1. Done \in SUBSET Nat
    OBVIOUS
  <2>2. \A n \in Done : n + 1 \in Done
    BY <1>2
  <2> HIDE DEF Done
  <2>3. QED BY <1>1, <2>1, <2>2, Induction
<1>4. \A s \in SUBSET S : Cardinality(s) \in Nat
  <2>1. TAKE s \in SUBSET S
  <2>2. QED BY FS_Subset, FS_CardinalityType
<1>5. QED BY <1>3, <1>4

\* The sum of nothing, and of something.
LEMMA AddsParts ==
  ASSUME NEW S, NEW f, NEW g, Adds(g, f, S)
  PROVE  /\ g[{}] = 0
         /\ \A s \in SUBSET S : s # {} => g[s] = f[First(s)] + g[s \ {First(s)}]
<1>1. \A s \in SUBSET S : g[s] = IF s = {} THEN 0 ELSE f[First(s)] + g[s \ {First(s)}]
  BY DEF Adds
<1>2. {} \in SUBSET S
  OBVIOUS
<1>3. QED BY <1>1, <1>2, Zenon

\* The fold is defined.
LEMMA AddsExists ==
  ASSUME NEW S, IsFiniteSet(S), NEW f \in [S -> Int]
  PROVE  \E g \in [SUBSET S -> Int] : Adds(g, f, S)
<1> DEFINE Step(g, s) == IF s = {} THEN 0 ELSE f[First(s)] + g[s \ {First(s)}]
           Good(g, n) == \A s \in SUBSET S : Cardinality(s) <= n => g[s] = Step(g, s)
           Done == {n \in Nat : \E g \in [SUBSET S -> Int] : Good(g, n)}
<1>1. \A g \in [SUBSET S -> Int], s \in SUBSET S : Step(g, s) \in Int
  <2>1. TAKE g \in [SUBSET S -> Int], s \in SUBSET S
  <2>2. CASE s = {}
    BY <2>2
  <2>3. CASE s # {}
    <3>1. First(s) \in S /\ s \ {First(s)} \in SUBSET S
      BY <2>3, FirstOut
    <3>2. QED BY <3>1, <2>3
  <2>4. QED BY <2>2, <2>3
<1>2. 0 \in Done
  <2>1. PICK g : g = [s \in SUBSET S |-> 0]
    OBVIOUS
  <2>2. g \in [SUBSET S -> Int]
    BY <2>1
  <2>3. ASSUME NEW s \in SUBSET S, Cardinality(s) <= 0
        PROVE  g[s] = Step(g, s)
    <3>1. s # {} => Cardinality(s) \in Nat \ {0}
      BY FirstOut, Zenon
    <3>2. s = {}
      BY <2>3, <3>1
    <3>3. QED BY <3>2, <2>1
  <2>4. QED BY <2>2, <2>3
<1>3. ASSUME NEW n \in Done
      PROVE  n + 1 \in Done
  <2>1. n \in Nat
    OBVIOUS
  <2>2. PICK g \in [SUBSET S -> Int] : Good(g, n)
    OBVIOUS
  <2>3. PICK h : h = [s \in SUBSET S |-> Step(g, s)]
    OBVIOUS
  <2>4. h \in [SUBSET S -> Int]
    BY <1>1, <2>3
  <2>5. \A s \in SUBSET S : h[s] = Step(g, s)
    BY <2>3
  <2>6. ASSUME NEW s \in SUBSET S, Cardinality(s) <= n + 1
        PROVE  h[s] = Step(h, s)
    <3>1. CASE s = {}
      BY <3>1, <2>5
    <3>2. CASE s # {}
      <4>1. PICK t : t = s \ {First(s)}
        OBVIOUS
      <4>2. t \in SUBSET S /\ Cardinality(t) = Cardinality(s) - 1 /\ Cardinality(s) \in Nat
        BY <4>1, <3>2, FirstOut
      <4>3. Cardinality(t) <= n
        BY <2>1, <2>6, <4>2
      <4>4. h[t] = g[t]
        BY <4>2, <4>3, <2>2, <2>5
      <4>5. h[s] = f[First(s)] + g[t]
        BY <2>5, <3>2, <4>1, Zenon
      <4>6. h[s] = f[First(s)] + h[s \ {First(s)}]
        BY <4>1, <4>4, <4>5
      <4> HIDE DEF Good, Done
      <4>7. QED BY <3>2, <4>6
    <3>3. QED BY <3>1, <3>2
  <2>7. Good(h, n + 1)
    BY <2>6
  <2> HIDE DEF Good
  <2>8. \E k \in [SUBSET S -> Int] : Good(k, n + 1)
    BY <2>4, <2>7, Zenon
  <2>9. n + 1 \in Nat
    BY <2>1
  <2>10. QED BY <2>8, <2>9, Zenon
<1>4. \A n \in Nat : n \in Done
  <2>1. Done \in SUBSET Nat
    OBVIOUS
  <2>2. \A n \in Done : n + 1 \in Done
    BY <1>3
  <2> HIDE DEF Done
  <2>3. QED BY <1>2, <2>1, <2>2, Induction
<1>5. PICK n \in Nat : n = Cardinality(S)
  BY FS_CardinalityType
<1>6. \A s \in SUBSET S : Cardinality(s) <= n
  BY <1>5, FS_Subset
<1>7. PICK g \in [SUBSET S -> Int] : Good(g, n)
  BY <1>4
<1>8. Adds(g, f, S)
  BY <1>6, <1>7 DEF Adds
<1>9. QED BY <1>8

\* g adds up f, k adds up h, and they differ at one place only.
Differ(f, g, h, k, x, S) ==
  /\ IsFiniteSet(S) /\ x \in S
  /\ f \in [S -> Int] /\ g \in [SUBSET S -> Int] /\ Adds(g, f, S)
  /\ h \in [S -> Int] /\ k \in [SUBSET S -> Int] /\ Adds(k, h, S)
  /\ \A y \in S : y # x => h[y] = f[y]

\* When f changes at one place, its sum changes by as much.
LEMMA AddsChange ==
  ASSUME NEW f, NEW g, NEW h, NEW k, NEW x, NEW S, Differ(f, g, h, k, x, S)
  PROVE  k[S] = g[S] + (h[x] - f[x])
<1> USE DEF Differ
<1> DEFINE d == h[x] - f[x]
           Good == {s \in SUBSET S : k[s] = g[s] + (IF x \in s THEN d ELSE 0)}
<1>1. d \in Int
  OBVIOUS
<1>2. {} \in Good
  <2>1. g[{}] = 0 /\ k[{}] = 0
    BY AddsParts
  <2>2. QED BY <2>1
<1>3. ASSUME NEW s \in SUBSET S, s # {}, s \ {First(s)} \in Good
      PROVE  s \in Good
  <2>1. PICK y : y = First(s)
    OBVIOUS
  <2>2. PICK t : t = s \ {y}
    OBVIOUS
  <2>3. y \in S /\ y \in s /\ t \in SUBSET S
    BY <1>3, <2>1, <2>2, FirstOut
  <2>4. g[s] = f[y] + g[t] /\ k[s] = h[y] + k[t]
    BY <1>3, <2>1, <2>2 DEF Adds
  <2>5. k[t] = g[t] + (IF x \in t THEN d ELSE 0)
    BY <1>3, <2>1, <2>2
  <2>6. g[t] \in Int /\ k[t] \in Int /\ f[y] \in Int /\ h[y] \in Int
    BY <2>3
  <2>7. CASE y = x
    <3>1. x \notin t /\ x \in s
      BY <2>2, <2>3, <2>7
    <3>2. k[s] = g[s] + d
      BY <2>4, <2>5, <2>6, <2>7, <3>1
    <3>3. QED BY <3>1, <3>2
  <2>8. CASE y # x
    <3>1. h[y] = f[y] /\ (x \in t <=> x \in s)
      BY <2>2, <2>3, <2>8
    <3>2. k[s] = g[s] + (IF x \in s THEN d ELSE 0)
      <4>1. CASE x \in s
        BY <2>4, <2>5, <2>6, <3>1, <4>1, <1>1
      <4>2. CASE x \notin s
        BY <2>4, <2>5, <2>6, <3>1, <4>2
      <4>3. QED BY <4>1, <4>2
    <3>3. QED BY <3>2
  <2>9. QED BY <2>7, <2>8
<1>4. S \in Good
  <2>1. Good \in SUBSET SUBSET S
    OBVIOUS
  <2> HIDE DEF Good
  <2>2. QED BY <1>2, <1>3, <2>1, SubsetInduction
<1>5. QED BY <1>4

\* The sum of nothing but zeros.
LEMMA AddsZero ==
  ASSUME NEW S, IsFiniteSet(S), NEW f, NEW g, Adds(g, f, S), \A x \in S : f[x] = 0
  PROVE  g[S] = 0
<1> DEFINE Good == {s \in SUBSET S : g[s] = 0}
<1>1. {} \in Good
  <2>1. g[{}] = 0
    BY AddsParts
  <2>2. QED BY <2>1
<1>2. ASSUME NEW s \in SUBSET S, s # {}, s \ {First(s)} \in Good
      PROVE  s \in Good
  <2>1. First(s) \in S
    BY <1>2, FirstOut
  <2>2. g[s] = f[First(s)] + g[s \ {First(s)}]
    BY <1>2, AddsParts
  <2>3. f[First(s)] = 0 /\ g[s \ {First(s)}] = 0
    BY <1>2, <2>1
  <2>4. QED BY <2>2, <2>3
<1>3. S \in Good
  <2>1. Good \in SUBSET SUBSET S
    OBVIOUS
  <2> HIDE DEF Good
  <2>2. QED BY <1>1, <1>2, <2>1, SubsetInduction
<1>4. QED BY <1>3

\* A sum of numbers that are not negative is not less than any of them.
LEMMA AddsBounds ==
  ASSUME NEW S, IsFiniteSet(S), NEW f \in [S -> Nat],
         NEW g \in [SUBSET S -> Int], Adds(g, f, S)
  PROVE  g[S] >= 0 /\ \A x \in S : g[S] >= f[x]
<1> DEFINE Good == {s \in SUBSET S : g[s] >= 0 /\ \A x \in s : g[s] >= f[x]}
<1>1. {} \in Good
  <2>1. g[{}] = 0
    BY AddsParts
  <2>2. QED BY <2>1
<1>2. ASSUME NEW s \in SUBSET S, s # {}, s \ {First(s)} \in Good
      PROVE  s \in Good
  <2>1. PICK y : y = First(s)
    OBVIOUS
  <2>2. PICK t : t = s \ {y}
    OBVIOUS
  <2>3. y \in S /\ y \in s /\ t \in SUBSET S
    BY <1>2, <2>1, <2>2, FirstOut
  <2>4. g[s] = f[y] + g[t] /\ f[y] \in Nat /\ g[t] \in Int
    BY <1>2, <2>1, <2>2, <2>3 DEF Adds
  <2>5. g[t] >= 0 /\ \A x \in t : g[t] >= f[x]
    BY <1>2, <2>1, <2>2
  <2>6. g[s] >= 0 /\ g[s] >= f[y]
    BY <2>4, <2>5
  <2>7. \A x \in t : g[s] >= f[x]
    <3>1. TAKE x \in t
    <3>2. f[x] \in Nat /\ g[t] >= f[x]
      BY <2>3, <2>5
    <3>3. QED BY <3>2, <2>4
  <2>8. \A x \in s : x = y \/ x \in t
    BY <2>2
  <2>9. QED BY <2>6, <2>7, <2>8
<1>3. S \in Good
  <2>1. Good \in SUBSET SUBSET S
    OBVIOUS
  <2> HIDE DEF Good
  <2>2. QED BY <1>1, <1>2, <2>1, SubsetInduction
<1>4. QED BY <1>3

\* Sums of numbers are numbers.
LEMMA AddsType ==
  ASSUME NEW S, IsFiniteSet(S), NEW f \in [S -> Int], NEW g, Adds(g, f, S)
  PROVE  \A s \in SUBSET S : g[s] \in Int
<1> DEFINE Good == {s \in SUBSET S : g[s] \in Int}
<1>1. {} \in Good
  <2>1. g[{}] = 0
    BY AddsParts
  <2>2. QED BY <2>1
<1>2. ASSUME NEW s \in SUBSET S, s # {}, s \ {First(s)} \in Good
      PROVE  s \in Good
  <2>1. First(s) \in S
    BY <1>2, FirstOut
  <2>2. g[s] = f[First(s)] + g[s \ {First(s)}]
    BY <1>2, AddsParts
  <2>3. f[First(s)] \in Int /\ g[s \ {First(s)}] \in Int
    BY <1>2, <2>1
  <2>4. QED BY <2>2, <2>3
<1>3. \A s \in SUBSET S : s \in Good
  <2>1. Good \in SUBSET SUBSET S
    OBVIOUS
  <2> HIDE DEF Good
  <2>2. QED BY <1>1, <1>2, <2>1, SubsetInduction
<1>4. QED BY <1>3

-----------------------------------------------------------------------------
(* The money. *)

\* Before the chain is registered there are no rewards (chainRegister).
Unfunded == ~registered => totalReward = 0

\* The fold of Worth adds up the values of the orders.
LEMMA WorthAdds ==
  ASSUME NEW txs \in [Orders -> Maker], NEW f, f = [o \in Orders |-> txs[o].value]
  PROVE  /\ f \in [Orders -> Nat]
         /\ \E g \in [SUBSET Orders -> Int] : Adds(g, f, Orders) /\ Worth(txs) = g[Orders]
<1> DEFINE Body(g) == [s \in SUBSET Orders |->
             IF s = {} THEN 0
             ELSE LET x == CHOOSE x \in s : TRUE IN txs[x].value + g[s \ {x}]]
<1>1. IsFiniteSet(Orders)
  BY CrossDemoAssumption DEF CrossDemoAssumption
<1>2. f \in [Orders -> Nat] /\ f \in [Orders -> Int]
  BY DEF Maker
<1>3. PICK h \in [SUBSET Orders -> Int] : Adds(h, f, Orders)
  BY <1>1, <1>2, AddsExists
<1>4. \E g : g = Body(g)
  <2>1. \A s \in SUBSET Orders : s # {} => f[First(s)] = txs[First(s)].value
    BY <1>1, FirstOut
  <2>2. \A s \in SUBSET Orders :
          h[s] = IF s = {} THEN 0
                 ELSE LET x == CHOOSE x \in s : TRUE IN txs[x].value + h[s \ {x}]
    BY <1>3, <2>1 DEF Adds, First
  <2>3. h = Body(h)
    BY <2>2
  <2>4. QED BY <2>3
<1>5. PICK g : g = Body(g) /\ g = CHOOSE k : k = Body(k)
  BY <1>4
<1>6. Worth(txs) = g[Orders]
  BY <1>5, Zenon DEF Worth, MapThenSumSet, MapThenFoldSet
<1>7. \A s \in SUBSET Orders :
        g[s] = IF s = {} THEN 0 ELSE txs[First(s)].value + g[s \ {First(s)}]
  BY <1>5 DEF First
<1>8. Adds(g, f, Orders)
  <2>1. \A s \in SUBSET Orders : s # {} => f[First(s)] = txs[First(s)].value
    BY <1>1, FirstOut
  <2>2. \A s \in SUBSET Orders :
          g[s] = IF s = {} THEN 0 ELSE f[First(s)] + g[s \ {First(s)}]
    BY <1>7, <2>1
  <2>3. QED BY <2>2 DEF Adds
<1>9. g \in [SUBSET Orders -> Int]
  <2>1. \A s \in SUBSET Orders : g[s] \in Int
    BY <1>1, <1>2, <1>8, AddsType
  <2>2. g = [s \in SUBSET Orders |-> g[s]]
    BY <1>5
  <2>3. QED BY <2>1, <2>2
<1>10. QED BY <1>2, <1>6, <1>8, <1>9

\* When one order changes, the worth of all changes with its value.
LEMMA WorthChange ==
  ASSUME NEW txs \in [Orders -> Maker], NEW new \in [Orders -> Maker], NEW o \in Orders,
         \A p \in Orders : p # o => new[p] = txs[p]
  PROVE  Worth(txs) \in Int /\ Worth(new) = Worth(txs) + (new[o].value - txs[o].value)
<1>1. IsFiniteSet(Orders)
  BY CrossDemoAssumption DEF CrossDemoAssumption
<1>2. PICK f : f = [p \in Orders |-> txs[p].value]
  OBVIOUS
<1>3. PICK h : h = [p \in Orders |-> new[p].value]
  OBVIOUS
<1>4. /\ f \in [Orders -> Nat]
      /\ \E g \in [SUBSET Orders -> Int] : Adds(g, f, Orders) /\ Worth(txs) = g[Orders]
  BY <1>2, WorthAdds
<1>5. /\ h \in [Orders -> Nat]
      /\ \E g \in [SUBSET Orders -> Int] : Adds(g, h, Orders) /\ Worth(new) = g[Orders]
  BY <1>3, WorthAdds
<1>6. PICK g \in [SUBSET Orders -> Int] : Adds(g, f, Orders) /\ Worth(txs) = g[Orders]
  BY <1>4
<1>7. PICK k \in [SUBSET Orders -> Int] : Adds(k, h, Orders) /\ Worth(new) = k[Orders]
  BY <1>5
<1>8. \A p \in Orders : p # o => h[p] = f[p]
  BY <1>2, <1>3
<1>9. f \in [Orders -> Int] /\ h \in [Orders -> Int]
  BY <1>4, <1>5
<1>10. k[Orders] = g[Orders] + (h[o] - f[o])
  <2>1. Differ(f, g, h, k, o, Orders)
    BY <1>1, <1>6, <1>7, <1>8, <1>9 DEF Differ
  <2>2. QED BY <2>1, AddsChange
<1>11. h[o] = new[o].value /\ f[o] = txs[o].value
  BY <1>2, <1>3
<1>12. Worth(txs) \in Int
  BY <1>6
<1>13. QED BY <1>6, <1>7, <1>10, <1>11, <1>12

\* No order is worth more than all of them.
LEMMA WorthBounds ==
  ASSUME NEW txs \in [Orders -> Maker]
  PROVE  Worth(txs) \in Nat /\ \A o \in Orders : txs[o].value <= Worth(txs)
<1>1. IsFiniteSet(Orders)
  BY CrossDemoAssumption DEF CrossDemoAssumption
<1>2. PICK f : f = [p \in Orders |-> txs[p].value]
  OBVIOUS
<1>3. /\ f \in [Orders -> Nat]
      /\ \E g \in [SUBSET Orders -> Int] : Adds(g, f, Orders) /\ Worth(txs) = g[Orders]
  BY <1>2, WorthAdds
<1>4. PICK g \in [SUBSET Orders -> Int] : Adds(g, f, Orders) /\ Worth(txs) = g[Orders]
  BY <1>3
<1>5. g[Orders] >= 0 /\ \A o \in Orders : g[Orders] >= f[o]
  BY <1>1, <1>3, <1>4, AddsBounds
<1>6. g[Orders] \in Int /\ \A o \in Orders : f[o] = txs[o].value /\ f[o] \in Nat
  BY <1>2, <1>3
<1>7. QED BY <1>4, <1>5, <1>6

\* The worth of the orders after a step.
LEMMA WorthNext == Worth(maker)' = Worth(maker')
BY DEF Worth, MapThenSumSet, MapThenFoldSet

\* The value sent stays as the order's value and the reward (makerStart).
LEMMA SolventStart ==
  ASSUME Typed, Solvent, NEW o \in Orders, NEW value \in Values, NEW from \in Users,
         NEW to \in Users \cup {Anyone}, MakerStart(o, value, from, to)
  PROVE  Solvent'
<1>1. /\ maker' \in [Orders -> Maker] /\ maker \in [Orders -> Maker]
      /\ \A p \in Orders : p # o => maker'[p] = maker[p]
  BY StartFacts DEF Typed
<1>2. /\ maker[o].value = 0 /\ totalReward' = totalReward + reward /\ balance' = balance + value
      /\ maker' = [maker EXCEPT ![o] = [NoMaker EXCEPT !.value = value - reward, !.to = to]]
      /\ stray' = stray
  BY DEF MakerStart
<1>3. value \in Int /\ reward \in Int /\ totalReward \in Int /\ balance \in Int /\ stray \in Int
  BY Arguments DEF Typed
<1>4. maker'[o].value = value - reward
  BY <1>1, <1>2 DEF NoMaker
<1>5. Worth(maker) \in Int /\ Worth(maker') = Worth(maker) + (maker'[o].value - maker[o].value)
  BY <1>1, WorthChange
<1>6. Worth(maker') = Worth(maker) + (value - reward)
  BY <1>2, <1>3, <1>4, <1>5
<1>7. balance = totalReward + Worth(maker) + stray
  BY DEF Solvent
<1>8. balance' = totalReward' + Worth(maker') + stray'
  BY <1>2, <1>3, <1>5, <1>6, <1>7
<1>9. QED BY <1>8, WorthNext DEF Solvent

\* An order is deleted when its value is sent (makerFinish).
LEMMA SolventFinish ==
  ASSUME Registry, Typed, Room, Solvent,
         NEW a \in Addrs, NEW o \in Orders, NEW h \in Hashes, NEW wei \in Attached,
         MakerFinish(a, o, h, wei)
  PROVE  Solvent'
<1>1. Finished(a, o, h, wei)
  BY FinishFacts
<1>2. /\ maker' \in [Orders -> Maker] /\ maker \in [Orders -> Maker]
      /\ \A p \in Orders : p # o => maker'[p] = maker[p]
      /\ totalReward' = totalReward
  BY <1>1 DEF Finished, Typed, funds
<1>3. totalReward \in Int /\ balance \in Int /\ stray \in Int /\ maker[o].value \in Nat
  BY <1>2 DEF Typed, Maker
<1>4. /\ wei \in Int /\ stray' = stray + wei
      /\ \/ maker'[o].value = 0 /\ balance' = balance + wei - maker[o].value
         \/ maker'[o].value = maker[o].value /\ balance' = balance + wei
  BY <1>1 DEF Finished
<1>5. Worth(maker) \in Int /\ Worth(maker') = Worth(maker) + (maker'[o].value - maker[o].value)
  BY <1>2, WorthChange
<1>6. balance = totalReward + Worth(maker) + stray
  BY DEF Solvent
<1>7. balance' = totalReward' + Worth(maker') + stray'
  BY <1>2, <1>3, <1>4, <1>5, <1>6
<1>8. QED BY <1>7, WorthNext DEF Solvent

\* Every transaction leaves the contract with what it owes.
LEMMA SolventStep ==
  ASSUME Registry, Typed, Room, Solvent, Unfunded, Next
  PROVE  Solvent' /\ Unfunded'
<1>1. CASE UNCHANGED <<balance, totalReward, maker, stray>> /\ (registered => registered')
  BY <1>1, WorthNext DEF Solvent, Unfunded
<1>2. ASSUME NEW batch \in Batches, NEW count \in Counts, NEW max \in Values, Register(batch, count, max)
      PROVE  Solvent' /\ Unfunded'
  <2>1. ~registered /\ totalReward' = 0 /\ UNCHANGED <<balance, maker, stray>>
    BY <1>2 DEF Register, ChainRegister, order, history
  <2>2. totalReward' = totalReward
    BY <2>1 DEF Unfunded
  <2>3. QED BY <2>1, <2>2, WorthNext DEF Solvent, Unfunded
<1>3. ASSUME NEW a \in Addrs, AddAnchors(a) \/ RemoveAnchors(a) \/ \E s \in BOOLEAN : ChangeStatus(a, s)
      PROVE  Solvent' /\ Unfunded'
  <2>1. UNCHANGED <<balance, totalReward, maker, stray, registered>>
    BY <1>3 DEF AddAnchors, RemoveAnchors, ChangeStatus, AddAnchor, RemoveAnchor, SetAnchorStatus,
                funds, order, history
  <2>2. QED BY <1>1, <2>1
<1>4. ASSUME NEW count \in Counts, ChangeCount(count)
      PROVE  Solvent' /\ Unfunded'
  BY <1>1, <1>4 DEF ChangeCount, SetSignConfirmCount, funds, order, history
<1>5. ASSUME \/ \E r \in Rewards : SetReward(r)
             \/ \E max \in Values : SetMaxValue(max)
             \/ \E sender \in Users, c \in DOMAIN Foreign, s \in Signatures : Taker(sender, c, s)
      PROVE  Solvent' /\ Unfunded'
  BY <1>1, <1>5 DEF SetReward, SetMaxValue, Taker, registry, funds, order, history
<1>6. ASSUME NEW a \in Addrs, NEW r \in Rewards, AccumulateRewards(a, r)
      PROVE  Solvent' /\ Unfunded'
  <2>1. /\ registered /\ registered' = registered /\ maker' = maker
        /\ totalReward' = totalReward - r /\ balance' = balance - r /\ stray' = stray
    BY <1>6 DEF AccumulateRewards, registry, order, history
  <2>2. r \in Int /\ totalReward \in Int /\ balance \in Int /\ stray \in Int /\ Worth(maker) \in Int
    BY Arguments, WorthBounds DEF Typed
  <2>3. balance = totalReward + Worth(maker) + stray
    BY DEF Solvent
  <2>4. balance' = totalReward' + Worth(maker') + stray'
    BY <2>1, <2>2, <2>3
  <2>5. QED BY <2>1, <2>4, WorthNext DEF Solvent, Unfunded
<1>7. ASSUME NEW o \in Orders, NEW v \in Values, NEW from \in Users, NEW to \in Users \cup {Anyone},
             MakerStart(o, v, from, to)
      PROVE  Solvent' /\ Unfunded'
  BY <1>7, SolventStart DEF MakerStart, registry, Unfunded
<1>8. ASSUME NEW a \in Addrs, NEW o \in Orders, NEW h \in Hashes, NEW wei \in Attached,
         MakerFinish(a, o, h, wei)
      PROVE  Solvent' /\ Unfunded'
  BY <1>8, SolventFinish DEF MakerFinish, registry, funds, Unfunded
<1>9. QED
  BY <1>2, <1>3, <1>4, <1>5, <1>6, <1>7, <1>8 DEF Next

-----------------------------------------------------------------------------
(* Theorems. *)

\* The contract as it is deployed (constructor).
LEMMA InitIInv ==
  ASSUME Init
  PROVE  IInv
<1>1. Registry
  <2>1. NoAnchor \in Anchor /\ NotRemoved \in Removed /\ ~NotRemoved.is
    BY DEF NoAnchor, NotRemoved, Anchor, Removed
  <2>2. list \in Seq(Addrs) /\ Len(list) = 0 /\ dels \in Seq(Addrs) /\ Len(dels) = 0
        /\ DOMAIN list = {} /\ DOMAIN dels = {}
    BY DEF Init, RegistryInit
  <2>3. anchor \in [Addrs -> Anchor] /\ removed \in [Addrs -> Removed] /\ \A a \in Addrs : ~removed[a].is
    BY <2>1 DEF Init, RegistryInit
  <2>4. RegistryTypeOK
    <3>1. 0 \in 0..(RingCap - 1) /\ 0 <= MaxAnchors /\ 0 <= RingCap /\ 0 \in 0..255
      BY Limits
    <3>2. QED BY <2>2, <2>3, <3>1 DEF Init, RegistryInit, RegistryTypeOK
  <2>5. QED BY <2>2, <2>3, <2>4 DEF Registry, Listed, Ringed, Buried, Fresh, Init, RegistryInit
<1>2. Typed
  <2>1. NoMaker \in Maker /\ NotAsked \in Asked
    BY DEF NoMaker, NotAsked, Maker, Asked
  <2>2. maker \in [Orders -> Maker] /\ asked \in [Orders -> Asked] /\ signed \in [Orders -> SUBSET Addrs]
    BY <2>1 DEF Init
  <2>3. [need |-> 0, by |-> {}] \in [need : 0..255, by : SUBSET Addrs]
    OBVIOUS
  <2>4. takes \in [DOMAIN Foreign -> [need : 0..255, by : SUBSET Addrs]]
    BY <2>3 DEF Init
  <2>5. QED BY <2>2, <2>4 DEF Init, Typed
<1>3. Orderly
  <2>1. \A o \in Orders : maker[o].value = 0 /\ signed[o] = {}
    BY DEF Init, NoMaker
  <2>2. DOMAIN paid = {}
    BY DEF Init
  <2>3. QED
    BY <2>1, <2>2 DEF Orderly, Unmade, Room, Closed, SignaturesCounted, PaidByQuorum, PaidOnce
<1>4. TakenByQuorum
  <2>1. \A c \in DOMAIN Foreign : takes[c].need = 0 /\ takes[c].by = {}
    BY DEF Init
  <2>2. Cardinality({}) = 0
    BY FS_EmptySet
  <2>3. \A c \in DOMAIN Foreign : Cardinality(takes[c].by) = 0 /\ takes[c].need = 0
    BY <2>1, <2>2
  <2>4. \A c \in DOMAIN Foreign : Cardinality(takes[c].by) >= takes[c].need
    BY <2>3
  <2>5. QED BY <2>4 DEF TakenByQuorum
<1>5. QED BY <1>1, <1>2, <1>3, <1>4 DEF IInv

\* Every transaction keeps the invariant.
LEMMA NextIInv ==
  ASSUME IInv, [Next]_vars
  PROVE  IInv'
<1>1. Registry /\ Typed /\ Orderly /\ TakenByQuorum /\ Room
  BY DEF IInv, Orderly
<1>2. CASE UNCHANGED vars
  <2>1. UNCHANGED registry /\ OrdersSame /\ need \in 0..255
    BY <1>1, <1>2 DEF vars, order, history, Registry, RegistryTypeOK, OrdersSame
  <2>2. Registry'
    BY <1>1, <2>1, RegistryKept DEF registry
  <2>3. Typed'
    BY <1>1, <1>2 DEF vars, order, history, funds, Typed
  <2>4. Orderly'
    BY <1>1, <2>1, OrdersKept
  <2>5. TakenByQuorum'
    BY <1>1, <1>2 DEF vars, history, TakenByQuorum
  <2>6. QED BY <2>2, <2>3, <2>4, <2>5 DEF IInv
<1>3. CASE Next
  <2>1. Registry' /\ Typed' /\ TakenByQuorum'
    BY <1>1, <1>3, RegistryStep, TypedStep, TakenStep
  <2>2. ASSUME OrdersQuiet
        PROVE  Orderly'
    BY <1>1, <2>2, OrdersKept DEF OrdersQuiet, OrdersSame, order, history
  <2>3. ASSUME NEW o \in Orders, NEW v \in Values, NEW from \in Users, NEW to \in Users \cup {Anyone},
               MakerStart(o, v, from, to)
        PROVE  Orderly'
    BY <1>1, <2>3, StartStep
  <2>4. ASSUME NEW a \in Addrs, NEW o \in Orders, NEW h \in Hashes, NEW wei \in Attached,
         MakerFinish(a, o, h, wei)
        PROVE  Orderly'
    BY <1>1, <2>4, FinishStep
  <2>5. ASSUME NEW sender \in Users, NEW c \in DOMAIN Foreign, NEW s \in Signatures, Taker(sender, c, s)
        PROVE  Orderly'
    BY <1>1, <2>5, OrdersKept DEF Taker, OrdersSame, order
  <2>6. Orderly'
    BY <1>3, <2>2, <2>3, <2>4, <2>5, Transactions, Zenon
  <2>7. QED BY <2>1, <2>6 DEF IInv
<1>4. QED BY <1>2, <1>3

\* The invariant of the contract (crossdemo.sol), types included.
THEOREM IInvHolds == Spec => []IInv
<1>1. Init => IInv
  BY InitIInv
<1>2. IInv /\ [Next]_vars => IInv'
  BY NextIInv
<1>3. QED BY <1>1, <1>2, PTL DEF Spec

\* The list, the mapping and the ring of anchors agree for any number of
\* addresses and after any transactions of the owner (addAnchors,
\* removeAnchors, deleteAnchor).
THEOREM RegistryConsistentHolds == Spec => []RegistryConsistent
<1>1. IInv => RegistryConsistent
  BY DEF IInv, Registry, Listed, Ringed, Buried, RegistryConsistent
<1>2. QED BY <1>1, IInvHolds, PTL

\* signatureCount is the number of different anchors that reported the pinned
\* transaction, although it has 8 bits (makerFinish).
THEOREM SignaturesCountedHolds == Spec => []SignaturesCounted
<1>1. IInv => SignaturesCounted
  BY DEF IInv, Orderly
<1>2. QED BY <1>1, IInvHolds, PTL

\* An order is paid for a transaction that as many different anchors reported
\* as were asked for (makerFinish).
THEOREM PaidByQuorumHolds == Spec => []PaidByQuorum
<1>1. IInv => PaidByQuorum
  BY DEF IInv, Orderly
<1>2. QED BY <1>1, IInvHolds, PTL

\* No order is paid twice (makerFinish).
THEOREM PaidOnceHolds == Spec => []PaidOnce
<1>1. IInv => PaidOnce
  BY DEF IInv, Orderly
<1>2. QED BY <1>1, IInvHolds, PTL

\* A foreign order is taken with the signatures of as many different anchors
\* as are asked for (taker).
THEOREM TakenByQuorumHolds == Spec => []TakenByQuorum
<1>1. IInv => TakenByQuorum
  BY DEF IInv
<1>2. QED BY <1>1, IInvHolds, PTL

\* The contract holds exactly what its open orders, the anchors' rewards and the
\* wei sent along with makerFinish come to, for any number of orders
\* (makerStart, makerFinish, accumulateRewards).
THEOREM SolventHolds == Spec => []Solvent
<1>1. Init => Solvent /\ Unfunded
  <2>1. SUFFICES ASSUME Init PROVE Solvent /\ Unfunded
    OBVIOUS
  <2>2. maker \in [Orders -> Maker] /\ \A o \in Orders : maker[o].value = 0
    BY <2>1 DEF Init, NoMaker, Maker
  <2>3. PICK f : f = [o \in Orders |-> maker[o].value]
    OBVIOUS
  <2>4. \E g \in [SUBSET Orders -> Int] : Adds(g, f, Orders) /\ Worth(maker) = g[Orders]
    BY <2>2, <2>3, WorthAdds
  <2>5. IsFiniteSet(Orders)
    BY CrossDemoAssumption DEF CrossDemoAssumption
  <2>6. \A o \in Orders : f[o] = 0
    BY <2>2, <2>3
  <2>7. Worth(maker) = 0
    BY <2>4, <2>5, <2>6, AddsZero
  <2>8. balance = 0 /\ totalReward = 0 /\ stray = 0
    BY <2>1 DEF Init
  <2>9. QED BY <2>7, <2>8 DEF Solvent, Unfunded
<1>2. IInv /\ Solvent /\ Unfunded /\ [Next]_vars => Solvent' /\ Unfunded'
  <2> SUFFICES ASSUME IInv, Solvent, Unfunded, [Next]_vars PROVE Solvent' /\ Unfunded'
    OBVIOUS
  <2>1. CASE UNCHANGED vars
    BY <2>1, WorthNext DEF vars, funds, order, history, registry, Solvent, Unfunded
  <2>2. CASE Next
    BY <2>2, SolventStep DEF IInv, Orderly
  <2>3. QED BY <2>1, <2>2
<1>3. QED BY <1>1, <1>2, IInvHolds, PTL DEF Spec

\* The storage has its types, and the balance is never short of the rewards and
\* of any one order: no payment of the contract fails (makerFinish,
\* accumulateRewards).
THEOREM TypeCorrect ==
  Spec => [](TypeOK /\ \A o \in Orders : totalReward + maker[o].value <= balance)
<1>1. IInv /\ Solvent => TypeOK /\ \A o \in Orders : totalReward + maker[o].value <= balance
  <2>1. SUFFICES ASSUME IInv, Solvent
                 PROVE  TypeOK /\ \A o \in Orders : totalReward + maker[o].value <= balance
    OBVIOUS
  <2>2. Registry /\ Typed
    BY <2>1 DEF IInv
  <2>3. maker \in [Orders -> Maker] /\ totalReward \in Nat /\ stray \in Nat /\ balance = totalReward + Worth(maker) + stray
    BY <2>1, <2>2 DEF Typed, Solvent
  <2>4. Worth(maker) \in Nat /\ \A o \in Orders : maker[o].value <= Worth(maker)
    BY <2>3, WorthBounds
  <2>5. \A o \in Orders : maker[o].value \in Nat
    BY <2>3 DEF Maker
  <2>6. balance \in Nat /\ \A o \in Orders : totalReward + maker[o].value <= balance
    BY <2>3, <2>4, <2>5
  <2>7. QED BY <2>2, <2>6 DEF Registry, Typed, TypeOK
<1>2. QED BY <1>1, IInvHolds, SolventHolds, PTL
-----------------------------------------------------------------------------
(* The courier: requests and answers. *)

\* The store has the receipt of a request that nobody else committed, unless it
\* failed.
Kept(o) == dbFaults = 0 /\ ~Elsewhere(o) => record[o]

\* An event tells of a transfer that was made, for a request in the store.
EventOK(ev) ==
  /\ ev.txID[1] = ev.id /\ ev.txID[2] \in 1..transfers[ev.id]
  /\ Kept(ev.id)

\* EventOK of the next state, for an event that the next state brings.
EventOKNext(ev) ==
  /\ ev.txID[1] = ev.id /\ ev.txID[2] \in 1..transfers'[ev.id]
  /\ dbFaults' = 0 /\ ~(\E i \in DOMAIN foreign' : foreign'[i] = ev.id) => record'[ev.id]

\* The events at the orderer and in the blocks.
EventsBacked ==
  /\ \A i \in 1..Len(pool) : EventOK(pool[i])
  /\ \A b \in 1..Len(chain) : \A i \in 1..Len(chain[b]) : EventOK(chain[b][i])

\* A request is stored before it is invoked.
RequestsStored == \A o \in Reqs : invoking[o] > 0 => Kept(o)

\* Response goroutines are made for events of the chain.
SpawnedInChain ==
  \A w \in spawned : w[1] \in 1..Len(chain) /\ w[2] \in 1..Len(chain[w[1]])

\* What a response goroutine carries.
ResponderOK(r) ==
  /\ Paid(r.ev.id, r.ev.txID)
  /\ dbFaults = 0 => r.known \/ Elsewhere(r.ev.id)
RespondersBacked == \A r \in responding \cup answering : ResponderOK(r)

RequestInv ==
  /\ OutTypeOK
  /\ EventsBacked
  /\ RequestsStored
  /\ SpawnedInChain
  /\ RespondersBacked
  /\ AnswersPaid
  /\ AnswersComplete

\* Nothing is requested, stored or paid before the courier starts.
LEMMA InitRequestInv == OutInit => RequestInv
<1> SUFFICES ASSUME OutInit PROVE RequestInv
  OBVIOUS
<1>1. OutTypeOK
  BY DEF OutInit, OutTypeOK, Empty
<1>2. EventsBacked /\ RequestsStored /\ SpawnedInChain
  BY DEF OutInit, EventsBacked, RequestsStored, SpawnedInChain, Empty
<1>3. RespondersBacked /\ AnswersPaid /\ AnswersComplete
  BY DEF OutInit, RespondersBacked, AnswersPaid, AnswersComplete
<1> QED BY <1>1, <1>2, <1>3 DEF RequestInv

\* Starting and ending one of several goroutines for a request.
LEMMA CountFacts ==
  ASSUME NEW q \in [Reqs -> Nat], NEW o \in Reqs
  PROVE  /\ Push(q, o) \in [Reqs -> Nat]
         /\ \A x \in Reqs : Push(q, o)[x] > 0 => q[x] > 0 \/ x = o
         /\ q[o] > 0 => /\ Drop(q, o) \in [Reqs -> Nat]
                        /\ \A x \in Reqs : Drop(q, o)[x] > 0 => q[x] > 0
  BY DEF Push, Drop

\* The events of the chain are events.
LEMMA ChainFacts ==
  ASSUME OutTypeOK, NEW b \in 1..Len(chain), NEW i \in 1..Len(chain[b])
  PROVE  chain[b] \in Seq(Event) /\ chain[b][i] \in Event /\ chain[b][i].id \in Reqs
<1>1. chain[b] \in Seq(Event)
  BY DEF OutTypeOK
<1>2. chain[b][i] \in Event
  BY <1>1
<1> QED BY <1>1, <1>2 DEF Event

-----------------------------------------------------------------------------
(* What no step takes back: transfers, blocks, commits elsewhere, receipts. *)

Growing ==
  /\ transfers' \in [Reqs -> Nat] /\ \A o \in Reqs : transfers'[o] >= transfers[o]
  /\ chain' = chain \/ chain' = Append(chain, pool)
  /\ dbFaults' = 0 => dbFaults = 0
  /\ \A o \in Reqs : (Elsewhere(o) => Elsewhere(o)') /\ (Kept(o) => Kept(o)')

\* A step that leaves ledger and store alone takes nothing back.
LEMMA StillGrowing ==
  ASSUME OutTypeOK, UNCHANGED <<transfers, chain, foreign, record, dbFaults>>
  PROVE  Growing
<1>1. transfers \in [Reqs -> Nat] /\ \A o \in Reqs : transfers[o] >= transfers[o]
  BY DEF OutTypeOK
<1>2. \A o \in Reqs : (Elsewhere(o) => Elsewhere(o)') /\ (Kept(o) => Kept(o)')
  BY DEF Elsewhere, Kept
<1> QED BY <1>1, <1>2 DEF Growing

\* The blocks stay where they are.
LEMMA BlocksStay ==
  ASSUME OutTypeOK, Growing
  PROVE  /\ Len(chain') >= Len(chain) /\ Len(chain) \in Nat /\ Len(chain') \in Nat
         /\ chain' \in Seq(Seq(Event))
         /\ \A b \in 1..Len(chain) : chain'[b] = chain[b]
<1>1. chain \in Seq(Seq(Event)) /\ pool \in Seq(Event)
  BY DEF OutTypeOK
<1>2. CASE chain' = chain
  BY <1>1, <1>2
<1>3. CASE chain' = Append(chain, pool)
  BY <1>1, <1>3
<1> QED BY <1>2, <1>3 DEF Growing

\* What an answer says stays true.
LEMMA PaidStays ==
  ASSUME OutTypeOK, Growing, NEW id \in Reqs, NEW tx \in TxIDs, Paid(id, tx)
  PROVE  Paid(id, tx)'
<1>1. tx[1] \in Reqs /\ tx[2] \in Nat /\ transfers \in [Reqs -> Nat] /\ transfers' \in [Reqs -> Nat]
      /\ transfers'[id] >= transfers[id] /\ transfers'[tx[1]] >= transfers[tx[1]]
  BY DEF TxIDs, OutTypeOK, Growing
<1>2. tx[2] \in 1..transfers'[tx[1]] /\ transfers'[id] > 0
  BY <1>1 DEF Paid
<1>3. ASSUME tx[1] # id
      PROVE  \E b \in DOMAIN chain' : \E i, j \in DOMAIN chain'[b] :
               i < j /\ chain'[b][i].id = id /\ chain'[b][j].txID = tx
  <2>1. PICK b \in DOMAIN chain : \E i, j \in DOMAIN chain[b] :
          i < j /\ chain[b][i].id = id /\ chain[b][j].txID = tx
    BY <1>3 DEF Paid
  <2>2. chain \in Seq(Seq(Event)) /\ b \in 1..Len(chain)
    BY DEF OutTypeOK
  <2>3. b \in DOMAIN chain' /\ chain'[b] = chain[b]
    BY <2>2, BlocksStay
  <2> QED BY <2>1, <2>3
<1> QED BY <1>2, <1>3 DEF Paid

\* What a step that only grows keeps of the invariant.
LEMMA GrowingKeeps ==
  ASSUME RequestInv, Growing
  PROVE  /\ \A ev \in Event : EventOK(ev) => EventOKNext(ev)
         /\ UNCHANGED <<pool, chain>> => EventsBacked'
         /\ (\A o \in Reqs : invoking'[o] > 0 => invoking[o] > 0) => RequestsStored'
         /\ spawned' \subseteq spawned => SpawnedInChain'
         /\ responding' \cup answering' \subseteq responding \cup answering => RespondersBacked'
         /\ UNCHANGED answers => AnswersPaid' /\ AnswersComplete'
<1>1. ASSUME NEW ev \in Event, EventOK(ev)
      PROVE  EventOKNext(ev)
  <2>1. ev.id \in Reqs /\ transfers \in [Reqs -> Nat] /\ transfers' \in [Reqs -> Nat]
        /\ transfers'[ev.id] >= transfers[ev.id]
    BY DEF Event, RequestInv, OutTypeOK, Growing
  <2>2. ev.txID[1] = ev.id /\ ev.txID[2] \in 1..transfers[ev.id] /\ Kept(ev.id)
    BY <1>1 DEF EventOK
  <2>3. ev.txID[2] \in 1..transfers'[ev.id]
    BY <2>1, <2>2
  <2>4. Kept(ev.id)'
    BY <2>1, <2>2 DEF Growing
  <2> QED BY <2>2, <2>3, <2>4 DEF EventOKNext, Kept, Elsewhere
<1>2. ASSUME UNCHANGED <<pool, chain>>
      PROVE  EventsBacked'
  <2>1. \A i \in 1..Len(pool) : pool[i] \in Event
    BY DEF RequestInv, OutTypeOK
  <2>2. \A b \in 1..Len(chain) : \A i \in 1..Len(chain[b]) : chain[b][i] \in Event
    BY ChainFacts DEF RequestInv
  <2>3. \A i \in 1..Len(pool) : EventOKNext(pool[i])
    BY <1>1, <2>1 DEF RequestInv, EventsBacked
  <2>4. \A b \in 1..Len(chain) : \A i \in 1..Len(chain[b]) : EventOKNext(chain[b][i])
    BY <1>1, <2>2 DEF RequestInv, EventsBacked
  <2> QED BY <1>2, <2>3, <2>4 DEF EventsBacked, EventOK, EventOKNext, Kept, Elsewhere
<1>3. ASSUME \A o \in Reqs : invoking'[o] > 0 => invoking[o] > 0
      PROVE  RequestsStored'
  BY <1>3 DEF RequestInv, RequestsStored, Growing
<1>4. ASSUME spawned' \subseteq spawned
      PROVE  SpawnedInChain'
  BY <1>4, BlocksStay DEF RequestInv, SpawnedInChain
<1>5. ASSUME responding' \cup answering' \subseteq responding \cup answering
      PROVE  RespondersBacked'
  <2>1. ASSUME NEW r \in responding \cup answering
        PROVE  ResponderOK(r)'
    <3>1. r.ev.id \in Reqs /\ r.ev.txID \in TxIDs
      BY DEF RequestInv, OutTypeOK, Goroutine, Event
    <3>2. ResponderOK(r)
      BY DEF RequestInv, RespondersBacked
    <3>3. Paid(r.ev.id, r.ev.txID)'
      BY <3>1, <3>2, PaidStays DEF RequestInv, ResponderOK
    <3>4. dbFaults' = 0 => r.known \/ Elsewhere(r.ev.id)'
      BY <3>1, <3>2 DEF ResponderOK, Growing
    <3> QED BY <3>3, <3>4 DEF ResponderOK
  <2> QED BY <1>5, <2>1 DEF RespondersBacked
<1>6. ASSUME UNCHANGED answers
      PROVE  AnswersPaid' /\ AnswersComplete'
  <2>1. \A a \in answers : a.id \in Reqs /\ a.hash \in TxIDs
    BY DEF RequestInv, OutTypeOK, Response
  <2>2. \A a \in answers : Paid(a.id, a.hash)'
    BY <2>1, PaidStays DEF RequestInv, AnswersPaid
  <2>3. AnswersComplete'
    BY <1>6, <2>1 DEF RequestInv, AnswersComplete, Growing
  <2> QED BY <1>6, <2>2, <2>3 DEF AnswersPaid
<1> QED BY <1>1, <1>2, <1>3, <1>4, <1>5, <1>6

-----------------------------------------------------------------------------
(* The steps. *)

\* The orderer makes a block of the events it holds.
LEMMA CutBlockInv == RequestInv /\ CutBlock => RequestInv'
<1> SUFFICES ASSUME RequestInv, CutBlock PROVE RequestInv'
  OBVIOUS
<1>1. chain \in Seq(Seq(Event)) /\ pool \in Seq(Event)
  BY DEF RequestInv, OutTypeOK
<1>2. /\ chain' \in Seq(Seq(Event)) /\ pool' \in Seq(Event) /\ Len(pool') = 0
      /\ Len(chain') = Len(chain) + 1
      /\ \A b \in 1..Len(chain) : chain'[b] = chain[b]
      /\ chain'[Len(chain) + 1] = pool
  BY <1>1 DEF CutBlock
<1>3. OutTypeOK'
  BY <1>2 DEF RequestInv, OutTypeOK, CutBlock, sync, request, respond, life, failed
<1>4. Growing
  <2>1. transfers \in [Reqs -> Nat] /\ \A o \in Reqs : transfers[o] >= transfers[o]
    BY DEF RequestInv, OutTypeOK
  <2>2. \A o \in Reqs : (Elsewhere(o) => Elsewhere(o)') /\ (Kept(o) => Kept(o)')
    BY DEF CutBlock, failed, Elsewhere, Kept
  <2> QED BY <2>1, <2>2 DEF Growing, CutBlock, failed
<1>5. EventsBacked'
  <2>1. \A ev \in Event : EventOK(ev) => EventOKNext(ev)
    BY <1>4, GrowingKeeps
  <2>2. ASSUME NEW b \in 1..Len(chain'), NEW i \in 1..Len(chain'[b])
        PROVE  EventOKNext(chain'[b][i])
    <3>1. chain'[b][i] \in Event /\ EventOK(chain'[b][i])
      <4>1. CASE b \in 1..Len(chain)
        BY <1>2, <4>1, ChainFacts DEF RequestInv, EventsBacked
      <4>2. CASE b = Len(chain) + 1
        BY <1>1, <1>2, <4>2 DEF RequestInv, EventsBacked
      <4> QED BY <1>1, <1>2, <4>1, <4>2
    <3> QED BY <2>1, <3>1
  <2> QED BY <1>2, <2>2 DEF EventsBacked, EventOK, EventOKNext, Kept, Elsewhere
<1>6. RequestsStored' /\ SpawnedInChain' /\ RespondersBacked' /\ AnswersPaid' /\ AnswersComplete'
  BY <1>4, GrowingKeeps DEF CutBlock, request, respond
<1> QED BY <1>3, <1>5, <1>6 DEF RequestInv

\* A request is received, first or repeated (receive).
LEMMA ReceiveInv == \A o \in Reqs : RequestInv /\ Receive(o) => RequestInv'
<1> SUFFICES ASSUME NEW o \in Reqs, RequestInv, Receive(o) PROVE RequestInv'
  OBVIOUS
<1>0. storing \in [Reqs -> Nat] /\ delivered \in Nat
  BY DEF RequestInv, OutTypeOK
<1>1. storing' \in [Reqs -> Nat] /\ delivered' \in Nat
  BY <1>0, CountFacts DEF Receive
<1>2. OutTypeOK'
  BY <1>1 DEF RequestInv, OutTypeOK, Receive, ledger, sync, respond, life, failed
<1>3. Growing
  BY StillGrowing DEF RequestInv, Receive, ledger, failed
<1>4. EventsBacked' /\ RequestsStored' /\ SpawnedInChain' /\ RespondersBacked'
      /\ AnswersPaid' /\ AnswersComplete'
  BY <1>3, GrowingKeeps DEF Receive, ledger, respond
<1> QED BY <1>2, <1>4 DEF RequestInv

\* processOutChainCtxReq stores the request and goes on, stored or not.
LEMMA StoreRequestInv ==
  \A o \in Reqs : RequestInv /\ StoreRequest(o) => RequestInv'
<1> SUFFICES ASSUME NEW o \in Reqs, RequestInv, StoreRequest(o) PROVE RequestInv'
  OBVIOUS
<1>1. /\ storing' \in [Reqs -> Nat] /\ invoking' \in [Reqs -> Nat]
      /\ \A x \in Reqs : invoking'[x] > 0 => invoking[x] > 0 \/ x = o
  BY CountFacts DEF RequestInv, OutTypeOK, StoreRequest
<1>2. record \in [Reqs -> BOOLEAN] /\ faults \in Nat /\ dbFaults \in Nat
  BY DEF RequestInv, OutTypeOK
<1>3. \/ record' = [record EXCEPT ![o] = TRUE] /\ faults' = faults /\ dbFaults' = dbFaults
      \/ faults' = faults + 1 /\ dbFaults' = dbFaults + 1 /\ record' = record
  BY DEF StoreRequest, failed
<1>4. /\ record' \in [Reqs -> BOOLEAN] /\ faults' \in Nat /\ dbFaults' \in Nat
      /\ dbFaults' = 0 => dbFaults = 0 /\ record'[o]
      /\ \A x \in Reqs : record[x] => record'[x]
  <2>1. CASE record' = [record EXCEPT ![o] = TRUE] /\ faults' = faults /\ dbFaults' = dbFaults
    <3>1. record' \in [Reqs -> BOOLEAN] /\ record'[o] /\ \A x \in Reqs : record[x] => record'[x]
      BY <1>2, <2>1, Zenon
    <3> QED BY <1>2, <2>1, <3>1
  <2>2. CASE faults' = faults + 1 /\ dbFaults' = dbFaults + 1 /\ record' = record
    BY <1>2, <2>2
  <2> QED BY <1>3, <2>1, <2>2
<1>5. OutTypeOK'
  BY <1>1, <1>4 DEF RequestInv, OutTypeOK, StoreRequest, ledger, sync, respond, life
<1>6. Growing
  <2>1. transfers \in [Reqs -> Nat] /\ \A x \in Reqs : transfers[x] >= transfers[x]
    BY DEF RequestInv, OutTypeOK
  <2>2. \A x \in Reqs : (Elsewhere(x) => Elsewhere(x)') /\ (Kept(x) => Kept(x)')
    BY <1>4 DEF StoreRequest, ledger, Elsewhere, Kept
  <2> QED BY <1>4, <2>1, <2>2 DEF Growing, StoreRequest, ledger
<1>7. RequestsStored'
  <2>1. Kept(o)'
    BY <1>4 DEF Kept
  <2>2. \A x \in Reqs : invoking[x] > 0 => Kept(x)'
    BY <1>6 DEF RequestInv, RequestsStored, Growing
  <2> QED BY <1>1, <2>1, <2>2 DEF RequestsStored
<1>8. EventsBacked' /\ SpawnedInChain' /\ RespondersBacked' /\ AnswersPaid' /\ AnswersComplete'
  BY <1>6, GrowingKeeps DEF StoreRequest, ledger, respond
<1> QED BY <1>5, <1>7, <1>8 DEF RequestInv

\* A transfer and its event, by this courier or by somebody else.
LEMMA CommitKeeps ==
  ASSUME RequestInv, NEW o \in Reqs, OutchainCommit(o), Growing, Kept(o)'
  PROVE  /\ transfers' \in [Reqs -> Nat] /\ pool' \in Seq(Event)
         /\ EventsBacked'
<1>0. transfers \in [Reqs -> Nat] /\ pool \in Seq(Event)
  BY DEF RequestInv, OutTypeOK
<1> DEFINE ev == [id |-> o, txID |-> <<o, transfers[o] + 1>>]
<1>1. /\ transfers' = [transfers EXCEPT ![o] = transfers[o] + 1]
      /\ pool' = Append(pool, ev) /\ chain' = chain
  BY <1>0 DEF OutchainCommit, Emit
<1>2. ev \in Event /\ transfers' \in [Reqs -> Nat] /\ transfers'[o] = transfers[o] + 1
  BY <1>0, <1>1 DEF Event, TxIDs
<1>3. EventOKNext(ev)
  BY <1>0, <1>2 DEF EventOKNext, Kept, Elsewhere
<1>4. pool' \in Seq(Event) /\ Len(pool') = Len(pool) + 1 /\ pool'[Len(pool) + 1] = ev
      /\ \A i \in 1..Len(pool) : pool'[i] = pool[i] /\ pool[i] \in Event
  BY <1>0, <1>1, <1>2
<1>5. \A e \in Event : EventOK(e) => EventOKNext(e)
  BY GrowingKeeps
<1>6. ASSUME NEW i \in 1..Len(pool')
      PROVE  EventOKNext(pool'[i])
  <2>1. CASE i \in 1..Len(pool)
    BY <1>4, <1>5, <2>1 DEF RequestInv, EventsBacked
  <2>2. CASE i = Len(pool) + 1
    BY <1>3, <1>4, <2>2
  <2> QED BY <1>0, <1>4, <2>1, <2>2
<1>7. ASSUME NEW b \in 1..Len(chain), NEW i \in 1..Len(chain[b])
      PROVE  EventOKNext(chain[b][i])
  <2>1. chain[b][i] \in Event /\ EventOK(chain[b][i])
    BY ChainFacts DEF RequestInv, EventsBacked
  <2> QED BY <1>5, <2>1
<1> QED BY <1>1, <1>2, <1>4, <1>6, <1>7 DEF EventsBacked, EventOK, EventOKNext, Kept, Elsewhere

\* One more transfer takes nothing back.
LEMMA CommitGrows ==
  ASSUME OutTypeOK, NEW o \in Reqs, OutchainCommit(o), UNCHANGED <<record, dbFaults>>,
         \A x \in Reqs : Elsewhere(x) => Elsewhere(x)'
  PROVE  Growing
<1>1. transfers \in [Reqs -> Nat]
  BY DEF OutTypeOK
<1>2. /\ transfers' = [transfers EXCEPT ![o] = transfers[o] + 1] /\ chain' = chain
  BY <1>1 DEF OutchainCommit, Emit
<1>3. transfers' \in [Reqs -> Nat] /\ \A x \in Reqs : transfers'[x] >= transfers[x]
  BY <1>1, <1>2
<1>4. \A x \in Reqs : Kept(x) => Kept(x)'
  BY DEF Kept
<1> QED BY <1>2, <1>3, <1>4 DEF Growing

\* processOutChainCtxReq invokes the transfer; if that succeeds an event is in the pool.
LEMMA InvokeInv == \A o \in Reqs : RequestInv /\ Invoke(o) => RequestInv'
<1> SUFFICES ASSUME NEW o \in Reqs, RequestInv, Invoke(o) PROVE RequestInv'
  OBVIOUS
<1>0. invoking \in [Reqs -> Nat] /\ faults \in Nat /\ dbFaults \in Nat
  BY DEF RequestInv, OutTypeOK
<1>1. /\ invoking' \in [Reqs -> Nat]
      /\ \A x \in Reqs : invoking'[x] > 0 => invoking[x] > 0
  BY <1>0, CountFacts DEF Invoke
<1>2. UNCHANGED <<record, chain, foreign, dbFaults>> /\ faults' \in Nat
  BY <1>0 DEF Invoke, OutchainCommit, Emit, failed, ledger
<1>3. CASE UNCHANGED ledger
  <2>1. Growing
    BY <1>2, <1>3, StillGrowing DEF RequestInv, ledger
  <2>2. OutTypeOK'
    BY <1>1, <1>2, <1>3 DEF RequestInv, OutTypeOK, Invoke, ledger, sync, respond, life
  <2>3. EventsBacked' /\ RequestsStored' /\ SpawnedInChain' /\ RespondersBacked'
        /\ AnswersPaid' /\ AnswersComplete'
    BY <1>1, <1>3, <2>1, GrowingKeeps DEF Invoke, ledger, respond
  <2> QED BY <2>2, <2>3 DEF RequestInv
<1>4. CASE OutchainCommit(o)
  <2>1. \A x \in Reqs : Elsewhere(x) => Elsewhere(x)'
    BY <1>2 DEF Elsewhere
  <2>2. Growing
    BY <1>2, <1>4, <2>1, CommitGrows DEF RequestInv
  <2>3. Kept(o)'
    BY <2>2 DEF RequestInv, RequestsStored, Invoke, Growing
  <2>4. transfers' \in [Reqs -> Nat] /\ pool' \in Seq(Event) /\ EventsBacked'
    BY <1>4, <2>2, <2>3, CommitKeeps
  <2>5. OutTypeOK'
    BY <1>1, <1>2, <2>4 DEF RequestInv, OutTypeOK, Invoke, sync, respond, life
  <2>6. RequestsStored' /\ SpawnedInChain' /\ RespondersBacked' /\ AnswersPaid' /\ AnswersComplete'
    BY <1>1, <2>2, GrowingKeeps DEF Invoke, respond
  <2> QED BY <2>4, <2>5, <2>6 DEF RequestInv
<1> QED BY <1>3, <1>4 DEF Invoke

\* Somebody else commits a request: its record is no longer vouched for.
LEMMA CommitElsewhereInv == \A o \in Reqs : RequestInv /\ CommitElsewhere(o) => RequestInv'
<1> SUFFICES ASSUME NEW o \in Reqs, RequestInv, CommitElsewhere(o) PROVE RequestInv'
  OBVIOUS
<1>1. foreign \in Seq(Reqs) /\ foreign' = Append(foreign, o)
  BY DEF RequestInv, OutTypeOK, CommitElsewhere
<1>2. /\ foreign' \in Seq(Reqs) /\ Elsewhere(o)'
      /\ \A x \in Reqs : Elsewhere(x) => Elsewhere(x)'
  <2>1. /\ foreign' \in Seq(Reqs) /\ Len(foreign) + 1 \in DOMAIN foreign'
        /\ foreign'[Len(foreign) + 1] = o
        /\ \A i \in DOMAIN foreign : i \in DOMAIN foreign' /\ foreign'[i] = foreign[i]
    BY <1>1
  <2> QED BY <2>1 DEF Elsewhere
<1>3. Growing
  BY <1>2, CommitGrows DEF RequestInv, CommitElsewhere, failed
<1>4. transfers' \in [Reqs -> Nat] /\ pool' \in Seq(Event) /\ EventsBacked'
  BY <1>2, <1>3, CommitKeeps DEF CommitElsewhere, Kept
<1>5. OutTypeOK'
  BY <1>2, <1>4 DEF RequestInv, OutTypeOK, CommitElsewhere, OutchainCommit, Emit,
                    sync, request, respond, life, failed
<1>6. RequestsStored' /\ SpawnedInChain' /\ RespondersBacked' /\ AnswersPaid' /\ AnswersComplete'
  BY <1>3, GrowingKeeps DEF CommitElsewhere, request, respond
<1> QED BY <1>4, <1>5, <1>6 DEF RequestInv

\* syncBlock stores the next number.
LEMMA RequestPersistInv == RequestInv /\ Persist => RequestInv'
<1> SUFFICES ASSUME RequestInv, Persist PROVE RequestInv'
  OBVIOUS
<1>1. OutTypeOK'
  BY DEF RequestInv, OutTypeOK, Persist, ledger, request, respond, life, failed
<1>2. Growing
  BY StillGrowing DEF RequestInv, Persist, ledger, failed
<1>3. EventsBacked' /\ RequestsStored' /\ SpawnedInChain' /\ RespondersBacked'
      /\ AnswersPaid' /\ AnswersComplete'
  BY <1>2, GrowingKeeps DEF Persist, ledger, request, respond
<1> QED BY <1>1, <1>3 DEF RequestInv

\* AddCrossTxs starts a goroutine for each transfer of the block.
LEMMA HandOverInv == RequestInv /\ HandOver => RequestInv'
<1> SUFFICES ASSUME RequestInv, HandOver PROVE RequestInv'
  OBVIOUS
<1>1. next \in 1..Len(chain)
  BY DEF RequestInv, OutTypeOK, HandOver
<1>2. \A w \in Spawned(next) :
        w \in Nat \X Nat /\ w[1] \in 1..Len(chain) /\ w[2] \in 1..Len(chain[w[1]])
  BY <1>1 DEF Spawned
<1>3. SpawnedInChain'
  BY <1>2 DEF RequestInv, SpawnedInChain, HandOver, ledger
<1>4. spawned' \in SUBSET (Nat \X Nat) /\ next' \in Nat \ {0}
  BY <1>2 DEF RequestInv, OutTypeOK, HandOver
<1>5. OutTypeOK'
  BY <1>4 DEF RequestInv, OutTypeOK, HandOver, ledger, request, life, failed
<1>6. Growing
  BY StillGrowing DEF RequestInv, HandOver, ledger, failed
<1>7. EventsBacked' /\ RequestsStored' /\ RespondersBacked' /\ AnswersPaid' /\ AnswersComplete'
  BY <1>6, GrowingKeeps DEF HandOver, ledger, request
<1> QED BY <1>3, <1>5, <1>7 DEF RequestInv

\* What the two reads of the loop variable find: the id of one event and the
\* transaction of that or a later one (AddCrossTxs).
LEMMA CapturedFacts ==
  ASSUME RequestInv, NEW w \in spawned, NEW ev \in Captured(w)
  PROVE  ev \in Event /\ Paid(ev.id, ev.txID) /\ Kept(ev.id)
<1>1. w[1] \in 1..Len(chain) /\ w[2] \in 1..Len(chain[w[1]])
  BY DEF RequestInv, SpawnedInChain
<1>2. chain[w[1]] \in Seq(Event) /\ chain \in Seq(Seq(Event))
  BY <1>1, ChainFacts DEF RequestInv, OutTypeOK
<1> DEFINE block == chain[w[1]]
<1>3. PICK i \in w[2]..Len(block) : \E j \in i..Len(block) :
        ev = [id |-> block[i].id, txID |-> block[j].txID]
  BY DEF Captured
<1> PICK j \in i..Len(block) : ev = [id |-> block[i].id, txID |-> block[j].txID]
  BY <1>3
<1>4. i \in 1..Len(block) /\ j \in 1..Len(block)
  BY <1>1, <1>2, <1>3
<1>5. block[i] \in Event /\ block[j] \in Event /\ EventOK(block[i]) /\ EventOK(block[j])
  BY <1>1, <1>4, ChainFacts DEF RequestInv, EventsBacked
<1>6. ev \in Event /\ ev.id = block[i].id /\ ev.txID = block[j].txID
  BY <1>3, <1>5 DEF Event
<1>7. /\ ev.txID[1] = block[j].id /\ block[j].id \in Reqs
      /\ ev.txID[2] \in 1..transfers[ev.txID[1]]
  BY <1>5, <1>6 DEF EventOK, Event
<1>8. transfers[ev.id] > 0
  <2>1. block[i].txID[2] \in 1..transfers[ev.id] /\ transfers[ev.id] \in Nat
    BY <1>5, <1>6 DEF EventOK, Event, RequestInv, OutTypeOK
  <2> QED BY <2>1
<1>9. ASSUME ev.txID[1] # ev.id
      PROVE  \E b \in DOMAIN chain : \E m, n \in DOMAIN chain[b] :
               m < n /\ chain[b][m].id = ev.id /\ chain[b][n].txID = ev.txID
  <2>1. i # j
    BY <1>5, <1>6, <1>9 DEF EventOK
  <2>2. i < j /\ i \in DOMAIN block /\ j \in DOMAIN block /\ w[1] \in DOMAIN chain
    BY <1>1, <1>2, <1>4, <2>1
  <2> QED BY <1>6, <2>2
<1>10. Paid(ev.id, ev.txID)
  BY <1>7, <1>8, <1>9 DEF Paid
<1> QED BY <1>5, <1>6, <1>10 DEF EventOK

\* A response goroutine reads the record of its request.
LEMMA RespReadInv == \A w \in spawned : RequestInv /\ RespRead(w) => RequestInv'
<1> SUFFICES ASSUME NEW w \in spawned, RequestInv, RespRead(w) PROVE RequestInv'
  OBVIOUS
<1>1. PICK ev \in Captured(w) :
        responding' = responding \cup {[at |-> w, ev |-> ev, known |-> record[ev.id]]}
  BY DEF RespRead
<1>2. ev \in Event /\ Paid(ev.id, ev.txID) /\ Kept(ev.id)
  BY CapturedFacts
<1> DEFINE r == [at |-> w, ev |-> ev, known |-> record[ev.id]]
<1>3. r \in Goroutine
  BY <1>2 DEF RequestInv, OutTypeOK, Goroutine, Event
<1>4. OutTypeOK'
  BY <1>1, <1>3 DEF RequestInv, OutTypeOK, RespRead, ledger, sync, request, life, failed
<1>5. Growing
  BY StillGrowing DEF RequestInv, RespRead, ledger, failed
<1>6. ResponderOK(r)
  BY <1>2 DEF ResponderOK, Kept
<1>7. RespondersBacked'
  BY <1>1, <1>6 DEF RequestInv, RespondersBacked, ResponderOK, Paid, Elsewhere, RespRead, ledger, failed
<1>8. EventsBacked' /\ RequestsStored' /\ SpawnedInChain' /\ AnswersPaid' /\ AnswersComplete'
  BY <1>5, GrowingKeeps DEF RespRead, ledger, request
<1> QED BY <1>4, <1>7, <1>8 DEF RequestInv

\* It writes the record back with the hash of the transfer.
LEMMA RespWriteInv ==
  \A r \in responding : RequestInv /\ RespWrite(r) => RequestInv'
<1> SUFFICES ASSUME NEW r \in responding, RequestInv, RespWrite(r) PROVE RequestInv'
  OBVIOUS
<1>1. r \in Goroutine /\ r.ev.id \in Reqs /\ r.known \in BOOLEAN
  BY DEF RequestInv, OutTypeOK, Goroutine, Event
<1>2. record \in [Reqs -> BOOLEAN] /\ faults \in Nat /\ dbFaults \in Nat
  BY DEF RequestInv, OutTypeOK
<1>3. \/ record' = [record EXCEPT ![r.ev.id] = r.known] /\ faults' = faults /\ dbFaults' = dbFaults
      \/ faults' = faults + 1 /\ dbFaults' = dbFaults + 1 /\ record' = record
  BY DEF RespWrite, failed
<1>4. /\ record' \in [Reqs -> BOOLEAN] /\ faults' \in Nat /\ dbFaults' \in Nat
      /\ dbFaults' = 0 => dbFaults = 0 /\ record' = [record EXCEPT ![r.ev.id] = r.known]
  BY <1>1, <1>2, <1>3
<1>5. OutTypeOK'
  BY <1>4 DEF RequestInv, OutTypeOK, RespWrite, ledger, sync, request, life
<1>6. Growing
  <2>1. transfers \in [Reqs -> Nat] /\ \A x \in Reqs : transfers[x] >= transfers[x]
    BY DEF RequestInv, OutTypeOK
  <2>2. \A x \in Reqs : Elsewhere(x) <=> Elsewhere(x)'
    BY DEF RespWrite, ledger, Elsewhere
  <2>3. ASSUME NEW x \in Reqs, Kept(x), dbFaults' = 0, ~Elsewhere(x)'
        PROVE  record'[x]
    <3>1. record[x] /\ dbFaults = 0 /\ ~Elsewhere(x)
      BY <1>4, <2>2, <2>3 DEF Kept
    <3>2. x = r.ev.id => r.known
      BY <3>1 DEF RequestInv, RespondersBacked, ResponderOK
    <3> QED BY <1>1, <1>2, <1>4, <2>3, <3>1, <3>2
  <2> QED BY <1>4, <2>1, <2>2, <2>3 DEF Growing, Kept, RespWrite, ledger
<1>7. EventsBacked' /\ RequestsStored' /\ SpawnedInChain' /\ RespondersBacked'
      /\ AnswersPaid' /\ AnswersComplete'
  BY <1>6, GrowingKeeps DEF RespWrite, ledger, request
<1> QED BY <1>5, <1>7 DEF RequestInv

\* It sends the response to the hub.
LEMMA RespSendInv == \A r \in answering : RequestInv /\ RespSend(r) => RequestInv'
<1> SUFFICES ASSUME NEW r \in answering, RequestInv, RespSend(r) PROVE RequestInv'
  OBVIOUS
<1> DEFINE a == [id |-> r.ev.id, known |-> r.known, hash |-> r.ev.txID]
<1>1. r \in Goroutine /\ a \in Response
  BY DEF RequestInv, OutTypeOK, Goroutine, Event, Response
<1>2. answers' = answers \cup {a} \/ answers' = answers
  BY DEF RespSend
<1>3. UNCHANGED dbFaults /\ faults' \in Nat
  BY DEF RequestInv, OutTypeOK, RespSend, failed
<1>4. OutTypeOK'
  BY <1>1, <1>2, <1>3 DEF RequestInv, OutTypeOK, RespSend, ledger, sync, request, life
<1>5. Paid(a.id, a.hash) /\ (dbFaults = 0 => a.known \/ Elsewhere(a.id))
  BY DEF RequestInv, RespondersBacked, ResponderOK
<1>6. AnswersPaid' /\ AnswersComplete'
  BY <1>2, <1>3, <1>5 DEF RequestInv, AnswersPaid, AnswersComplete, Paid, Elsewhere, RespSend, ledger
<1>7. Growing
  BY <1>3, StillGrowing DEF RequestInv, RespSend, ledger
<1>8. EventsBacked' /\ RequestsStored' /\ SpawnedInChain' /\ RespondersBacked'
  BY <1>7, GrowingKeeps DEF RespSend, ledger, request
<1> QED BY <1>4, <1>6, <1>8 DEF RequestInv

\* A dead process has no goroutines, and a new one starts with none.
LEMMA RequestCrashInv == RequestInv /\ (Crash \/ Restart) => RequestInv'
<1> SUFFICES ASSUME RequestInv, Crash \/ Restart PROVE RequestInv'
  OBVIOUS
<1>1. Empty \in [Reqs -> Nat] /\ \A o \in Reqs : ~(Empty[o] > 0)
  BY DEF Empty
<1>2. Growing
  BY StillGrowing DEF RequestInv, Crash, Restart, ledger, failed
<1>3. CASE Crash
  <2>1. OutTypeOK'
    BY <1>1, <1>3 DEF RequestInv, OutTypeOK, Crash, ledger, sync, failed
  <2>2. EventsBacked' /\ RequestsStored' /\ SpawnedInChain' /\ RespondersBacked'
        /\ AnswersPaid' /\ AnswersComplete'
    BY <1>1, <1>2, <1>3, GrowingKeeps DEF Crash, ledger
  <2> QED BY <2>1, <2>2 DEF RequestInv
<1>4. CASE Restart
  <2>1. OutTypeOK'
    BY <1>4 DEF RequestInv, OutTypeOK, Restart, ledger, request, respond, failed
  <2>2. EventsBacked' /\ RequestsStored' /\ SpawnedInChain' /\ RespondersBacked'
        /\ AnswersPaid' /\ AnswersComplete'
    BY <1>2, <1>4, GrowingKeeps DEF Restart, ledger, request, respond
  <2> QED BY <2>1, <2>2 DEF RequestInv
<1> QED BY <1>3, <1>4

\* Every step keeps the invariant.
LEMMA NextRequestInv == RequestInv /\ [OutNext]_outVars => RequestInv'
<1> SUFFICES ASSUME RequestInv, [OutNext]_outVars PROVE RequestInv'
  OBVIOUS
<1>1. CASE OutNext
  BY <1>1, CutBlockInv, ReceiveInv, StoreRequestInv, InvokeInv, CommitElsewhereInv, RequestPersistInv,
     HandOverInv, RespReadInv, RespWriteInv, RespSendInv, RequestCrashInv DEF OutNext
<1>2. CASE UNCHANGED outVars
  <2>1. OutTypeOK'
    BY <1>2 DEF RequestInv, OutTypeOK, outVars, ledger, sync, request, respond, life, failed
  <2>2. Growing
    BY <1>2, StillGrowing DEF RequestInv, outVars, ledger, failed
  <2> QED BY <1>2, <2>1, <2>2, GrowingKeeps DEF RequestInv, outVars, ledger, request, respond
<1> QED BY <1>1, <1>2

\* RequestInv holds in every reachable state of the request path.
THEOREM RequestInvHolds == OutSpec => []RequestInv
<1>1. OutInit => RequestInv
  BY InitRequestInv
<1>2. RequestInv /\ [OutNext]_outVars => RequestInv'
  BY NextRequestInv
<1> QED BY <1>1, <1>2, PTL DEF OutSpec

\* The variables of the request path keep their types.
THEOREM RequestTypeCorrect == OutSpec => []OutTypeOK
<1>1. RequestInv => OutTypeOK
  BY DEF RequestInv
<1> QED BY <1>1, RequestInvHolds, PTL

\* processOutChainCtxResp answers only for a request that was paid, with its own
\* transfer or, if the loop variable moved on between the two reads, with that of
\* a later event of a block that has the request's.
THEOREM EveryAnswerPaid == OutSpec => []AnswersPaid
<1>1. RequestInv => AnswersPaid
  BY DEF RequestInv
<1> QED BY <1>1, RequestInvHolds, PTL

\* While the store works, an answer is made from a blank receipt only for a
\* request that somebody else committed, because processOutChainCtxReq stores
\* before it invokes.
THEOREM EveryAnswerComplete == OutSpec => []AnswersComplete
<1>1. RequestInv => AnswersComplete
  BY DEF RequestInv
<1> QED BY <1>1, RequestInvHolds, PTL

=============================================================================
