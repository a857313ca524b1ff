------------------------------ MODULE CrossDemo ------------------------------
(***************************************************************************)
(* The SimpleChain contract contract/crossdemo/crossdemo.sol for one       *)
(* foreign chain: maker orders of SimpleChain, paid out when enough        *)
(* anchors have finished them, and orders of the foreign chain, taken when *)
(* enough anchors have signed them.                                        *)
(*                                                                         *)
(* Each action is one transaction.  Anchors are honest: what they report   *)
(* of a foreign transaction, its hash and the taker named in it, belongs   *)
(* together.  Strings and payloads are left out, and of the receipt's      *)
(* fields the two that the contract compares with the order are kept.      *)
(***************************************************************************)
EXTENDS AnchorRegistry, FiniteSetsExt, Functions

CONSTANTS
  Users,        \* makers and takers
  Anyone,       \* an order for any taker
  Orders,       \* ids of maker orders: sender, nonce and chain make them fresh
  Hashes,       \* foreign transactions that may answer an order
  NoHash,       \* takerHash before the first signature
  TakerOf,      \* the taker named in each foreign transaction
  Foreign,      \* the orders of the foreign chain, by id
  Counts, Batches, Values, Rewards,  \* arguments of the transactions
  Attached,     \* wei an anchor may send along when it finishes an order
  Signatures,   \* signature lists presented with an order
  MaxOwnerOps,  \* bound on owner transactions after the registration
  MaxStray      \* bound on what the anchors send along in all

ASSUME CrossDemoAssumption ==
  /\ NoHash \notin Hashes /\ Anyone \notin Users
  /\ IsFiniteSet(Orders) /\ TakerOf \in [Hashes -> Users]
  /\ \A c \in DOMAIN Foreign :
       Foreign[c] \in [from : Users, to : Users \cup {Anyone}, value : Nat]
  /\ Counts \subseteq 0..255 /\ Batches \subseteq Seq(Addrs)
  /\ Values \subseteq Nat /\ Rewards \subseteq Nat /\ Attached \subseteq Nat
  /\ Signatures \subseteq Seq(Addrs)
  /\ MaxOwnerOps \in Nat /\ MaxStray \in Nat

VARIABLES
  maxValue, reward, totalReward,
  balance,    \* wei the contract holds
  maker,      \* makerTxs
  signed,     \* makerTxs[id].signatures, which a delete leaves in place
  takerTx,    \* takerTxs: the value and whether there is an entry
  asked,      \* history: who made each order, and for whom
  reports,    \* history: which anchor reported which transaction of an order
  paid,       \* history: orders paid out, for which transaction, and the count
  takes,      \* history: who had signed when an order was taken, and the count
  stray,      \* history: wei that came in with makerFinish and belongs to no order
  ownerOps

funds   == <<maxValue, reward, totalReward>>
order   == <<maker, signed>>
history == <<asked, reports, paid, takes, stray>>
vars    == <<registry, funds, balance, order, takerTx, history, ownerOps>>

Maker   == [value : Nat, count : 0..255, to : Users \cup {Anyone}, hash : Hashes \cup {NoHash}]
NoMaker == [value |-> 0, count |-> 0, to |-> Anyone, hash |-> NoHash]
Asked    == [from : Users \cup {Anyone}, to : Users \cup {Anyone}]
NotAsked == [from |-> Anyone, to |-> Anyone]

Owner == ownerOps < MaxOwnerOps /\ ownerOps' = ownerOps + 1

-----------------------------------------------------------------------------
(* Owner transactions. *)

\* cmd/register
Register(batch, count, max) ==
  /\ ChainRegister(batch, count)
  /\ maxValue' = max /\ reward' = 0 /\ totalReward' = 0
  /\ UNCHANGED <<balance, order, takerTx, history, ownerOps>>

\* cmd/add, cmd/remove
AddAnchors(a) ==
  /\ Owner /\ AddAnchor(a)
  /\ UNCHANGED <<funds, balance, order, takerTx, history>>
RemoveAnchors(a) ==
  /\ Owner /\ RemoveAnchor(a)
  /\ UNCHANGED <<funds, balance, order, takerTx, history>>

ChangeStatus(a, status) ==
  /\ Owner /\ SetAnchorStatus(a, status)
  /\ UNCHANGED <<funds, balance, order, takerTx, history>>

ChangeCount(count) ==
  /\ Owner /\ SetSignConfirmCount(count)
  /\ UNCHANGED <<funds, balance, order, takerTx, history>>

SetReward(r) ==
  /\ Owner
  /\ reward' = r
  /\ UNCHANGED <<registry, maxValue, totalReward, balance, order, takerTx, history>>

SetMaxValue(max) ==
  /\ Owner /\ registered /\ max # 0 /\ max > reward
  /\ maxValue' = max
  /\ UNCHANGED <<registry, reward, totalReward, balance, order, takerTx, history>>

AccumulateRewards(a, r) ==
  /\ Owner /\ registered
  /\ r <= totalReward /\ anchor[a].is
  /\ totalReward' = totalReward - r
  /\ balance' = balance - r
  /\ UNCHANGED <<registry, maxValue, reward, order, takerTx, history>>

-----------------------------------------------------------------------------
(* Maker orders. *)

\* makerStart with value wei: the reward stays in the contract.
MakerStart_Gross(o, value, from, to) ==
  /\ registered /\ value < maxValue /\ value >= reward
  /\ asked[o] = NotAsked /\ maker[o].value = 0
  /\ maker' = [maker EXCEPT ![o] = [NoMaker EXCEPT !.value = value, !.to = to]]
  /\ totalReward' = totalReward + reward
  /\ balance' = balance + value
  /\ asked' = [asked EXCEPT ![o] = [from |-> from, to |-> to]]
  /\ UNCHANGED <<registry, maxValue, reward, signed, takerTx, reports, paid, takes, stray, ownerOps>>
MakerStart(o, value, from, to) ==
  /\ registered /\ value < maxValue /\ value >= reward
  /\ asked[o] = NotAsked /\ maker[o].value = 0
  /\ maker' = [maker EXCEPT ![o] = [NoMaker EXCEPT !.value = value - reward, !.to = to]]
  /\ totalReward' = totalReward + reward
  /\ balance' = balance + value
  /\ asked' = [asked EXCEPT ![o] = [from |-> from, to |-> to]]
  /\ UNCHANGED <<registry, maxValue, reward, signed, takerTx, reports, paid, takes, stray, ownerOps>>

\* The taker of a receipt: the one the order names, or the maker himself.
ToFits(o, taker) == maker[o].to \in {Anyone, taker} \/ asked[o].from = taker

HashFits_Any(o, h) == TRUE
HashFits(o, h) == maker[o].hash \in {NoHash, h}

SignedOnce_Never(o, a) == TRUE
SignedOnce(o, a) == a \notin signed[o]

Pay_Keep(o, h, count, wei) ==
  /\ balance' = balance + wei - maker[o].value
  /\ maker' = [maker EXCEPT ![o].count = count, ![o].hash = h, ![o].to = TakerOf[h]]
Pay(o, h, count, wei) ==
  /\ balance' = balance + wei - maker[o].value
  /\ maker' = [maker EXCEPT ![o] = NoMaker]

\* makerFinish by anchor a.  The function is payable: the wei that come with it
\* stay in the contract and no order or reward is credited with them.
MakerFinish(a, o, h, wei) ==
  /\ Active(a)
  /\ SignedOnce(o, a)
  /\ maker[o].value > 0
  /\ ToFits(o, TakerOf[h])
  /\ HashFits(o, h)
  /\ signed' = [signed EXCEPT ![o] = @ \cup {a}]
  /\ reports' = reports \cup {<<a, o, h>>}
  /\ LET count == (maker[o].count + 1) % 256
     IN \/ /\ count >= need
           /\ Pay(o, h, count, wei)
           /\ paid' = Append(paid, [id |-> o, hash |-> h, need |-> need])
        \/ /\ count < need
           /\ maker' = [maker EXCEPT ![o].count = count, ![o].hash = h, ![o].to = TakerOf[h]]
           /\ balance' = balance + wei /\ UNCHANGED paid
  /\ stray + wei <= MaxStray /\ stray' = stray + wei
  /\ UNCHANGED <<registry, funds, takerTx, asked, takes, ownerOps>>

-----------------------------------------------------------------------------
(* Orders of the foreign chain. *)

\* the signers of a list that verifySignAndCount or its owner variant accepts
Accepted(own, signatures) ==
  {a \in Range(signatures) : IF own THEN anchor[a].is \/ removed[a].is ELSE Active(a)}

\* taker: the sender takes order c, with the signatures of the hub.  The value
\* of the transaction goes to the maker of c and leaves the balance alone.  An
\* id of the foreign chain always comes with the same maker.
Taker(sender, c, signatures) ==
  /\ Foreign[c].to \in {Anyone, sender} \/ Foreign[c].from = sender
  /\ takerTx[c] = 0
  /\ LET own == sender = Foreign[c].from
     IN /\ (IF own THEN OwnerSignCount(signatures) ELSE SignCount(signatures)) >= need
        /\ takes' = [takes EXCEPT ![c] = [need |-> need, by |-> Accepted(own, signatures)]]
  /\ takerTx' = [takerTx EXCEPT ![c] = Foreign[c].value]
  /\ UNCHANGED <<registry, funds, balance, order, asked, reports, paid, stray, ownerOps>>

Init ==
  /\ RegistryInit
  /\ maxValue = 0 /\ reward = 0 /\ totalReward = 0 /\ balance = 0
  /\ maker = [o \in Orders |-> NoMaker] /\ signed = [o \in Orders |-> {}]
  /\ takerTx = [c \in DOMAIN Foreign |-> 0]
  /\ asked = [o \in Orders |-> NotAsked]
  /\ reports = {} /\ paid = << >> /\ stray = 0
  /\ takes = [c \in DOMAIN Foreign |-> [need |-> 0, by |-> {}]]
  /\ ownerOps = 0

Next ==
  \/ \E batch \in Batches, count \in Counts, max \in Values : Register(batch, count, max)
  \/ \E a \in Addrs :
       AddAnchors(a) \/ RemoveAnchors(a) \/ \E s \in BOOLEAN : ChangeStatus(a, s)
  \/ \E count \in Counts : ChangeCount(count)
  \/ \E r \in Rewards : SetReward(r)
  \/ \E max \in Values : SetMaxValue(max)
  \/ \E a \in Addrs, r \in Rewards : AccumulateRewards(a, r)
  \/ \E o \in Orders, v \in Values, from \in Users, to \in Users \cup {Anyone} :
       MakerStart(o, v, from, to)
  \/ \E a \in Addrs, o \in Orders, h \in Hashes, wei \in Attached : MakerFinish(a, o, h, wei)
  \/ \E sender \in Users, c \in DOMAIN Foreign, s \in Signatures : Taker(sender, c, s)

Spec == Init /\ [][Next]_vars

-----------------------------------------------------------------------------
(* Properties. *)

Payment == [id : Orders, hash : Hashes, need : 0..255]

TypeOK ==
  /\ RegistryTypeOK
  /\ maxValue \in Nat /\ reward \in Nat /\ totalReward \in Nat /\ balance \in Nat
  /\ maker \in [Orders -> Maker] /\ signed \in [Orders -> SUBSET Addrs]
  /\ takerTx \in [DOMAIN Foreign -> Nat]
  /\ asked \in [Orders -> Asked]
  /\ reports \subseteq Addrs \X Orders \X Hashes /\ paid \in Seq(Payment)
  /\ takes \in [DOMAIN Foreign -> [need : 0..255, by : SUBSET Addrs]]
  /\ stray \in Nat /\ ownerOps \in Nat

\* While an order is open its signatureCount is the number of different anchors
\* that reported the pinned transaction (makerFinish), whatever becomes of them
\* as anchors meanwhile.
SignaturesCounted ==
  \A o \in Orders : maker[o].value > 0 =>
    /\ maker[o].count = Cardinality(signed[o])
    /\ \A a \in signed[o] : <<a, o, maker[o].hash>> \in reports

\* An order is paid out for a transaction only when as many different anchors as
\* were asked for at that moment have reported that very transaction.
PaidByQuorum ==
  \A i \in DOMAIN paid :
    Cardinality({a \in Addrs : <<a, paid[i].id, paid[i].hash>> \in reports}) >= paid[i].need

\* An order is paid out once, although the signatures outlive it and anchors
\* report it again.
PaidOnce == \A i, j \in DOMAIN paid : paid[i].id = paid[j].id => i = j

\* what the open orders come to
Worth(txs) == MapThenSumSet(LAMBDA o : txs[o].value, Orders)

\* The contract holds what its open orders and the anchors' rewards come to, and
\* beyond that only what anchors sent along with makerFinish, which no
\* transaction pays out again: no transfer fails, however reward, orders and
\* such payments interleave, and no wei is created or lost.
Solvent == balance = totalReward + Worth(maker) + stray

\* An order of the foreign chain is taken only with the signatures of as many
\* different anchors as the contract asks for (verifySignAndCount counts
\* positions, verifyOwnerSignAndCount adds two counts).
TakenByQuorum == \A c \in DOMAIN Foreign : Cardinality(takes[c].by) >= takes[c].need
=============================================================================
