--------------------------- MODULE AnchorRegistry ---------------------------
(***************************************************************************)
(* The anchors of one foreign chain in contract/crossdemo/crossdemo.sol:   *)
(* the list anchorAddress, the mapping anchors, the ring of removed        *)
(* anchors, and signConfirmCount.  Each action is the whole effect of a    *)
(* transaction of the owner on these; a transaction that reverts is no     *)
(* step.  addAnchors and removeAnchors take one address here: a batch is   *)
(* the composition of its elements and reverts with any of them.           *)
(* Positions are counted from 0, as in the contract.                       *)
(***************************************************************************)
EXTENDS Integers, Sequences, FiniteSets, SequencesExt

CONSTANTS
  Addrs,       \* addresses the owner may name
  MaxAnchors,  \* 64 in the contract: length of anchorAddress
  RingCap      \* 64 in the contract: length of delsAddress

ASSUME AnchorRegistryAssumption ==
  /\ IsFiniteSet(Addrs)
  /\ MaxAnchors \in 1..64
  /\ RingCap \in 1..64

VARIABLES
  registered,  \* crossChains[purpose].purpose > 0
  need,        \* signConfirmCount
  list,        \* anchorAddress
  anchor,      \* anchors: is it one (purpose > 0), its position, its status
  dels,        \* delsAddress
  removed,     \* delAnchors: is it one, and its position
  delId

anchors == <<list, anchor>>
ring    == <<dels, removed, delId>>
registry == <<registered, need, anchors, ring>>

Anchor   == [is : BOOLEAN, position : 0..63, status : BOOLEAN]
NoAnchor == [is |-> FALSE, position |-> 0, status |-> FALSE]
Removed   == [is : BOOLEAN, position : 0..63]
NotRemoved == [is |-> FALSE, position |-> 0]

NewAnchor(position) == [is |-> TRUE, position |-> position, status |-> TRUE]

Active(a) == anchor[a].is /\ anchor[a].status

-----------------------------------------------------------------------------
(* Owner transactions. *)

RegistryInit ==
  /\ registered = FALSE /\ need = 0
  /\ list = << >> /\ anchor = [a \in Addrs |-> NoAnchor]
  /\ dels = << >> /\ removed = [a \in Addrs |-> NotRemoved] /\ delId = 0

\* signConfirmCount is taken as it is, be it 0 or more than there are anchors.
ChainRegister(batch, count) ==
  /\ ~registered /\ registered' = TRUE
  /\ Len(batch) <= MaxAnchors /\ IsInjective(batch)
  /\ need' = count
  /\ list' = batch
  /\ anchor' = [a \in Addrs |->
       IF a \in Range(batch)
       THEN NewAnchor((CHOOSE i \in DOMAIN batch : batch[i] = a) - 1)
       ELSE anchor[a]]
  /\ UNCHANGED ring

AddAnchor_Head(a) ==
  /\ registered
  /\ Len(list) + 1 <= MaxAnchors
  /\ ~anchor[a].is /\ ~removed[a].is
  /\ anchor' = [anchor EXCEPT ![a] = NewAnchor(0)]
  /\ list' = Append(list, a)
  /\ UNCHANGED <<registered, need, ring>>
AddAnchor(a) ==
  /\ registered
  /\ Len(list) + 1 <= MaxAnchors
  /\ ~anchor[a].is /\ ~removed[a].is
  /\ anchor' = [anchor EXCEPT ![a] = NewAnchor(Len(list))]
  /\ list' = Append(list, a)
  /\ UNCHANGED <<registered, need, ring>>

\* deleteAnchor: into the ring, over the oldest entry once the ring is full.
Bury(a) ==
  /\ ~removed[a].is
  /\ IF Len(dels) < RingCap
     THEN /\ dels' = Append(dels, a)
          /\ removed' = [removed EXCEPT ![a] = [is |-> TRUE, position |-> Len(dels)]]
          /\ UNCHANGED delId
     ELSE /\ dels' = [dels EXCEPT ![delId + 1] = a]
          /\ removed' = [removed EXCEPT ![dels[delId + 1]] = NotRemoved,
                                        ![a] = [is |-> TRUE, position |-> delId]]
          /\ delId' = (delId + 1) % RingCap

\* The address must not be an anchor; its position is then 0, so the first
\* anchor of the list makes room.  The difference of the uint256 length and the
\* count wraps around below 0.
RemoveAnchor(a) ==
  /\ registered /\ list # << >>
  /\ Len(list) - need # 0
  /\ ~anchor[a].is
  /\ LET at    == anchor[a].position + 1
         moved == list[Len(list)]
     IN IF at < Len(list)
        THEN /\ list' = Front([list EXCEPT ![at] = moved])
             /\ anchor' = [anchor EXCEPT ![moved].position = at - 1, ![a] = NoAnchor]
        ELSE /\ list' = Front(list)
             /\ anchor' = [anchor EXCEPT ![a] = NoAnchor]
  /\ Bury(a)
  /\ UNCHANGED <<registered, need>>

ActiveListed == {i \in DOMAIN list : anchor[list[i]].status}

SetAnchorStatus(a, status) ==
  /\ ~status => Cardinality(ActiveListed) > need
  /\ anchor' = [anchor EXCEPT ![a].status = status]
  /\ UNCHANGED <<registered, need, list, ring>>

SetSignConfirmCount(count) ==
  /\ registered
  /\ count \in 1..Len(list)
  /\ need' = count
  /\ UNCHANGED <<registered, anchors, ring>>

-----------------------------------------------------------------------------
(* Counting signatures. *)

\* The 64-bit population count, which takes a remainder of 63 at the end.
BitCount(bits) == Cardinality(bits) % 63

\* verifySignAndCount: one bit for each position that signed.
SignCount_Listing(signatures) ==
  Cardinality({i \in DOMAIN signatures : Active(signatures[i])})
SignCount(signatures) ==
  BitCount({anchor[a].position : a \in {b \in Range(signatures) : Active(b)}})

\* verifyOwnerSignAndCount: anchors of any status, and removed ones.
OwnerSignCount(signatures) ==
  BitCount({anchor[a].position : a \in {b \in Range(signatures) : anchor[b].is}})
    + BitCount({removed[a].position : a \in {b \in Range(signatures) : removed[b].is}})

-----------------------------------------------------------------------------
(* Properties. *)

RegistryTypeOK ==
  /\ registered \in BOOLEAN /\ need \in 0..255
  /\ list \in Seq(Addrs) /\ Len(list) <= MaxAnchors
  /\ anchor \in [Addrs -> Anchor]
  /\ dels \in Seq(Addrs) /\ Len(dels) <= RingCap
  /\ removed \in [Addrs -> Removed]
  /\ delId \in 0..(RingCap - 1)

\* Lists and mappings tell the same: each entry of anchorAddress is an anchor that
\* knows its place there, so the swap in removeAnchors moves the entry it means to;
\* so does the ring of removed anchors, also after it has gone round; and nobody is
\* removed and an anchor, so verifyOwnerSignAndCount counts no signature twice.
RegistryConsistent ==
  /\ \A i \in DOMAIN list : anchor[list[i]].is /\ anchor[list[i]].position = i - 1
  /\ \A i \in DOMAIN dels : removed[dels[i]] = [is |-> TRUE, position |-> i - 1]
  /\ \A a \in Addrs : removed[a].is => a \in Range(dels) /\ ~anchor[a].is

\* "Remove anchors" (removeAnchors): the address that goes into the ring is the
\* one that leaves the list.
RemovesNamed ==
  [][\A a \in Addrs : ~removed[a].is /\ removed'[a].is
       => a \in Range(list) /\ Range(list') = Range(list) \ {a}]_registry
=============================================================================
