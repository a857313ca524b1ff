----------------------------- MODULE OrderBook -----------------------------
(***************************************************************************)
(* What a store of orders promises: a table of orders by id.  A request is *)
(* carried out on its orders at once or refused, requests are handled one  *)
(* at a time, and a listing is the table of that moment or nothing.  A     *)
(* request to add or to delete may miss orders: they stay as they were,    *)
(* and the caller is not told.                                             *)
(***************************************************************************)
CONSTANTS Ids, Versions, Kinds, None

VARIABLES
  orders,   \* the order under each id, None where there is none
  request,  \* the request in hand, None if there is none
  missed,   \* the orders of the request in hand that could not be found
  listing   \* the last listing given

book == <<orders, request, missed, listing>>

Request == [kind : Kinds, version : Versions \cup {None}, ids : SUBSET Ids]

\* The table after a request: "add" keeps what is there, "updates" is for orders
\* that are there, "deletes" ignores orders that are not.
Allowed(r) == r.kind = "updates" => \A id \in r.ids : orders[id] # None
Outcome(r) ==
  [id \in Ids |->
     IF id \notin r.ids \ missed \/ (r.kind = "add" /\ orders[id] # None) THEN orders[id]
     ELSE IF r.kind = "deletes" THEN None ELSE r.version]

Nothing == [id \in Ids |-> None]

Init == orders = Nothing /\ request = None /\ missed = {} /\ listing = None

Ask(r) == request = None /\ request' = r /\ UNCHANGED <<orders, missed, listing>>
Miss(id) ==
  /\ request # None /\ request.kind \in {"add", "deletes"} /\ id \in request.ids
  /\ missed' = missed \cup {id} /\ UNCHANGED <<orders, request, listing>>
Apply ==
  /\ request # None /\ Allowed(request)
  /\ orders' = Outcome(request) /\ request' = None /\ missed' = {} /\ UNCHANGED listing
Refuse == request # None /\ request' = None /\ missed' = {} /\ UNCHANGED <<orders, listing>>
List == listing' \in {orders, Nothing} /\ UNCHANGED <<orders, request, missed>>

Next ==
  \/ \E r \in Request : Ask(r)
  \/ \E id \in Ids : Miss(id)
  \/ Apply \/ Refuse \/ List

Spec == Init /\ [][Next]_book

=============================================================================
