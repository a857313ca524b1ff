----------------------------- MODULE OrderStore -----------------------------
(***************************************************************************)
(* IndexDB (database/indexdb.go): a storm bucket of orders behind a cache. *)
(* The viewer writes and deletes from its loop while the API queries.      *)
(*                                                                         *)
(* A write transaction is exclusive (Begin, one Touch per order, Commit or *)
(* Rollback); the cache is evicted inside the transaction, before the      *)
(* commit.  A cached read (Read, Has, One) is a Lookup, and on a miss a    *)
(* Fetch from the last committed state and a Fill of the cache; Write      *)
(* fills the cache in the same way after its commit.  Query goes to the    *)
(* bucket.  Orders of one id differ in their signature: the versions.      *)
(* Deletes, and Writes that may not replace, pass over an order whose      *)
(* lookup fails, whatever the reason, and commit the others.               *)
(***************************************************************************)
EXTENDS Integers, FiniteSets

CONSTANTS
  Ids,        \* ids of orders, which serve as their transaction hashes too
  Versions,   \* what can be stored under an id
  Procs,      \* goroutines that call the store
  None,       \* nothing stored or cached
  MaxRequests, \* bound on write transactions
  MaxFaults   \* bound on failing storm calls and deaths of the process together

\* Write; Writes with and without replaceable; Updates; Deletes
Kinds == {"write", "replace", "add", "updates", "deletes"}

\* a write transaction as its caller asks for it
Request == [kind : Kinds, version : Versions \cup {None}, ids : SUBSET Ids]

ASSUME OrderStoreAssumption ==
  /\ None \notin Versions /\ None \notin Procs
  /\ None \notin Ids \X Versions /\ None \notin Request
  /\ MaxRequests \in Nat /\ MaxFaults \in Nat

VARIABLES
  db,         \* the committed bucket
  cache,      \* IndexDbCache: a record under each key, None where absent
  owner,      \* who runs the write transaction
  kind,       \* its call (see Kinds)
  version,    \* what it stores
  batch,      \* ids of its orders
  work,       \* ids it still has to handle
  missed,     \* ids it passed over because their lookup failed
  view,       \* the bucket as the transaction sees it
  pc,         \* where each goroutine is in a cached read, or in Write
  key,        \* the key it reads or fills
  got,        \* the record it is about to put in the cache
  listing,    \* the last result of Query
  users,      \* history: goroutines that called anything but Query
  rewritten,  \* history: ids replaced since the cache last lost their hash
  committed,  \* history: every record that was ever committed
  requests, faults

trans   == <<owner, kind, version, batch, work, missed, view>>
reads   == <<pc, key, got>>
history == <<users, committed, requests, faults>>
vars    == <<db, cache, trans, reads, listing, rewritten, history>>

Table  == [Ids -> Versions \cup {None}]
Record == Ids \X Versions
Key    == {"CtxId", "TxHash"} \X Ids
ById(id)   == <<"CtxId", id>>
ByHash(id) == <<"TxHash", id>>

TypeOK ==
  /\ db \in Table /\ view \in Table
  /\ cache \in [Key -> Record \cup {None}]
  /\ owner \in Procs \cup {None} /\ kind \in Kinds
  /\ version \in Versions \cup {None} /\ batch \subseteq Ids /\ work \subseteq batch
  /\ missed \subseteq batch
  /\ pc \in [Procs -> {"idle", "tx", "miss", "fill"}]
  /\ key \in [Procs -> Key \cup {None}] /\ got \in [Procs -> Record \cup {None}]
  /\ listing \in Table \cup {None}
  /\ users \subseteq Procs /\ rewritten \subseteq Ids /\ committed \subseteq Record
  /\ requests \in Nat /\ faults \in Nat

Records(table) == {<<id, table[id]>> : id \in {i \in Ids : table[i] # None}}

Fault == faults < MaxFaults /\ faults' = faults + 1

-----------------------------------------------------------------------------
(* Write transactions. *)

\* A call for the orders of S; Write has one order, and remembers it for the
\* cache.
Begin(p, k, v, S) ==
  /\ owner = None /\ pc[p] = "idle" /\ requests < MaxRequests /\ S # {}
  /\ requests' = requests + 1
  /\ owner' = p /\ kind' = k /\ version' = v /\ batch' = S /\ work' = S /\ missed' = {}
  /\ view' = db
  /\ pc' = [pc EXCEPT ![p] = "tx"]
  /\ IF k = "write"
     THEN \E id \in Ids : /\ S = {id}
                          /\ key' = [key EXCEPT ![p] = ById(id)]
                          /\ got' = [got EXCEPT ![p] = <<id, v>>]
     ELSE UNCHANGED <<key, got>>
  /\ users' = users \cup {p}
  /\ UNCHANGED <<db, cache, listing, rewritten, committed, faults>>

Write(p, id, v) == Begin(p, "write", v, {id})
Writes(p, S, v, replaceable) == Begin(p, IF replaceable THEN "replace" ELSE "add", v, S)
Updates(p, S, v) == Begin(p, "updates", v, S)
Deletes(p, S)    == Begin(p, "deletes", None, S)

Writing == kind \in {"write", "replace", "add"}

\* What a handled order loses in the cache.  Writes names the transaction hash
\* under the field CtxId, where nothing is: the record cached by hash stays.
Evicted_Nothing(id) == {}
Evicted(id) == IF Writing THEN {ById(id)} ELSE {ById(id), ByHash(id)}

\* the lookup of an order that these calls ignore the failure of
MayMiss == kind \in {"add", "deletes"}
Skipped(id) ==
  \/ kind = "add" /\ view[id] # None
  \/ kind = "deletes" /\ view[id] = None
Missing(id) == kind = "updates" /\ view[id] = None

\* one round of the loop over the orders
Touch_EarlyFill(id) ==
  /\ owner # None /\ id \in work /\ ~Missing(id)
  /\ work' = work \ {id}
  /\ view' = [view EXCEPT ![id] = IF kind = "deletes" THEN None ELSE version]
  /\ cache' = [cache EXCEPT ![ById(id)] = IF kind = "deletes" THEN None ELSE <<id, version>>]
  /\ UNCHANGED <<db, owner, kind, version, batch, missed, reads, listing, rewritten, history>>
Touch(id) ==
  /\ owner # None /\ id \in work
  /\ work' = work \ {id}
  /\ \/ /\ MayMiss /\ Fault
        /\ missed' = missed \cup {id} /\ UNCHANGED <<view, cache, rewritten>>
     \/ Skipped(id) /\ UNCHANGED <<view, cache, rewritten, missed, faults>>
     \/ /\ ~Skipped(id) /\ ~Missing(id)
        /\ view' = [view EXCEPT ![id] = IF kind = "deletes" THEN None ELSE version]
        /\ cache' = [k \in Key |-> IF k \in Evicted(id) THEN None ELSE cache[k]]
        /\ rewritten' = IF Writing THEN rewritten \cup {id} ELSE rewritten \ {id}
        /\ UNCHANGED <<missed, faults>>
  /\ UNCHANGED <<db, owner, kind, version, batch, reads, listing, users, committed, requests>>

Closed == owner' = None /\ kind' = "write" /\ version' = None /\ batch' = {} /\ work' = {}
          /\ missed' = {} /\ view' = [id \in Ids |-> None]
Returns(p) ==
  /\ pc' = [pc EXCEPT ![p] = "idle"]
  /\ key' = [key EXCEPT ![p] = None] /\ got' = [got EXCEPT ![p] = None]

\* Write goes on to cache what it wrote.
Commit(p) ==
  /\ owner = p /\ work = {}
  /\ db' = view /\ committed' = committed \cup Records(view)
  /\ Closed
  /\ IF kind = "write" THEN pc' = [pc EXCEPT ![p] = "fill"] /\ UNCHANGED <<key, got>>
                       ELSE Returns(p)
  /\ UNCHANGED <<cache, listing, rewritten, users, requests, faults>>

\* storm fails, or an update meets an order that is not there
Rollback_KeepsFirst(p) ==
  /\ owner = p
  /\ \/ (\E id \in work : Missing(id)) /\ UNCHANGED faults
     \/ Fault
  /\ db' = view /\ Closed /\ Returns(p)
  /\ UNCHANGED <<cache, listing, rewritten, users, committed, requests>>
Rollback(p) ==
  /\ owner = p
  /\ \/ (\E id \in work : Missing(id)) /\ UNCHANGED faults
     \/ Fault
  /\ Closed /\ Returns(p)
  /\ UNCHANGED <<db, cache, listing, rewritten, users, committed, requests>>

-----------------------------------------------------------------------------
(* Reads. *)

\* first the cache
Lookup(p, k) ==
  /\ pc[p] = "idle"
  /\ users' = users \cup {p}
  /\ IF cache[k] # None
     THEN UNCHANGED reads
     ELSE /\ pc' = [pc EXCEPT ![p] = "miss"] /\ key' = [key EXCEPT ![p] = k]
          /\ UNCHANGED got
  /\ UNCHANGED <<db, cache, trans, listing, rewritten, committed, requests, faults>>

\* Read and Has, by id
Get(p, id) == Lookup(p, ById(id))
\* by the value of an indexed field
One(p, id) == Lookup(p, ByHash(id))

\* then the last committed bucket; nothing there, or a failure, is not cached
Fetch(p) ==
  /\ pc[p] = "miss"
  /\ LET id == key[p][2]
     IN \/ db[id] = None /\ Returns(p) /\ UNCHANGED faults
        \/ /\ db[id] # None
           /\ got' = [got EXCEPT ![p] = <<id, db[id]>>]
           /\ pc' = [pc EXCEPT ![p] = "fill"] /\ UNCHANGED <<key, faults>>
        \/ Fault /\ Returns(p)
  /\ UNCHANGED <<db, cache, trans, listing, rewritten, users, committed, requests>>

Fill(p) ==
  /\ pc[p] = "fill"
  /\ cache' = [cache EXCEPT ![key[p]] = got[p]]
  /\ rewritten' = IF key[p] = ByHash(got[p][1]) THEN rewritten \ {got[p][1]} ELSE rewritten
  /\ Returns(p)
  /\ UNCHANGED <<db, trans, listing, history>>

\* Query selects from the last committed bucket; a failure is ignored and gives
\* an empty result.
Query(p) ==
  /\ pc[p] = "idle"
  /\ \/ listing' = db /\ UNCHANGED faults
     \/ listing' = [id \in Ids |-> None] /\ Fault
  /\ UNCHANGED <<db, cache, trans, reads, rewritten, users, committed, requests>>

-----------------------------------------------------------------------------

\* the ARC cache makes room
MakeRoom(k) ==
  /\ cache[k] # None
  /\ cache' = [cache EXCEPT ![k] = None]
  /\ UNCHANGED <<db, trans, reads, listing, rewritten, history>>

Crash ==
  /\ Fault
  /\ cache' = [k \in Key |-> None] /\ Closed
  /\ pc' = [p \in Procs |-> "idle"]
  /\ key' = [p \in Procs |-> None] /\ got' = [p \in Procs |-> None]
  /\ users' = {} /\ rewritten' = {}
  /\ UNCHANGED <<db, listing, committed, requests>>

Init ==
  /\ db = [id \in Ids |-> None] /\ cache = [k \in Key |-> None]
  /\ owner = None /\ kind = "write" /\ version = None /\ batch = {} /\ work = {}
  /\ missed = {} /\ view = db
  /\ pc = [p \in Procs |-> "idle"]
  /\ key = [p \in Procs |-> None] /\ got = [p \in Procs |-> None]
  /\ listing = None /\ users = {} /\ rewritten = {} /\ committed = {}
  /\ requests = 0 /\ faults = 0

Next ==
  \/ \E p \in Procs :
       \/ \E id \in Ids, v \in Versions : Write(p, id, v)
       \/ \E S \in SUBSET Ids, v \in Versions :
            Updates(p, S, v) \/ \E replaceable \in BOOLEAN : Writes(p, S, v, replaceable)
       \/ \E S \in SUBSET Ids : Deletes(p, S)
       \/ Commit(p) \/ Rollback(p) \/ Fetch(p) \/ Fill(p) \/ Query(p)
       \/ \E id \in Ids : Get(p, id) \/ One(p, id)
  \/ \E id \in Ids : Touch(id)
  \/ \E k \in Key : MakeRoom(k)
  \/ Crash

Spec == Init /\ [][Next]_vars

-----------------------------------------------------------------------------
(* Properties. *)

\* While one goroutine at a time has used the cache, what is cached under an id
\* is what was committed last; so is what is cached under a hash, unless the
\* order was replaced by Writes, which does not evict it (Evicted).
OneUser == \A p, q \in users : p = q
CacheCoherent ==
  OneUser => \A id \in Ids :
    /\ cache[ById(id)] \in {None, <<id, db[id]>>}
    /\ id \notin rewritten => cache[ByHash(id)] \in {None, <<id, db[id]>>}

\* However many goroutines use it, the cache never shows what a transaction
\* rolled back or has not committed (Remove before, Put after the commit).
NothingDirty ==
  \A k \in Key : cache[k] # None => cache[k] \in committed

\* The store implements the table of OrderBook: but for the orders whose lookup
\* failed, and which stay as they were, a batch happens as a whole at its commit
\* or not at all, whatever fails and whenever the process dies, and a Query never
\* sees half of it (Begin, Touch, Commit, Rollback, Query).
Requested ==
  IF owner = None THEN None ELSE [kind |-> kind, version |-> version, ids |-> batch]
Book == INSTANCE OrderBook WITH orders <- db, request <- Requested, missed <- missed,
                             listing <- listing
ImplementsBook == Book!Spec

=============================================================================
