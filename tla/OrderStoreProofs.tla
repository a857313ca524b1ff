-------------------------- MODULE OrderStoreProofs --------------------------
(***************************************************************************)
(* Proofs about OrderStore, for any orders, goroutines, failures and       *)
(* deaths: nothing uncommitted is ever cached, the cache is right while    *)
(* one goroutine uses it, and the store implements OrderBook.              *)
(***************************************************************************)
EXTENDS OrderStore, TLAPS

\* The goroutine inside a write transaction is its owner.
Exclusive == \A p \in Procs : pc[p] = "tx" <=> owner = p

\* What the transaction leaves under id once it has handled it.
Target(id) ==
  IF id \in missed \/ (kind = "add" /\ db[id] # None) THEN db[id]
  ELSE IF kind = "deletes" THEN None ELSE version

\* A transaction sees the committed bucket but for the orders it has handled.
Idle == owner = None => missed = {}
Opened ==
  owner # None =>
    /\ kind # "deletes" => version \in Versions
    /\ missed \subseteq batch \ work /\ (missed # {} => MayMiss)
    /\ kind = "write" => \E id \in Ids : /\ batch = {id} /\ key[owner] = ById(id)
                                         /\ got[owner] = <<id, version>>
    /\ \A id \in Ids : view[id] = IF id \in batch \ work THEN Target(id) ELSE db[id]
    /\ kind = "updates" => \A id \in batch \ work : db[id] # None

\* What a goroutine is about to cache was committed, and belongs to its key.
Reading ==
  \A p \in Procs :
    /\ pc[p] \in {"miss", "fill"} => key[p] \in Key
    /\ pc[p] = "fill" => got[p] \in committed /\ got[p][1] = key[p][2]

Committed == \A id \in Ids : db[id] # None => <<id, db[id]>> \in committed
Busy      == \A p \in Procs : pc[p] # "idle" => p \in users

\* While one goroutine uses the cache, what it is about to cache is what was
\* committed last, and what its transaction changed has left the cache.
Alone ==
  OneUser =>
    /\ \A p \in Procs : pc[p] = "fill" => got[p] = <<key[p][2], db[key[p][2]]>>
    /\ owner # None =>
         \A id \in batch \ work : view[id] # db[id] =>
           /\ cache[ById(id)] = None
           /\ id \notin rewritten => cache[ByHash(id)] = None

IInv ==
  /\ TypeOK /\ Exclusive /\ Idle /\ Opened /\ Reading /\ Committed /\ Busy /\ Alone
  /\ NothingDirty /\ CacheCoherent

USE OrderStoreAssumption

-----------------------------------------------------------------------------

\* Before the first call the bucket and the cache are empty (NewIndexDB).
LEMMA InitIInv == Init => IInv
<1> SUFFICES ASSUME Init PROVE IInv
  OBVIOUS
<1>1. TypeOK
  BY DEF Init, TypeOK, Table, Kinds, Key, Record
<1>2. Exclusive /\ Idle /\ Opened /\ Reading /\ Committed /\ Busy /\ Alone
  BY DEF Init, Exclusive, Idle, Opened, Reading, Committed, Busy, Alone
<1>3. NothingDirty /\ CacheCoherent
  BY DEF Init, NothingDirty, CacheCoherent, Key, ById, ByHash
<1> QED BY <1>1, <1>2, <1>3 DEF IInv

\* Opening a transaction keeps the invariant (Write, Writes, Updates, Deletes).
LEMMA BeginStep ==
  ASSUME IInv, NEW p \in Procs, NEW k \in Kinds, NEW v \in Versions \cup {None},
         NEW S \in SUBSET Ids, k # "deletes" => v \in Versions, Begin(p, k, v, S)
  PROVE  IInv'
<1> USE DEF Begin
<1>1. TypeOK'
  <2>1. key' \in [Procs -> Key \cup {None}] /\ got' \in [Procs -> Record \cup {None}]
    BY DEF IInv, TypeOK, Key, Record, ById, Kinds
  <2>2. pc' \in [Procs -> {"idle", "tx", "miss", "fill"}] /\ users' \subseteq Procs
    BY DEF IInv, TypeOK
  <2>3. requests' \in Nat
    BY DEF IInv, TypeOK
  <2>4. /\ owner' \in Procs \cup {None} /\ kind' \in Kinds /\ version' \in Versions \cup {None}
        /\ batch' \subseteq Ids /\ work' \subseteq batch' /\ view' \in Table
        /\ missed' \subseteq batch'
    BY DEF IInv, TypeOK
  <2>5. UNCHANGED <<db, cache, listing, rewritten, committed, faults>>
    OBVIOUS
  <2> QED BY <2>1, <2>2, <2>3, <2>4, <2>5 DEF IInv, TypeOK
<1>2. Exclusive'
  BY DEF IInv, TypeOK, Exclusive
<1>3. Idle' /\ Opened'
  BY DEF IInv, TypeOK, Idle, Opened
<1>4. Reading'
  BY DEF IInv, TypeOK, Reading
<1>5. Committed' /\ Busy'
  BY DEF IInv, TypeOK, Committed, Busy
<1>6. Alone'
  BY DEF IInv, TypeOK, Alone, OneUser
<1>7. NothingDirty' /\ CacheCoherent'
  BY DEF IInv, TypeOK, NothingDirty, CacheCoherent, OneUser
<1> QED BY <1>1, <1>2, <1>3, <1>4, <1>5, <1>6, <1>7 DEF IInv

\* One round of the loop over the orders keeps the invariant.
LEMMA TouchStep == ASSUME IInv, NEW id \in Ids, Touch(id) PROVE IInv'
<1> USE DEF Touch
<1>1. /\ owner # None /\ id \in work /\ work' = work \ {id}
      /\ UNCHANGED <<db, owner, kind, version, batch, pc, key, got, listing, users, committed, requests>>
  BY DEF reads
<1>2. faults' \in Nat
  BY DEF IInv, TypeOK, Fault
<1>3. view[id] = db[id] /\ id \in batch /\ id \notin missed
  BY DEF IInv, TypeOK, Opened
<1>4. CASE MayMiss /\ missed' = missed \cup {id} /\ UNCHANGED <<view, cache, rewritten>>
  <2>1. TypeOK'
    BY <1>1, <1>2, <1>3, <1>4 DEF IInv, TypeOK
  <2>2. Opened'
    BY <1>1, <1>3, <1>4 DEF IInv, TypeOK, Opened, Target, MayMiss
  <2>3. Alone'
    BY <1>1, <1>3, <1>4 DEF IInv, Alone, OneUser
  <2>4. Idle' /\ Exclusive' /\ Reading' /\ Committed' /\ Busy'
    BY <1>1 DEF IInv, Idle, Exclusive, Reading, Committed, Busy
  <2>5. NothingDirty' /\ CacheCoherent'
    BY <1>1, <1>4 DEF IInv, NothingDirty, CacheCoherent, OneUser
  <2> QED BY <2>1, <2>2, <2>3, <2>4, <2>5 DEF IInv
<1>5. CASE Skipped(id) /\ UNCHANGED <<view, cache, rewritten, missed>>
  <2>1. TypeOK'
    BY <1>1, <1>2, <1>5 DEF IInv, TypeOK
  <2>2. db[id] = Target(id)
    BY <1>3, <1>5 DEF Skipped, Target
  <2>3. Opened'
    BY <1>1, <1>3, <1>5, <2>2 DEF IInv, TypeOK, Opened, Target, Skipped, MayMiss
  <2>4. Alone'
    BY <1>1, <1>3, <1>5 DEF IInv, Alone, OneUser
  <2>5. Idle' /\ Exclusive' /\ Reading' /\ Committed' /\ Busy'
    BY <1>1 DEF IInv, Idle, Exclusive, Reading, Committed, Busy
  <2>6. NothingDirty' /\ CacheCoherent'
    BY <1>1, <1>5 DEF IInv, NothingDirty, CacheCoherent, OneUser
  <2> QED BY <2>1, <2>3, <2>4, <2>5, <2>6 DEF IInv
<1>6. CASE /\ ~Skipped(id) /\ ~Missing(id)
           /\ view' = [view EXCEPT ![id] = IF kind = "deletes" THEN None ELSE version]
           /\ cache' = [k \in Key |-> IF k \in Evicted(id) THEN None ELSE cache[k]]
           /\ rewritten' = IF Writing THEN rewritten \cup {id} ELSE rewritten \ {id}
           /\ UNCHANGED missed
  <2>1. TypeOK'
    BY <1>1, <1>2, <1>6 DEF IInv, TypeOK, Table, Key, Record
  <2>2. view' = [view EXCEPT ![id] = Target(id)]
    BY <1>3, <1>6 DEF IInv, TypeOK, Table, Skipped, Target, Missing
  <2>3. Opened'
    BY <1>1, <1>3, <1>6, <2>2 DEF IInv, TypeOK, Table, Opened, Target, Missing, MayMiss
  <2>4. Idle' /\ Exclusive' /\ Reading' /\ Committed' /\ Busy'
    BY <1>1 DEF IInv, Idle, Exclusive, Reading, Committed, Busy
  <2>5. Alone'
    BY <1>1, <1>3, <1>6, <2>2 DEF IInv, TypeOK, Table, Alone, OneUser, Evicted, Key, ById, ByHash, Writing
  <2>6. NothingDirty' /\ CacheCoherent'
    BY <1>1, <1>6 DEF IInv, TypeOK, NothingDirty, CacheCoherent, OneUser, Evicted, Key, ById, ByHash, Writing
  <2> QED BY <2>1, <2>3, <2>4, <2>5, <2>6 DEF IInv
<1> QED BY <1>4, <1>5, <1>6

\* Committing keeps the invariant; the order that Write is about to cache is
\* committed by then.
LEMMA CommitStep == ASSUME IInv, NEW p \in Procs, Commit(p) PROVE IInv'
<1> USE DEF Commit, Closed, Returns
<1>1. TypeOK'
  <2>1. committed' \subseteq Record
    BY DEF IInv, TypeOK, Table, Record, Records
  <2>2. pc' \in [Procs -> {"idle", "tx", "miss", "fill"}]
    BY DEF IInv, TypeOK
  <2>3. key' \in [Procs -> Key \cup {None}] /\ got' \in [Procs -> Record \cup {None}]
    BY DEF IInv, TypeOK
  <2> QED BY <2>1, <2>2, <2>3 DEF IInv, TypeOK, Table, Kinds
<1>2. Exclusive' /\ Idle' /\ Opened'
  BY DEF IInv, TypeOK, Exclusive, Idle, Opened
<1>3. Committed'
  BY DEF IInv, TypeOK, Committed, Records
<1>4. kind = "write" => \E id \in Ids : /\ key[p] = ById(id) /\ got[p] = <<id, view[id]>>
                                        /\ got[p] \in committed'
  <2> SUFFICES ASSUME kind = "write"
               PROVE  \E id \in Ids : /\ key[p] = ById(id) /\ got[p] = <<id, view[id]>>
                                      /\ got[p] \in committed'
    OBVIOUS
  <2>1. owner # None /\ version \in Versions
    BY DEF IInv, TypeOK, Opened
  <2>2. PICK id \in Ids : batch = {id} /\ key[p] = ById(id) /\ got[p] = <<id, version>>
    BY <2>1 DEF IInv, Opened
  <2>3. view[id] = version
    BY <2>1, <2>2 DEF IInv, Opened, Target, MayMiss
  <2>4. <<id, view[id]>> \in Records(view)
    BY <2>1, <2>3 DEF Records
  <2> QED BY <2>2, <2>3, <2>4
<1>5. Reading'
  <2>1. \A q \in Procs \ {p} : UNCHANGED <<pc[q], key[q], got[q]>>
    BY DEF IInv, TypeOK
  <2>2. \A q \in Procs \ {p} : pc'[q] \in {"miss", "fill"} => key'[q] \in Key
    BY <2>1 DEF IInv, Reading
  <2>3. \A q \in Procs \ {p} : pc'[q] = "fill" => got'[q] \in committed' /\ got'[q][1] = key'[q][2]
    BY <2>1 DEF IInv, Reading
  <2>4. CASE kind = "write"
    <3>1. pc'[p] = "fill" /\ key'[p] = key[p] /\ got'[p] = got[p]
      BY <2>4 DEF IInv, TypeOK
    <3>2. PICK id \in Ids : key[p] = ById(id) /\ got[p] = <<id, view[id]>> /\ got[p] \in committed'
      BY <1>4, <2>4
    <3>3. key'[p] \in Key /\ got'[p] \in committed' /\ got'[p][1] = key'[p][2]
      BY <3>1, <3>2 DEF ById, Key
    <3> QED BY <2>2, <2>3, <3>3 DEF Reading
  <2>5. CASE kind # "write"
    BY <2>2, <2>3, <2>5 DEF IInv, TypeOK, Reading
  <2> QED BY <2>4, <2>5
<1>6. Busy'
  BY DEF IInv, TypeOK, Exclusive, Busy
<1>7. Alone'
  <2> SUFFICES ASSUME OneUser', NEW q \in Procs, pc'[q] = "fill"
               PROVE  got'[q] = <<key'[q][2], db'[key'[q][2]]>>
    BY DEF Alone
  <2>1. q = p
    BY DEF IInv, TypeOK, Exclusive, Busy, OneUser
  <2> QED BY <1>4, <2>1 DEF IInv, TypeOK, ById
<1>8. NothingDirty'
  BY DEF IInv, NothingDirty
<1>9. CacheCoherent'
  BY DEF IInv, TypeOK, Opened, Alone, CacheCoherent, OneUser
<1> QED BY <1>1, <1>2, <1>3, <1>5, <1>6, <1>7, <1>8, <1>9 DEF IInv

\* Rolling back keeps the invariant.
LEMMA RollbackStep == ASSUME IInv, NEW p \in Procs, Rollback(p) PROVE IInv'
<1> USE DEF Rollback, Closed, Returns
<1>1. TypeOK'
  <2>1. /\ pc' \in [Procs -> {"idle", "tx", "miss", "fill"}]
        /\ key' \in [Procs -> Key \cup {None}] /\ got' \in [Procs -> Record \cup {None}]
    BY DEF IInv, TypeOK
  <2>2. faults' \in Nat
    BY DEF IInv, TypeOK, Fault
  <2> QED BY <2>1, <2>2 DEF IInv, TypeOK, Table, Kinds
<1>2. Exclusive' /\ Idle' /\ Opened' /\ Committed'
  BY DEF IInv, TypeOK, Exclusive, Idle, Opened, Committed
<1>3. Reading' /\ Busy'
  BY DEF IInv, TypeOK, Reading, Busy
<1>4. Alone'
  BY DEF IInv, TypeOK, Alone, OneUser
<1>5. NothingDirty' /\ CacheCoherent'
  BY DEF IInv, NothingDirty, CacheCoherent, OneUser
<1> QED BY <1>1, <1>2, <1>3, <1>4, <1>5 DEF IInv

\* Looking into the cache keeps the invariant.
LEMMA LookupStep == ASSUME IInv, NEW p \in Procs, NEW k \in Key, Lookup(p, k) PROVE IInv'
<1> USE DEF Lookup
<1>1. TypeOK'
  <2>1. pc' \in [Procs -> {"idle", "tx", "miss", "fill"}] /\ key' \in [Procs -> Key \cup {None}]
    BY DEF IInv, TypeOK, reads
  <2> QED BY <2>1 DEF IInv, TypeOK, reads, trans
<1>2. Exclusive' /\ Idle' /\ Opened' /\ Committed'
  BY DEF IInv, TypeOK, Exclusive, Idle, Opened, Committed, reads, trans, Target, MayMiss
<1>3. Reading' /\ Busy'
  BY DEF IInv, TypeOK, Reading, Busy, reads
<1>4. Alone'
  BY DEF IInv, TypeOK, Alone, OneUser, reads, trans
<1>5. NothingDirty' /\ CacheCoherent'
  BY DEF IInv, NothingDirty, CacheCoherent, OneUser
<1> QED BY <1>1, <1>2, <1>3, <1>4, <1>5 DEF IInv

\* Reading from the bucket keeps the invariant: what was read was committed.
LEMMA FetchStep == ASSUME IInv, NEW p \in Procs, Fetch(p) PROVE IInv'
<1> USE DEF Fetch, Returns
<1>1. key[p] \in Key /\ key[p][2] \in Ids
  BY DEF IInv, Reading, Key
<1>2. db[key[p][2]] # None => <<key[p][2], db[key[p][2]]>> \in committed
  BY <1>1 DEF IInv, Committed
<1>3. TypeOK'
  <2>1. pc' \in [Procs -> {"idle", "tx", "miss", "fill"}] /\ key' \in [Procs -> Key \cup {None}]
    BY DEF IInv, TypeOK
  <2>2. got' \in [Procs -> Record \cup {None}]
    BY <1>2 DEF IInv, TypeOK
  <2>3. faults' \in Nat
    BY DEF IInv, TypeOK, Fault
  <2> QED BY <2>1, <2>2, <2>3 DEF IInv, TypeOK, trans
<1>4. Exclusive' /\ Idle' /\ Opened' /\ Committed'
  BY DEF IInv, TypeOK, Exclusive, Idle, Opened, Committed, Target, MayMiss, trans
<1>5. Reading' /\ Busy'
  BY <1>1, <1>2 DEF IInv, TypeOK, Reading, Busy
<1>6. Alone'
  BY DEF IInv, TypeOK, Alone, OneUser, trans
<1>7. NothingDirty' /\ CacheCoherent'
  BY DEF IInv, NothingDirty, CacheCoherent, OneUser
<1> QED BY <1>3, <1>4, <1>5, <1>6, <1>7 DEF IInv

\* Filling the cache keeps the invariant.
LEMMA FillStep == ASSUME IInv, NEW p \in Procs, Fill(p) PROVE IInv'
<1> USE DEF Fill, Returns
<1>1. key[p] \in Key /\ got[p] \in committed /\ got[p] \in Record /\ got[p][1] = key[p][2]
  BY DEF IInv, TypeOK, Reading
<1>2. TypeOK'
  <2>1. /\ pc' \in [Procs -> {"idle", "tx", "miss", "fill"}]
        /\ key' \in [Procs -> Key \cup {None}] /\ got' \in [Procs -> Record \cup {None}]
    BY DEF IInv, TypeOK
  <2>2. cache' \in [Key -> Record \cup {None}] /\ rewritten' \subseteq Ids
    BY <1>1 DEF IInv, TypeOK
  <2> QED BY <2>1, <2>2 DEF IInv, TypeOK, trans, history
<1>3. Exclusive' /\ Idle' /\ Opened' /\ Committed'
  BY DEF IInv, TypeOK, Exclusive, Idle, Opened, Committed, Target, MayMiss, trans, history
<1>4. Reading' /\ Busy'
  BY DEF IInv, TypeOK, Reading, Busy, history
<1>5. NothingDirty'
  BY <1>1 DEF IInv, TypeOK, NothingDirty, history
<1>6. ASSUME OneUser PROVE owner = None /\ got[p] = <<key[p][2], db[key[p][2]]>>
  BY <1>6 DEF IInv, TypeOK, OneUser, Exclusive, Busy, Alone
<1>7. Alone'
  BY <1>6 DEF IInv, TypeOK, Alone, OneUser, trans, history
<1>8. CacheCoherent'
  <2> SUFFICES ASSUME OneUser, NEW id \in Ids
               PROVE  /\ cache'[ById(id)] \in {None, <<id, db[id]>>}
                      /\ id \notin rewritten' => cache'[ByHash(id)] \in {None, <<id, db[id]>>}
    BY DEF CacheCoherent, OneUser, history
  <2>1. cache[ById(id)] \in {None, <<id, db[id]>>}
        /\ (id \notin rewritten => cache[ByHash(id)] \in {None, <<id, db[id]>>})
    BY DEF IInv, CacheCoherent
  <2>2. got[p] = <<key[p][2], db[key[p][2]]>>
    BY <1>6
  <2>3. CASE key[p][2] # id
    <3>1. key[p] # ById(id) /\ key[p] # ByHash(id)
      BY <2>3 DEF ById, ByHash
    <3>2. UNCHANGED <<cache[ById(id)], cache[ByHash(id)]>>
      BY <3>1 DEF IInv, TypeOK, Key, ById, ByHash
    <3>3. id \notin rewritten' => id \notin rewritten
      BY <2>2, <2>3
    <3> QED BY <2>1, <3>2, <3>3
  <2>4. CASE key[p] = ById(id)
    <3>1. cache'[ById(id)] = <<id, db[id]>> /\ UNCHANGED cache[ByHash(id)]
      BY <2>2, <2>4 DEF IInv, TypeOK, Key, ById, ByHash
    <3>2. key[p] # ByHash(got[p][1])
      BY <2>4 DEF ById, ByHash
    <3> QED BY <2>1, <3>1, <3>2
  <2>5. CASE key[p] = ByHash(id)
    <3>1. cache'[ByHash(id)] = <<id, db[id]>> /\ UNCHANGED cache[ById(id)]
      BY <2>2, <2>5 DEF IInv, TypeOK, Key, ById, ByHash
    <3> QED BY <2>1, <3>1
  <2> QED BY <1>1, <2>3, <2>4, <2>5 DEF Key, ById, ByHash
<1> QED BY <1>2, <1>3, <1>4, <1>5, <1>7, <1>8 DEF IInv

\* An entry that leaves the cache keeps the invariant.
LEMMA MakeRoomStep == ASSUME IInv, NEW k \in Key, MakeRoom(k) PROVE IInv'
<1> USE DEF MakeRoom, trans, reads, history
<1>1. TypeOK'
  BY DEF IInv, TypeOK
<1>2. Exclusive' /\ Idle' /\ Opened' /\ Committed' /\ Reading' /\ Busy'
  BY DEF IInv, Exclusive, Idle, Opened, Committed, Reading, Busy, Target, MayMiss
<1>3. Alone'
  BY DEF IInv, TypeOK, Alone, OneUser, Key, ById, ByHash
<1>4. NothingDirty' /\ CacheCoherent'
  BY DEF IInv, TypeOK, NothingDirty, CacheCoherent, OneUser, Key, ById, ByHash
<1> QED BY <1>1, <1>2, <1>3, <1>4 DEF IInv

\* A new process starts with an empty cache and the committed bucket.
LEMMA CrashStep == ASSUME IInv, Crash PROVE IInv'
<1> USE DEF Crash, Closed
<1>1. TypeOK'
  BY DEF IInv, TypeOK, Table, Kinds, Fault
<1>2. Exclusive' /\ Idle' /\ Opened' /\ Committed' /\ Reading' /\ Busy' /\ Alone'
  BY DEF IInv, Exclusive, Idle, Opened, Committed, Reading, Busy, Alone
<1>3. NothingDirty' /\ CacheCoherent'
  BY DEF NothingDirty, CacheCoherent, Key, ById, ByHash
<1> QED BY <1>1, <1>2, <1>3 DEF IInv

\* A listing touches nothing that is cached or written.
LEMMA QueryStep == ASSUME IInv, NEW p \in Procs, Query(p) PROVE IInv'
<1> USE DEF Query, trans, reads
<1>1. TypeOK'
  <2>1. listing' \in Table /\ faults' \in Nat
    BY DEF IInv, TypeOK, Table, Fault
  <2> QED BY <2>1 DEF IInv, TypeOK
<1>2. Exclusive' /\ Idle' /\ Opened' /\ Committed' /\ Reading' /\ Busy' /\ Alone'
  BY DEF IInv, Exclusive, Idle, Opened, Committed, Reading, Busy, Alone, Target, MayMiss, OneUser
<1>3. NothingDirty' /\ CacheCoherent'
  BY DEF IInv, NothingDirty, CacheCoherent, OneUser
<1> QED BY <1>1, <1>2, <1>3 DEF IInv

\* A step that leaves the store alone keeps the invariant.
LEMMA StutterStep == ASSUME IInv, UNCHANGED vars PROVE IInv'
<1> USE DEF vars, trans, reads, history
<1>1. TypeOK' /\ NothingDirty' /\ CacheCoherent'
  BY DEF IInv, TypeOK, NothingDirty, CacheCoherent, OneUser
<1>2. Exclusive' /\ Idle' /\ Opened' /\ Committed' /\ Reading' /\ Busy' /\ Alone'
  BY DEF IInv, Exclusive, Idle, Opened, Committed, Reading, Busy, Alone, Target, MayMiss, OneUser
<1> QED BY <1>1, <1>2 DEF IInv

\* Every step of the store keeps the invariant.
LEMMA NextIInv == IInv /\ [Next]_vars => IInv'
<1> SUFFICES ASSUME IInv, [Next]_vars PROVE IInv'
  OBVIOUS
<1>1. ASSUME NEW p \in Procs, NEW id \in Ids, NEW v \in Versions, Write(p, id, v) PROVE IInv'
  BY <1>1, BeginStep DEF Write, Kinds
<1>2. ASSUME NEW p \in Procs, NEW S \in SUBSET Ids, NEW v \in Versions, Updates(p, S, v)
      PROVE  IInv'
  BY <1>2, BeginStep DEF Updates, Kinds
<1>3. ASSUME NEW p \in Procs, NEW S \in SUBSET Ids, NEW v \in Versions,
             NEW replaceable \in BOOLEAN, Writes(p, S, v, replaceable)
      PROVE  IInv'
  BY <1>3, BeginStep DEF Writes, Kinds
<1>4. ASSUME NEW p \in Procs, NEW S \in SUBSET Ids, Deletes(p, S) PROVE IInv'
  BY <1>4, BeginStep DEF Deletes, Kinds
<1>5. ASSUME NEW p \in Procs, NEW id \in Ids, Get(p, id) \/ One(p, id) PROVE IInv'
  BY <1>5, LookupStep DEF Get, One, Key, ById, ByHash
<1>6. ASSUME NEW p \in Procs, Commit(p) \/ Rollback(p) \/ Fetch(p) \/ Fill(p) \/ Query(p)
      PROVE  IInv'
  BY <1>6, CommitStep, RollbackStep, FetchStep, FillStep, QueryStep
<1>7. ASSUME NEW id \in Ids, Touch(id) PROVE IInv'
  BY <1>7, TouchStep
<1>8. ASSUME NEW k \in Key, MakeRoom(k) PROVE IInv'
  BY <1>8, MakeRoomStep
<1>9. CASE Crash
  BY <1>9, CrashStep
<1>10. CASE UNCHANGED vars
  BY <1>10, StutterStep
<1> QED BY <1>1, <1>2, <1>3, <1>4, <1>5, <1>6, <1>7, <1>8, <1>9, <1>10 DEF Next

\* The inductive invariant holds in every state of the store.
THEOREM IInvHolds == Spec => []IInv
<1> QED BY InitIInv, NextIInv, PTL DEF Spec

\* The cache never shows what a transaction of IndexDB rolled back or has not
\* committed, however many goroutines read, write and evict, and whenever the
\* process dies.
THEOREM NothingDirtyHolds == Spec => []NothingDirty
<1>1. IInv => NothingDirty
  BY DEF IInv
<1> QED BY <1>1, IInvHolds, PTL

\* While one goroutine at a time has used the store, a cached order is the one
\* in the bucket, except by hash after Writes replaced it.
THEOREM CacheCoherentHolds == Spec => []CacheCoherent
<1>1. IInv => CacheCoherent
  BY DEF IInv
<1> QED BY <1>1, IInvHolds, PTL

-----------------------------------------------------------------------------
(* The store implements OrderBook. *)

\* Opening a transaction is asking; a request is never None.
LEMMA BeginAsks ==
  ASSUME IInv, NEW p \in Procs, NEW k \in Kinds, NEW v \in Versions \cup {None},
         NEW S \in SUBSET Ids, Begin(p, k, v, S)
  PROVE  Book!Next
<1>1. Requested = None /\ Requested' = [kind |-> k, version |-> v, ids |-> S]
  BY DEF Begin, Requested
<1>2. Requested' \in Book!Request
  BY <1>1 DEF Book!Request
<1>3. UNCHANGED <<db, missed, listing>>
  BY DEF Begin, IInv, Idle
<1> QED BY <1>1, <1>2, <1>3 DEF Book!Next, Book!Ask

\* A request in hand is a request, hence not None.
LEMMA RequestedTyped == ASSUME IInv, owner # None PROVE Requested # None
<1>1. Requested \in Request
  BY DEF IInv, TypeOK, Requested, Request
<1> QED BY <1>1

\* Committing carries the request out on all its orders.
LEMMA CommitApplies == ASSUME IInv, NEW p \in Procs, Commit(p) PROVE Book!Apply
<1>1. owner = p /\ owner # None /\ work = {} /\ db' = view
  BY DEF Commit
<1>2. Requested = [kind |-> kind, version |-> version, ids |-> batch] /\ Requested' = None
      /\ missed' = {}
  BY <1>1 DEF Requested, Commit, Closed
<1>3. Book!Allowed(Requested)
  BY <1>1, <1>2 DEF IInv, Opened, Book!Allowed
<1>4. \A id \in Ids : view[id] = IF id \in batch THEN Target(id) ELSE db[id]
  BY <1>1 DEF IInv, Opened
<1>5. view = [id \in Ids |-> view[id]]
  BY DEF IInv, TypeOK, Table
<1>6. \A id \in Ids : view[id] = Book!Outcome(Requested)[id]
  BY <1>2, <1>4 DEF Book!Outcome, Target
<1>7. view = Book!Outcome(Requested)
  BY <1>5, <1>6 DEF Book!Outcome
<1> QED BY <1>1, <1>2, <1>3, <1>7, RequestedTyped DEF Book!Apply, Commit

\* Rolling back refuses the request.
LEMMA RollbackRefuses == ASSUME IInv, NEW p \in Procs, Rollback(p) PROVE Book!Refuse
<1>1. owner = p /\ owner # None
  BY DEF Rollback
<1> QED BY <1>1, RequestedTyped DEF Book!Refuse, Rollback, Closed, Requested

\* A death refuses the request in hand, if there is one.
LEMMA CrashRefuses == ASSUME IInv, Crash PROVE Book!Refuse \/ UNCHANGED Book!book
<1>1. Requested' = None /\ missed' = {} /\ UNCHANGED <<db, listing>>
  BY DEF Crash, Closed, Requested
<1>2. CASE owner = None
  BY <1>1, <1>2 DEF IInv, Idle, Requested, Book!book
<1>3. CASE owner # None
  BY <1>1, <1>3, RequestedTyped DEF Book!Refuse
<1> QED BY <1>2, <1>3

\* A round of a transaction shows only where it misses an order.
LEMMA TouchMisses == ASSUME IInv, NEW id \in Ids, Touch(id) PROVE Book!Next \/ UNCHANGED Book!book
<1>1. owner # None /\ id \in batch /\ UNCHANGED <<owner, kind, version, batch, db, listing>>
  BY DEF IInv, TypeOK, Touch
<1>2. Requested' = Requested /\ Requested # None /\ Requested.kind = kind /\ Requested.ids = batch
  BY <1>1, RequestedTyped DEF Requested
<1>3. CASE UNCHANGED missed
  BY <1>1, <1>2, <1>3 DEF Book!book
<1>4. CASE MayMiss /\ missed' = missed \cup {id}
  <2>1. Book!Miss(id)
    BY <1>1, <1>2, <1>4 DEF Book!Miss, MayMiss
  <2> QED BY <2>1 DEF Book!Next
<1> QED BY <1>3, <1>4 DEF Touch

\* A listing is of the table, or empty.
LEMMA QueryLists == ASSUME NEW p \in Procs, Query(p) PROVE Book!Next
<1>1. Book!List
  BY DEF Query, trans, Requested, Book!List, Book!Nothing
<1> QED BY <1>1 DEF Book!Next

\* Reads and the cache change nothing that OrderBook shows.
LEMMA OthersStutter ==
  ASSUME \/ \E p \in Procs : Fetch(p) \/ Fill(p) \/ \E k \in Key : Lookup(p, k)
         \/ \E k \in Key : MakeRoom(k)
         \/ UNCHANGED vars
  PROVE  UNCHANGED Book!book
BY DEF Fetch, Fill, Lookup, MakeRoom, vars, trans, Requested, Book!book

\* Every step of the store is a step of OrderBook or changes nothing there.
LEMMA StepRefines == IInv /\ [Next]_vars => [Book!Next]_Book!book
<1> SUFFICES ASSUME IInv, [Next]_vars PROVE Book!Next \/ UNCHANGED Book!book
  OBVIOUS
<1>1. ASSUME NEW p \in Procs, NEW id \in Ids, NEW v \in Versions, Write(p, id, v)
      PROVE  Book!Next
  BY <1>1, BeginAsks DEF Write, Kinds
<1>2. ASSUME NEW p \in Procs, NEW S \in SUBSET Ids, NEW v \in Versions, Updates(p, S, v)
      PROVE  Book!Next
  BY <1>2, BeginAsks DEF Updates, Kinds
<1>3. ASSUME NEW p \in Procs, NEW S \in SUBSET Ids, NEW v \in Versions,
             NEW replaceable \in BOOLEAN, Writes(p, S, v, replaceable)
      PROVE  Book!Next
  BY <1>3, BeginAsks DEF Writes, Kinds
<1>4. ASSUME NEW p \in Procs, NEW S \in SUBSET Ids, Deletes(p, S) PROVE Book!Next
  BY <1>4, BeginAsks DEF Deletes, Kinds
<1>5. ASSUME NEW p \in Procs, Commit(p) \/ Rollback(p) PROVE Book!Next
  BY <1>5, CommitApplies, RollbackRefuses DEF Book!Next
<1>6. ASSUME NEW p \in Procs, Query(p) PROVE Book!Next
  BY <1>6, QueryLists
<1>7. ASSUME NEW p \in Procs, NEW id \in Ids, Get(p, id) \/ One(p, id)
      PROVE  UNCHANGED Book!book
  BY <1>7, OthersStutter DEF Get, One, Key, ById, ByHash
<1>8. CASE Crash
  BY <1>8, CrashRefuses DEF Book!Next
<1>9. ASSUME NEW id \in Ids, Touch(id) PROVE Book!Next \/ UNCHANGED Book!book
  BY <1>9, TouchMisses
<1> QED BY <1>1, <1>2, <1>3, <1>4, <1>5, <1>6, <1>7, <1>8, <1>9, OthersStutter DEF Next

\* IndexDB implements the table of OrderBook: whatever fails and whenever the
\* process dies, a batch happens at its commit or not at all, but for the orders
\* whose lookup failed and which stay as they were, and a Query shows the table
\* of one moment.
THEOREM StoreImplementsBook == Spec => ImplementsBook
<1>1. Init => Book!Init
  BY DEF Init, Requested, Book!Init, Book!Nothing
<1> QED BY <1>1, StepRefines, IInvHolds, PTL DEF Spec, ImplementsBook, Book!Spec
=============================================================================
