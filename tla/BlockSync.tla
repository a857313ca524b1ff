----------------------------- MODULE BlockSync -----------------------------
(***************************************************************************)
(* The courier's block synchroniser (fabric/courier/syncer.go): syncBlock  *)
(* walks the Fabric blocks one number at a time, and hands those with      *)
(* cross-chain events over the unbuffered preTxsCh to processPreTxs, which *)
(* parses them and calls TxManager.AddCrossTxs.  Errors travel back over   *)
(* the unbuffered errCh; Stop closes stopCh and waits for both.            *)
(*                                                                         *)
(* A block is known by its number and by what the two loops find in it:    *)
(*   "none"    no event of the filter: GetPrepareCrossTxs says "ignore"    *)
(*   "cross"   events whose payloads all parse                             *)
(*   "first"   the payload of the first event does not parse               *)
(*   "later"   ... of a later event: the ones before it are handled        *)
(*   "broken"  GetPrepareCrossTxs fails                                    *)
(***************************************************************************)
EXTENDS Integers, Sequences, FiniteSets

CONSTANTS
  Kinds,      \* which of the five kinds the channel produces
  MaxBlocks,  \* bound on the length of the chain
  MaxFaults,  \* bound on failing Set, QueryBlock and AddCrossTxs calls
  MaxDeaths,  \* bound on deaths that are followed by a restart
  Stops       \* whether Handler.Stop is called

AllKinds == {"none", "cross", "first", "later", "broken"}

ASSUME BlockSyncAssumption ==
  /\ Kinds \subseteq AllKinds
  /\ MaxBlocks \in Nat /\ MaxFaults \in Nat /\ MaxDeaths \in Nat
  /\ Stops \in BOOLEAN

VARIABLES
  kinds,     \* Fabric: the kinds of the blocks 1, 2, ...
  number,    \* disk: config/number, 0 when never stored
  blockNum,  \* the block syncBlock is at
  timer,     \* blockTimer is armed
  syncPc,    \* syncBlock: "select", "query", "offer" (sending), "off"
  procPc,    \* processPreTxs: "select", "add", "errParse", "errAdd", "off"
  batch,     \* the block processPreTxs has in hand, 0 for none
  stopPc,    \* Stop: "no", "called", "waiting" (stopCh is closed), "returned"
  up,        \* the process runs
  handled,   \* history: blocks AddCrossTxs took, in order
  since,     \* history: Len(handled) at the last start
  faults, deaths

sync    == <<blockNum, timer, syncPc>>
proc    == <<procPc, batch>>
history == <<handled, since>>
syncVars == <<kinds, number, sync, proc, stopPc, up, history, faults, deaths>>

Closed == stopPc \in {"waiting", "returned"}

\* apply(err), any error but "Entry not found" and "ignore": the goroutine
\* calls Stop; the timer is left as it is.
CallStop == stopPc' = IF stopPc = "no" THEN "called" ELSE stopPc

NoFault == UNCHANGED faults
Fault   == faults < MaxFaults /\ faults' = faults + 1

-----------------------------------------------------------------------------
(* The Fabric channel. *)

CommitBlock(kind) ==
  /\ Len(kinds) < MaxBlocks
  /\ kinds' = Append(kinds, kind)
  /\ UNCHANGED <<number, sync, proc, stopPc, up, history, faults, deaths>>

-----------------------------------------------------------------------------
(* syncBlock. *)

\* The timer fires: the number is stored before the block is queried.
Persist_Ahead ==
  /\ up /\ syncPc = "select" /\ timer
  /\ timer' = FALSE
  /\ \/ number' = blockNum + 1 /\ syncPc' = "query" /\ NoFault /\ UNCHANGED stopPc
     \/ UNCHANGED <<number, syncPc>> /\ Fault /\ CallStop
  /\ UNCHANGED <<kinds, blockNum, proc, up, history, deaths>>
Persist ==
  /\ up /\ syncPc = "select" /\ timer
  /\ timer' = FALSE
  /\ \/ number' = blockNum /\ syncPc' = "query" /\ NoFault /\ UNCHANGED stopPc
     \/ UNCHANGED <<number, syncPc>> /\ Fault /\ CallStop
  /\ UNCHANGED <<kinds, blockNum, proc, up, history, deaths>>

\* QueryBlockByNum and GetPrepareCrossTxs.
Query ==
  /\ up /\ syncPc = "query"
  /\ \/ \* "Entry not found in index": try again later
        /\ blockNum > Len(kinds)
        /\ syncPc' = "select" /\ timer' = TRUE
        /\ NoFault /\ UNCHANGED <<blockNum, stopPc>>
     \/ \* "ignore": the next block
        /\ blockNum <= Len(kinds) /\ kinds[blockNum] = "none"
        /\ syncPc' = "select" /\ timer' = TRUE /\ blockNum' = blockNum + 1
        /\ NoFault /\ UNCHANGED stopPc
     \/ \* any other error
        /\ \/ blockNum <= Len(kinds) /\ kinds[blockNum] = "broken" /\ NoFault
           \/ Fault
        /\ syncPc' = "select" /\ CallStop
        /\ UNCHANGED <<blockNum, timer>>
     \/ /\ blockNum <= Len(kinds) /\ kinds[blockNum] \in {"cross", "first", "later"}
        /\ syncPc' = "offer"
        /\ NoFault /\ UNCHANGED <<blockNum, timer, stopPc>>
  /\ UNCHANGED <<kinds, number, proc, up, history, deaths>>

\* s.preTxsCh <- preCrossTxs meets the receive of processPreTxs.
HandOver_Unarmed ==
  /\ up /\ syncPc = "offer" /\ procPc = "select"
  /\ batch' = blockNum
  /\ procPc' = IF kinds[blockNum] = "cross" THEN "add" ELSE "errParse"
  /\ syncPc' = "select" /\ blockNum' = blockNum + 1
  /\ UNCHANGED <<kinds, number, timer, stopPc, up, history, faults, deaths>>
HandOver_Again ==
  /\ up /\ syncPc = "offer" /\ procPc = "select"
  /\ batch' = blockNum
  /\ procPc' = IF kinds[blockNum] = "cross" THEN "add" ELSE "errParse"
  /\ syncPc' = "select" /\ timer' = TRUE
  /\ UNCHANGED <<kinds, number, blockNum, stopPc, up, history, faults, deaths>>
HandOver ==
  /\ up /\ syncPc = "offer" /\ procPc = "select"
  /\ batch' = blockNum
  /\ procPc' = IF kinds[blockNum] = "cross" THEN "add" ELSE "errParse"
  /\ syncPc' = "select" /\ blockNum' = blockNum + 1 /\ timer' = TRUE
  /\ UNCHANGED <<kinds, number, stopPc, up, history, faults, deaths>>

-----------------------------------------------------------------------------
(* processPreTxs. *)

\* s.errCh <- err meets the receive of syncBlock.  After a parse error the
\* break leaves the inner loop only, so AddCrossTxs is still called.
ReportError ==
  /\ up /\ procPc \in {"errParse", "errAdd"} /\ syncPc = "select"
  /\ CallStop
  /\ IF procPc = "errParse"
     THEN procPc' = "add" /\ UNCHANGED batch
     ELSE procPc' = "select" /\ batch' = 0
  /\ UNCHANGED <<kinds, number, sync, up, history, faults, deaths>>

Add ==
  /\ up /\ procPc = "add" /\ kinds[batch] # "first"
  /\ \/ /\ handled' = Append(handled, batch)
        /\ procPc' = "select" /\ batch' = 0
        /\ NoFault
     \/ /\ procPc' = "errAdd"
        /\ Fault
        /\ UNCHANGED <<handled, batch>>
  /\ UNCHANGED <<kinds, number, sync, stopPc, up, since, deaths>>

-----------------------------------------------------------------------------
(* Stop. *)

StopCalled ==
  /\ Stops /\ up /\ stopPc = "no"
  /\ stopPc' = "called"
  /\ UNCHANGED <<kinds, number, sync, proc, up, history, faults, deaths>>

CloseStop ==
  /\ up /\ stopPc = "called"
  /\ stopPc' = "waiting"
  /\ UNCHANGED <<kinds, number, sync, proc, up, history, faults, deaths>>

SyncStops ==
  /\ up /\ syncPc = "select" /\ Closed
  /\ syncPc' = "off"
  /\ UNCHANGED <<kinds, number, blockNum, timer, proc, stopPc, up, history, faults, deaths>>

ProcStops ==
  /\ up /\ procPc = "select" /\ Closed
  /\ procPc' = "off"
  /\ UNCHANGED <<kinds, number, sync, batch, stopPc, up, history, faults, deaths>>

\* s.wg.Wait()
StopReturns ==
  /\ up /\ stopPc = "waiting" /\ syncPc = "off" /\ procPc = "off"
  /\ stopPc' = "returned"
  /\ UNCHANGED <<kinds, number, sync, proc, up, history, faults, deaths>>

-----------------------------------------------------------------------------
(* Death and restart. *)

Die ==
  /\ up' = FALSE /\ deaths' = deaths + 1
  /\ syncPc' = "off" /\ procPc' = "off" /\ timer' = FALSE /\ batch' = 0
  /\ stopPc' = "no"
  /\ UNCHANGED <<kinds, number, blockNum, history, faults>>

\* AddCrossTxs on a list of nil entries.
Panic == up /\ procPc = "add" /\ kinds[batch] = "first" /\ Die

Crash == up /\ deaths < MaxDeaths /\ Die

\* NewBlockSync and Start.
Restart ==
  /\ ~up /\ deaths <= MaxDeaths
  /\ up' = TRUE
  /\ blockNum' = IF number = 0 THEN 1 ELSE number
  /\ syncPc' = "select" /\ timer' = TRUE /\ procPc' = "select"
  /\ since' = Len(handled)
  /\ UNCHANGED <<kinds, number, batch, stopPc, handled, faults, deaths>>

SyncInit ==
  /\ kinds = << >> /\ number = 0 /\ blockNum = 1 /\ timer = TRUE
  /\ syncPc = "select" /\ procPc = "select" /\ batch = 0
  /\ stopPc = "no" /\ up = TRUE
  /\ handled = << >> /\ since = 0 /\ faults = 0 /\ deaths = 0

SyncNext ==
  \/ \E kind \in Kinds : CommitBlock(kind)
  \/ Persist \/ Query \/ HandOver
  \/ ReportError \/ Add
  \/ StopCalled \/ CloseStop \/ SyncStops \/ ProcStops \/ StopReturns
  \/ Panic \/ Crash \/ Restart

SyncSpec == SyncInit /\ [][SyncNext]_syncVars

\* The goroutines run.  A select with several ready cases takes each of them
\* again and again, so the exits are strongly fair.
Fairness ==
  /\ WF_syncVars(Persist) /\ WF_syncVars(Query) /\ WF_syncVars(HandOver)
  /\ WF_syncVars(ReportError) /\ WF_syncVars(Add) /\ WF_syncVars(CloseStop)
  /\ SF_syncVars(SyncStops) /\ SF_syncVars(ProcStops) /\ WF_syncVars(StopReturns)

FairSpec == SyncSpec /\ Fairness

-----------------------------------------------------------------------------
(* Properties. *)

SyncTypeOK ==
  /\ kinds \in Seq(AllKinds) /\ number \in Nat /\ blockNum \in Nat \ {0}
  /\ timer \in BOOLEAN
  /\ syncPc \in {"select", "query", "offer", "off"}
  /\ procPc \in {"select", "add", "errParse", "errAdd", "off"}
  /\ batch \in Nat
  /\ stopPc \in {"no", "called", "waiting", "returned"} /\ up \in BOOLEAN
  /\ handled \in Seq(Nat) /\ since \in Nat
  /\ faults \in Nat /\ deaths \in Nat

\* AddCrossTxs gets the blocks in their order, each once in a life of the
\* process; after a restart only the very last block can come again
\* (NewBlockSync resumes at config/number).
HandledInOrder ==
  \A i, j \in DOMAIN handled :
    i < j => /\ handled[i] <= handled[j]
             /\ since < i => handled[i] < handled[j]

\* Blocks the synchroniser has left behind and will not come back to.
LeftBehind ==
  {b \in 1..Len(kinds) :
     /\ b < number /\ (up => b < blockNum)
     /\ kinds[b] = "cross" /\ b # batch
     /\ ~ \E i \in DOMAIN handled : handled[i] = b}

\* preTxsCh is unbuffered, so a death, or a failing AddCrossTxs, costs one
\* block of events at most, however far the number on disk is ahead.
LossBounded == Cardinality(LeftBehind) <= deaths + faults

\* While nothing fails, each block with events is handled, unless Stop is
\* called or an earlier block of the channel cannot be parsed.
BlocksHandled ==
  \A b \in 1..MaxBlocks :
    (b <= Len(kinds) /\ kinds[b] = "cross") ~>
      \/ \E i \in DOMAIN handled : handled[i] = b
      \/ stopPc # "no" \/ deaths > 0 \/ faults > 0
      \/ \E c \in 1..Len(kinds) : c < b /\ kinds[c] \notin {"cross", "none"}

=============================================================================
