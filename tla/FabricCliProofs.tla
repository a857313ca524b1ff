-------------------------- MODULE FabricCliProofs --------------------------
(***************************************************************************)
(* The executor of fabric-cli makes every call of every task, once, before *)
(* the command goes on, and leaves no goroutine behind; and what the       *)
(* commands report can be relied on.  For all numbers of workers, tasks,   *)
(* calls and places in the queue, all organizations and peers, and         *)
(* whatever fails.                                                         *)
(*                                                                         *)
(* A wait group is a counter that stands for a set, and the set is spread  *)
(* over the goroutines: the argument says of each counter what it counts.  *)
(***************************************************************************)
EXTENDS FabricCli, FiniteSetTheorems, TLAPS

-----------------------------------------------------------------------------
(* The executor: its invariant. *)

\* Where a task is before its worker is done with it.
Queued(t)    == \E i \in 1 .. Len(tasks) : tasks[i] = t
Handed(t)    == dispatcher.pc \in {"pick", "give"} /\ dispatcher.task = t
Served(t, w) == worker[w].pc = "busy" /\ worker[w].task = t
Unserved == {t \in Tasks : t > submitted \/ Queued(t) \/ Handed(t) \/ \E w \in Workers : Served(t, w)}

\* A task is in one place.
PlacesOK ==
  /\ \A i \in 1 .. Len(tasks) : tasks[i] <= submitted
  /\ \A i, j \in 1 .. Len(tasks) : tasks[i] = tasks[j] => i = j
  /\ \A t \in Tasks : Handed(t) => t <= submitted /\ ~Queued(t)
  /\ \A t \in Tasks, w \in Workers : Served(t, w) =>
       /\ t <= submitted /\ ~Queued(t) /\ ~Handed(t)
       /\ \A v \in Workers : Served(t, v) => v = w

\* A goroutine that has a task in hand has one.
HandsOK ==
  /\ dispatcher.pc \in {"pick", "give"} => dispatcher.task \in Tasks
  /\ dispatcher.pc = "give" => dispatcher.worker \in Workers
  /\ \A w \in Workers : worker[w].pc = "busy" => worker[w].task \in Tasks
  /\ main = "kill" => victim \in Workers

\* What the wait groups count.
Held    == IF dispatcher.pc \in {"pick", "give", "given"} THEN 1 ELSE 0
Passed  == IF dispatcher.pc \in {"pick", "give"} THEN 1 ELSE 0
Engaged == {w \in Workers : worker[w].pc \in {"busy", "completed"}}
Alive   == {w \in Workers : worker[w].pc # "stopped"}
CountsOK ==
  /\ queueWg = Len(tasks) + Held
  /\ taskWg = Passed + Cardinality(Engaged)
  /\ main # "new" => poolWg = Cardinality(Alive) /\ left = Cardinality(Unserved)

\* All calls of a task are made when it leaves its worker.
CallsMade == \A t \in Tasks \ Unserved : ran[t] = Calls

\* How far the command is.
Nobody == [w \in Workers |-> [pc |-> "none", task |-> 0]]
PhaseOK ==
  /\ main = "new" =>
       /\ submitted = 0 /\ tasks = <<>> /\ dispatcher.pc = "none"
       /\ worker = Nobody /\ failed = 0
  /\ main # "new" => \A w \in Workers : worker[w].pc # "none"
  /\ main \notin {"new", "submit"} => Unserved = {}
  /\ main \in {"pool", "drain", "kill", "returned"} => dispatcher.pc = "ended" /\ tasks = <<>>
  /\ main = "returned" => Alive = {}

ExecInv == TypeOK /\ PlacesOK /\ HandsOK /\ CountsOK /\ CallsMade /\ PhaseOK


-----------------------------------------------------------------------------
(* The executor: sets, queues and records. *)

DispatcherType ==
  [pc : {"none", "select", "pick", "give", "given", "ended"},
   task : Tasks \cup {0}, worker : Workers \cup {None}]
WorkerType ==
  [pc : {"none", "start", "select", "busy", "completed", "stopping", "stopped"},
   task : Tasks \cup {0}]

\* What the wait groups count is finite.
LEMMA FiniteFacts ==
  /\ IsFiniteSet(Tasks) /\ Cardinality(Tasks) = Iterations
  /\ \A S \in SUBSET Tasks : IsFiniteSet(S) /\ Cardinality(S) \in 0 .. Iterations
  /\ \A S \in SUBSET Workers : IsFiniteSet(S) /\ Cardinality(S) \in Nat
<1>1. IsFiniteSet(Workers) /\ Iterations \in Nat
  BY ExecutorAssumption DEF ExecutorAssumption
<1>2. IsFiniteSet(Tasks) /\ Cardinality(Tasks) = Iterations
  BY <1>1, FS_Interval DEF Tasks
<1>3. ASSUME NEW S \in SUBSET Tasks PROVE IsFiniteSet(S) /\ Cardinality(S) \in 0 .. Iterations
  <2>1. IsFiniteSet(S) /\ Cardinality(S) <= Iterations
    BY <1>2, FS_Subset
  <2> QED BY <1>1, <2>1, FS_CardinalityType
<1>4. ASSUME NEW S \in SUBSET Workers PROVE IsFiniteSet(S) /\ Cardinality(S) \in Nat
  <2>1. IsFiniteSet(S)
    BY <1>1, FS_Subset
  <2> QED BY <2>1, FS_CardinalityType
<1> QED BY <1>2, <1>3, <1>4

\* Tasks are counted from 1.
LEMMA TaskFacts == Iterations \in Nat /\ Calls \in Nat /\ Tasks = 1 .. Iterations /\ 0 \notin Tasks
BY ExecutorAssumption DEF ExecutorAssumption, Tasks

\* A worker that goes somewhere takes its task along; the others stay.
LEMMA GoToFacts ==
  ASSUME TypeOK, NEW w \in Workers,
         NEW pc \in {"none", "start", "select", "busy", "completed", "stopping", "stopped"},
         GoTo(w, pc)
  PROVE  /\ worker' \in [Workers -> WorkerType]
         /\ worker'[w].pc = pc /\ worker'[w].task = worker[w].task
         /\ \A v \in Workers \ {w} : worker'[v] = worker[v]
<1>1. worker \in [Workers -> WorkerType]
  BY DEF TypeOK, WorkerType
<1>2. worker' = [worker EXCEPT ![w] = [worker[w] EXCEPT !.pc = pc]]
  BY DEF GoTo
<1>3. worker[w] \in WorkerType
  BY <1>1
<1> QED BY <1>1, <1>2, <1>3 DEF WorkerType

\* Nothing moves if neither the queue, the dispatcher nor a worker does.
LEMMA SetsKept ==
  ASSUME UNCHANGED <<submitted, tasks, dispatcher, worker>>
  PROVE  /\ Unserved' = Unserved /\ Held' = Held /\ Passed' = Passed
         /\ Engaged' = Engaged /\ Alive' = Alive
         /\ PlacesOK => PlacesOK'
BY DEF Unserved, Queued, Handed, Served, Held, Passed, Engaged, Alive, PlacesOK

\* A worker that is not busy may go where it is not busy either.
LEMMA ServedKept ==
  ASSUME UNCHANGED <<submitted, tasks, dispatcher>>, NEW w \in Workers,
         worker[w].pc # "busy", worker'[w].pc # "busy",
         \A v \in Workers \ {w} : worker'[v] = worker[v]
  PROVE  Unserved' = Unserved /\ (PlacesOK => PlacesOK')
<1>1. \A t : \A v \in Workers : Served(t, v)' <=> Served(t, v)
  BY DEF Served
<1>2. \A t : (Queued(t)' <=> Queued(t)) /\ (Handed(t)' <=> Handed(t))
  BY DEF Queued, Handed
<1>3. Unserved' = Unserved
  BY <1>1, <1>2 DEF Unserved, Tasks
<1>4. ASSUME PlacesOK PROVE PlacesOK'
  BY <1>1, <1>2, <1>4 DEF PlacesOK, Tasks
<1> QED BY <1>3, <1>4

-----------------------------------------------------------------------------
(* The executor: the command. *)

\* Before the command starts nothing is queued, in hand or counted.
LEMMA InitExecInv == Init => ExecInv
<1> SUFFICES ASSUME Init PROVE ExecInv
  OBVIOUS
<1>1. TypeOK
  BY TaskFacts DEF Init, TypeOK, Idle
<1>2. Engaged = {} /\ Unserved = Tasks
  BY TaskFacts DEF Init, Engaged, Unserved, Idle
<1>3. PlacesOK /\ HandsOK
  BY DEF Init, PlacesOK, HandsOK, Handed, Served, Queued, Idle
<1>4. CountsOK
  BY <1>2, FS_EmptySet DEF Init, CountsOK, Held, Passed, Idle
<1>5. CallsMade /\ PhaseOK
  BY <1>2 DEF Init, CallsMade, PhaseOK, Idle, Nobody
<1> QED BY <1>1, <1>3, <1>4, <1>5 DEF ExecInv

\* Executor.Start: the wait group of the command counts all tasks.
LEMMA StartInv == ExecInv /\ Start => ExecInv'
<1> SUFFICES ASSUME ExecInv, Start PROVE ExecInv'
  OBVIOUS
<1>1. /\ submitted = 0 /\ tasks = <<>> /\ dispatcher.pc = "none" /\ worker = Nobody
      /\ main' = "submit" /\ left' = Iterations /\ state' = "STARTED" /\ dispatcher' = Idle
      /\ poolWg' = Cardinality(Workers)
      /\ worker' = [w \in Workers |-> [pc |-> "start", task |-> 0]]
      /\ UNCHANGED <<submitted, tasks, queueWg, available, taskWg, toStop, victim, ran, failed>>
  BY DEF ExecInv, PhaseOK, Start
<1>2. Cardinality(Workers) \in Nat
  BY FiniteFacts
<1>3. TypeOK'
  BY <1>1, <1>2, TaskFacts DEF ExecInv, TypeOK, Idle
<1>4. /\ Engaged = {} /\ Engaged' = {} /\ Alive' = Workers
      /\ Unserved' = Tasks /\ Unserved = Tasks
  BY <1>1, TaskFacts DEF Engaged, Alive, Unserved, Nobody
<1>5. PlacesOK' /\ HandsOK'
  BY <1>1 DEF PlacesOK, HandsOK, Handed, Served, Queued, Idle
<1>6. CountsOK'
  BY <1>1, <1>4, FiniteFacts DEF ExecInv, CountsOK, Held, Passed, Idle
<1>7. CallsMade' /\ PhaseOK'
  BY <1>1, <1>4 DEF CallsMade, PhaseOK
<1> QED BY <1>3, <1>5, <1>6, <1>7 DEF ExecInv

\* A task that is submitted is queued.
LEMMA SubmitInv == ExecInv /\ Submit => ExecInv'
<1> SUFFICES ASSUME ExecInv, Submit PROVE ExecInv'
  OBVIOUS
<1>1. /\ main = "submit" /\ submitted < Iterations /\ submitted' = submitted + 1
      /\ queueWg' = queueWg + 1 /\ tasks' = Append(tasks, submitted + 1)
      /\ UNCHANGED <<main, left, state, dispatcher, available, taskWg, poolWg, toStop, victim,
                     worker, ran, failed>>
  BY DEF Submit, Put, pool, work
<1>2. /\ tasks \in Seq(Tasks) /\ submitted \in 0 .. Iterations /\ queueWg \in Nat
      /\ submitted + 1 \in Tasks
  BY <1>1, TaskFacts DEF ExecInv, TypeOK
<1>3. /\ tasks' \in Seq(Tasks) /\ Len(tasks') = Len(tasks) + 1 /\ Len(tasks) \in Nat
      /\ \A i \in 1 .. Len(tasks) : tasks'[i] = tasks[i] /\ tasks[i] \in Tasks
      /\ tasks'[Len(tasks) + 1] = submitted + 1
  BY <1>1, <1>2
<1>4. TypeOK'
  BY <1>1, <1>2, <1>3, TaskFacts DEF ExecInv, TypeOK
<1>5. \A t \in Tasks : Queued(t)' <=> Queued(t) \/ t = submitted + 1
  BY <1>3 DEF Queued
<1>6. /\ \A t : Handed(t)' <=> Handed(t)
      /\ \A t, w : Served(t, w)' <=> Served(t, w)
  BY <1>1 DEF Handed, Served
<1>7. \A t \in Tasks : t > submitted <=> t = submitted + 1 \/ t > submitted + 1
  BY <1>2, TaskFacts
<1>8. Unserved' = Unserved
  BY <1>1, <1>5, <1>6, <1>7 DEF Unserved, Tasks
<1>9. PlacesOK'
  <2>1. \A i \in 1 .. Len(tasks) : tasks[i] <= submitted
    BY DEF ExecInv, PlacesOK
  <2>2. \A i \in 1 .. Len(tasks') : tasks'[i] <= submitted'
    BY <1>1, <1>2, <1>3, <2>1, TaskFacts
  <2>3. \A i, j \in 1 .. Len(tasks') : tasks'[i] = tasks'[j] => i = j
    <3>1. \A i \in 1 .. Len(tasks') : i \in 1 .. Len(tasks) \/ i = Len(tasks) + 1
      BY <1>3
    <3>2. \A i \in 1 .. Len(tasks) : tasks'[i] # submitted + 1
      BY <1>2, <1>3, <2>1, TaskFacts
    <3>3. \A i, j \in 1 .. Len(tasks) : tasks'[i] = tasks'[j] => i = j
      BY <1>3 DEF ExecInv, PlacesOK
    <3> QED BY <1>3, <3>1, <3>2, <3>3
  <2>4. \A t \in Tasks : t <= submitted => t <= submitted' /\ t # submitted + 1
    BY <1>1, <1>2, TaskFacts
  <2>5. \A t \in Tasks : Handed(t)' => t <= submitted' /\ ~Queued(t)'
    BY <1>5, <1>6, <2>4 DEF ExecInv, PlacesOK
  <2>6. \A t \in Tasks, w \in Workers : Served(t, w)' =>
          /\ t <= submitted' /\ ~Queued(t)' /\ ~Handed(t)'
          /\ \A v \in Workers : Served(t, v)' => v = w
    BY <1>5, <1>6, <2>4 DEF ExecInv, PlacesOK
  <2> QED BY <2>2, <2>3, <2>5, <2>6 DEF PlacesOK, Tasks
<1>10. HandsOK' /\ CallsMade'
  BY <1>1, <1>8 DEF ExecInv, HandsOK, CallsMade, Tasks
<1>11. CountsOK'
  <2>1. Engaged' = Engaged /\ Alive' = Alive /\ Held' = Held /\ Passed' = Passed
    BY <1>1 DEF Engaged, Alive, Held, Passed
  <2>2. Held \in Nat
    BY DEF Held
  <2> QED BY <1>1, <1>3, <1>8, <2>1, <2>2 DEF ExecInv, CountsOK
<1>12. PhaseOK'
  BY <1>1 DEF ExecInv, PhaseOK
<1> QED BY <1>4, <1>9, <1>10, <1>11, <1>12 DEF ExecInv

\* wg.Wait: the wait group of the command is empty, and so is the set it counts.
LEMMA StopInv == ExecInv /\ Stop => ExecInv'
<1> SUFFICES ASSUME ExecInv, Stop PROVE ExecInv'
  OBVIOUS
<1>1. /\ main = "submit" /\ left = 0 /\ main' = "stop" /\ state' = "TERMINATED"
      /\ UNCHANGED <<submitted, left, tasks, queueWg, dispatcher, available, taskWg, poolWg, toStop,
                     victim, worker, ran, failed>>
  BY DEF Stop, pool, work
<1>2. TypeOK'
  BY <1>1 DEF ExecInv, TypeOK
<1>3. /\ Unserved' = Unserved /\ Held' = Held /\ Passed' = Passed
      /\ Engaged' = Engaged /\ Alive' = Alive /\ PlacesOK'
  BY <1>1, SetsKept DEF ExecInv
<1>4. Unserved = {}
  <2>1. IsFiniteSet(Unserved)
    BY FiniteFacts DEF Unserved
  <2> QED BY <1>1, <2>1, FS_EmptySet DEF ExecInv, CountsOK
<1>5. HandsOK' /\ CountsOK' /\ CallsMade' /\ PhaseOK'
  BY <1>1, <1>3, <1>4 DEF ExecInv, HandsOK, CountsOK, CallsMade, PhaseOK
<1> QED BY <1>2, <1>3, <1>5 DEF ExecInv

\* Executor.Stop stops the dispatcher when it has nothing in hand and nothing queued.
LEMMA StopDispatcherInv == ExecInv /\ StopDispatcher => ExecInv'
<1> SUFFICES ASSUME ExecInv, StopDispatcher PROVE ExecInv'
  OBVIOUS
<1>1. /\ main = "stop" /\ queueWg = 0 /\ dispatcher.pc = "select"
      /\ main' = "pool" /\ dispatcher' = [dispatcher EXCEPT !.pc = "ended"]
      /\ UNCHANGED <<submitted, left, state, tasks, queueWg, available, taskWg, poolWg, toStop,
                     victim, worker, ran, failed>>
  BY DEF StopDispatcher, pool, work
<1>2. dispatcher \in DispatcherType
  BY DEF ExecInv, TypeOK, DispatcherType
<1>3. dispatcher' \in DispatcherType /\ dispatcher'.pc = "ended"
  BY <1>1, <1>2 DEF DispatcherType
<1>4. TypeOK'
  BY <1>1, <1>3 DEF ExecInv, TypeOK, DispatcherType
<1>5. tasks = <<>>
  <2>1. tasks \in Seq(Tasks) /\ Len(tasks) = 0
    BY <1>1 DEF ExecInv, TypeOK, CountsOK, Held
  <2> QED BY <2>1
<1>6. /\ \A t : (Queued(t)' <=> Queued(t)) /\ ~Handed(t) /\ ~Handed(t)'
      /\ \A t, w : Served(t, w)' <=> Served(t, w)
  BY <1>1, <1>3 DEF Queued, Handed, Served
<1>7. Unserved' = Unserved /\ Engaged' = Engaged /\ Alive' = Alive /\ Held' = Held /\ Passed' = Passed
  BY <1>1, <1>3, <1>6 DEF Unserved, Engaged, Alive, Held, Passed, Tasks
<1>8. PlacesOK'
  BY <1>1, <1>6 DEF ExecInv, PlacesOK, Tasks
<1>9. HandsOK' /\ CountsOK' /\ CallsMade' /\ PhaseOK'
  BY <1>1, <1>3, <1>5, <1>7 DEF ExecInv, HandsOK, CountsOK, CallsMade, PhaseOK
<1> QED BY <1>4, <1>8, <1>9 DEF ExecInv

\* Pool.Stop waits for the tasks, and takes idle workers.
LEMMA StopPoolInv == ExecInv /\ (StopPool \/ TakeIdle) => ExecInv'
<1> SUFFICES ASSUME ExecInv, StopPool \/ TakeIdle PROVE ExecInv'
  OBVIOUS
<1>1. /\ main \in {"pool", "drain"} /\ main' \in {"drain", "kill"}
      /\ UNCHANGED <<submitted, left, state, tasks, queueWg, dispatcher, taskWg, poolWg, worker,
                     ran, failed>>
  BY DEF StopPool, TakeIdle, exec, work
<1>2. TypeOK' /\ HandsOK'
  <2>1. CASE StopPool
    <3>1. Cardinality(Workers) \in Nat
      BY FiniteFacts
    <3> QED BY <2>1, <3>1 DEF ExecInv, TypeOK, HandsOK, StopPool, exec, work
  <2>2. CASE TakeIdle
    <3>1. available \in Seq(Workers) /\ available # <<>> /\ toStop \in Nat /\ toStop > 0
      BY <2>2 DEF ExecInv, TypeOK, TakeIdle
    <3>2. Head(available) \in Workers /\ Tail(available) \in Seq(Workers) /\ toStop - 1 \in Nat
      BY <3>1
    <3> QED BY <2>2, <3>2 DEF ExecInv, TypeOK, HandsOK, TakeIdle, exec, work
  <2> QED BY <2>1, <2>2
<1>3. /\ Unserved' = Unserved /\ Held' = Held /\ Passed' = Passed
      /\ Engaged' = Engaged /\ Alive' = Alive /\ PlacesOK'
  BY <1>1, SetsKept DEF ExecInv
<1>4. CountsOK' /\ CallsMade' /\ PhaseOK'
  BY <1>1, <1>3 DEF ExecInv, CountsOK, CallsMade, PhaseOK
<1> QED BY <1>2, <1>3, <1>4 DEF ExecInv

\* Pool.Stop stops a worker that is idle.
LEMMA StopWorkerInv == ExecInv /\ StopWorker => ExecInv'
<1> SUFFICES ASSUME ExecInv, StopWorker PROVE ExecInv'
  OBVIOUS
<1>1. /\ main = "kill" /\ worker[victim].pc = "select" /\ main' = "drain" /\ victim' = None
      /\ GoTo(victim, "stopping") /\ victim \in Workers
      /\ UNCHANGED <<submitted, left, state, tasks, queueWg, dispatcher, available, taskWg, poolWg,
                     toStop, ran, failed>>
  BY DEF ExecInv, HandsOK, StopWorker, GoTo, exec
<1>2. /\ worker' \in [Workers -> WorkerType] /\ worker'[victim].pc = "stopping"
      /\ \A v \in Workers \ {victim} : worker'[v] = worker[v]
  BY <1>1, GoToFacts DEF ExecInv
<1>3. TypeOK'
  BY <1>1, <1>2 DEF ExecInv, TypeOK, WorkerType
<1>4. Unserved' = Unserved /\ PlacesOK'
  BY <1>1, <1>2, ServedKept DEF ExecInv
<1>5. Engaged' = Engaged /\ Alive' = Alive /\ Held' = Held /\ Passed' = Passed
  BY <1>1, <1>2 DEF Engaged, Alive, Held, Passed
<1>6. HandsOK' /\ CountsOK' /\ CallsMade' /\ PhaseOK'
  BY <1>1, <1>2, <1>4, <1>5 DEF ExecInv, HandsOK, CountsOK, CallsMade, PhaseOK
<1> QED BY <1>3, <1>4, <1>6 DEF ExecInv

\* The command returns when the wait group of the workers is empty.
LEMMA ReturnInv == ExecInv /\ Return => ExecInv'
<1> SUFFICES ASSUME ExecInv, Return PROVE ExecInv'
  OBVIOUS
<1>1. /\ main = "drain" /\ poolWg = 0 /\ main' = "returned"
      /\ UNCHANGED <<submitted, left, state, tasks, queueWg, dispatcher, available, taskWg, poolWg,
                     toStop, victim, worker, ran, failed>>
  BY DEF Return, Stopped, exec, pool, work
<1>2. TypeOK'
  BY <1>1 DEF ExecInv, TypeOK
<1>3. /\ Unserved' = Unserved /\ Held' = Held /\ Passed' = Passed
      /\ Engaged' = Engaged /\ Alive' = Alive /\ PlacesOK'
  BY <1>1, SetsKept DEF ExecInv
<1>4. Alive = {}
  <2>1. IsFiniteSet(Alive)
    BY FiniteFacts DEF Alive
  <2> QED BY <1>1, <2>1, FS_EmptySet DEF ExecInv, CountsOK
<1>5. HandsOK' /\ CountsOK' /\ CallsMade' /\ PhaseOK'
  BY <1>1, <1>3, <1>4 DEF ExecInv, HandsOK, CountsOK, CallsMade, PhaseOK
<1> QED BY <1>2, <1>3, <1>5 DEF ExecInv

-----------------------------------------------------------------------------
(* The executor: the dispatcher. *)

\* The dispatcher takes the first task of the queue in hand.
LEMMA DispatchInv == ExecInv /\ Dispatch => ExecInv'
<1> SUFFICES ASSUME ExecInv, Dispatch PROVE ExecInv'
  OBVIOUS
<1>1. /\ dispatcher.pc = "select" /\ tasks # <<>> /\ tasks' = Tail(tasks) /\ taskWg' = taskWg + 1
      /\ dispatcher' = [dispatcher EXCEPT !.pc = "pick", !.task = Head(tasks)]
      /\ UNCHANGED <<main, submitted, left, state, queueWg, available, poolWg, toStop, victim,
                     worker, ran, failed>>
  BY DEF Dispatch, command, work
<1>2. tasks \in Seq(Tasks) /\ dispatcher \in DispatcherType
  BY DEF ExecInv, TypeOK, DispatcherType
<1>3. /\ Len(tasks) \in Nat \ {0} /\ Head(tasks) = tasks[1] /\ Head(tasks) \in Tasks
      /\ tasks' \in Seq(Tasks) /\ Len(tasks') = Len(tasks) - 1
      /\ \A i \in 1 .. Len(tasks') : i + 1 \in 1 .. Len(tasks) /\ tasks'[i] = tasks[i + 1]
      /\ \A i \in 2 .. Len(tasks) : i - 1 \in 1 .. Len(tasks') /\ tasks[i] = tasks'[i - 1]
  BY <1>1, <1>2
<1>4. dispatcher' \in DispatcherType /\ dispatcher'.pc = "pick" /\ dispatcher'.task = tasks[1]
  BY <1>1, <1>2, <1>3 DEF DispatcherType
<1>5. TypeOK'
  BY <1>1, <1>3, <1>4 DEF ExecInv, TypeOK, DispatcherType
<1>6. /\ \A i \in 1 .. Len(tasks) : tasks[i] <= submitted
      /\ \A i, j \in 1 .. Len(tasks) : tasks[i] = tasks[j] => i = j
  BY DEF ExecInv, PlacesOK
<1>7. \A i \in 1 .. Len(tasks') : tasks'[i] # tasks[1]
  BY <1>3, <1>6
<1>8. \A t : Queued(t) <=> Queued(t)' \/ t = tasks[1]
  <2>1. \A i \in 1 .. Len(tasks) : i = 1 \/ i \in 2 .. Len(tasks)
    BY <1>3
  <2>2. 1 \in 1 .. Len(tasks)
    BY <1>3
  <2> QED BY <1>3, <2>1, <2>2 DEF Queued
<1>9. \A t : Queued(t)' => t # tasks[1]
  BY <1>7 DEF Queued
<1>10. \A t : ~Handed(t) /\ (Handed(t)' <=> t = tasks[1])
  BY <1>1, <1>4 DEF Handed
<1>11. \A t, w : Served(t, w)' <=> Served(t, w)
  BY <1>1 DEF Served
<1>12. Unserved' = Unserved
  BY <1>1, <1>8, <1>10, <1>11 DEF Unserved, Tasks
<1>13. PlacesOK'
  <2>1. \A i \in 1 .. Len(tasks') : tasks'[i] <= submitted'
    BY <1>1, <1>3, <1>6
  <2>2. \A i, j \in 1 .. Len(tasks') : tasks'[i] = tasks'[j] => i = j
    <3> SUFFICES ASSUME NEW i \in 1 .. Len(tasks'), NEW j \in 1 .. Len(tasks'), tasks'[i] = tasks'[j]
                 PROVE  i = j
      OBVIOUS
    <3>1. i + 1 = j + 1
      BY <1>3, <1>6
    <3> QED BY <3>1
  <2>3. 1 \in 1 .. Len(tasks)
    BY <1>3
  <2>4. \A t \in Tasks : Handed(t)' => t <= submitted' /\ ~Queued(t)'
    BY <1>1, <1>6, <1>9, <1>10, <2>3
  <2>5. \A t \in Tasks, w \in Workers : Served(t, w) => t # tasks[1]
    BY <1>8 DEF ExecInv, PlacesOK
  <2>6. \A t \in Tasks, w \in Workers : Served(t, w)' =>
          /\ t <= submitted' /\ ~Queued(t)' /\ ~Handed(t)'
          /\ \A v \in Workers : Served(t, v)' => v = w
    BY <1>1, <1>8, <1>10, <1>11, <2>5 DEF ExecInv, PlacesOK
  <2> QED BY <2>1, <2>2, <2>4, <2>6 DEF PlacesOK, Tasks
<1>14. HandsOK' /\ CallsMade'
  BY <1>1, <1>3, <1>4, <1>12 DEF ExecInv, HandsOK, CallsMade, Tasks
<1>15. CountsOK'
  <2>1. Engaged' = Engaged /\ Alive' = Alive
    BY <1>1 DEF Engaged, Alive
  <2>2. Held = 0 /\ Held' = 1 /\ Passed = 0 /\ Passed' = 1
    BY <1>1, <1>4 DEF Held, Passed
  <2>3. Cardinality(Engaged) \in Nat
    BY FiniteFacts DEF Engaged
  <2> QED BY <1>1, <1>3, <1>12, <2>1, <2>2, <2>3 DEF ExecInv, CountsOK
<1>16. PhaseOK'
  <2>1. main \notin {"new", "pool", "drain", "kill", "returned"}
    BY <1>1 DEF ExecInv, PhaseOK
  <2> QED BY <1>1, <1>12, <2>1 DEF ExecInv, PhaseOK
<1> QED BY <1>5, <1>13, <1>14, <1>15, <1>16 DEF ExecInv

\* ... and an idle worker.
LEMMA PickInv == ExecInv /\ Pick => ExecInv'
<1> SUFFICES ASSUME ExecInv, Pick PROVE ExecInv'
  OBVIOUS
<1>1. /\ dispatcher.pc = "pick" /\ available # <<>> /\ available' = Tail(available)
      /\ dispatcher' = [dispatcher EXCEPT !.pc = "give", !.worker = Head(available)]
      /\ UNCHANGED <<main, submitted, left, state, tasks, queueWg, taskWg, poolWg, toStop, victim,
                     worker, ran, failed>>
  BY DEF Pick, command, work
<1>2. available \in Seq(Workers) /\ dispatcher \in DispatcherType
  BY DEF ExecInv, TypeOK, DispatcherType
<1>3. Head(available) \in Workers /\ available' \in Seq(Workers)
  BY <1>1, <1>2
<1>4. /\ dispatcher' \in DispatcherType /\ dispatcher'.pc = "give"
      /\ dispatcher'.task = dispatcher.task /\ dispatcher'.worker \in Workers
  BY <1>1, <1>2, <1>3 DEF DispatcherType
<1>5. TypeOK'
  BY <1>1, <1>3, <1>4 DEF ExecInv, TypeOK, DispatcherType
<1>6. /\ \A t : (Queued(t)' <=> Queued(t)) /\ (Handed(t)' <=> Handed(t))
      /\ \A t, w : Served(t, w)' <=> Served(t, w)
  BY <1>1, <1>4 DEF Queued, Handed, Served
<1>7. Unserved' = Unserved /\ Engaged' = Engaged /\ Alive' = Alive /\ Held' = Held /\ Passed' = Passed
  BY <1>1, <1>4, <1>6 DEF Unserved, Engaged, Alive, Held, Passed, Tasks
<1>8. PlacesOK'
  BY <1>1, <1>6 DEF ExecInv, PlacesOK, Tasks
<1>9. HandsOK' /\ CountsOK' /\ CallsMade'
  BY <1>1, <1>4, <1>7 DEF ExecInv, HandsOK, CountsOK, CallsMade, Tasks
<1>10. PhaseOK'
  BY <1>1, <1>7 DEF ExecInv, PhaseOK
<1> QED BY <1>5, <1>8, <1>9, <1>10 DEF ExecInv

\* ... and gives the task to the worker.
LEMMA GiveInv == ExecInv /\ Give => ExecInv'
<1> SUFFICES ASSUME ExecInv, Give PROVE ExecInv'
  OBVIOUS
<1> DEFINE w == dispatcher.worker
           t == dispatcher.task
<1>1. /\ dispatcher.pc = "give" /\ worker[w].pc = "select"
      /\ worker' = [worker EXCEPT ![w] = [pc |-> "busy", task |-> t]]
      /\ dispatcher' = [Idle EXCEPT !.pc = "given"]
      /\ UNCHANGED <<main, submitted, left, state, tasks, queueWg, available, taskWg, poolWg, toStop,
                     victim, ran, failed>>
  BY DEF Give, command, pool
<1>2. w \in Workers /\ t \in Tasks /\ worker \in [Workers -> WorkerType]
  BY <1>1 DEF ExecInv, HandsOK, TypeOK, WorkerType
<1> HIDE DEF w
<1>3. /\ worker' \in [Workers -> WorkerType] /\ worker'[w] = [pc |-> "busy", task |-> t]
      /\ \A v \in Workers \ {w} : worker'[v] = worker[v]
  BY <1>1, <1>2 DEF WorkerType
<1>4. dispatcher' \in DispatcherType /\ dispatcher'.pc = "given"
  BY <1>1 DEF DispatcherType, Idle
<1>5. TypeOK'
  BY <1>1, <1>3, <1>4 DEF ExecInv, TypeOK, DispatcherType, WorkerType
<1>6. Handed(t) /\ \A s : (Handed(s) => s = t) /\ ~Handed(s)'
  BY <1>1, <1>4 DEF Handed
<1>7. \A s : Queued(s)' <=> Queued(s)
  BY <1>1 DEF Queued
<1>8. \A s : \A v \in Workers : Served(s, v)' <=> Served(s, v) \/ (s = t /\ v = w)
  BY <1>1, <1>2, <1>3 DEF Served
<1>9. \A v \in Workers : ~Served(t, v)
  BY <1>2, <1>6 DEF ExecInv, PlacesOK
<1> HIDE DEF t
<1>10. Unserved' = Unserved
  BY <1>1, <1>2, <1>6, <1>7, <1>8 DEF Unserved, Tasks
<1>11. PlacesOK'
  <2>1. \A s \in Tasks, v \in Workers : Served(s, v)' =>
          /\ s <= submitted' /\ ~Queued(s)' /\ ~Handed(s)'
          /\ \A u \in Workers : Served(s, u)' => u = v
    <3> SUFFICES ASSUME NEW s \in Tasks, NEW v \in Workers, Served(s, v)'
                 PROVE  /\ s <= submitted' /\ ~Queued(s)' /\ ~Handed(s)'
                        /\ \A u \in Workers : Served(s, u)' => u = v
      OBVIOUS
    <3>1. CASE s = t
      BY <1>1, <1>2, <1>6, <1>7, <1>8, <1>9, <3>1 DEF ExecInv, PlacesOK
    <3>2. CASE s # t
      BY <1>1, <1>6, <1>7, <1>8, <3>2 DEF ExecInv, PlacesOK
    <3> QED BY <3>1, <3>2
  <2> QED BY <1>1, <1>6, <2>1 DEF ExecInv, PlacesOK, Tasks
<1>12. HandsOK' /\ CallsMade'
  BY <1>1, <1>2, <1>3, <1>4, <1>10 DEF ExecInv, HandsOK, CallsMade, Tasks
<1>13. CountsOK'
  <2>1. Engaged' = Engaged \cup {w} /\ w \notin Engaged /\ Alive' = Alive
    BY <1>1, <1>2, <1>3 DEF Engaged, Alive
  <2>2. IsFiniteSet(Engaged) /\ Cardinality(Engaged) \in Nat
    BY FiniteFacts DEF Engaged
  <2>3. Cardinality(Engaged') = Cardinality(Engaged) + 1
    BY <2>1, <2>2, FS_AddElement
  <2>4. Held = 1 /\ Held' = 1 /\ Passed = 1 /\ Passed' = 0
    BY <1>1, <1>4 DEF Held, Passed
  <2> QED BY <1>1, <1>10, <2>1, <2>2, <2>3, <2>4 DEF ExecInv, CountsOK
<1>14. PhaseOK'
  <2>1. main \notin {"new", "pool", "drain", "kill", "returned"}
    BY <1>1 DEF ExecInv, PhaseOK
  <2>2. \A v \in Workers : worker'[v].pc # "none"
    BY <1>3, <2>1 DEF ExecInv, PhaseOK
  <2> QED BY <1>1, <1>10, <2>1, <2>2 DEF ExecInv, PhaseOK
<1> QED BY <1>5, <1>11, <1>12, <1>13, <1>14 DEF ExecInv

\* The dispatcher is done with the task.
LEMMA GivenInv == ExecInv /\ Given => ExecInv'
<1> SUFFICES ASSUME ExecInv, Given PROVE ExecInv'
  OBVIOUS
<1>1. /\ dispatcher.pc = "given" /\ dispatcher' = Idle /\ queueWg' = queueWg - 1
      /\ UNCHANGED <<main, submitted, left, state, tasks, available, taskWg, poolWg, toStop, victim,
                     worker, ran, failed>>
  BY DEF Given, command, pool, work
<1>2. dispatcher' \in DispatcherType /\ dispatcher'.pc = "select"
  BY <1>1 DEF DispatcherType, Idle
<1>3. Held = 1 /\ Held' = 0 /\ Passed' = Passed
  BY <1>1, <1>2 DEF Held, Passed
<1>4. Len(tasks) \in Nat /\ queueWg = Len(tasks) + 1 /\ queueWg' = Len(tasks)
  BY <1>1, <1>3 DEF ExecInv, TypeOK, CountsOK
<1>5. TypeOK'
  BY <1>1, <1>2, <1>4 DEF ExecInv, TypeOK, DispatcherType
<1>6. /\ \A t : (Queued(t)' <=> Queued(t)) /\ ~Handed(t) /\ ~Handed(t)'
      /\ \A t, w : Served(t, w)' <=> Served(t, w)
  BY <1>1, <1>2 DEF Queued, Handed, Served
<1>7. Unserved' = Unserved /\ Engaged' = Engaged /\ Alive' = Alive
  BY <1>1, <1>6 DEF Unserved, Engaged, Alive, Tasks
<1>8. PlacesOK'
  BY <1>1, <1>6 DEF ExecInv, PlacesOK, Tasks
<1>9. HandsOK' /\ CountsOK' /\ CallsMade'
  BY <1>1, <1>2, <1>3, <1>4, <1>7 DEF ExecInv, HandsOK, CountsOK, CallsMade, Tasks
<1>10. PhaseOK'
  BY <1>1, <1>7 DEF ExecInv, PhaseOK
<1> QED BY <1>5, <1>8, <1>9, <1>10 DEF ExecInv

-----------------------------------------------------------------------------
(* The executor: a worker. *)

\* A worker is idle again.
LEMMA ReadyInv == \A w \in Workers : ExecInv /\ Ready(w) => ExecInv'
<1> SUFFICES ASSUME NEW w \in Workers, ExecInv, Ready(w) PROVE ExecInv'
  OBVIOUS
<1>1. /\ worker[w].pc = "start" /\ GoTo(w, "select") /\ available' = Append(available, w)
      /\ UNCHANGED <<main, submitted, left, state, tasks, queueWg, dispatcher, taskWg, poolWg, toStop,
                     victim, ran, failed>>
  BY DEF Ready, Put, command, exec
<1>2. /\ worker' \in [Workers -> WorkerType] /\ worker'[w].pc = "select"
      /\ \A v \in Workers \ {w} : worker'[v] = worker[v]
  BY <1>1, GoToFacts DEF ExecInv
<1>3. TypeOK'
  BY <1>1, <1>2 DEF ExecInv, TypeOK, WorkerType
<1>4. Unserved' = Unserved /\ PlacesOK'
  BY <1>1, <1>2, ServedKept DEF ExecInv
<1>5. Engaged' = Engaged /\ Alive' = Alive /\ Held' = Held /\ Passed' = Passed
  BY <1>1, <1>2 DEF Engaged, Alive, Held, Passed
<1>6. main # "new"
  BY <1>1 DEF ExecInv, PhaseOK, Nobody
<1>7. HandsOK' /\ CountsOK' /\ CallsMade' /\ PhaseOK'
  BY <1>1, <1>2, <1>4, <1>5, <1>6 DEF ExecInv, HandsOK, CountsOK, CallsMade, PhaseOK
<1> QED BY <1>3, <1>4, <1>7 DEF ExecInv

\* One call of the task in hand.
LEMMA InvokeTaskInv == \A w \in Workers : ExecInv /\ InvokeTask(w) => ExecInv'
<1> SUFFICES ASSUME NEW w \in Workers, ExecInv, InvokeTask(w) PROVE ExecInv'
  OBVIOUS
<1> DEFINE t == worker[w].task
<1>1. /\ worker[w].pc = "busy" /\ ran[t] < Calls /\ ran' = [ran EXCEPT ![t] = @ + 1]
      /\ failed' \in {failed, failed + 1}
      /\ UNCHANGED <<main, submitted, left, state, tasks, queueWg, dispatcher, available, taskWg,
                     poolWg, toStop, victim, worker>>
  BY DEF InvokeTask, command, exec, pool
<1>2. t \in Tasks /\ t \in Unserved
  BY <1>1 DEF ExecInv, HandsOK, Unserved, Served
<1>3. ran \in [Tasks -> 0 .. Calls] /\ failed \in Nat
  BY DEF ExecInv, TypeOK
<1> HIDE DEF t
<1>4. /\ ran' \in [Tasks -> 0 .. Calls] /\ failed' \in Nat
      /\ \A s \in Tasks \ {t} : ran'[s] = ran[s]
  BY <1>1, <1>2, <1>3, TaskFacts
<1>5. TypeOK'
  BY <1>1, <1>4 DEF ExecInv, TypeOK
<1>6. /\ Unserved' = Unserved /\ Held' = Held /\ Passed' = Passed
      /\ Engaged' = Engaged /\ Alive' = Alive /\ PlacesOK'
  BY <1>1, SetsKept DEF ExecInv
<1>7. CallsMade'
  BY <1>2, <1>4, <1>6 DEF ExecInv, CallsMade, Tasks
<1>8. main # "new"
  BY <1>1 DEF ExecInv, PhaseOK, Nobody
<1>9. HandsOK' /\ CountsOK' /\ PhaseOK'
  BY <1>1, <1>6, <1>8 DEF ExecInv, HandsOK, CountsOK, PhaseOK, Tasks
<1> QED BY <1>5, <1>6, <1>7, <1>9 DEF ExecInv

\* MultiTask.Invoke is done: the task is the worker's alone, and leaves what the
\* command's wait group counts.
LEMMA MultiTaskDoneInv == \A w \in Workers : ExecInv /\ MultiTaskDone(w) => ExecInv'
<1> SUFFICES ASSUME NEW w \in Workers, ExecInv, MultiTaskDone(w) PROVE ExecInv'
  OBVIOUS
<1> DEFINE t == worker[w].task
<1>1. /\ worker[w].pc = "busy" /\ ran[t] = Calls /\ GoTo(w, "completed") /\ left' = left - 1
      /\ UNCHANGED <<main, submitted, state, tasks, queueWg, dispatcher, available, taskWg, poolWg,
                     toStop, victim, ran, failed>>
  BY DEF MultiTaskDone, AllCalled, exec, pool
<1>2. /\ worker' \in [Workers -> WorkerType] /\ worker'[w].pc = "completed"
      /\ \A v \in Workers \ {w} : worker'[v] = worker[v]
  BY <1>1, GoToFacts DEF ExecInv
<1>3. t \in Tasks /\ Served(t, w)
  BY <1>1 DEF ExecInv, HandsOK, Served
<1>4. /\ t <= submitted /\ ~Queued(t) /\ ~Handed(t)
      /\ \A v \in Workers : Served(t, v) => v = w
  BY <1>3 DEF ExecInv, PlacesOK
<1>5. /\ \A s : (Queued(s)' <=> Queued(s)) /\ (Handed(s)' <=> Handed(s))
      /\ \A s : \A v \in Workers : Served(s, v)' <=> Served(s, v) /\ v # w
  BY <1>1, <1>2 DEF Queued, Handed, Served
<1>6. \A s : Served(s, w) => s = t
  BY DEF Served
<1> HIDE DEF t
<1>7. Unserved' = Unserved \ {t} /\ t \in Unserved
  <2>1. ~(t > submitted)
    BY <1>3, <1>4, TaskFacts DEF ExecInv, TypeOK
  <2>2. \A s \in Tasks : (\E v \in Workers : Served(s, v)') <=>
                          s # t /\ (\E v \in Workers : Served(s, v))
    BY <1>3, <1>4, <1>5, <1>6
  <2> QED BY <1>1, <1>3, <1>4, <1>5, <2>1, <2>2 DEF Unserved, Tasks
<1>8. PlacesOK'
  BY <1>1, <1>5 DEF ExecInv, PlacesOK, Tasks
<1>9. Engaged' = Engaged /\ Alive' = Alive /\ Held' = Held /\ Passed' = Passed
  BY <1>1, <1>2 DEF Engaged, Alive, Held, Passed
<1>10. main # "new"
  BY <1>1 DEF ExecInv, PhaseOK, Nobody
<1>11. left' = Cardinality(Unserved') /\ left' \in 0 .. Iterations
  <2>1. IsFiniteSet(Unserved) /\ Cardinality(Unserved') \in 0 .. Iterations
    BY FiniteFacts DEF Unserved
  <2>2. Cardinality(Unserved') = Cardinality(Unserved) - 1
    BY <1>7, <2>1, FS_RemoveElement
  <2> QED BY <1>1, <1>10, <2>1, <2>2 DEF ExecInv, CountsOK
<1>12. TypeOK'
  BY <1>1, <1>2, <1>11 DEF ExecInv, TypeOK, WorkerType
<1>13. CallsMade'
  BY <1>1, <1>7 DEF ExecInv, CallsMade, Tasks
<1>14. HandsOK' /\ CountsOK'
  BY <1>1, <1>2, <1>9, <1>11 DEF ExecInv, HandsOK, CountsOK, Tasks
<1>15. PhaseOK'
  BY <1>1, <1>2, <1>7, <1>9, <1>10 DEF ExecInv, PhaseOK
<1> QED BY <1>8, <1>12, <1>13, <1>14, <1>15 DEF ExecInv

\* The pool's wait group for tasks: one less is in a worker's hands.
LEMMA TaskCompletedInv == \A w \in Workers : ExecInv /\ TaskCompleted(w) => ExecInv'
<1> SUFFICES ASSUME NEW w \in Workers, ExecInv, TaskCompleted(w) PROVE ExecInv'
  OBVIOUS
<1>1. /\ worker[w].pc = "completed" /\ worker' = [worker EXCEPT ![w] = [pc |-> "start", task |-> 0]]
      /\ taskWg' = taskWg - 1
      /\ UNCHANGED <<main, submitted, left, state, tasks, queueWg, dispatcher, available, poolWg,
                     toStop, victim, ran, failed>>
  BY DEF TaskCompleted, TaskWgDone, command, exec
<1>2. worker \in [Workers -> WorkerType]
  BY DEF ExecInv, TypeOK, WorkerType
<1>3. /\ worker' \in [Workers -> WorkerType] /\ worker'[w].pc = "start"
      /\ \A v \in Workers \ {w} : worker'[v] = worker[v]
  BY <1>1, <1>2 DEF WorkerType
<1>4. Unserved' = Unserved /\ PlacesOK'
  BY <1>1, <1>3, ServedKept DEF ExecInv
<1>5. Engaged' = Engaged \ {w} /\ w \in Engaged /\ Alive' = Alive /\ Held' = Held /\ Passed' = Passed
  BY <1>1, <1>3 DEF Engaged, Alive, Held, Passed
<1>6. taskWg' = Passed + Cardinality(Engaged') /\ taskWg' \in Nat
  <2>1. IsFiniteSet(Engaged) /\ Cardinality(Engaged) \in Nat /\ Cardinality(Engaged') \in Nat
    BY FiniteFacts DEF Engaged
  <2>2. Cardinality(Engaged') = Cardinality(Engaged) - 1
    BY <1>5, <2>1, FS_RemoveElement
  <2>3. Passed \in Nat
    BY DEF Passed
  <2> QED BY <1>1, <2>1, <2>2, <2>3 DEF ExecInv, CountsOK
<1>7. TypeOK'
  BY <1>1, <1>3, <1>6 DEF ExecInv, TypeOK, WorkerType
<1>8. main # "new"
  BY <1>1 DEF ExecInv, PhaseOK, Nobody
<1>9. HandsOK' /\ CountsOK' /\ CallsMade' /\ PhaseOK'
  BY <1>1, <1>3, <1>4, <1>5, <1>6, <1>8 DEF ExecInv, HandsOK, CountsOK, CallsMade, PhaseOK
<1> QED BY <1>4, <1>7, <1>9 DEF ExecInv

\* A worker that was stopped ends.
LEMMA WorkerEndsInv == \A w \in Workers : ExecInv /\ WorkerEnds(w) => ExecInv'
<1> SUFFICES ASSUME NEW w \in Workers, ExecInv, WorkerEnds(w) PROVE ExecInv'
  OBVIOUS
<1>1. /\ worker[w].pc = "stopping" /\ GoTo(w, "stopped") /\ poolWg' = poolWg - 1
      /\ UNCHANGED <<main, submitted, left, state, tasks, queueWg, dispatcher, available, taskWg,
                     toStop, victim, ran, failed>>
  BY DEF WorkerEnds, command, exec
<1>2. /\ worker' \in [Workers -> WorkerType] /\ worker'[w].pc = "stopped"
      /\ \A v \in Workers \ {w} : worker'[v] = worker[v]
  BY <1>1, GoToFacts DEF ExecInv
<1>3. Unserved' = Unserved /\ PlacesOK'
  BY <1>1, <1>2, ServedKept DEF ExecInv
<1>4. Engaged' = Engaged /\ Alive' = Alive \ {w} /\ w \in Alive /\ Held' = Held /\ Passed' = Passed
  BY <1>1, <1>2 DEF Engaged, Alive, Held, Passed
<1>5. main # "new"
  BY <1>1 DEF ExecInv, PhaseOK, Nobody
<1>6. poolWg' = Cardinality(Alive') /\ poolWg' \in Nat
  <2>1. IsFiniteSet(Alive) /\ Cardinality(Alive') \in Nat
    BY FiniteFacts DEF Alive
  <2>2. Cardinality(Alive') = Cardinality(Alive) - 1
    BY <1>4, <2>1, FS_RemoveElement
  <2> QED BY <1>1, <1>5, <2>1, <2>2 DEF ExecInv, CountsOK
<1>7. TypeOK'
  BY <1>1, <1>2, <1>6 DEF ExecInv, TypeOK, WorkerType
<1>8. HandsOK' /\ CountsOK' /\ CallsMade' /\ PhaseOK'
  BY <1>1, <1>2, <1>3, <1>4, <1>5, <1>6 DEF ExecInv, HandsOK, CountsOK, CallsMade, PhaseOK
<1> QED BY <1>3, <1>7, <1>8 DEF ExecInv

-----------------------------------------------------------------------------
(* The executor: theorems. *)

\* Every step of the executor keeps its invariant.
LEMMA NextExecInv == ExecInv /\ [Next]_vars => ExecInv'
<1> SUFFICES ASSUME ExecInv, [Next]_vars PROVE ExecInv'
  OBVIOUS
<1>1. CASE Start
  BY <1>1, StartInv
<1>2. CASE Main
  BY <1>2, SubmitInv, StopInv, StopDispatcherInv, StopPoolInv, StopWorkerInv, ReturnInv DEF Main
<1>3. CASE Dispatcher
  BY <1>3, DispatchInv, PickInv, GiveInv, GivenInv DEF Dispatcher
<1>4. ASSUME NEW w \in Workers, Worker(w) PROVE ExecInv'
  BY <1>4, ReadyInv, InvokeTaskInv, MultiTaskDoneInv, TaskCompletedInv, WorkerEndsInv DEF Worker
<1>5. CASE UNCHANGED vars
  <2>1. UNCHANGED <<main, submitted, left, state, tasks, queueWg, dispatcher, available, taskWg,
                    poolWg, toStop, victim, worker, ran, failed>>
    BY <1>5 DEF vars, command, exec, pool, work
  <2> QED BY <2>1, SetsKept DEF ExecInv, TypeOK, HandsOK, CountsOK, CallsMade, PhaseOK
<1> QED BY <1>1, <1>2, <1>3, <1>4, <1>5 DEF Next

\* The invariant holds of every behaviour of the executor.
LEMMA ExecInvariance == Spec => []ExecInv
<1>1. Init => ExecInv
  BY InitExecInv
<1>2. ExecInv /\ [Next]_vars => ExecInv'
  BY NextExecInv
<1> QED BY <1>1, <1>2, PTL DEF Spec

\* The counters of the wait groups stay natural numbers (a Go wait group that
\* goes below 0 panics), and queues hold tasks and workers.
THEOREM Executor_TypeOK == Spec => []TypeOK
<1>1. ExecInv => TypeOK
  BY DEF ExecInv
<1> QED BY <1>1, ExecInvariance, PTL

\* When the wait groups are empty there is no task and no worker they forgot.
LEMMA AllMade == ExecInv => AllCallsMade
<1> SUFFICES ASSUME ExecInv PROVE AllCallsMade
  OBVIOUS
<1>1. main \notin {"new", "submit"} => \A t \in Tasks : ran[t] = Calls
  BY DEF ExecInv, PhaseOK, CallsMade
<1>2. main = "returned" => \A w \in Workers : worker[w].pc = "stopped"
  BY DEF ExecInv, PhaseOK, Alive
<1> QED BY <1>1, <1>2 DEF ExecInv, PhaseOK, AllCallsMade

\* When the command stops waiting every call of every iteration was made, and once
\* it returns no goroutine of the executor is left (wg.Wait, Executor.Stop, Pool.Stop).
THEOREM Executor_AllCallsMade == Spec => []AllCallsMade
BY AllMade, ExecInvariance, PTL

-----------------------------------------------------------------------------
(* The operator: the invariant. *)

\* What the operator knows is so.
ToldOK ==
  /\ told.joined \subseteq joined
  /\ \A v \in Versions : told.installed[v] \subseteq installed[v]
  /\ told.version \in {None, deployed.version}

\* A peer of a join or an install has been served, will be, or was in the way of
\* something that the command reports.
Asked(p, done) ==
  \/ p \in done
  \/ OrgOfPeer(p) \in cmd.todo
  \/ cmd.err /\ (~cmd.clean \/ ~created \/ ~ResourceMgmtClientForOrg(OrgOfPeer(p)))
LoopOK ==
  /\ cmd.op = "join" => \A p \in cmd.peers : Asked(p, joined)
  /\ cmd.op = "install" => /\ cmd.version \in Versions
                           /\ \A p \in cmd.peers : Asked(p, installed[cmd.version])
  /\ cmd.op \in {"join", "install"} => cmd.peers \subseteq Peers /\ main = "new"
  /\ cmd.op \notin {"join", "install"} => cmd.todo = {}

\* A call is made when everything is in place, and then nothing changes.
CallOK ==
  /\ main = "new" => cmd.op \in {"none", "join", "install"}
  /\ main # "new" => /\ cmd.op \in {"invoke", "query"}
                     /\ deployed # NotDeployed /\ joined = Peers /\ installed[deployed.version] = Peers

CliInv == ExecInv /\ CliTypeOK /\ ToldOK /\ LoopOK /\ CallOK /\ Serves

-----------------------------------------------------------------------------
(* The operator: flags, peers and answers. *)

ToldType == [joined : SUBSET Peers, installed : [Versions -> SUBSET Peers],
             version : Versions \cup {None}]

\* A command works on peers that exist, and every one has an organization.
LEMMA SelectedFacts ==
  \A f : Known(f) => /\ Selected(f) \subseteq Peers /\ OrgsOf(Selected(f)) \subseteq Orgs
                     /\ \A p \in Selected(f) : OrgOfPeer(p) \in OrgsOf(Selected(f))
<1> SUFFICES ASSUME NEW f, Known(f)
             PROVE  /\ Selected(f) \subseteq Peers /\ OrgsOf(Selected(f)) \subseteq Orgs
                    /\ \A p \in Selected(f) : OrgOfPeer(p) \in OrgsOf(Selected(f))
  OBVIOUS
<1>1. Selected(f) \subseteq Peers
  BY DEF Selected, Known, Peers
<1>2. ASSUME NEW p \in Peers PROVE OrgOfPeer(p) \in Orgs /\ p \in OrgPeers(OrgOfPeer(p))
  BY DEF OrgOfPeer, Peers
<1> QED BY <1>1, <1>2 DEF OrgsOf

\* The peers of an organization exist.
LEMMA OrgPeersFacts == \A o \in Orgs : OrgPeers(o) \subseteq Peers
BY DEF Peers

\* What the operator learns replaces what was known of that.
LEMMA LearnFacts ==
  ASSUME told \in ToldType
  PROVE  /\ \A x \in SUBSET Peers : Learn("joined", x) =>
              /\ told' \in ToldType /\ told'.joined = x
              /\ told'.installed = told.installed /\ told'.version = told.version
         /\ \A x \in [Versions -> SUBSET Peers] : Learn("installed", x) =>
              /\ told' \in ToldType /\ told'.joined = told.joined
              /\ told'.installed = x /\ told'.version = told.version
         /\ \A x \in Versions \cup {None} : Learn("version", x) =>
              /\ told' \in ToldType /\ told'.joined = told.joined
              /\ told'.installed = told.installed /\ told'.version = x
BY DEF ToldType, Learn

\* Before the first call the executor is not there yet, and no call has failed.
LEMMA EarlyKept ==
  ASSUME CliInv, main = "new", UNCHANGED vars, cmd'.op \in {"none", "join", "install"}
  PROVE  ExecInv' /\ TypeOK' /\ CallOK' /\ Serves'
<1>1. ExecInv'
  BY NextExecInv DEF CliInv
<1>2. main' = "new"
  BY DEF vars, command
<1> QED BY <1>1, <1>2 DEF ExecInv, CallOK, Serves

\* An idle command has no organizations left to ask.
LEMMA WaitingFacts ==
  ASSUME CliInv, Waiting, UNCHANGED <<main, cmd>>
  PROVE  LoopOK' /\ cmd'.op \in {"none", "join", "install"}
BY DEF CliInv, Waiting, LoopOK

-----------------------------------------------------------------------------
(* The operator: commands of one request. *)

\* The channel is created.
LEMMA CreateChannelInv == \A f : CliInv /\ CreateChannel(f) => CliInv'
<1> SUFFICES ASSUME NEW f, CliInv, CreateChannel(f) PROVE CliInv'
  OBVIOUS
<1>1. /\ Waiting /\ created' = TRUE
      /\ UNCHANGED <<vars, wallet, joined, installed, deployed, cmd, told, faults>>
  BY DEF CreateChannel, session
<1>2. main = "new" /\ UNCHANGED main
  BY <1>1 DEF Waiting, vars, command
<1>3. LoopOK' /\ ExecInv' /\ TypeOK' /\ CallOK' /\ Serves'
  BY <1>1, <1>2, WaitingFacts, EarlyKept
<1>4. CliTypeOK'
  BY <1>1, <1>3 DEF CliInv, CliTypeOK, Commands
<1>5. ToldOK'
  BY <1>1 DEF CliInv, ToldOK
<1> QED BY <1>3, <1>4, <1>5 DEF CliInv

\* The answer to instantiate or upgrade tells the version, or is lost.
LEMMA AnsweredFacts ==
  ASSUME CliInv, NEW v \in Versions, Answered(v)
  PROVE  /\ told' \in ToldType /\ told'.joined = told.joined /\ told'.installed = told.installed
         /\ told'.version \in {None, v} /\ faults' \in 0 .. MaxFaults
<1>1. told \in ToldType /\ faults \in 0 .. MaxFaults /\ MaxFaults \in Nat
  BY FabricCliAssumption DEF CliInv, CliTypeOK, ToldType, FabricCliAssumption
<1>2. CASE Learn("version", v) /\ UNCHANGED faults
  BY <1>1, <1>2, LearnFacts
<1>3. CASE Learn("version", None) /\ faults < MaxFaults /\ faults' = faults + 1
  BY <1>1, <1>3, LearnFacts
<1> QED BY <1>2, <1>3 DEF Answered

\* instantiate and upgrade: what the operator is told is what is deployed.
LEMMA DeployInv ==
  ASSUME CliInv, Waiting, NEW v \in Versions, NEW policy \in SUBSET SUBSET Orgs,
         deployed' = [version |-> v, policy |-> policy], Answered(v),
         UNCHANGED <<vars, wallet, created, joined, installed, cmd>>
  PROVE  CliInv'
<1>1. main = "new" /\ UNCHANGED main
  BY DEF Waiting, vars, command
<1>2. LoopOK' /\ ExecInv' /\ TypeOK' /\ CallOK' /\ Serves'
  BY <1>1, WaitingFacts, EarlyKept
<1>3. /\ told' \in ToldType /\ told'.joined = told.joined /\ told'.installed = told.installed
      /\ told'.version \in {None, v} /\ faults' \in 0 .. MaxFaults
  BY AnsweredFacts
<1>4. CliTypeOK'
  BY <1>2, <1>3 DEF CliInv, CliTypeOK, Commands, ToldType
<1>5. ToldOK'
  BY <1>3 DEF CliInv, ToldOK
<1> QED BY <1>2, <1>4, <1>5 DEF CliInv

\* A policy names organizations.
LEMMA PolicyFacts == \A p \in Policies \ {None} : p \in SUBSET SUBSET Orgs
BY FabricCliAssumption DEF FabricCliAssumption

\* instantiate
LEMMA InstantiateInv ==
  \A f : \A v \in Versions, p \in Policies : CliInv /\ Instantiate(f, v, p) => CliInv'
<1> SUFFICES ASSUME NEW f, NEW v \in Versions, NEW p \in Policies, CliInv, Instantiate(f, v, p)
             PROVE  CliInv'
  OBVIOUS
<1> DEFINE policy == IF p = None THEN AcceptAll ELSE p
<1>1. policy \in SUBSET SUBSET Orgs
  BY PolicyFacts DEF AcceptAll
<1>2. /\ Waiting /\ deployed' = [version |-> v, policy |-> policy] /\ Answered(v)
      /\ UNCHANGED <<vars, wallet, created, joined, installed, cmd>>
  BY DEF Instantiate
<1> HIDE DEF policy
<1> QED BY <1>1, <1>2, DeployInv

\* upgrade
LEMMA UpgradeInv ==
  \A f : \A v \in Versions, p \in Policies : CliInv /\ Upgrade(f, v, p) => CliInv'
<1> SUFFICES ASSUME NEW f, NEW v \in Versions, NEW p \in Policies, CliInv, Upgrade(f, v, p)
             PROVE  CliInv'
  OBVIOUS
<1> DEFINE policy == IF p = None THEN SignedByAnyMember(f.orgs) ELSE p
<1>1. policy \in SUBSET SUBSET Orgs
  <2>1. CASE p = None
    <3>1. f.orgs \subseteq Orgs
      BY <2>1 DEF Upgrade
    <3> QED BY <2>1, <3>1 DEF SignedByAnyMember
  <2>2. CASE p # None
    BY <2>2, PolicyFacts
  <2> QED BY <2>1, <2>2
<1>2. /\ Waiting /\ deployed' = [version |-> v, policy |-> policy] /\ Answered(v)
      /\ UNCHANGED <<vars, wallet, created, joined, installed, cmd>>
  BY DEF Upgrade
<1> HIDE DEF policy
<1> QED BY <1>1, <1>2, DeployInv

\* The queries tell what is so.
LEMMA QueryInv ==
  ASSUME CliInv, Waiting, UNCHANGED <<vars, network, cmd, faults>>,
         told' \in ToldType, told'.joined \subseteq told.joined \cup joined,
         \A v \in Versions : told'.installed[v] \subseteq told.installed[v] \cup installed[v],
         told'.version \in {told.version, deployed.version}
  PROVE  CliInv'
<1>1. main = "new" /\ UNCHANGED main
  BY DEF Waiting, vars, command
<1>2. LoopOK' /\ ExecInv' /\ TypeOK' /\ CallOK' /\ Serves'
  BY <1>1, WaitingFacts, EarlyKept
<1>3. CliTypeOK'
  BY <1>2 DEF CliInv, CliTypeOK, Commands, ToldType, network
<1>4. ToldOK'
  BY DEF CliInv, ToldOK, network
<1> QED BY <1>2, <1>3, <1>4 DEF CliInv

\* chaincode info
LEMMA GetInfoInv == \A f : CliInv /\ GetInfo(f) => CliInv'
<1> SUFFICES ASSUME NEW f, CliInv, GetInfo(f) PROVE CliInv'
  OBVIOUS
<1>1. /\ Waiting /\ Learn("version", deployed.version)
      /\ UNCHANGED <<vars, network, cmd, faults>>
  BY DEF GetInfo
<1>2. told \in ToldType /\ deployed.version \in Versions \cup {None}
  BY DEF CliInv, CliTypeOK, ToldType
<1>3. /\ told' \in ToldType /\ told'.joined = told.joined
      /\ told'.installed = told.installed /\ told'.version = deployed.version
  BY <1>1, <1>2, LearnFacts
<1> QED BY <1>1, <1>3, QueryInv

\* query channels, query peers: some of the peers that joined.
LEMMA QueryJoinedInv == \A f : CliInv /\ (QueryChannels(f) \/ QueryPeers(f)) => CliInv'
<1> SUFFICES ASSUME NEW f, CliInv, QueryChannels(f) \/ QueryPeers(f) PROVE CliInv'
  OBVIOUS
<1>1. /\ Waiting /\ UNCHANGED <<vars, network, cmd, faults>>
      /\ \E found \in SUBSET joined : Learn("joined", told.joined \cup found)
  <2>1. CASE QueryChannels(f)
    <3>1. f.peers \cap joined \in SUBSET joined
      OBVIOUS
    <3> QED BY <2>1, <3>1 DEF QueryChannels, OnePeer
  <2>2. CASE QueryPeers(f)
    BY <2>2 DEF QueryPeers
  <2> QED BY <2>1, <2>2
<1>2. PICK found \in SUBSET joined : Learn("joined", told.joined \cup found)
  BY <1>1
<1>3. told \in ToldType /\ told.joined \cup found \in SUBSET Peers
  BY DEF CliInv, CliTypeOK, ToldType
<1>4. /\ told' \in ToldType /\ told'.joined = told.joined \cup found
      /\ told'.installed = told.installed /\ told'.version = told.version
  BY <1>2, <1>3, LearnFacts
<1> QED BY <1>1, <1>4, QueryInv

\* query installed
LEMMA QueryInstalledInv == \A f : CliInv /\ QueryInstalled(f) => CliInv'
<1> SUFFICES ASSUME NEW f, CliInv, QueryInstalled(f) PROVE CliInv'
  OBVIOUS
<1> DEFINE known == [v \in Versions |-> told.installed[v] \cup (f.peers \cap installed[v])]
<1>1. Waiting /\ Learn("installed", known) /\ UNCHANGED <<vars, network, cmd, faults>>
  BY DEF QueryInstalled, OnePeer
<1>2. /\ told \in ToldType /\ known \in [Versions -> SUBSET Peers]
      /\ \A v \in Versions : known[v] \subseteq told.installed[v] \cup installed[v]
  BY DEF CliInv, CliTypeOK, ToldType
<1> HIDE DEF known
<1>3. /\ told' \in ToldType /\ told'.joined = told.joined
      /\ told'.installed = known /\ told'.version = told.version
  BY <1>1, <1>2, LearnFacts
<1> QED BY <1>1, <1>2, <1>3, QueryInv

-----------------------------------------------------------------------------
(* The operator: join and install. *)

\* A command that begins has everything to do.
LEMMA BeginInv ==
  ASSUME CliInv, NEW f, NEW op \in {"join", "install"}, NEW v \in Versions \cup {None},
         op = "install" => v \in Versions, Begin(op, f, v)
  PROVE  CliInv'
<1>1. /\ Waiting /\ Known(f) /\ UNCHANGED <<vars, network, told, faults>>
      /\ cmd' = [NoCommand EXCEPT !.op = op, !.version = v, !.peers = Selected(f),
                                  !.todo = OrgsOf(Selected(f))]
  BY DEF Begin
<1>2. /\ Selected(f) \subseteq Peers /\ OrgsOf(Selected(f)) \subseteq Orgs
      /\ \A p \in Selected(f) : OrgOfPeer(p) \in OrgsOf(Selected(f))
  BY <1>1, SelectedFacts
<1>3. /\ cmd' \in Commands /\ cmd'.op = op /\ cmd'.version = v
      /\ cmd'.peers = Selected(f) /\ cmd'.todo = OrgsOf(Selected(f))
  BY <1>1, <1>2 DEF NoCommand, Commands
<1>4. main = "new" /\ main' = "new"
  BY <1>1 DEF Waiting, vars, command
<1>5. ExecInv' /\ TypeOK' /\ CallOK' /\ Serves'
  BY <1>1, <1>3, <1>4, EarlyKept
<1>6. CliTypeOK'
  BY <1>1, <1>3, <1>5 DEF CliInv, CliTypeOK, network
<1>7. ToldOK'
  BY <1>1 DEF CliInv, ToldOK, network
<1>8. LoopOK'
  <2>1. \A p \in cmd'.peers : OrgOfPeer(p) \in cmd'.todo
    BY <1>2, <1>3
  <2> QED BY <1>2, <1>3, <1>4, <2>1 DEF LoopOK, Asked, OrgOfPeer, Peers
<1> QED BY <1>5, <1>6, <1>7, <1>8 DEF CliInv

\* One organization is done: what was said of the peers of the others stays so.
LEMMA TriedInv ==
  ASSUME CliInv, NEW o \in Orgs, o \in cmd.todo, NEW bad \in BOOLEAN, NEW lost,
         cmd' = Tried(o, bad, lost), UNCHANGED <<vars, wallet, created, deployed, told>>,
         faults' \in 0 .. MaxFaults,
         joined \subseteq joined', joined' \subseteq Peers,
         installed' \in [Versions -> SUBSET Peers],
         \A v \in Versions : installed[v] \subseteq installed'[v],
         \A p \in cmd.peers : OrgOfPeer(p) = o =>
           \/ cmd.op = "join" /\ p \in joined'
           \/ cmd.op = "install" /\ p \in installed'[cmd.version]
           \/ bad /\ (lost # {} \/ ~created \/ ~ResourceMgmtClientForOrg(o))
  PROVE  CliInv'
<1>1. /\ cmd \in Commands
      /\ cmd.op \in {"join", "install"} /\ main = "new" /\ cmd.peers \subseteq Peers
  BY DEF CliInv, CliTypeOK, LoopOK
<1>2. /\ cmd' \in Commands /\ cmd'.op = cmd.op /\ cmd'.version = cmd.version
      /\ cmd'.peers = cmd.peers /\ cmd'.todo = cmd.todo \ {o}
      /\ cmd'.err = (cmd.err \/ bad) /\ cmd'.clean = (cmd.clean /\ lost = {})
  BY <1>1 DEF Tried, Commands
<1>3. ExecInv' /\ TypeOK' /\ CallOK' /\ Serves'
  BY <1>1, <1>2, EarlyKept
<1>4. CliTypeOK'
  BY <1>2, <1>3 DEF CliInv, CliTypeOK
<1>5. ToldOK'
  BY DEF CliInv, ToldOK
<1>6. main' = "new"
  BY <1>1 DEF vars, command
<1>7. \A p : OrgOfPeer(p)' = OrgOfPeer(p)
  BY DEF OrgOfPeer
<1>8. \A q : ResourceMgmtClientForOrg(q)' <=> ResourceMgmtClientForOrg(q)
  BY DEF ResourceMgmtClientForOrg, OrgAdminUser, OrgUser
<1>9. ASSUME cmd.op = "join" PROVE LoopOK'
  <2> SUFFICES ASSUME NEW p \in cmd.peers PROVE Asked(p, joined)'
    BY <1>1, <1>2, <1>6, <1>9 DEF LoopOK, Peers, OrgPeers
  <2>1. Asked(p, joined)
    BY <1>9 DEF CliInv, LoopOK
  <2>2. CASE OrgOfPeer(p) = o
    BY <1>2, <1>7, <1>8, <1>9, <2>1, <2>2 DEF Asked
  <2>3. CASE OrgOfPeer(p) # o
    BY <1>2, <1>7, <1>8, <2>1, <2>3 DEF Asked
  <2> QED BY <2>2, <2>3
<1>10. ASSUME cmd.op = "install" PROVE LoopOK'
  <2>1. cmd.version \in Versions
    BY <1>10 DEF CliInv, LoopOK
  <2> SUFFICES ASSUME NEW p \in cmd.peers PROVE Asked(p, installed[cmd.version])'
    BY <1>1, <1>2, <1>6, <1>10, <2>1 DEF LoopOK, Peers, OrgPeers
  <2>2. Asked(p, installed[cmd.version])
    BY <1>10 DEF CliInv, LoopOK
  <2>3. CASE OrgOfPeer(p) = o
    BY <1>2, <1>7, <1>8, <1>10, <2>2, <2>3 DEF Asked
  <2>4. CASE OrgOfPeer(p) # o
    BY <1>2, <1>7, <1>8, <2>1, <2>2, <2>4 DEF Asked
  <2> QED BY <2>3, <2>4
<1> QED BY <1>1, <1>3, <1>4, <1>5, <1>9, <1>10 DEF CliInv

\* A peer belongs to its organization.
LEMMA OrgOfPeerFacts == \A p \in Peers : p \in OrgPeers(OrgOfPeer(p))
BY DEF Peers, OrgOfPeer

\* A fault is counted.
LEMMA FailFacts == CliInv => \A lost : Fail(lost) => faults' \in 0 .. MaxFaults
BY FabricCliAssumption DEF CliInv, CliTypeOK, Fail, FabricCliAssumption

\* join, for one organization
LEMMA JoinOrgInv == \A o \in Orgs : CliInv /\ JoinOrg(o) => CliInv'
<1> SUFFICES ASSUME NEW o \in Orgs, CliInv, JoinOrg(o) PROVE CliInv'
  OBVIOUS
<1> DEFINE ps == cmd.peers \cap OrgPeers(o)
<1>1. PICK lost \in Failing(ps) :
        /\ Fail(lost)
        /\ joined' = IF created THEN joined \cup (ps \ lost) ELSE joined
        /\ cmd' = Tried(o, ~created \/ lost # {} \/ ps \cap joined # {}, lost)
  BY DEF JoinOrg
<1>2. /\ cmd.op = "join" /\ o \in cmd.todo
      /\ UNCHANGED <<vars, wallet, created, installed, deployed, told>>
  BY DEF JoinOrg
<1>3. /\ joined \subseteq Peers /\ installed \in [Versions -> SUBSET Peers] /\ created \in BOOLEAN
      /\ cmd.peers \subseteq Peers
  BY <1>2 DEF CliInv, CliTypeOK, LoopOK
<1>4. joined \subseteq joined' /\ joined' \subseteq Peers
  BY <1>1, <1>3
<1>5. ASSUME NEW p \in cmd.peers, OrgOfPeer(p) = o PROVE p \in ps
  BY <1>3, <1>5, OrgOfPeerFacts
<1> DEFINE bad == ~created \/ lost # {} \/ ps \cap joined # {}
<1>6. ASSUME NEW p \in cmd.peers, OrgOfPeer(p) = o
      PROVE  p \in joined' \/ (bad /\ (lost # {} \/ ~created))
  <2>1. CASE created /\ lost = {}
    BY <1>1, <1>5, <1>6, <2>1
  <2>2. CASE ~created \/ lost # {}
    BY <2>2
  <2> QED BY <2>1, <2>2
<1>7. bad \in BOOLEAN /\ cmd' = Tried(o, bad, lost) /\ faults' \in 0 .. MaxFaults
  BY <1>1, FailFacts
<1>8. installed' = installed
  BY <1>2
<1> HIDE DEF bad, ps
<1> QED BY <1>2, <1>3, <1>4, <1>6, <1>7, <1>8, TriedInv

\* install, for one organization
LEMMA InstallOrgInv == \A o \in Orgs : CliInv /\ InstallOrg(o) => CliInv'
<1> SUFFICES ASSUME NEW o \in Orgs, CliInv, InstallOrg(o) PROVE CliInv'
  OBVIOUS
<1> DEFINE ps == cmd.peers \cap OrgPeers(o)
<1>1. PICK lost \in Failing(ps) :
        /\ Fail(lost)
        /\ installed' = [installed EXCEPT ![cmd.version] = @ \cup (ps \ lost)]
        /\ cmd' = Tried(o, lost # {}, lost)
  BY DEF InstallOrg
<1>2. /\ cmd.op = "install" /\ o \in cmd.todo
      /\ UNCHANGED <<vars, wallet, created, joined, deployed, told>>
  BY DEF InstallOrg
<1>3. /\ joined \subseteq Peers /\ installed \in [Versions -> SUBSET Peers]
      /\ cmd.peers \subseteq Peers /\ cmd.version \in Versions
  BY <1>2 DEF CliInv, CliTypeOK, LoopOK
<1>4. /\ installed' \in [Versions -> SUBSET Peers]
      /\ \A v \in Versions : installed[v] \subseteq installed'[v]
      /\ ps \ lost \subseteq installed'[cmd.version]
  BY <1>1, <1>3
<1>5. ASSUME NEW p \in cmd.peers, OrgOfPeer(p) = o PROVE p \in ps
  BY <1>3, <1>5, OrgOfPeerFacts
<1> DEFINE bad == lost # {}
<1>6. ASSUME NEW p \in cmd.peers, OrgOfPeer(p) = o
      PROVE  p \in installed'[cmd.version] \/ (bad /\ lost # {})
  BY <1>4, <1>5, <1>6
<1>7. bad \in BOOLEAN /\ cmd' = Tried(o, bad, lost) /\ faults' \in 0 .. MaxFaults
  BY <1>1, FailFacts
<1>8. joined' = joined
  BY <1>2
<1> HIDE DEF bad, ps
<1> QED BY <1>2, <1>3, <1>4, <1>6, <1>7, <1>8, TriedInv

\* An organization without a client is an error.
LEMMA NoClientInv == \A o \in Orgs : CliInv /\ NoClient(o) => CliInv'
<1> SUFFICES ASSUME NEW o \in Orgs, CliInv, NoClient(o) PROVE CliInv'
  OBVIOUS
<1>1. /\ o \in cmd.todo /\ ~ResourceMgmtClientForOrg(o) /\ cmd' = Tried(o, TRUE, {})
      /\ UNCHANGED <<vars, wallet, created, joined, installed, deployed, told, faults>>
  BY DEF NoClient, network
<1>2. /\ joined \subseteq Peers /\ installed \in [Versions -> SUBSET Peers]
      /\ faults \in 0 .. MaxFaults
  BY DEF CliInv, CliTypeOK
<1> QED BY <1>1, <1>2, TriedInv

\* Without an error every peer of a join or an install was served.
LEMMA FinishInv == CliInv /\ Finish => CliInv'
<1> SUFFICES ASSUME CliInv, Finish PROVE CliInv'
  OBVIOUS
<1>1. /\ cmd.op \in {"join", "install"} /\ cmd.todo = {} /\ cmd' = NoCommand
      /\ UNCHANGED <<vars, network, faults>>
  BY DEF Finish
<1>2. /\ main = "new" /\ main' = "new" /\ cmd' \in Commands /\ cmd'.op = "none" /\ cmd'.todo = {}
  BY <1>1 DEF CliInv, LoopOK, NoCommand, Commands, vars, command
<1>3. ExecInv' /\ TypeOK' /\ CallOK' /\ Serves' /\ LoopOK'
  <2>1. LoopOK'
    BY <1>2 DEF LoopOK
  <2> QED BY <1>1, <1>2, <2>1, EarlyKept
<1>4. told \in ToldType /\ cmd.peers \in SUBSET Peers
  BY DEF CliInv, CliTypeOK, ToldType, Commands
<1>5. told' \in ToldType /\ ToldOK'
  <2>1. CASE UNCHANGED told
    BY <1>1, <1>4, <2>1 DEF CliInv, ToldOK, network
  <2>2. CASE ~cmd.err /\ cmd.op = "join" /\ Learn("joined", told.joined \cup cmd.peers)
    <3>1. cmd.peers \subseteq joined
      BY <1>1, <2>2 DEF CliInv, LoopOK, Asked
    <3>2. told.joined \cup cmd.peers \in SUBSET Peers
      BY <1>4 DEF ToldType
    <3>3. /\ told' \in ToldType /\ told'.joined = told.joined \cup cmd.peers
          /\ told'.installed = told.installed /\ told'.version = told.version
      BY <1>4, <2>2, <3>2, LearnFacts
    <3> QED BY <1>1, <3>1, <3>3 DEF CliInv, ToldOK, network
  <2>3. CASE /\ ~cmd.err /\ cmd.op = "install"
             /\ Learn("installed", [told.installed EXCEPT ![cmd.version] = @ \cup cmd.peers])
    <3> DEFINE known == [told.installed EXCEPT ![cmd.version] = @ \cup cmd.peers]
    <3>1. cmd.version \in Versions /\ cmd.peers \subseteq installed[cmd.version]
      BY <1>1, <2>3 DEF CliInv, LoopOK, Asked
    <3>2. told.installed \in [Versions -> SUBSET Peers]
      BY <1>4 DEF ToldType
    <3>3. known \in [Versions -> SUBSET Peers]
      BY <1>4, <3>2
    <3>4. \A v \in Versions : known[v] \subseteq installed[v]
      BY <3>1, <3>2 DEF CliInv, ToldOK
    <3> HIDE DEF known
    <3>5. /\ told' \in ToldType /\ told'.joined = told.joined
          /\ told'.installed = known /\ told'.version = told.version
      BY <1>4, <2>3, <3>3, LearnFacts DEF known
    <3> QED BY <1>1, <3>4, <3>5 DEF CliInv, ToldOK, network
  <2> QED BY <2>1, <2>2, <2>3 DEF Finish
<1>6. CliTypeOK'
  BY <1>1, <1>2, <1>3, <1>5 DEF CliInv, CliTypeOK, ToldType, network
<1> QED BY <1>3, <1>5, <1>6 DEF CliInv

\* A command that is stopped tells nothing.
LEMMA InterruptInv == CliInv /\ Interrupt => CliInv'
<1> SUFFICES ASSUME CliInv, Interrupt PROVE CliInv'
  OBVIOUS
<1>1. /\ cmd.op \in {"join", "install"} /\ cmd' = NoCommand
      /\ UNCHANGED <<vars, network, told, faults>>
  BY DEF Interrupt
<1>2. /\ main = "new" /\ main' = "new" /\ cmd' \in Commands /\ cmd'.op = "none" /\ cmd'.todo = {}
  BY <1>1 DEF CliInv, LoopOK, NoCommand, Commands, vars, command
<1>3. LoopOK'
  BY <1>2 DEF LoopOK
<1>4. ExecInv' /\ TypeOK' /\ CallOK' /\ Serves'
  BY <1>1, <1>2, EarlyKept
<1>5. CliTypeOK' /\ ToldOK'
  BY <1>1, <1>2, <1>4 DEF CliInv, CliTypeOK, ToldOK, network
<1> QED BY <1>3, <1>4, <1>5 DEF CliInv

-----------------------------------------------------------------------------
(* The operator: invoke and query. *)

\* What the operator was told when it turned to the calls is so.
LEMMA CallInv ==
  \A f : \A op \in {"invoke", "query"}, static \in BOOLEAN :
    CliInv /\ Call(op, f, static) => CliInv'
<1> SUFFICES ASSUME NEW f, NEW op \in {"invoke", "query"}, NEW static \in BOOLEAN,
                    CliInv, Call(op, f, static)
             PROVE  CliInv'
  OBVIOUS
<1>1. /\ Waiting /\ SetUp /\ HasPeers(f) /\ Start
      /\ cmd' = [NoCommand EXCEPT !.op = op, !.peers = Selected(f), !.fixed = Fixed(f, static)]
      /\ UNCHANGED <<wallet, created, joined, installed, deployed, told, faults>>
  BY DEF Call, network
<1>2. ExecInv'
  BY <1>1, NextExecInv DEF CliInv, Next
<1>3. TypeOK'
  BY <1>2 DEF ExecInv
<1>4. Selected(f) \subseteq Peers
  BY <1>1, SelectedFacts DEF HasPeers
<1>5. Fixed(f, static) \in BOOLEAN
  BY DEF Fixed, Flagged
<1>6. cmd' \in Commands /\ cmd'.op = op /\ cmd'.todo = {}
  BY <1>1, <1>4, <1>5 DEF NoCommand, Commands
<1>7. CliTypeOK'
  BY <1>1, <1>3, <1>6 DEF CliInv, CliTypeOK
<1>8. ToldOK' /\ LoopOK'
  BY <1>1, <1>6 DEF CliInv, ToldOK, LoopOK
<1>9. main' = "submit" /\ failed' = 0
  BY <1>1 DEF Start, CliInv, ExecInv, PhaseOK
<1>10. CallOK'
  <2>1. deployed.version = told.version /\ told.version \in Versions
    BY <1>1 DEF SetUp, CliInv, CliTypeOK, ToldOK
  <2>2. deployed # NotDeployed
    BY <1>1, <2>1, FabricCliAssumption DEF SetUp, NotDeployed, FabricCliAssumption
  <2>3. joined \subseteq Peers /\ installed[told.version] \subseteq Peers
    BY <2>1 DEF CliInv, CliTypeOK
  <2>4. Peers \subseteq told.joined /\ Peers \subseteq told.installed[told.version]
    BY <1>1 DEF SetUp
  <2>5. told.joined \subseteq joined /\ told.installed[told.version] \subseteq installed[told.version]
    BY <2>1 DEF CliInv, ToldOK
  <2>6. joined = Peers /\ installed[deployed.version] = Peers
    BY <2>1, <2>3, <2>4, <2>5
  <2> QED BY <1>1, <1>6, <1>9, <2>2, <2>6 DEF CallOK, Peers, OrgPeers, NotDeployed
<1>11. Serves'
  BY <1>1, <1>9 DEF Serves, CliInv, CliTypeOK
<1> QED BY <1>2, <1>7, <1>8, <1>10, <1>11 DEF CliInv

\* Only a call that was made can fail.
LEMMA RunFacts ==
  ASSUME CliInv, Main \/ Dispatcher \/ \E w \in Workers : Worker(w)
  PROVE  /\ main # "new" /\ main' # "new" /\ ExecInv'
         /\ (Main \/ Dispatcher) => failed' = failed
         /\ ran' = ran => failed' = failed
<1>1. ExecInv'
  BY NextExecInv DEF CliInv, Next
<1>2. CASE Main
  BY <1>1, <1>2 DEF Main, Submit, Stop, StopDispatcher, StopPool, TakeIdle, StopWorker, Return, work
<1>3. CASE Dispatcher
  <2>1. UNCHANGED <<main, failed>>
    BY <1>3 DEF Dispatcher, Dispatch, Pick, Give, Given, command, work
  <2>2. dispatcher.pc # "none"
    BY <1>3 DEF Dispatcher, Dispatch, Pick, Give, Given
  <2> QED BY <1>1, <2>1, <2>2 DEF CliInv, ExecInv, PhaseOK
<1>4. ASSUME NEW w \in Workers, Worker(w)
      PROVE  main # "new" /\ main' # "new" /\ (ran' = ran => failed' = failed)
  <2>1. main' = main /\ worker[w].pc # "none"
    BY <1>4 DEF Worker, Ready, InvokeTask, MultiTaskDone, TaskCompleted, WorkerEnds, command
  <2>2. main # "new"
    BY <2>1 DEF CliInv, ExecInv, PhaseOK, Nobody
  <2>3. CASE InvokeTask(w)
    <3>1. worker[w].task \in Tasks /\ ran \in [Tasks -> 0 .. Calls]
      BY <2>3 DEF InvokeTask, CliInv, ExecInv, HandsOK, TypeOK
    <3>2. ran' # ran
      BY <2>3, <3>1, TaskFacts DEF InvokeTask
    <3> QED BY <2>1, <2>2, <3>2
  <2>4. CASE ~InvokeTask(w)
    BY <1>4, <2>1, <2>2, <2>4 DEF Worker, Ready, MultiTaskDone, TaskCompleted, WorkerEnds
  <2> QED BY <2>3, <2>4
<1>5. (Main \/ Dispatcher) => failed' = failed
  BY DEF Main, Submit, Stop, StopDispatcher, StopPool, TakeIdle, StopWorker, Return,
         Dispatcher, Dispatch, Pick, Give, Given, work
<1> QED BY <1>1, <1>2, <1>3, <1>4, <1>5

\* The calls change nothing of the network.
LEMMA RunKept ==
  ASSUME CliInv, Calling, main # "new", main' # "new", ExecInv', faults' \in 0 .. MaxFaults, Serves'
  PROVE  CliInv'
<1>1. UNCHANGED <<wallet, created, joined, installed, deployed, cmd, told>>
  BY DEF Calling, network
<1>2. TypeOK'
  BY DEF ExecInv
<1>3. CliTypeOK' /\ ToldOK'
  BY <1>1, <1>2 DEF CliInv, CliTypeOK, ToldOK
<1>4. LoopOK' /\ CallOK'
  BY <1>1 DEF CliInv, LoopOK, CallOK, Peers, OrgPeers, NotDeployed
<1> QED BY <1>3, <1>4 DEF CliInv

\* Peers of which all have joined and have the chaincode can answer if their
\* signatures do.
LEMMA AnswerableFacts ==
  ASSUME CliInv, main # "new", Satisfied(IF cmd.fixed THEN cmd.peers ELSE Peers)
  PROVE  Answerable
<1>1. Able = Peers
  BY DEF CliInv, CallOK, Able
<1>2. cmd.peers \subseteq Peers
  BY DEF CliInv, CliTypeOK, Commands
<1> QED BY <1>1, <1>2 DEF Answerable

\* A worker's call fails by a fault, or because the policy cannot be met.
LEMMA CliWorkerInv == \A w \in Workers : CliInv /\ CliWorker(w) => CliInv'
<1> SUFFICES ASSUME NEW w \in Workers, CliInv, CliWorker(w) PROVE CliInv'
  OBVIOUS
<1>1. Worker(w) /\ Completed /\ Calling
  BY DEF CliWorker
<1>2. /\ main # "new" /\ main' # "new" /\ ExecInv' /\ (ran' = ran => failed' = failed)
  BY <1>1, RunFacts
<1>3. faults \in 0 .. MaxFaults /\ MaxFaults \in Nat /\ failed \in Nat
  BY FabricCliAssumption DEF FabricCliAssumption, CliInv, CliTypeOK, TypeOK
<1>4. faults' \in 0 .. MaxFaults
  BY <1>1, <1>3 DEF Completed
<1> DEFINE can == Satisfied(IF cmd.fixed THEN cmd.peers ELSE Peers)
<1>5. can' <=> can
  BY <1>1 DEF Calling, network, Satisfied, OrgsOf, Peers, OrgPeers
<1>6. can => Answerable /\ failed <= faults
  BY <1>2, AnswerableFacts DEF CliInv, Serves
<1> HIDE DEF can
<1>7. can => failed' <= faults'
  BY <1>1, <1>2, <1>3, <1>6 DEF Completed
<1>8. Serves'
  BY <1>5, <1>7 DEF Serves, can
<1> QED BY <1>1, <1>2, <1>4, <1>8, RunKept

\* The command and the dispatcher make no calls.
LEMMA CliMainInv == CliInv /\ (CliMain \/ CliDispatcher) => CliInv'
<1> SUFFICES ASSUME CliInv, CliMain \/ CliDispatcher PROVE CliInv'
  OBVIOUS
<1>1. (Main \/ Dispatcher) /\ Calling /\ UNCHANGED faults
  BY DEF CliMain, CliDispatcher
<1>2. main # "new" /\ main' # "new" /\ ExecInv' /\ failed' = failed
  BY <1>1, RunFacts
<1>3. faults' \in 0 .. MaxFaults
  BY <1>1 DEF CliInv, CliTypeOK
<1>4. Serves'
  BY <1>1, <1>2 DEF CliInv, Serves, Calling, network, Satisfied, OrgsOf, Peers, OrgPeers
<1> QED BY <1>1, <1>2, <1>3, <1>4, RunKept

-----------------------------------------------------------------------------
(* The operator: theorems. *)

\* Before the first command there is no channel, and the operator knows nothing.
LEMMA CliInitInv == CliInit => CliInv
<1> SUFFICES ASSUME CliInit PROVE CliInv
  OBVIOUS
<1>1. ExecInv /\ TypeOK /\ main = "new" /\ failed = 0
  BY InitExecInv DEF CliInit, ExecInv, Init
<1>2. cmd \in Commands /\ cmd.op = "none" /\ cmd.todo = {}
  BY DEF CliInit, NoCommand, Commands
<1>3. faults \in 0 .. MaxFaults
  BY FabricCliAssumption DEF CliInit, FabricCliAssumption
<1>4. CliTypeOK
  BY <1>1, <1>2, <1>3 DEF CliInit, CliTypeOK, NotDeployed
<1>5. ToldOK /\ LoopOK /\ CallOK /\ Serves
  BY <1>1, <1>2 DEF CliInit, ToldOK, LoopOK, CallOK, Serves
<1> QED BY <1>1, <1>4, <1>5 DEF CliInv

\* Every command and every step of a call keeps the invariant.
LEMMA CliNextInv == CliInv /\ [CliNext]_cliVars => CliInv'
<1> SUFFICES ASSUME CliInv, [CliNext]_cliVars PROVE CliInv'
  OBVIOUS
<1>1. ASSUME NEW f \in Flags,
             CreateChannel(f) \/ BeginJoin(f)
             \/ GetInfo(f) \/ QueryChannels(f) \/ QueryInstalled(f) \/ QueryPeers(f)
      PROVE  CliInv'
  <2>1. CASE BeginJoin(f)
    BY <2>1, BeginInv DEF BeginJoin
  <2> QED BY <1>1, <2>1, CreateChannelInv, GetInfoInv, QueryJoinedInv, QueryInstalledInv
<1>2. ASSUME NEW f \in Flags, NEW v \in Versions, BeginInstall(f, v) PROVE CliInv'
  BY <1>2, BeginInv DEF BeginInstall
<1>3. ASSUME NEW f \in Flags, NEW v \in Versions, NEW p \in Policies,
             Instantiate(f, v, p) \/ Upgrade(f, v, p)
      PROVE  CliInv'
  BY <1>3, InstantiateInv, UpgradeInv
<1>4. ASSUME NEW o \in Orgs, JoinOrg(o) \/ InstallOrg(o) \/ NoClient(o) PROVE CliInv'
  BY <1>4, JoinOrgInv, InstallOrgInv, NoClientInv
<1>5. CASE Finish \/ Interrupt
  BY <1>5, FinishInv, InterruptInv
<1>6. ASSUME NEW f \in Flags, NEW op \in {"invoke", "query"}, NEW static \in BOOLEAN,
             Call(op, f, static)
      PROVE  CliInv'
  BY <1>6, CallInv
<1>7. CASE CliMain \/ CliDispatcher
  BY <1>7, CliMainInv
<1>8. ASSUME NEW w \in Workers, CliWorker(w) PROVE CliInv'
  BY <1>8, CliWorkerInv
<1>9. CASE UNCHANGED cliVars
  <2>1. UNCHANGED <<vars, wallet, created, joined, installed, deployed, cmd, told, faults>>
    BY <1>9 DEF cliVars, network, session
  <2>2. main' = main /\ failed' = failed
    BY <2>1 DEF vars, command, work
  <2>3. ExecInv' /\ TypeOK'
    BY <2>1, NextExecInv DEF CliInv, ExecInv
  <2>4. CliTypeOK' /\ ToldOK'
    BY <2>1, <2>3 DEF CliInv, CliTypeOK, ToldOK
  <2>5. LoopOK'
    BY <2>1, <2>2 DEF CliInv, LoopOK, Asked, OrgOfPeer, ResourceMgmtClientForOrg,
                      OrgAdminUser, OrgUser, Peers, OrgPeers
  <2>6. CallOK' /\ Serves'
    BY <2>1, <2>2 DEF CliInv, CallOK, Serves, Satisfied, OrgsOf, Peers, OrgPeers, NotDeployed
  <2> QED BY <2>3, <2>4, <2>5, <2>6 DEF CliInv
<1> QED BY <1>1, <1>2, <1>3, <1>4, <1>5, <1>6, <1>7, <1>8, <1>9 DEF CliNext, Setup

\* The invariant holds of every behaviour of the operator and its calls.
LEMMA CliInvariance == CliSpec => []CliInv
<1>1. CliInit => CliInv
  BY CliInitInv
<1>2. CliInv /\ [CliNext]_cliVars => CliInv'
  BY CliNextInv
<1> QED BY <1>1, <1>2, PTL DEF CliSpec

\* What is told, set up and selected has its type, whatever the flags say.
THEOREM FabricCli_CliTypeOK == CliSpec => []CliTypeOK
<1>1. CliInv => CliTypeOK
  BY DEF CliInv
<1> QED BY <1>1, CliInvariance, PTL

\* What the commands report can be relied on (lastErr of join and install): no
\* call fails but for a fault, unless the policy cannot be met.
THEOREM FabricCli_Serves == CliSpec => []Serves
<1>1. CliInv => Serves
  BY DEF CliInv
<1> QED BY <1>1, CliInvariance, PTL

\* The calls of an operator are behaviours of the executor: it makes them all.
THEOREM FabricCli_ImplementsExecutor == CliSpec => Spec
<1>1. CliInit => Init
  BY DEF CliInit
<1>2. [CliNext]_cliVars => [Next]_vars
  <2> SUFFICES ASSUME [CliNext]_cliVars PROVE Next \/ UNCHANGED vars
    OBVIOUS
  <2>1. CASE Setup
    BY <2>1 DEF Setup, CreateChannel, BeginJoin, BeginInstall, Begin, GetInfo, QueryChannels,
                QueryInstalled, QueryPeers, Instantiate, Upgrade, JoinOrg, InstallOrg, NoClient,
                Finish, Interrupt
  <2>2. ASSUME NEW f \in Flags, NEW op \in {"invoke", "query"}, NEW static \in BOOLEAN,
               Call(op, f, static)
        PROVE  Next
    BY <2>2 DEF Call, Next
  <2>3. CASE CliMain \/ CliDispatcher \/ \E w \in Workers : CliWorker(w)
    BY <2>3 DEF CliMain, CliDispatcher, CliWorker, Next
  <2>4. CASE UNCHANGED cliVars
    BY <2>4 DEF cliVars
  <2> QED BY <2>1, <2>2, <2>3, <2>4 DEF CliNext
<1> QED BY <1>1, <1>2, PTL DEF CliSpec, Spec

\* ... so what holds of the executor holds of the calls.
THEOREM FabricCli_AllCallsMade == CliSpec => []AllCallsMade
BY FabricCli_ImplementsExecutor, Executor_AllCallsMade, PTL

\* A join or an install that ran to its end has done its work on every peer that it
\* selected, has a client for and that answered (the loops over PeersByOrg).
THEOREM FabricCli_EveryOrgTried == CliSpec => EveryOrgTried
<1> DEFINE ps == {p \in cmd.peers : ResourceMgmtClientForOrg(OrgOfPeer(p))}
           Tries == cmd'.op = "none" /\ cmd.todo = {} /\ cmd.clean /\ created =>
                      /\ cmd.op = "join" => ps \subseteq joined
                      /\ cmd.op = "install" => ps \subseteq installed[cmd.version]
<1>1. CliInv => Tries
  BY DEF CliInv, LoopOK, Asked
<1>2. CliInv /\ [CliNext]_cliVars => [Tries]_cmd
  BY <1>1
<1> QED BY <1>2, CliInvariance, PTL DEF CliSpec, EveryOrgTried

=============================================================================
