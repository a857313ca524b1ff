------------------------------ MODULE Executor ------------------------------
(***************************************************************************)
(* The concurrent calls of fabric-cli (fabric-cli/executor,                *)
(* fabric-cli/chaincode): the command submits one multi task for each      *)
(* iteration, a dispatcher hands the queued tasks to idle workers, each    *)
(* worker makes the calls of its task one after the other, and the command *)
(* waits for all of them and stops the executor before it returns.         *)
(*                                                                         *)
(* main, the dispatcher and the workers are goroutines; tasks and          *)
(* available are buffered channels, the other two are meeting points.  The *)
(* goroutine that prints the progress is left out.                         *)
(***************************************************************************)
EXTENDS Naturals, FiniteSets, Sequences

CONSTANTS
  Workers,      \* as many as the concurrency asked for
  Iterations,   \* multi tasks
  Calls,        \* calls of each
  QueueLength,  \* room in tasks
  None

ASSUME ExecutorAssumption ==
  /\ IsFiniteSet(Workers) /\ None \notin Workers
  /\ Iterations \in Nat /\ Calls \in Nat /\ QueueLength \in Nat \ {0}

VARIABLES
  main,        \* where the command is
  submitted,   \* multi tasks submitted
  left,        \* the command's wait group
  state,       \* the executor's state
  tasks,       \* queued tasks
  queueWg,     \* the executor's wait group
  dispatcher,  \* where the dispatcher is, with its task and its worker
  available,   \* idle workers
  taskWg,      \* the pool's wait group for tasks
  poolWg,      \* the pool's wait group for workers
  toStop,      \* workers Pool.Stop still has to stop
  victim,      \* the worker it has taken
  worker,      \* where each worker is, and its task
  ran,         \* calls made of each task
  failed       \* how many of all the calls failed

command == <<main, submitted, left>>
exec    == <<state, tasks, queueWg, dispatcher>>
pool    == <<available, taskWg, poolWg, toStop, victim>>
work    == <<worker, ran, failed>>
vars    == <<command, exec, pool, work>>

Tasks == 1 .. Iterations

Put(q, x) == Append(q, x)
Idle == [pc |-> "select", task |-> 0, worker |-> None]

-----------------------------------------------------------------------------
(* The command: invoke of invokecmd.go or querycmd.go. *)

\* Executor.Start, Pool.Start
Start ==
  /\ main = "new" /\ main' = "submit"
  /\ left' = Iterations
  /\ state' = "STARTED" /\ dispatcher' = Idle
  /\ poolWg' = Cardinality(Workers)
  /\ worker' = [w \in Workers |-> [pc |-> "start", task |-> 0]]
  /\ UNCHANGED <<submitted, tasks, queueWg, available, taskWg, toStop, victim, ran, failed>>

Submit ==
  /\ main = "submit" /\ submitted < Iterations /\ state = "STARTED"
  /\ Len(tasks) < QueueLength
  /\ submitted' = submitted + 1
  /\ queueWg' = queueWg + 1 /\ tasks' = Put(tasks, submitted')
  /\ UNCHANGED <<main, left, state, dispatcher, pool, work>>

\* wg.Wait, then the deferred Executor.Stop(true)
Stop ==
  /\ main = "submit" /\ submitted = Iterations /\ left = 0
  /\ main' = "stop" /\ state' = "TERMINATED"
  /\ UNCHANGED <<submitted, left, tasks, queueWg, dispatcher, pool, work>>

StopDispatcher ==
  /\ main = "stop" /\ queueWg = 0 /\ dispatcher.pc = "select"
  /\ main' = "pool" /\ dispatcher' = [dispatcher EXCEPT !.pc = "ended"]
  /\ UNCHANGED <<submitted, left, state, tasks, queueWg, pool, work>>

StopPool ==
  /\ main = "pool" /\ taskWg = 0
  /\ main' = "drain" /\ toStop' = Cardinality(Workers)
  /\ UNCHANGED <<submitted, left, exec, available, taskWg, poolWg, victim, work>>

TakeIdle ==
  /\ main = "drain" /\ toStop > 0 /\ available # <<>>
  /\ main' = "kill" /\ toStop' = toStop - 1
  /\ victim' = Head(available) /\ available' = Tail(available)
  /\ UNCHANGED <<submitted, left, exec, taskWg, poolWg, work>>

StopWorker ==
  /\ main = "kill" /\ worker[victim].pc = "select"
  /\ main' = "drain" /\ victim' = None
  /\ worker' = [worker EXCEPT ![victim].pc = "stopping"]
  /\ UNCHANGED <<submitted, left, exec, available, taskWg, poolWg, toStop, ran, failed>>

Stopped == toStop = 0 /\ poolWg = 0
Return ==
  /\ main = "drain" /\ Stopped
  /\ main' = "returned"
  /\ UNCHANGED <<submitted, left, exec, pool, work>>

-----------------------------------------------------------------------------
(* dispatch *)

Dispatch ==
  /\ dispatcher.pc = "select" /\ tasks # <<>>
  /\ dispatcher' = [dispatcher EXCEPT !.pc = "pick", !.task = Head(tasks)]
  /\ tasks' = Tail(tasks) /\ taskWg' = taskWg + 1
  /\ UNCHANGED <<command, state, queueWg, available, poolWg, toStop, victim, work>>

Pick ==
  /\ dispatcher.pc = "pick" /\ available # <<>>
  /\ dispatcher' = [dispatcher EXCEPT !.pc = "give", !.worker = Head(available)]
  /\ available' = Tail(available)
  /\ UNCHANGED <<command, state, tasks, queueWg, taskWg, poolWg, toStop, victim, work>>

Give ==
  /\ dispatcher.pc = "give" /\ worker[dispatcher.worker].pc = "select"
  /\ worker' = [worker EXCEPT ![dispatcher.worker] = [pc |-> "busy", task |-> dispatcher.task]]
  /\ dispatcher' = [Idle EXCEPT !.pc = "given"]
  /\ UNCHANGED <<command, state, tasks, queueWg, pool, ran, failed>>

Given ==
  /\ dispatcher.pc = "given" /\ dispatcher' = Idle
  /\ queueWg' = queueWg - 1
  /\ UNCHANGED <<command, state, tasks, pool, work>>

-----------------------------------------------------------------------------
(* A worker w. *)

GoTo(w, pc) == worker' = [worker EXCEPT ![w].pc = pc]

\* StateChange(READY)
Ready(w) ==
  /\ worker[w].pc = "start" /\ GoTo(w, "select")
  /\ available' = Put(available, w)
  /\ UNCHANGED <<command, exec, taskWg, poolWg, toStop, victim, ran, failed>>

\* One call of the task: its retries included it is answered, or it failed
InvokeTask(w) ==
  /\ worker[w].pc = "busy" /\ ran[worker[w].task] < Calls
  /\ ran' = [ran EXCEPT ![worker[w].task] = @ + 1]
  /\ failed' \in {failed, failed + 1}
  /\ UNCHANGED <<command, exec, pool, worker>>

\* MultiTask.Invoke is done
AllCalled_First(t) == ran[t] > 0
AllCalled(t) == ran[t] = Calls
MultiTaskDone(w) ==
  /\ worker[w].pc = "busy" /\ AllCalled(worker[w].task)
  /\ GoTo(w, "completed") /\ left' = left - 1
  /\ UNCHANGED <<main, submitted, exec, pool, ran, failed>>

TaskWgDone_Forgotten == taskWg
TaskWgDone == taskWg - 1
TaskCompleted(w) ==
  /\ worker[w].pc = "completed" /\ worker' = [worker EXCEPT ![w] = [pc |-> "start", task |-> 0]]
  /\ taskWg' = TaskWgDone
  /\ UNCHANGED <<command, exec, available, poolWg, toStop, victim, ran, failed>>

\* StateChange(STOPPED)
WorkerEnds(w) ==
  /\ worker[w].pc = "stopping" /\ GoTo(w, "stopped")
  /\ poolWg' = poolWg - 1
  /\ UNCHANGED <<command, exec, available, taskWg, toStop, victim, ran, failed>>

-----------------------------------------------------------------------------

Init ==
  /\ main = "new" /\ submitted = 0 /\ left = 0
  /\ state = "NEW" /\ tasks = <<>> /\ queueWg = 0
  /\ dispatcher = [Idle EXCEPT !.pc = "none"]
  /\ available = <<>> /\ taskWg = 0 /\ poolWg = 0 /\ toStop = 0 /\ victim = None
  /\ worker = [w \in Workers |-> [pc |-> "none", task |-> 0]]
  /\ ran = [t \in Tasks |-> 0] /\ failed = 0

Main == Submit \/ Stop \/ StopDispatcher \/ StopPool \/ TakeIdle \/ StopWorker \/ Return
Dispatcher == Dispatch \/ Pick \/ Give \/ Given
Worker(w) == Ready(w) \/ InvokeTask(w) \/ MultiTaskDone(w) \/ TaskCompleted(w) \/ WorkerEnds(w)

Next == Start \/ Main \/ Dispatcher \/ \E w \in Workers : Worker(w)

Spec == Init /\ [][Next]_vars

\* The Go scheduler runs every goroutine that can go on; every call is answered
\* or times out.
FairSpec ==
  /\ Spec /\ WF_vars(Main) /\ WF_vars(Dispatcher) /\ \A w \in Workers : WF_vars(Worker(w))

-----------------------------------------------------------------------------
(* Properties. *)

TypeOK ==
  /\ main \in {"new", "submit", "stop", "pool", "drain", "kill", "returned"}
  /\ submitted \in 0 .. Iterations /\ left \in 0 .. Iterations
  /\ state \in {"NEW", "STARTED", "TERMINATED"}
  /\ tasks \in Seq(Tasks) /\ queueWg \in Nat
  /\ dispatcher \in [pc : {"none", "select", "pick", "give", "given", "ended"},
                     task : Tasks \cup {0}, worker : Workers \cup {None}]
  /\ available \in Seq(Workers) /\ taskWg \in Nat /\ poolWg \in Nat
  /\ toStop \in Nat /\ victim \in Workers \cup {None}
  /\ worker \in [Workers -> [pc : {"none", "start", "select", "busy", "completed", "stopping", "stopped"},
                             task : Tasks \cup {0}]]
  /\ ran \in [Tasks -> 0 .. Calls] /\ failed \in Nat

\* When the command stops waiting every call of every iteration was made, and
\* none twice (wg.Wait of invokecmd.go, on which the printed counts rely).  Once it
\* returns no goroutine of the executor is left, and no task (Executor.Stop, Pool.Stop).
AllCallsMade ==
  /\ main \notin {"new", "submit"} => \A t \in Tasks : ran[t] = Calls
  /\ main = "returned" => /\ dispatcher.pc = "ended" /\ tasks = <<>>
                          /\ \A w \in Workers : worker[w].pc = "stopped"

\* A command that started returns: none of the waits of Stop is for ever,
\* whatever the number of tasks, workers and places in the queue.
CommandReturns == main = "submit" ~> main = "returned"

=============================================================================
