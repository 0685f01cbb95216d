----------------------------- MODULE ThreadPool -----------------------------
(***************************************************************************)
(* common/thread/thread_pool_executor.cpp with its SimpleQueue: core and    *)
(* extra threads that take tasks from one queue, callers that submit tasks  *)
(* and see, without a lock, whether the pool must grow, and a shutdown.     *)
(* What a task does is left to the module that submits it: the thread is at *)
(* "run" until that module puts it at "ran".                                *)
(***************************************************************************)
EXTENDS Integers, Sequences, FiniteSets, Functions

CONSTANTS Workers,   \* identities of threads: at most max_pool_size_ exist
          Callers,   \* who calls execute
          CoreWorkers, \* the core_pool_size_ threads that init starts
          Tasks,
          NoTask

ASSUME PoolAssumption ==
    /\ IsFiniteSet(Workers)
    /\ CoreWorkers \subseteq Workers /\ CoreWorkers # {}
    /\ NoTask \notin Tasks

VARIABLES poolState,  \* state_
          workQueue,  \* work_queue_
          threads,    \* the keys of threads_
          at,         \* where each thread is
          core,       \* core_thread
          task,       \* what it runs
          active,     \* active_count_
          submit      \* where each caller is within execute

poolVars == <<poolState, workQueue, threads, at, core, task, active, submit>>

MaxPool == Cardinality(Workers)
NotSubmitting == [at |-> "none", task |-> NoTask]

PoolInit ==
    /\ poolState = "new"
    /\ workQueue = <<>>
    /\ threads = {}
    /\ at = [w \in Workers |-> "none"]
    /\ core = [w \in Workers |-> FALSE]
    /\ task = [w \in Workers |-> NoTask]
    /\ active = 0
    /\ submit = [c \in Callers |-> NotSubmitting]

\* init: the core threads, then state_ = RUNNING.
InitPool ==
    /\ poolState = "new"
    /\ threads' = CoreWorkers
    /\ core' = [w \in Workers |-> w \in CoreWorkers]
    /\ at' = [w \in Workers |-> IF w \in CoreWorkers THEN "pop" ELSE "none"]
    /\ poolState' = "running"
    /\ UNCHANGED <<workQueue, task, active>>

ShutdownPool ==
    /\ poolState' = IF poolState = "running" THEN "terminating" ELSE poolState
    /\ UNCHANGED <<workQueue, threads, at, core, task, active, submit>>
-----------------------------------------------------------------------------
\* execute(task): look at the state, push, compare the queue's size with the
\* number of threads that are not active, and grow.

Submitting(c, place) == submit[c].at = place

BeginExecute(c, t) == submit' = [submit EXCEPT ![c] = [at |-> "check", task |-> t]]

CheckState(c) ==
    /\ Submitting(c, "check")
    /\ submit' = [submit EXCEPT ![c] = IF poolState = "running"
                                       THEN [@ EXCEPT !.at = "push"]
                                       ELSE NotSubmitting]
    /\ UNCHANGED <<poolState, workQueue, threads, at, core, task, active>>

\* A mutant: the task is dropped when every thread is active.
PushTaskMut(c) ==
    /\ Submitting(c, "push")
    /\ workQueue' = IF active = Cardinality(threads) THEN workQueue
                    ELSE Append(workQueue, submit[c].task)
    /\ submit' = [submit EXCEPT ![c].at = "compare"]
    /\ UNCHANGED <<poolState, threads, at, core, task, active>>

PushTask(c) ==
    /\ Submitting(c, "push")
    /\ workQueue' = Append(workQueue, submit[c].task)
    /\ submit' = [submit EXCEPT ![c].at = "compare"]
    /\ UNCHANGED <<poolState, threads, at, core, task, active>>

\* The comparison of execute and, when it holds, extend_thread, which compares
\* again under lock_.
ExtendThread(c) ==
    /\ Submitting(c, "compare")
    /\ IF /\ Cardinality(threads) < MaxPool
          /\ Len(workQueue) > Cardinality(threads) - active
       THEN \E w \in {v \in Workers : at[v] = "none"} :
                /\ threads' = threads \cup {w}
                /\ at' = [at EXCEPT ![w] = "pop"]
                /\ core' = [core EXCEPT ![w] = FALSE]
       ELSE UNCHANGED <<threads, at, core>>
    /\ submit' = [submit EXCEPT ![c] = NotSubmitting]
    /\ UNCHANGED <<poolState, workQueue, task, active>>

Execute(c) ==
    \/ CheckState(c) \/ PushTask(c) \/ ExtendThread(c)
-----------------------------------------------------------------------------
\* thread_func.

Goes(w, from, to) == at[w] = from /\ at' = [at EXCEPT ![w] = to]

PopTask(w) ==
    /\ workQueue # <<>>
    /\ Goes(w, "pop", "popped")
    /\ task' = [task EXCEPT ![w] = Head(workQueue)]
    /\ workQueue' = Tail(workQueue)
    /\ UNCHANGED <<poolState, threads, core, active, submit>>

StartTask(w) ==
    /\ Goes(w, "popped", "run")
    /\ active' = active + 1
    /\ UNCHANGED <<poolState, workQueue, threads, core, task, submit>>

\* A mutant: the counter is not taken back.
TaskDoneMut(w) ==
    /\ Goes(w, "ran", "pop")
    /\ task' = [task EXCEPT ![w] = NoTask]
    /\ UNCHANGED <<poolState, workQueue, threads, core, active, submit>>

TaskDone(w) ==
    /\ Goes(w, "ran", "pop")
    /\ active' = active - 1
    /\ task' = [task EXCEPT ![w] = NoTask]
    /\ UNCHANGED <<poolState, workQueue, threads, core, submit>>

\* A mutant: a pool that was shut down is left with tasks in its queue.
FindNoTaskMut(w) ==
    /\ poolState # "running"
    /\ Goes(w, "pop", "leave")
    /\ UNCHANGED <<poolState, workQueue, threads, core, task, active, submit>>

\* The queue is empty: the thread leaves a pool that was shut down, an extra
\* thread leaves when its deadline has passed, and any other comes back.
FindNoTask(w) ==
    /\ workQueue = <<>>
    /\ poolState # "running" \/ ~core[w]
    /\ Goes(w, "pop", "leave")
    /\ UNCHANGED <<poolState, workQueue, threads, core, task, active, submit>>

\* The thread detaches itself and leaves threads_ under lock_.
EraseThread(w) ==
    /\ Goes(w, "leave", "none")
    /\ threads' = threads \ {w}
    /\ UNCHANGED <<poolState, workQueue, core, task, active, submit>>

ThreadFunc(w) ==
    \/ PopTask(w) \/ StartTask(w) \/ TaskDone(w) \/ FindNoTask(w) \/ EraseThread(w)

\* The counters of the pool agree with its threads: active_count_ is the
\* number of threads inside a task, no more than max_pool_size_ exist, and
\* the map holds exactly the threads that run.
PoolTypeOK ==
    /\ poolState \in {"new", "running", "terminating"}
    /\ Range(workQueue) \subseteq Tasks
    /\ threads \subseteq Workers
    /\ active \in 0 .. MaxPool
    /\ \A w \in Workers : w \in threads <=> at[w] # "none"
    /\ active = Cardinality({w \in Workers : at[w] \notin
                    {"none", "pop", "popped", "leave"}})
=============================================================================
