------------------------------ MODULE TaskQueue ------------------------------
(***************************************************************************)
(* dispatch_task_queue: the worker threads with their four priority lanes, *)
(* delayed tasks, sync, async, clear and the destruction of the queue.     *)
(*                                                                         *)
(* Each task is submitted once.  The lanes are changed under _mutex, so a  *)
(* push, a pop and clear are one action each.  A worker keeps              *)
(* _signal_mutex from the moment it finds work until the lanes are empty,  *)
(* also while a task runs; notifications of the workers may be lost, but a *)
(* worker looks again every 50 ms, so they are not modelled.  A sync call  *)
(* waits on the task's own condition variable, which is notified without   *)
(* its mutex and has no timeout: its steps are separate.                   *)
(***************************************************************************)
EXTENDS Naturals, Sequences, FiniteSets

CONSTANTS
    Tasks,
    Workers,    \* the threads a queue may be created with
    InUse,      \* the priorities the callers use
    MaxQueue,   \* _max_queue_length, 2048 in the code
    Outside     \* a caller that is not a worker of this queue

Order == <<"HIGH", "NORMAL", "LOW", "DROPABLE">>
Priorities == {Order[i] : i \in DOMAIN Order}

ASSUME InUseIsPriority == InUse \subseteq Priorities
ASSUME MaxQueueIsNat == MaxQueue \in Nat
ASSUME WorkersFinite == IsFiniteSet(Workers) /\ IsFiniteSet(Tasks)
ASSUME OutsideIsNew == Outside \notin Workers
ASSUME TasksAreNew == Tasks \cap {"idle", "draining", "exited"} = {}

VARIABLES
    threads,    \* _threads: the thread_count threads it was created with
    status,     \* where each task is
    prio,       \* its priority, fixed when it is submitted
    caller,     \* who submitted it: a worker (from a task) or an outside thread
    waiter,     \* the sync call's progress, "none" for async
    signalled,  \* task_signal::_signal
    lanes,      \* _tasks
    delayed,    \* _delat_tasks
    due,        \* delayed tasks whose trigger time has passed
    running,    \* the task a worker runs, "idle" (at _signal_mutex or in wait_for),
                \* "draining" or "exited"
    selfRef,    \* workers whose thread_local _self refers to the queue
    held,       \* some owner still holds the queue
    cancel,     \* _cancel
    pushed      \* history: the tasks that entered each lane

vars == <<threads, status, prio, caller, waiter, signalled, lanes, delayed, due, running, selfRef,
          held, cancel, pushed>>
queueVars == <<lanes, delayed, pushed>>
threadVars == <<threads, running, selfRef>>
lifeVars == <<held, cancel>>

Statuses == {"new", "checked", "checkedDelay", "dropped", "delayed", "queued", "running",
             "done", "cleared"}
Waiting == {"calling", "checking", "blocked"}

\* A lane lists the tasks of that status and priority, each once.
Filed(lane, s, p) ==
    /\ {lane[i] : i \in DOMAIN lane} = {t \in Tasks : status[t] = s /\ prio[t] = p}
    /\ \A i, j \in DOMAIN lane : lane[i] = lane[j] => i = j

TypeOK ==
    /\ threads \in SUBSET Workers \ {{}}
    /\ status \in [Tasks -> Statuses]
    /\ prio \in [Tasks -> Priorities]
    /\ caller \in [Tasks -> Workers \cup {Outside}]
    /\ waiter \in [Tasks -> Waiting \cup {"none", "returned"}]
    /\ signalled \in [Tasks -> BOOLEAN]
    /\ lanes \in [Priorities -> Seq(Tasks)]
    /\ delayed \in [Priorities -> Seq(Tasks)]
    /\ \A p \in Priorities : Filed(lanes[p], "queued", p) /\ Filed(delayed[p], "delayed", p)
    /\ due \in SUBSET Tasks
    /\ running \in [Workers -> Tasks \cup {"idle", "draining", "exited"}]
    /\ selfRef \in SUBSET Workers
    /\ held \in BOOLEAN /\ cancel \in BOOLEAN
    /\ pushed \in [Priorities -> Seq(Tasks)]

Init ==
    /\ threads \in SUBSET Workers \ {{}}
    /\ status = [t \in Tasks |-> "new"]
    /\ prio = [t \in Tasks |-> "NORMAL"]
    /\ caller = [t \in Tasks |-> Outside]
    /\ waiter = [t \in Tasks |-> "none"]
    /\ signalled = [t \in Tasks |-> FALSE]
    /\ lanes = [p \in Priorities |-> <<>>]
    /\ delayed = [p \in Priorities |-> <<>>]
    /\ due = {}
    /\ running = [w \in Workers |-> "idle"]
    /\ selfRef = {}
    /\ held = TRUE /\ cancel = FALSE
    /\ pushed = [p \in Priorities |-> <<>>]
-----------------------------------------------------------------------------
In(s) == {t \in Tasks : status[t] = s}
Settled(t) == status[t] \in {"done", "cleared", "dropped"}
RunsNow(w) == running[w] \in Tasks

\* task_signal::signal on the tasks of S.  A waiter that has tested _signal and
\* is not yet blocked misses the notification (those of missed) unless it blocks
\* between the assignment and the notify_all.
Signal(S) ==
    /\ signalled' = [t \in Tasks |-> signalled[t] \/ t \in S]
    /\ \E missed \in SUBSET {t \in S : waiter[t] = "checking"} :
          waiter' = [t \in Tasks |->
                       IF t \in S \ missed /\ waiter[t] \in {"checking", "blocked"}
                       THEN "calling" ELSE waiter[t]]

\* Who may call: any number of threads outside, or a task that runs on a worker,
\* one call after the other.
InCall(t) == status[t] \in {"checked", "checkedDelay"} \/ waiter[t] \in Waiting
Busy(w) == \E t \in Tasks : caller[t] = w /\ InCall(t)
CanCall(c) == IF c = Outside THEN held ELSE RunsNow(c) /\ ~Busy(c)

\* async_imp and async_delay_imp test the length without the lock, before the
\* push; only a DROPABLE task can be refused.
Length(queue) == Cardinality(In(queue))

Check(t, p, queue, next) ==
    /\ prio' = [prio EXCEPT ![t] = p]
    /\ \/ ~(Length(queue) > MaxQueue /\ p = "DROPABLE") /\ status' = [status EXCEPT ![t] = next]
       \/ Length(queue) > MaxQueue /\ p = "DROPABLE" /\ status' = [status EXCEPT ![t] = "dropped"]
    /\ UNCHANGED <<signalled, queueVars, due, threadVars, lifeVars>>

\* asyncDelay with a trigger in the past is an async.
Async(t, p, c) ==
    /\ status[t] = "new" /\ CanCall(c)
    /\ Check(t, p, "queued", "checked") \/ Check(t, p, "delayed", "checkedDelay")
    /\ caller' = [caller EXCEPT ![t] = c]
    /\ UNCHANGED waiter

\* sync_imp from elsewhere than the only worker: the result of async_imp is not
\* looked at, then the caller waits.
RunsInline(c) == c # Outside /\ Cardinality(threads) = 1

Sync(t, p, c) ==
    /\ status[t] = "new" /\ CanCall(c) /\ ~RunsInline(c)
    /\ Check(t, p, "queued", "checked")
    /\ caller' = [caller EXCEPT ![t] = c]
    /\ waiter' = [waiter EXCEPT ![t] = "calling"]

\* sync_imp on the only worker runs the task on the spot.
SyncInline(t, p, c) ==
    /\ status[t] = "new" /\ CanCall(c) /\ RunsInline(c)
    /\ prio' = [prio EXCEPT ![t] = p]
    /\ status' = [status EXCEPT ![t] = "done"]
    /\ caller' = [caller EXCEPT ![t] = c]
    /\ waiter' = [waiter EXCEPT ![t] = "returned"]
    /\ signalled' = [signalled EXCEPT ![t] = TRUE]
    /\ UNCHANGED <<queueVars, due, threadVars, lifeVars>>

\* The push under _mutex.
Push(t) ==
    /\ \/ /\ status[t] = "checked"
          /\ status' = [status EXCEPT ![t] = "queued"]
          /\ lanes' = [lanes EXCEPT ![prio[t]] = Append(@, t)]
          /\ pushed' = [pushed EXCEPT ![prio[t]] = Append(@, t)]
          /\ UNCHANGED delayed
       \/ /\ status[t] = "checkedDelay"
          /\ status' = [status EXCEPT ![t] = "delayed"]
          /\ delayed' = [delayed EXCEPT ![prio[t]] = Append(@, t)]
          /\ UNCHANGED <<lanes, pushed>>
    /\ signalled' = [signalled EXCEPT ![t] = FALSE]
    /\ UNCHANGED <<prio, caller, waiter, due, threadVars, lifeVars>>

\* task_signal::wait: the test of _signal, and the block.
TestSignal(t) ==
    /\ waiter[t] = "calling" /\ status[t] # "checked"
    /\ waiter' = [waiter EXCEPT ![t] = IF signalled[t] THEN "returned" ELSE "checking"]
    /\ signalled' = [signalled EXCEPT ![t] = FALSE]
    /\ UNCHANGED <<status, prio, caller, queueVars, due, threadVars, lifeVars>>

Block(t) ==
    /\ waiter[t] = "checking"
    /\ waiter' = [waiter EXCEPT ![t] = "blocked"]
    /\ UNCHANGED <<status, prio, caller, signalled, queueVars, due, threadVars, lifeVars>>

\* clear drops the tasks of _tasks and signals them; delayed ones stay.
Clear(c) ==
    /\ CanCall(c) /\ In("queued") # {}
    /\ status' = [t \in Tasks |-> IF t \in In("queued") THEN "cleared" ELSE status[t]]
    /\ lanes' = [p \in Priorities |-> <<>>]
    /\ Signal(In("queued"))
    /\ UNCHANGED <<prio, caller, delayed, pushed, due, threadVars, lifeVars>>

\* The clock passes the trigger of a delayed task.
Tick(t) ==
    /\ status[t] = "delayed" /\ t \notin due
    /\ due' = due \cup {t}
    /\ UNCHANGED <<status, prio, caller, waiter, signalled, queueVars, threadVars, lifeVars>>
-----------------------------------------------------------------------------
(* The workers.                                                            *)

\* _signal_mutex is free; its mutant releases it while a task runs.
GateFreeWhileRunning == \A w \in Workers : running[w] # "draining"
GateFree == \A w \in Workers : running[w] \in {"idle", "exited"}

\* What wakes a worker; the mutant does not look at the delayed tasks.
HasWorkNow == In("queued") # {}
HasWork == In("queued") # {} \/ In("delayed") # {}

Wake(w) ==
    /\ w \in threads /\ running[w] = "idle" /\ GateFree /\ ~cancel /\ HasWork
    /\ running' = [running EXCEPT ![w] = "draining"]
    /\ UNCHANGED <<threads, status, prio, caller, waiter, signalled, queueVars, due, selfRef, lifeVars>>

\* The elements of s that are in S, in their order; s, n times its head moved to
\* the back.
Pick(s, S) ==
    LET at == {i \in DOMAIN s : s[i] \in S}
    IN [k \in 1 .. Cardinality(at) |-> s[CHOOSE i \in at : Cardinality({j \in at : j <= i}) = k]]
Rotate(s, n) ==
    LET k == IF s = <<>> THEN 0 ELSE n % Len(s)
    IN SubSeq(s, k + 1, Len(s)) \o SubSeq(s, 1, k)

\* The scan over _delat_tasks takes as many turns as there are delayed tasks,
\* each on the head of the first lane that is not empty: a due task moves to
\* _tasks, another one goes to the back of its lane.  So a lane is reached only
\* if everything before it was due, and a lane with a task that is not due is
\* turned once more for every task behind it.
Higher(p) == {Order[i] : i \in {j \in DOMAIN Order : \E k \in DOMAIN Order : k > j /\ Order[k] = p}}
Lower(p) == Priorities \ (Higher(p) \cup {p})
Reached(p) == \A t \in In("delayed") : prio[t] \in Higher(p) => t \in due

\* Mutant of Moved: tasks that are not due move too.
MovedAll(p) == IF Reached(p) THEN delayed[p] ELSE <<>>
Moved(p) == IF Reached(p) THEN Pick(delayed[p], due) ELSE <<>>
Left(p) ==
    IF Reached(p)
    THEN Rotate(Pick(delayed[p], Tasks \ due),
                Cardinality({t \in In("delayed") : prio[t] \in Lower(p)}))
    ELSE delayed[p]

Lane(p) == lanes[p] \o Moved(p)
Top(p) == Lane(p) # <<>> /\ \A q \in Higher(p) : Lane(q) = <<>>

\* One turn of the inner loop: the scan, then the first task of the first lane.
MovedTasks == {t \in Tasks : \E p \in Priorities : \E i \in DOMAIN Moved(p) : Moved(p)[i] = t}

TakeTask(w) ==
    /\ running[w] = "draining" /\ ~cancel
    /\ delayed' = [p \in Priorities |-> Left(p)]
    /\ pushed' = [p \in Priorities |-> pushed[p] \o Moved(p)]
    /\ \E p \in Priorities :
          /\ Top(p)
          /\ lanes' = [q \in Priorities |-> IF q = p THEN Tail(Lane(q)) ELSE Lane(q)]
          /\ running' = [running EXCEPT ![w] = Head(Lane(p))]
          /\ status' = [t \in Tasks |-> IF t = Head(Lane(p)) THEN "running"
                                        ELSE IF t \in MovedTasks THEN "queued" ELSE status[t]]
    /\ selfRef' = selfRef \cup {w}
    /\ UNCHANGED <<threads, prio, caller, waiter, signalled, due, lifeVars>>

\* Nothing to run, or cancelled: back to the outer loop, _signal_mutex released.
Pause(w) ==
    /\ running[w] = "draining"
    /\ cancel \/ \A p \in Priorities : Lane(p) = <<>>
    /\ running' = [running EXCEPT ![w] = "idle"]
    /\ delayed' = IF cancel THEN delayed ELSE [p \in Priorities |-> Left(p)]
    /\ UNCHANGED <<threads, status, prio, caller, waiter, signalled, lanes, pushed, due, selfRef, lifeVars>>

\* Mutant of Finish: one condition for all, every waiter is told.
FinishTellsAll(w) ==
    /\ RunsNow(w) /\ ~Busy(w)
    /\ status' = [status EXCEPT ![running[w]] = "done"]
    /\ Signal({t \in Tasks : waiter[t] \in Waiting})
    /\ running' = [running EXCEPT ![w] = "draining"]
    /\ UNCHANGED <<threads, prio, caller, queueVars, due, selfRef, lifeVars>>

\* run returns or throws, once the sync calls it made have returned; then the
\* task is signalled.
Finish(w) ==
    /\ RunsNow(w) /\ ~Busy(w)
    /\ status' = [status EXCEPT ![running[w]] = "done"]
    /\ Signal({running[w]})
    /\ running' = [running EXCEPT ![w] = "draining"]
    /\ UNCHANGED <<threads, prio, caller, queueVars, due, selfRef, lifeVars>>

Exit(w) ==
    /\ w \in threads /\ running[w] = "idle" /\ cancel
    /\ running' = [running EXCEPT ![w] = "exited"]
    /\ selfRef' = selfRef \ {w}
    /\ UNCHANGED <<threads, status, prio, caller, waiter, signalled, queueVars, due, lifeVars>>

\* The owner drops its reference, no call of its own being under way.
Release ==
    /\ held /\ \A t \in Tasks : caller[t] = Outside => ~InCall(t)
    /\ held' = FALSE
    /\ UNCHANGED <<status, prio, caller, waiter, signalled, queueVars, due, threadVars, cancel>>

\* ~mutex_task_queue, when the last reference is gone.
Destroy ==
    /\ ~held /\ selfRef = {} /\ ~cancel
    /\ cancel' = TRUE
    /\ UNCHANGED <<status, prio, caller, waiter, signalled, queueVars, due, threadVars, held>>
-----------------------------------------------------------------------------
Call(c) ==
    \/ \E t \in Tasks, p \in InUse : Async(t, p, c) \/ Sync(t, p, c) \/ SyncInline(t, p, c)
    \/ Clear(c)

TaskStep(t) == Push(t) \/ TestSignal(t) \/ Block(t) \/ Tick(t)
WorkerStep(w) == Wake(w) \/ TakeTask(w) \/ Pause(w) \/ Finish(w) \/ Exit(w)

Next ==
    \/ \E c \in Workers \cup {Outside} : Call(c)
    \/ \E t \in Tasks : TaskStep(t)
    \/ \E w \in Workers : WorkerStep(w)
    \/ Release \/ Destroy

Spec == Init /\ [][Next]_vars

\* Every thread that can go on goes on, a task that runs returns, time passes.
Fairness ==
    /\ \A t \in Tasks : WF_vars(Push(t)) /\ WF_vars(TestSignal(t)) /\ WF_vars(Block(t)) /\ WF_vars(Tick(t))
    /\ \A w \in Workers : WF_vars(WorkerStep(w))
    /\ WF_vars(Destroy)

FairSpec == Spec /\ Fairness
-----------------------------------------------------------------------------
\* The tasks of a lane run one after the other in the order they were pushed,
\* however many workers there are: what DataStream relies on to do without locks.
SerialInOrder ==
    \A p \in Priorities : \A j \in DOMAIN pushed[p] :
        status[pushed[p][j]] \in {"running", "done"} =>
            \A i \in 1 .. j - 1 : status[pushed[p][i]] \in {"done", "cleared"}

\* A sync call that returns has had its task run, unless clear threw it away.
ReturnedRan == \A t \in Tasks : waiter[t] = "returned" => status[t] \in {"done", "cleared"}

\* A delayed task does not run before its time.
DelayKept ==
    [][\A t \in Tasks : status[t] = "delayed" /\ status'[t] # "delayed" => t \in due]_vars

\* Whatever the queue holds, delayed or not, is run or cleared in the end unless
\* the queue is destroyed or one of several workers waits in a sync call: the
\* scan of the delayed tasks, which turns only the first lane that has a task
\* not yet due, starves nobody for ever.
TaskSettles ==
    \A t \in Tasks : status[t] \in {"queued", "delayed"}
                        ~> (Settled(t) \/ cancel \/ \E w \in Workers : RunsNow(w) /\ Busy(w))

\* What its users say of sync: the caller waits for the task and goes on.
SyncReturns == \A t \in Tasks : (waiter[t] \in Waiting) ~> (waiter[t] = "returned")
=============================================================================
