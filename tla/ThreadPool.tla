----------------------------- MODULE ThreadPool -----------------------------
(***************************************************************************)
(* hspd::ThreadPool (include/tools/ThreadPool.hpp): a queue of tasks under *)
(* one mutex, a condition variable on which idle workers sleep, and one    *)
(* controlling thread that calls run, stop, stopHard and the destructor.   *)
(*                                                                         *)
(* A step is what other threads can observe as one: a critical section of  *)
(* mtx_, one access to an atomic, one notification.  The wait of a worker  *)
(* is the exception: it holds mtx_ while it evaluates the predicate and    *)
(* releases it only when it blocks, and stop() changes running_ without    *)
(* mtx_, so evaluating and blocking are two steps with the mutex held.     *)
(*                                                                         *)
(* task_num_ changes in the same critical sections as task_queue_ and is   *)
(* its length; it is not a variable of the model.                          *)
(***************************************************************************)
EXTENDS Naturals, Sequences, FiniteSets, Functions

CONSTANTS
    Workers,        \* identities of the threads that run() creates; bound:
                    \* threads at one time, those of stopHard() included
    Clients,        \* threads outside the pool that call addTask
    Tasks,          \* the callables given to addTask, each at most once
    THREADS_NUM,    \* how many threads one call of run() creates
    MaxHardStops,   \* bound: how often stopHard() stops the pool
    None            \* no thread, no task

Threads == Workers \cup Clients

ASSUME PoolAssumption ==
    /\ IsFiniteSet(Workers) /\ IsFiniteSet(Clients)
    /\ Workers \cap Clients = {}
    /\ None \notin Threads \cup Tasks
    /\ THREADS_NUM \in Nat \ {0}
    /\ MaxHardStops \in Nat
    /\ Cardinality(Workers) >= THREADS_NUM

VARIABLES
    mtx,         \* the worker that holds mtx_ across steps, or None
    task_queue,  \* task_queue_, the front first
    threads,     \* the joinable threads in threads_
    waiting,     \* waiting_threads_
    running,     \* running_
    wpc,         \* where each worker is in worker()
    cur,         \* the local variable task of each worker
    apc,         \* where each thread is in a call of addTask
    cpc,         \* where the controlling thread is
    future,      \* the std::future that addTask returned for each task
    promised,    \* history: tasks pending when stop() last cleared running_
    hardStops    \* history: how often stopHard() has stopped the pool

taskVars == <<task_queue, future>>
controlVars == <<threads, running, cpc, promised, hardStops>>
vars == <<mtx, waiting, wpc, cur, apc, taskVars, controlVars>>

(***************************************************************************)
(* Locations of a worker.                                                  *)
(*   none     no such thread            exited   worker() has returned     *)
(*   start    top of the loop           exec     running a task            *)
(*   check    has mtx_, evaluates the predicate of cv_.wait                *)
(*   sleep    has mtx_, the predicate was false: about to block            *)
(*   blocked  asleep on cv_             woken    notified, wants mtx_      *)
(*   take     has mtx_, the wait is over                                   *)
(***************************************************************************)
Holding == {"check", "sleep", "take"}
Waiting == Holding \cup {"blocked", "woken"}
WorkerLocs == Waiting \cup {"none", "start", "exec", "exited"}

ControlLocs == {"idle", "spawn", "notify", "join", "clear",
                "hardNotify", "detach", "destroyed"}

InQueue(t) == t \in Range(task_queue)

(* Threads that sleep on the condition variable. *)
Blocked == {w \in Workers : wpc[w] = "blocked"}

(* Live workers that will look at the queue before they sleep. *)
Ready == {w \in Workers : wpc[w] \in {"start", "check", "woken", "take"}}

(* Threads that have queued a task and not yet finished notifying. *)
Notifying == {a \in Threads : apc[a] # "idle"}

(* No thread is in the pool: the object can be destroyed. *)
Gone == {w \in Workers : wpc[w] \in {"none", "exited"}}

-----------------------------------------------------------------------------

Init ==
    /\ mtx = None
    /\ task_queue = <<>>
    /\ threads = {}
    /\ waiting = 0
    /\ running = FALSE
    /\ wpc = [w \in Workers |-> "none"]
    /\ cur = [w \in Workers |-> None]
    /\ apc = [a \in Threads |-> "idle"]
    /\ cpc = "idle"
    /\ future = [t \in Tasks |-> "none"]
    /\ promised = {}
    /\ hardStops = 0

-----------------------------------------------------------------------------
(* addTask and _addTask, called by a client or by a task that a worker     *)
(* runs.  Nothing in it looks at running_.                                 *)

MayCall(a) == a \in Clients \/ (a \in Workers /\ wpc[a] = "exec")

(* The critical section of _addTask. *)
Push(a, t) ==
    /\ cpc # "destroyed" /\ apc[a] = "idle" /\ MayCall(a)
    /\ mtx = None
    /\ future[t] = "none"
    /\ task_queue' = Append(task_queue, t)
    /\ future' = [future EXCEPT ![t] = "pending"]
    /\ apc' = [apc EXCEPT ![a] = "pushed"]
    /\ UNCHANGED wpc

(* Mutant of SomeoneWaits: the comparison is off by one. *)
SomeoneElseWaits == waiting > 1

(* if (waiting_threads_ > 0), read after mtx_ is released. *)
SomeoneWaits == waiting > 0

ReadWaiting(a) ==
    /\ apc[a] = "pushed"
    /\ apc' = [apc EXCEPT ![a] = IF SomeoneWaits THEN "notify" ELSE "idle"]
    /\ UNCHANGED <<taskVars, wpc>>

(* Mutant of WakeOne: nobody is notified. *)
WakeNobody == UNCHANGED wpc

(* cv_.notify_one() wakes some sleeping worker, if there is one. *)
WakeOne ==
    \/ Blocked = {} /\ UNCHANGED wpc
    \/ \E w \in Blocked : wpc' = [wpc EXCEPT ![w] = "woken"]

NotifyOne(a) ==
    /\ apc[a] = "notify"
    /\ apc' = [apc EXCEPT ![a] = "idle"]
    /\ WakeOne
    /\ UNCHANGED taskVars

AddStep(a) ==
    /\ (\E t \in Tasks : Push(a, t)) \/ ReadWaiting(a) \/ NotifyOne(a)
    /\ UNCHANGED <<mtx, waiting, cur, controlVars>>

-----------------------------------------------------------------------------
(* worker().                                                               *)

Goto(w, loc) == wpc' = [wpc EXCEPT ![w] = loc]

(* std::unique_lock lock(mtx_); waiting_threads_++ *)
Enter(w) ==
    /\ wpc[w] = "start" /\ Goto(w, "check")
    /\ mtx = None /\ mtx' = w
    /\ waiting' = waiting + 1
    /\ UNCHANGED <<taskVars, cur>>

(* The predicate of cv_.wait. *)
WakeCondition == ~running \/ task_queue # <<>>

Check(w) ==
    /\ wpc[w] = "check" /\ Goto(w, IF WakeCondition THEN "take" ELSE "sleep")
    /\ UNCHANGED <<mtx, waiting, taskVars, cur>>

(* cv_.wait releases mtx_ and blocks in one step. *)
Block(w) ==
    /\ wpc[w] = "sleep" /\ Goto(w, "blocked")
    /\ mtx' = None
    /\ UNCHANGED <<waiting, taskVars, cur>>

(* A condition variable may wake a thread that nobody notified. *)
SpuriousWake(w) ==
    /\ wpc[w] = "blocked" /\ Goto(w, "woken")
    /\ UNCHANGED <<mtx, waiting, taskVars, cur>>

(* cv_.wait takes mtx_ again and re-evaluates the predicate. *)
Reacquire(w) ==
    /\ wpc[w] = "woken" /\ Goto(w, "check")
    /\ mtx = None /\ mtx' = w
    /\ UNCHANGED <<waiting, taskVars, cur>>

(* Mutant of LeaveWait: waiting_threads_-- is missing. *)
LeaveWaitNever(w) == wpc[w] = "take" /\ mtx' = None /\ UNCHANGED waiting

(* waiting_threads_--, and the lock is released at the end of the block. *)
LeaveWait(w) == wpc[w] = "take" /\ mtx' = None /\ waiting' = waiting - 1

(* Mutant of MayExit: a stopped worker does not empty the queue first. *)
MayExitAtOnce == ~running

(* if (!running_.load() && task_queue_.empty()) return; *)
MayExit == ~running /\ task_queue = <<>>

Exit(w) ==
    /\ LeaveWait(w) /\ Goto(w, "exited")
    /\ MayExit
    /\ UNCHANGED <<taskVars, cur>>

(* Mutant of TakeFront: task_queue_.pop() is missing. *)
LookAtFront(w) ==
    /\ task_queue # <<>>
    /\ cur' = [cur EXCEPT ![w] = Head(task_queue)]
    /\ UNCHANGED task_queue

(* task = std::move(task_queue_.front()); task_queue_.pop(); *)
TakeFront(w) ==
    /\ task_queue # <<>>
    /\ cur' = [cur EXCEPT ![w] = Head(task_queue)]
    /\ task_queue' = Tail(task_queue)

Pop(w) ==
    /\ LeaveWait(w) /\ Goto(w, "exec")
    /\ TakeFront(w)
    /\ UNCHANGED future

(* The predicate saw running_ false and run() has set it again since: no   *)
(* task to take, and the loop goes round.                                  *)
LoopAgain(w) ==
    /\ LeaveWait(w) /\ Goto(w, "start")
    /\ running /\ task_queue = <<>>
    /\ UNCHANGED <<taskVars, cur>>

(* task() returns, or throws and the packaged_task stores the exception:   *)
(* either way the future is ready.                                         *)
FinishTask(w) ==
    /\ wpc[w] = "exec" /\ Goto(w, "start")
    /\ apc[w] = "idle"
    /\ future' = [future EXCEPT ![cur[w]] = "ready"]
    /\ cur' = [cur EXCEPT ![w] = None]
    /\ UNCHANGED <<mtx, waiting, task_queue>>

WorkerStep(w) ==
    /\ \/ Enter(w) \/ Check(w) \/ Block(w) \/ SpuriousWake(w) \/ Reacquire(w)
       \/ Exit(w) \/ Pop(w) \/ LoopAgain(w) \/ FinishTask(w)
    /\ UNCHANGED <<apc, controlVars>>

-----------------------------------------------------------------------------
(* run(), stop(), stopHard() and the destructor, called by one thread.     *)

ControlGoto(from, to) == cpc = from /\ cpc' = to

(* if (running_.exchange(true)) return; *)
Run ==
    /\ ControlGoto("idle", "spawn")
    /\ ~running /\ running' = TRUE
    /\ Cardinality(Gone \ threads) >= THREADS_NUM
    /\ UNCHANGED <<taskVars, wpc, threads, promised, hardStops>>

(* One turn of the loop over THREADS_NUM; the last one ends run(). *)
Spawn(w) ==
    /\ ControlGoto("spawn", IF Cardinality(threads) + 1 < THREADS_NUM
                            THEN "spawn" ELSE "idle")
    /\ w \in Gone \ threads
    /\ threads' = threads \cup {w}
    /\ Goto(w, "start")
    /\ UNCHANGED <<taskVars, running, promised, hardStops>>

(* if (!running_.exchange(false)) return;  without mtx_ *)
Stop ==
    /\ ControlGoto("idle", "notify")
    /\ running /\ running' = FALSE
    /\ promised' = {t \in Tasks : future[t] = "pending"}
    /\ UNCHANGED <<taskVars, wpc, threads, hardStops>>

(* Mutant of NotifyAll: notify_one. *)
NotifyOnlyOne ==
    /\ ControlGoto("notify", "join") \/ ControlGoto("hardNotify", "detach")
    /\ WakeOne
    /\ UNCHANGED <<taskVars, threads, running, promised, hardStops>>

(* cv_.notify_all(), in stop() and in stopHard() *)
NotifyAll ==
    /\ ControlGoto("notify", "join") \/ ControlGoto("hardNotify", "detach")
    /\ wpc' = [w \in Workers |->
                 IF wpc[w] = "blocked" THEN "woken" ELSE wpc[w]]
    /\ UNCHANGED <<taskVars, threads, running, promised, hardStops>>

(* Mutant of AllExited: join() does not wait. *)
NobodyWaited == TRUE

(* The loop of join() calls ends once every thread in threads_ has exited. *)
AllExited == threads \subseteq Gone

StopJoin ==
    /\ ControlGoto("join", "clear")
    /\ AllExited
    /\ threads' = {}
    /\ UNCHANGED <<taskVars, wpc, running, promised, hardStops>>

(* Destroying a queued packaged_task breaks its promise. *)
DropQueue ==
    /\ task_queue' = <<>>
    /\ future' = [t \in Tasks |-> IF InQueue(t) THEN "broken" ELSE future[t]]

(* The critical section that empties task_queue_, and the return of stop. *)
StopClear ==
    /\ ControlGoto("clear", "idle")
    /\ mtx = None
    /\ DropQueue
    /\ UNCHANGED <<wpc, threads, running, promised, hardStops>>

StopHard ==
    /\ ControlGoto("idle", "hardNotify")
    /\ hardStops < MaxHardStops /\ hardStops' = hardStops + 1
    /\ running /\ running' = FALSE
    /\ UNCHANGED <<taskVars, wpc, threads, promised>>

(* The detached threads go on running worker(); the queue is kept. *)
StopHardDetach ==
    /\ ControlGoto("detach", "idle")
    /\ threads' = {}
    /\ UNCHANGED <<taskVars, wpc, running, promised, hardStops>>

(* ~ThreadPool: with running_ set it first goes through stop(), which is    *)
(* the Stop steps above, then the members are destroyed.  The owner may not *)
(* destroy the pool under a client that is inside addTask.                  *)
Destroy ==
    /\ ControlGoto("idle", "destroyed")
    /\ ~running
    /\ \A c \in Clients : apc[c] = "idle"
    /\ DropQueue
    /\ UNCHANGED <<wpc, threads, running, promised, hardStops>>

ControlStep ==
    /\ \/ Run \/ (\E w \in Workers : Spawn(w)) \/ Stop \/ NotifyAll
       \/ StopJoin \/ StopClear \/ StopHard \/ StopHardDetach \/ Destroy
    /\ UNCHANGED <<mtx, waiting, cur, apc>>

-----------------------------------------------------------------------------

Next ==
    \/ \E a \in Threads : AddStep(a)
    \/ \E w \in Workers : WorkerStep(w)
    \/ ControlStep

Spec == Init /\ [][Next]_vars

(***************************************************************************)
(* Every thread that is inside a call is eventually scheduled, and a task  *)
(* that runs eventually returns.  Nobody has to call run, stop or addTask, *)
(* and nothing promises a spurious wakeup.  The mutex is not assumed fair: *)
(* a weakly fair Enter or Reacquire may be overtaken for ever.             *)
(***************************************************************************)
Fairness ==
    /\ \A a \in Threads : WF_vars(apc[a] # "idle" /\ AddStep(a))
    /\ \A w \in Workers : WF_vars(wpc[w] # "blocked" /\ WorkerStep(w))
    /\ WF_vars(cpc # "idle" /\ ControlStep)

FairSpec == Spec /\ Fairness

-----------------------------------------------------------------------------
(* Safety.                                                                 *)

(* Every variable has its type; in particular waiting_threads_ never       *)
(* becomes negative, although ++ and -- are far apart in worker().         *)
TypeOK ==
    /\ mtx \in Workers \cup {None}
    /\ task_queue \in Seq(Tasks)
    /\ threads \subseteq Workers
    /\ waiting \in Nat
    /\ running \in BOOLEAN
    /\ wpc \in [Workers -> WorkerLocs]
    /\ cur \in [Workers -> Tasks \cup {None}]
    /\ apc \in [Threads -> {"idle", "pushed", "notify"}]
    /\ cpc \in ControlLocs
    /\ future \in [Tasks -> {"none", "pending", "ready", "broken"}]
    /\ promised \subseteq Tasks
    /\ hardStops \in 0 .. MaxHardStops

(* No lost wakeup in addTask: while a worker sleeps, there are no more     *)
(* queued tasks than workers on their way to the queue and callers that    *)
(* still have to notify.  This is why _addTask may skip notify_one when    *)
(* waiting_threads_ reads 0, and notify after it has released mtx_.        *)
WorkConserving ==
    Blocked # {} =>
        Len(task_queue) <= Cardinality(Ready) + Cardinality(Notifying)

(* stop() waits for all tasks: once the threads are joined, every task     *)
(* that was pending when stop() cleared running_ has been executed, and so *)
(* none of them is among those that stop() then throws away.  Only         *)
(* stopHard() can leave threads that a later stop() does not join.         *)
StopDrains ==
    hardStops = 0 /\ cpc \notin {"notify", "join"} =>
        \A t \in promised : future[t] = "ready"

(* The destructor leaves no thread behind that still uses the pool, as     *)
(* long as stopHard() has not detached one.                                *)
NoWorkerAfterDestroy ==
    hardStops = 0 /\ cpc = "destroyed" => Gone = Workers /\ threads = {}

(* The parts of the inductive invariant. *)

(* A worker holds mtx_ exactly between locking it and blocking or leaving. *)
MutexInv == \A w \in Workers : mtx = w <=> wpc[w] \in Holding

(* waiting_threads_ counts the workers between its ++ and its --. *)
WaitingInv == waiting = Cardinality({w \in Workers : wpc[w] \in Waiting})

(* Nothing can be queued between the predicate and the blocking. *)
SleepInv == \A w \in Workers : wpc[w] = "sleep" => task_queue = <<>>

(* A worker has a task while it executes it, and calls addTask only then. *)
CurInv ==
    \A w \in Workers :
        /\ cur[w] # None <=> wpc[w] = "exec"
        /\ apc[w] # "idle" => wpc[w] = "exec"

(* A task with a pending future is in one place, and only such a task is. *)
PlaceInv ==
    /\ IsInjective(task_queue)
    /\ \A v, w \in Workers : cur[v] # None /\ cur[v] = cur[w] => v = w
    /\ \A w \in Workers : cur[w] # None =>
         future[cur[w]] = "pending" /\ ~InQueue(cur[w])
    /\ \A t \in Tasks :
         /\ InQueue(t) => future[t] = "pending"
         /\ future[t] = "pending" =>
              InQueue(t) \/ \E w \in Workers : cur[w] = t

(* What the controlling thread knows of running_ and threads_. *)
ControlInv ==
    /\ running => cpc \in {"idle", "spawn"}
    /\ cpc = "spawn" => running
    /\ threads # {} => running \/ cpc \notin {"idle", "clear", "destroyed"}
    /\ cpc \in {"notify", "join"} \/ (cpc = "idle" /\ running) =>
         threads # {}
    /\ \A w \in threads :
         /\ wpc[w] # "none"
         /\ wpc[w] = "exited" =>
              ~running /\ \A t \in promised : ~InQueue(t)
    /\ hardStops = 0 => Workers \ Gone \subseteq threads
    /\ cpc \in {"hardNotify", "detach"} => hardStops > 0

PromiseInv ==
    /\ \A t \in promised : future[t] # "none"
    /\ cpc \in {"notify", "join"} =>
         \A t \in promised : future[t] \in {"pending", "ready"}

(* The inductive invariant. *)
PoolInv ==
    /\ TypeOK /\ MutexInv /\ WaitingInv /\ SleepInv /\ CurInv /\ PlaceInv
    /\ ControlInv /\ PromiseInv /\ WorkConserving /\ StopDrains

-----------------------------------------------------------------------------
(* Refinement and liveness.                                                *)

Abstract == INSTANCE Executor WITH
    Slots <- Workers, pending <- task_queue, slot <- cur

(* The pool is an executor with one slot per worker: a task is started     *)
(* once, in the order of the queue, and its future becomes ready when it   *)
(* returns or is broken when the pool drops it.                            *)
ImplementsExecutor == Abstract!Spec

(* A task that is queued in a running pool is executed, whatever stop() or *)
(* stopHard() does in the meantime; only destroying the pool after         *)
(* stopHard() can prevent it.                                              *)
QueuedTaskRuns ==
    \A t \in Tasks :
        (running /\ InQueue(t)) ~>
            (future[t] = "ready" \/ (cpc = "destroyed" /\ hardStops > 0))

(* A worker was between the predicate and the blocking when stop() called  *)
(* notify_all(), which it misses, as stop() does not hold mtx_.            *)
Missed == cpc = "join" /\ \E w \in threads : wpc[w] = "sleep"

(* stop() returns, although it waits for threads that run tasks and tasks  *)
(* that add tasks, unless a worker has missed its notification: that is    *)
(* the only way in which join() can hang.                                  *)
StopReturns == []~Missed => ((cpc = "join") ~> (cpc = "idle"))

=============================================================================
