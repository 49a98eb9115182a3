----------------------------- MODULE Scheduler ------------------------------
(***************************************************************************)
(* Scheduler (include/coro/Scheduler.hpp): the pool of threads that        *)
(* resumes the coroutines of Task.hpp.  It looks like ThreadPool but its   *)
(* workers wait for the counter task_num_, not for the queue: add_coroutine *)
(* pushes under mtx_, then notifies, and only then increments the counter, *)
(* outside the mutex.                                                      *)
(*                                                                         *)
(* Init is the state in which get_instance() returns for the first time:   *)
(* the constructor and run() are done.  From there the life of the object  *)
(* is add_coroutine by any thread, stop() by the thread that destroys      *)
(* instance_, and the delete.                                              *)
(***************************************************************************)
EXTENDS Naturals, Integers, Sequences, FiniteSets, Functions

CONSTANTS
    Workers,     \* the threads that run() creates, THREADS_NUM of them
    Clients,     \* other threads that create Tasks
    Coroutines,  \* the coroutine handles, each added at most once
    None

Threads == Workers \cup Clients

ASSUME SchedulerAssumption ==
    /\ Workers \cap Clients = {}
    /\ Workers # {}
    /\ IsFiniteSet(Threads)
    /\ None \notin Threads \cup Coroutines

VARIABLES
    mtx,              \* the holder of mtx_, or None
    corotines,        \* corotines_
    task_num,         \* task_num_
    waiting_threads,  \* waiting_threads_
    running,          \* running_
    wpc,              \* where each worker is in worker()
    cur,              \* the coroutine that each worker has taken
    apc,              \* where each thread is in add_coroutine
    arg,              \* the argument of that call
    spc,              \* where the destroying thread is in stop()
    future,           \* what became of each coroutine
    quiet             \* no client was inside add_coroutine when stop() began

queueVars == <<corotines, future>>
workerVars == <<mtx, waiting_threads, cur>>
stopVars == <<running, spc, quiet>>
vars == <<queueVars, workerVars, stopVars, task_num, wpc, apc, arg>>

(***************************************************************************)
(* Locations of a worker, in the order of the code.                        *)
(*   loop, loop2    the two reads of the condition of the outer while      *)
(*   lock           wants mtx_                                             *)
(*   test, test2    has mtx_: the two reads of the inner while             *)
(*   sleep          has mtx_ and is counted in waiting_threads_            *)
(*   blocked        in cv_.wait        woken   notified, wants mtx_        *)
(*   exit, exit2    has mtx_: the two reads of the if                      *)
(*   take           has mtx_, about to take the front of the queue         *)
(*   resume         inside coro.resume()                                   *)
(*   exited         worker() has returned                                  *)
(***************************************************************************)
Holding == {"test", "test2", "sleep", "exit", "exit2", "take"}
Asleep == {"sleep", "blocked", "woken"}
WorkerLocs == Holding \cup Asleep \cup {"loop", "loop2", "lock", "resume",
                                        "exited"}

(* Locations in add_coroutine; abort is the assertion at its top failing. *)
AddLocs == {"idle", "push", "notify", "count", "abort"}

(* Adders whose coroutine is in the queue and not yet in task_num_. *)
Uncounted == {a \in Threads : apc[a] \in {"notify", "count"}}

Blocked == {w \in Workers : wpc[w] = "blocked"}

-----------------------------------------------------------------------------

Init ==
    /\ mtx = None
    /\ corotines = <<>>
    /\ task_num = 0
    /\ waiting_threads = 0
    /\ running = TRUE
    /\ wpc = [w \in Workers |-> "loop"]
    /\ cur = [w \in Workers |-> None]
    /\ apc = [a \in Threads |-> "idle"]
    /\ arg = [a \in Threads |-> None]
    /\ spc = "running"
    /\ future = [c \in Coroutines |-> "none"]
    /\ quiet = FALSE

-----------------------------------------------------------------------------
(* add_coroutine, called by a client or by the coroutine a worker resumes. *)
(* Clients begin no call once the object is being destroyed; a coroutine   *)
(* that stop() waits for may.                                              *)

MayCall(a) ==
    \/ a \in Clients /\ spc = "running"
    \/ a \in Workers /\ wpc[a] = "resume"

AddTo(a, loc) == apc' = [apc EXCEPT ![a] = loc]

(* assert(coro != nullptr && running_.load() == true) *)
AddBegin(a, c) ==
    /\ apc[a] = "idle" /\ MayCall(a)
    /\ future[c] = "none" /\ c \notin Range(arg)
    /\ AddTo(a, IF running THEN "push" ELSE "abort")
    /\ arg' = [arg EXCEPT ![a] = c]
    /\ UNCHANGED <<queueVars, task_num, wpc>>

(* The critical section of add_coroutine. *)
Push(a) ==
    /\ apc[a] = "push" /\ AddTo(a, "notify")
    /\ mtx = None
    /\ corotines' = Append(corotines, arg[a])
    /\ future' = [future EXCEPT ![arg[a]] = "pending"]
    /\ UNCHANGED <<arg, task_num, wpc>>

(* if (waiting_threads_ > 0) cv_.notify_one();  Nobody sleeps while the    *)
(* counter is 0, so the read and the notification make one step: one that  *)
(* finds nobody to wake changes nothing, whatever the counter was before.  *)
Notify(a) ==
    /\ apc[a] = "notify" /\ AddTo(a, "count")
    /\ \/ (waiting_threads = 0 \/ Blocked = {}) /\ UNCHANGED wpc
       \/ waiting_threads > 0 /\ \E w \in Blocked :
                                   wpc' = [wpc EXCEPT ![w] = "woken"]
    /\ UNCHANGED <<queueVars, arg, task_num>>

(* task_num_++ *)
Count(a) ==
    /\ apc[a] = "count" /\ AddTo(a, "idle")
    /\ arg' = [arg EXCEPT ![a] = None]
    /\ task_num' = task_num + 1
    /\ UNCHANGED <<queueVars, wpc>>

AddStep(a) ==
    /\ Push(a) \/ Notify(a) \/ Count(a)
    /\ UNCHANGED <<workerVars, stopVars>>

AddCall(a) ==
    /\ \E c \in Coroutines : AddBegin(a, c)
    /\ UNCHANGED <<workerVars, stopVars>>

-----------------------------------------------------------------------------
(* worker().                                                               *)

Goto(w, from, to) == wpc[w] = from /\ wpc' = [wpc EXCEPT ![w] = to]

(* while (running_.load() || task_num_ > 0) *)
LoopRunning(w) ==
    /\ Goto(w, "loop", IF running THEN "lock" ELSE "loop2")
    /\ UNCHANGED <<workerVars, queueVars, task_num>>

(* Mutant of TasksLeft: the outer while tests running_ alone. *)
TasksLeftIgnored == FALSE

TasksLeft == task_num > 0

LoopTasks(w) ==
    /\ Goto(w, "loop2", IF TasksLeft THEN "lock" ELSE "exited")
    /\ UNCHANGED <<workerVars, queueVars, task_num>>

Lock(w) ==
    /\ Goto(w, "lock", "test")
    /\ mtx = None /\ mtx' = w
    /\ UNCHANGED <<waiting_threads, cur, queueVars, task_num>>

(* while (task_num_ == 0 && running_.load()) *)
TestTasks(w) ==
    /\ Goto(w, "test", IF task_num = 0 THEN "test2" ELSE "exit")
    /\ UNCHANGED <<workerVars, queueVars, task_num>>

(* The second read, and waiting_threads_++ if the loop is entered. *)
TestRunning(w) ==
    /\ Goto(w, "test2", IF running THEN "sleep" ELSE "exit")
    /\ waiting_threads' = waiting_threads + (IF running THEN 1 ELSE 0)
    /\ UNCHANGED <<mtx, cur, queueVars, task_num>>

(* cv_.wait(lock) releases mtx_ and blocks in one step. *)
Block(w) ==
    /\ Goto(w, "sleep", "blocked")
    /\ mtx' = None
    /\ UNCHANGED <<waiting_threads, cur, queueVars, task_num>>

SpuriousWake(w) ==
    /\ Goto(w, "blocked", "woken")
    /\ UNCHANGED <<workerVars, queueVars, task_num>>

(* After cv_.wait the inner while tests again. *)
AfterWait == "test"

(* cv_.wait has mtx_ again; waiting_threads_--. *)
Reacquire(w) ==
    /\ Goto(w, "woken", AfterWait)
    /\ mtx = None /\ mtx' = w
    /\ waiting_threads' = waiting_threads - 1
    /\ UNCHANGED <<cur, queueVars, task_num>>

(* if (task_num_ == 0 && !running_.load()) return; *)
ExitTasks(w) ==
    /\ Goto(w, "exit", IF task_num = 0 THEN "exit2" ELSE "take")
    /\ UNCHANGED <<workerVars, queueVars, task_num>>

ExitRunning(w) ==
    /\ Goto(w, "exit2", IF ~running THEN "exited" ELSE "take")
    /\ mtx' = IF ~running THEN None ELSE mtx
    /\ UNCHANGED <<waiting_threads, cur, queueVars, task_num>>

(* Mutants of LeaveQueue: task_num_-- is missing; pop() is missing. *)
LeaveUncounted == corotines' = Tail(corotines) /\ UNCHANGED task_num
LeaveFront == task_num' = task_num - 1 /\ UNCHANGED corotines

(* corotines_.pop(); task_num_--; *)
LeaveQueue == corotines' = Tail(corotines) /\ task_num' = task_num - 1

(* assert(!corotines_.empty()), which FrontExists is about, then front(),  *)
(* pop() and the count; the lock is released after it.                     *)
Take(w) ==
    /\ Goto(w, "take", "resume")
    /\ corotines # <<>>
    /\ mtx' = None
    /\ cur' = [cur EXCEPT ![w] = Head(corotines)]
    /\ LeaveQueue
    /\ UNCHANGED <<waiting_threads, future>>

(* coro.resume() returns: the coroutine is at its final suspension point   *)
(* or at an inner one.                                                     *)
Resumed(w) ==
    /\ Goto(w, "resume", "loop")
    /\ apc[w] = "idle"
    /\ future' = [future EXCEPT ![cur[w]] = "ready"]
    /\ cur' = [cur EXCEPT ![w] = None]
    /\ UNCHANGED <<mtx, waiting_threads, corotines, task_num>>

WorkerStep(w) ==
    /\ \/ LoopRunning(w) \/ LoopTasks(w) \/ Lock(w)
       \/ TestTasks(w) \/ TestRunning(w) \/ Block(w) \/ Reacquire(w)
       \/ ExitTasks(w) \/ ExitRunning(w) \/ Take(w) \/ Resumed(w)
    /\ UNCHANGED <<apc, arg, stopVars>>

Spurious(w) == SpuriousWake(w) /\ UNCHANGED <<apc, arg, stopVars>>

-----------------------------------------------------------------------------
(* stop(), called by default_delete<Scheduler> when instance_ is destroyed. *)

StopTo(from, to) == spc = from /\ spc' = to

(* running_ = false *)
StopClear ==
    /\ StopTo("running", "notify")
    /\ running' = FALSE
    /\ quiet' = \A a \in Clients : apc[a] = "idle"
    /\ UNCHANGED <<queueVars, wpc>>

(* Mutant of StopNotify: notify_one. *)
StopNotifyOne ==
    /\ StopTo("notify", "join")
    /\ \/ Blocked = {} /\ UNCHANGED wpc
       \/ \E w \in Blocked : wpc' = [wpc EXCEPT ![w] = "woken"]
    /\ UNCHANGED <<queueVars, running, quiet>>

(* cv_.notify_all() *)
StopNotify ==
    /\ StopTo("notify", "join")
    /\ wpc' = [w \in Workers |-> IF w \in Blocked THEN "woken" ELSE wpc[w]]
    /\ UNCHANGED <<queueVars, running, quiet>>

(* join() of every thread, then assert(task_num_ == 0). *)
StopJoin ==
    /\ StopTo("join", IF task_num = 0 THEN "stopped" ELSE "abort")
    /\ \A w \in Workers : wpc[w] = "exited"
    /\ UNCHANGED <<queueVars, wpc, running, quiet>>

(* delete ptr: the handles still queued are dropped. *)
Delete ==
    /\ StopTo("stopped", "deleted")
    /\ \A a \in Threads : apc[a] = "idle"
    /\ corotines' = <<>>
    /\ future' = [c \in Coroutines |->
                    IF c \in Range(corotines) THEN "broken" ELSE future[c]]
    /\ UNCHANGED <<wpc, running, quiet>>

StopReturn == StopNotify \/ StopJoin \/ Delete

StopStep ==
    /\ StopClear \/ StopReturn
    /\ UNCHANGED <<workerVars, task_num, apc, arg>>

-----------------------------------------------------------------------------

(* A failed assertion ends the program. *)
Aborted == spc = "abort" \/ \E a \in Threads : apc[a] = "abort"

Next ==
    /\ ~Aborted
    /\ \/ \E a \in Threads : AddCall(a) \/ AddStep(a)
       \/ \E w \in Workers : WorkerStep(w) \/ Spurious(w)
       \/ StopStep

Spec == Init /\ [][Next]_vars

(* Threads are scheduled, a mutex that is free again and again is obtained, *)
(* and coroutines return from resume(); nobody need call add_coroutine or   *)
(* stop(), nor need a thread wake spuriously.                               *)
Fairness ==
    /\ \A a \in Threads : SF_vars(~Aborted /\ AddStep(a))
    /\ \A w \in Workers : SF_vars(~Aborted /\ WorkerStep(w))
    /\ WF_vars(~Aborted /\ StopReturn /\ StopStep)

FairSpec == Spec /\ Fairness

-----------------------------------------------------------------------------
(* Properties.                                                             *)

TypeOK ==
    /\ mtx \in Workers \cup {None}
    /\ corotines \in Seq(Coroutines)
    /\ task_num \in Nat /\ waiting_threads \in Nat
    /\ running \in BOOLEAN /\ quiet \in BOOLEAN
    /\ wpc \in [Workers -> WorkerLocs]
    /\ cur \in [Workers -> Coroutines \cup {None}]
    /\ apc \in [Threads -> AddLocs]
    /\ arg \in [Threads -> Coroutines \cup {None}]
    /\ spc \in {"running", "notify", "join", "stopped", "deleted", "abort"}
    /\ future \in [Coroutines -> {"none", "pending", "ready", "broken"}]

MutexInv == \A w \in Workers : wpc[w] \in Holding <=> mtx = w

(* waiting_threads_ counts the workers in the inner loop, so a notifier    *)
(* that reads 0 leaves nobody asleep.                                      *)
Sleepers == {w \in Workers : wpc[w] \in Asleep}
WaitInv == waiting_threads = Cardinality(Sleepers)

(* task_num_ is behind the queue by the calls that have pushed and not yet *)
(* counted, never ahead of it.                                             *)
CountInv ==
    spc # "deleted" => Len(corotines) = task_num + Cardinality(Uncounted)

(* A worker that has decided to take knows of a counted coroutine: only    *)
(* the holder of mtx_ counts down.                                         *)
TakeInv ==
    /\ \A w \in Workers : wpc[w] = "take" => task_num > 0
    /\ \A w \in Workers : wpc[w] \in {"exit2", "loop2", "exited"} => ~running
    /\ \A w \in Workers : wpc[w] = "exit" /\ task_num = 0 => ~running

(* A coroutine that was pushed and not resumed is in exactly one place. *)
PlaceInv ==
    /\ IsInjective(corotines)
    /\ \A c \in Range(corotines) : future[c] = "pending"
    /\ \A w \in Workers : cur[w] # None <=> wpc[w] = "resume"
    /\ \A w \in Workers : cur[w] # None =>
         future[cur[w]] = "pending" /\ cur[w] \notin Range(corotines)
    /\ \A v, w \in Workers : cur[v] = cur[w] /\ cur[v] # None => v = w
    /\ \A c \in Coroutines : future[c] = "pending" =>
         c \in Range(corotines) \/ \E w \in Workers : cur[w] = c

(* The argument of a call is queued by nobody else. *)
ArgInv ==
    /\ \A a \in Threads : arg[a] # None <=> apc[a] # "idle"
    /\ \A a \in Threads : apc[a] = "push" => future[arg[a]] = "none"
    /\ \A a, b \in Threads : arg[a] = arg[b] /\ arg[a] # None => a = b
    /\ \A w \in Workers : apc[w] # "idle" => wpc[w] = "resume"

(* While stop() runs and no client was adding when it began: a worker that *)
(* is about to leave with coroutines counted is not the last one, and the  *)
(* last one leaves nothing behind.                                         *)
Alive(v) == wpc[v] \in {"loop", "loop2", "lock", "resume"}

StopInv ==
    /\ running <=> spc = "running"
    /\ quiet => ~running
    /\ quiet => \A a \in Clients : apc[a] = "idle"
    /\ quiet => \A w \in Workers : wpc[w] = "exit2" /\ task_num > 0 =>
                   \E v \in Workers : v # w /\ Alive(v)
    /\ quiet /\ (\A w \in Workers : wpc[w] = "exited") => corotines = <<>>
    /\ spc \in {"stopped", "deleted", "abort"} =>
         \A w \in Workers : wpc[w] = "exited"
    /\ spc = "abort" => ~quiet
    /\ \A c \in Coroutines : future[c] = "broken" => spc = "deleted" /\ ~quiet

(* The inductive invariant of the scheduler. *)
SchedulerInv ==
    /\ TypeOK /\ MutexInv /\ WaitInv /\ CountInv /\ TakeInv
    /\ PlaceInv /\ ArgInv /\ StopInv

(* assert(!corotines_.empty()) in worker() never fails, although the       *)
(* workers decide by task_num_, which other threads change without mtx_.   *)
FrontExists == \A w \in Workers : wpc[w] = "take" => corotines # <<>>

(* If no client was inside add_coroutine when stop() cleared running_,     *)
(* then stop() returns with every coroutine resumed, those included that   *)
(* coroutines were adding meanwhile, and assert(task_num_ == 0) holds.     *)
StopDrains ==
    quiet /\ spc \in {"stopped", "deleted", "abort"} =>
        /\ spc # "abort"
        /\ \A c \in Coroutines : future[c] \in {"none", "ready"}

(* Coroutines are resumed once each, in the order in which they were       *)
(* pushed.                                                                 *)
Abstract == INSTANCE Executor WITH
    Tasks <- Coroutines, Slots <- Workers, pending <- corotines, slot <- cur
ImplementsExecutor == Abstract!Spec

(* A Task is executed on creation (README.md, coro module): a coroutine    *)
(* handed to the scheduler is resumed, unless stop() is called.            *)
EveryCoroutineRuns ==
    \A c \in Coroutines :
        (future[c] = "pending") ~> (future[c] = "ready" \/ ~running)

(* A worker was between its test of running_ and the blocking when stop()  *)
(* called notify_all(), which it misses, as stop() does not hold mtx_.     *)
Missed == spc = "join" /\ \E w \in Workers : wpc[w] = "sleep"

(* stop() waits for the threads to exit (comment in stop()): it ends, if   *)
(* no worker has missed its notification and no assertion has failed,      *)
(* whatever is added meanwhile.                                            *)
StopReturns ==
    []~Missed => ((spc = "notify") ~> (spc = "stopped" \/ Aborted))

=============================================================================
