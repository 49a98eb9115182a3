-------------------------- MODULE SchedulerProofs ---------------------------
(***************************************************************************)
(* Proofs about Scheduler, for any number of workers, clients and          *)
(* coroutines: one lemma per conjunct of SchedulerInv, then the theorems.  *)
(***************************************************************************)
EXTENDS Scheduler, SequenceFacts, FiniteSetTheorems, SequenceTheorems, TLAPS

(* Zenon proves most leaves; the others name the SMT solver.               *)
USE ZenonT(30)

(* The assumptions on the constants, in the form in which they are used. *)
LEMMA Constants ==
    /\ IsFiniteSet(Workers) /\ IsFiniteSet(Threads) /\ Workers # {}
    /\ Workers \subseteq Threads /\ Clients \subseteq Threads
    /\ \A a \in Threads : a \in Workers <=> a \notin Clients
    /\ None \notin Workers /\ None \notin Coroutines
<1>1. IsFiniteSet(Workers)
  BY SchedulerAssumption, FS_Subset, SMTT(30) DEF Threads
<1> QED
  BY <1>1, SchedulerAssumption DEF Threads

(* A scheduler whose threads have just been created satisfies it. *)
LEMMA InitInv == Init => SchedulerInv
<1> SUFFICES ASSUME Init PROVE SchedulerInv
  OBVIOUS
<1> USE Constants DEF Init
<1>1. TypeOK
  <2>1. corotines \in Seq(Coroutines)
    BY SMTT(30)
  <2> QED
    BY <2>1 DEF TypeOK, WorkerLocs, AddLocs
<1>2. Sleepers = {} /\ Uncounted = {}
  BY DEF Sleepers, Asleep, Uncounted
<1>3. WaitInv /\ CountInv
  BY <1>2, FS_EmptySet, EmptySeq, SMTT(30) DEF WaitInv, CountInv
<1>4. MutexInv /\ TakeInv /\ ArgInv /\ StopInv
  BY DEF MutexInv, Holding, TakeInv, ArgInv, StopInv
<1>5. PlaceInv
  BY EmptyQueue DEF PlaceInv
<1> QED
  BY <1>1, <1>3, <1>4, <1>5 DEF SchedulerInv

(* What stop() and the delete do to the workers and the coroutines. *)
LEMMA StopFrame ==
    ASSUME wpc \in [Workers -> WorkerLocs], StopStep
    PROVE  /\ UNCHANGED <<mtx, waiting_threads, cur, task_num, apc, arg>>
           /\ \A w \in Workers : wpc'[w] = wpc[w] \/
                                 (wpc[w] = "blocked" /\ wpc'[w] = "woken")
           /\ running' => running
           /\ UNCHANGED queueVars \/ Delete
<1> USE DEF StopStep, workerVars
<1>1. CASE StopClear
  BY <1>1 DEF StopClear
<1>2. CASE StopNotify
  BY <1>2 DEF StopNotify, Blocked
<1>3. CASE StopJoin
  BY <1>3 DEF StopJoin
<1>4. CASE Delete
  BY <1>4 DEF Delete
<1> QED
  BY <1>1, <1>2, <1>3, <1>4 DEF StopReturn

(* Only the thread that locks mtx_ moves to a location inside it. *)
LEMMA MutexStep == SchedulerInv /\ [Next]_vars => MutexInv'
<1> SUFFICES ASSUME SchedulerInv, [Next]_vars PROVE MutexInv'
  OBVIOUS
<1> USE Constants DEF SchedulerInv, TypeOK, MutexInv, Holding, workerVars
<1>1. ASSUME NEW a \in Threads, AddCall(a) \/ AddStep(a) PROVE MutexInv'
  BY <1>1 DEF AddCall, AddBegin, AddStep, Push, Notify, Count, Blocked
<1>2. ASSUME NEW w \in Workers, WorkerStep(w) \/ Spurious(w) PROVE MutexInv'
  BY <1>2, SMTT(30) DEF WorkerStep, Spurious, Goto, LoopRunning, LoopTasks, Lock,
     TestTasks, TestRunning, Block, SpuriousWake, Reacquire, AfterWait,
     ExitTasks, ExitRunning, TakeInv, Take, Resumed
<1>3. CASE StopStep
  BY <1>3 DEF StopStep, StopReturn, StopClear, StopNotify, StopJoin, Delete,
     Blocked
<1>4. CASE UNCHANGED vars
  BY <1>4 DEF vars
<1> QED
  BY <1>1, <1>2, <1>3, <1>4 DEF Next

(* Entering and leaving the inner loop change waiting_threads_ and the set *)
(* of sleepers together.                                                   *)
LEMMA WaitStep == SchedulerInv /\ [Next]_vars => WaitInv'
<1> SUFFICES ASSUME SchedulerInv, [Next]_vars PROVE WaitInv'
  OBVIOUS
<1>t. wpc \in [Workers -> WorkerLocs] /\ waiting_threads = Cardinality(Sleepers)
  BY DEF SchedulerInv, TypeOK, WaitInv
<1>f. IsFiniteSet(Sleepers) /\ Cardinality(Sleepers) \in Nat
  BY Constants, FS_Subset, FS_CardinalityType DEF Sleepers
<1>0. ASSUME Sleepers' = Sleepers, waiting_threads' = waiting_threads
      PROVE  WaitInv'
  BY <1>0, <1>t DEF WaitInv
<1> USE <1>t DEF Goto, workerVars, Asleep
<1>1. ASSUME NEW a \in Threads, AddCall(a) \/ AddStep(a) PROVE WaitInv'
  <2>1. Sleepers' = Sleepers /\ waiting_threads' = waiting_threads
    BY <1>1 DEF AddCall, AddBegin, AddStep, Push, Notify, Count, Blocked,
       Sleepers
  <2> QED
    BY <1>0, <2>1
<1>2. ASSUME NEW w \in Workers, WorkerStep(w) \/ Spurious(w) PROVE WaitInv'
  <2>1. CASE Reacquire(w)
    <3>1. /\ Sleepers' = Sleepers \ {w} /\ w \in Sleepers
          /\ waiting_threads' = waiting_threads - 1
      BY <2>1 DEF Reacquire, AfterWait, Sleepers
    <3> QED
      BY <1>f, <3>1, FS_RemoveElement DEF WaitInv
  <2>2. CASE TestRunning(w) /\ running
    <3>1. /\ Sleepers' = Sleepers \cup {w} /\ w \notin Sleepers
          /\ waiting_threads' = waiting_threads + 1
      BY <2>2 DEF TestRunning, Sleepers
    <3> QED
      BY <1>f, <3>1, FS_AddElement DEF WaitInv
  <2>3. CASE TestRunning(w) /\ ~running
    <3>1. Sleepers' = Sleepers /\ waiting_threads' = waiting_threads
      BY <1>f, <2>3, SMTT(30) DEF TestRunning, Sleepers
    <3> QED
      BY <1>0, <3>1
  <2>4. ASSUME ~Reacquire(w), ~TestRunning(w) PROVE WaitInv'
    <3>1. Sleepers' = Sleepers /\ waiting_threads' = waiting_threads
      BY <1>2, <2>4 DEF WorkerStep, Spurious, LoopRunning, LoopTasks, Lock,
         TestTasks, Block, SpuriousWake, ExitTasks, ExitRunning, Take,
         Resumed, Sleepers
    <3> QED
      BY <1>0, <3>1
  <2> QED
    BY <2>1, <2>2, <2>3, <2>4
<1>3. CASE StopStep \/ UNCHANGED vars
  <2>1. Sleepers' = Sleepers /\ waiting_threads' = waiting_threads
    BY <1>3 DEF StopStep, StopReturn, StopClear, StopNotify, StopJoin,
       Delete, Blocked, Sleepers, vars
  <2> QED
    BY <1>0, <2>1
<1> QED
  BY <1>1, <1>2, <1>3 DEF Next

(* The counter follows the queue: a push adds an uncounted call, the count *)
(* removes it, and a worker takes one of each.                             *)
LEMMA CountStep == SchedulerInv /\ [Next]_vars => CountInv'
<1> SUFFICES ASSUME SchedulerInv, [Next]_vars, (spc # "deleted")'
             PROVE  Len(corotines)' = task_num' + Cardinality(Uncounted)'
  BY DEF CountInv
<1> DEFINE Goal == Len(corotines)' = task_num' + Cardinality(Uncounted)'
<1>t. /\ corotines \in Seq(Coroutines) /\ task_num \in Nat
      /\ apc \in [Threads -> AddLocs]
      /\ arg \in [Threads -> Coroutines \cup {None}]
  BY DEF SchedulerInv, TypeOK
<1>d. spc # "deleted"
  BY DEF Next, AddCall, AddStep, WorkerStep, Spurious, StopStep, StopReturn,
     StopClear, StopNotify, StopJoin, Delete, StopTo, stopVars, vars
<1>c. Len(corotines) = task_num + Cardinality(Uncounted)
  BY <1>d DEF SchedulerInv, CountInv
<1>f. /\ IsFiniteSet(Uncounted) /\ Cardinality(Uncounted) \in Nat
      /\ Len(corotines) \in Nat
  BY <1>t, Constants, FS_Subset, FS_CardinalityType, SMTT(30) DEF Uncounted
<1>0. CASE UNCHANGED <<corotines, task_num, apc>>
  BY <1>0, <1>c DEF Uncounted
<1>1. ASSUME NEW a \in Threads, AddCall(a) PROVE Goal
  <2>1. Uncounted' = Uncounted
    BY <1>1, <1>t DEF AddCall, AddBegin, AddTo, Uncounted
  <2> QED
    BY <1>1, <1>c, <2>1 DEF AddCall, AddBegin, queueVars
<1>2. ASSUME NEW a \in Threads, Push(a) PROVE Goal
  <2>1. Uncounted' = Uncounted \cup {a} /\ a \notin Uncounted
    BY <1>2, <1>t DEF Push, AddTo, Uncounted
  <2>2. arg[a] \in Coroutines
    BY <1>2, <1>t DEF Push, SchedulerInv, ArgInv
  <2>3. Len(corotines)' = Len(corotines) + 1 /\ task_num' = task_num
    BY <1>2, <1>t, <2>2, SMTT(30) DEF Push
  <2>4. Cardinality(Uncounted)' = Cardinality(Uncounted) + 1
    BY <1>f, <2>1, FS_AddElement
  <2> QED
    BY <1>c, <1>f, <1>t, <2>3, <2>4, SMTT(30)
<1>3. ASSUME NEW a \in Threads, Count(a) PROVE Goal
  <2>1. Uncounted' = Uncounted \ {a} /\ a \in Uncounted
    BY <1>3, <1>t DEF Count, AddTo, Uncounted
  <2>2. corotines' = corotines /\ task_num' = task_num + 1
    BY <1>3 DEF Count, queueVars
  <2>3. Cardinality(Uncounted)' = Cardinality(Uncounted) - 1
    BY <1>f, <2>1, FS_RemoveElement
  <2> QED
    BY <1>c, <1>f, <1>t, <2>2, <2>3, SMTT(30)
<1>4. ASSUME NEW a \in Threads, Notify(a) PROVE Goal
  <2>1. Uncounted' = Uncounted
    BY <1>4, <1>t DEF Notify, AddTo, Uncounted
  <2> QED
    BY <1>4, <1>c, <2>1 DEF Notify, queueVars
<1>5. ASSUME NEW w \in Workers, WorkerStep(w) \/ Spurious(w) PROVE Goal
  <2>1. CASE Take(w)
    <3>1. Len(corotines)' = Len(corotines) - 1 /\ task_num' = task_num - 1
      BY <1>t, <2>1, SMTT(30) DEF Take, LeaveQueue
    <3>2. Uncounted' = Uncounted
      BY <1>5, <2>1 DEF Uncounted, WorkerStep, Spurious
    <3> QED
      BY <1>c, <1>f, <1>t, <3>1, <3>2, SMTT(30)
  <2>2. CASE ~Take(w)
    BY <1>0, <1>5, <2>2 DEF WorkerStep, Spurious, LoopRunning, LoopTasks,
       Lock, TestTasks, TestRunning, Block, SpuriousWake, Reacquire,
       ExitTasks, ExitRunning, Resumed, queueVars
  <2> QED
    BY <2>1, <2>2
<1>6. CASE StopStep
  BY <1>0, <1>6 DEF StopStep, StopReturn, StopClear, StopNotify, StopJoin,
     Delete, StopTo, queueVars
<1>7. CASE UNCHANGED vars
  BY <1>0, <1>7 DEF vars, queueVars
<1> QED
  BY <1>1, <1>2, <1>3, <1>4, <1>5, <1>6, <1>7 DEF Next, AddStep

(* A worker decides to take under mtx_ and with the counter positive; only *)
(* the holder of mtx_ decrements it, and running_ is never set again.      *)
LEMMA TakeStep == SchedulerInv /\ [Next]_vars => TakeInv'
<1> SUFFICES ASSUME SchedulerInv, [Next]_vars PROVE TakeInv'
  OBVIOUS
<1> USE Constants DEF SchedulerInv, TypeOK, TakeInv, Goto, stopVars
<1>1. ASSUME NEW a \in Threads, AddCall(a) \/ AddStep(a) PROVE TakeInv'
  BY <1>1, SMTT(30) DEF AddCall, AddBegin, AddStep, Push, Notify, Count, Blocked
<1>2. ASSUME NEW w \in Workers, WorkerStep(w) \/ Spurious(w) PROVE TakeInv'
  <2>1. CASE Take(w)
    BY <1>2, <2>1, SMTT(30) DEF WorkerStep, Spurious, Take, LeaveQueue, MutexInv,
       Holding
  <2>2. CASE ~Take(w)
    BY <1>2, <2>2, SMTT(30) DEF WorkerStep, Spurious, LoopRunning, LoopTasks,
       TasksLeft, Lock, TestTasks, TestRunning, Block, SpuriousWake,
       Reacquire, AfterWait, ExitTasks, ExitRunning, Resumed
  <2> QED
    BY <2>1, <2>2
<1>3. CASE StopStep
  BY <1>3, StopFrame
<1>4. CASE UNCHANGED vars
  BY <1>4 DEF vars
<1> QED
  BY <1>1, <1>2, <1>3, <1>4 DEF Next

(* Every step preserves the types: waiting_threads_ is a cardinality, and  *)
(* task_num_ is decremented only when positive.                            *)
LEMMA TypeStep == SchedulerInv /\ [Next]_vars => TypeOK'
<1> SUFFICES ASSUME SchedulerInv, [Next]_vars PROVE TypeOK'
  OBVIOUS
<1>0. waiting_threads' \in Nat
  <2>1. WaitInv'
    BY WaitStep
  <2> QED
    BY <2>1, Constants, FS_Subset, FS_CardinalityType DEF WaitInv, Sleepers
<1> USE Constants, <1>0 DEF SchedulerInv, TypeOK, Goto, AddTo, StopTo,
        queueVars, workerVars, stopVars
<1>1. ASSUME NEW a \in Threads, AddCall(a) PROVE TypeOK'
  BY <1>1, SMTT(30) DEF AddCall, AddBegin, AddLocs
<1>2. ASSUME NEW a \in Threads, AddStep(a) PROVE TypeOK'
  <2>1. CASE Push(a)
    <3>1. arg[a] \in Coroutines
      BY <2>1 DEF Push, ArgInv
    <3> QED
      BY <1>2, <2>1, <3>1, SMTT(30) DEF AddStep, Push, AddLocs
  <2>2. CASE Notify(a)
    BY <1>2, <2>2 DEF AddStep, Notify, AddLocs, WorkerLocs, Asleep, Blocked
  <2>3. CASE Count(a)
    BY <1>2, <2>3, SMTT(30) DEF AddStep, Count, AddLocs
  <2> QED
    BY <1>2, <2>1, <2>2, <2>3 DEF AddStep
<1>3. ASSUME NEW w \in Workers, WorkerStep(w) \/ Spurious(w) PROVE TypeOK'
  <2> USE DEF WorkerLocs, Holding, Asleep
  <2>1. CASE Take(w)
    <3>1. task_num' \in Nat
      BY <2>1, SMTT(30) DEF Take, LeaveQueue, TakeInv
    <3> QED
      BY <1>3, <2>1, <3>1, SMTT(30) DEF WorkerStep, Spurious, Take, LeaveQueue
  <2>2. CASE Resumed(w)
    BY <1>3, <2>2 DEF WorkerStep, Spurious, Resumed, PlaceInv
  <2>3. CASE ~Take(w) /\ ~Resumed(w)
    BY <1>3, <2>3 DEF WorkerStep, Spurious, LoopRunning, LoopTasks, Lock,
       TestTasks, TestRunning, Block, SpuriousWake, Reacquire, AfterWait,
       ExitTasks, ExitRunning
  <2> QED
    BY <2>1, <2>2, <2>3
<1>4. CASE StopStep
  <2>1. CASE Delete
    <3>1. corotines' \in Seq(Coroutines)
      BY <2>1, SMTT(30) DEF Delete
    <3>2. future' \in [Coroutines -> {"none", "pending", "ready", "broken"}]
      BY <2>1 DEF Delete
    <3> QED
      BY <1>4, <2>1, <3>1, <3>2 DEF StopStep, Delete
  <2>2. CASE StopNotify
    BY <1>4, <2>2 DEF StopStep, StopNotify, WorkerLocs, Asleep
  <2>3. CASE StopClear \/ StopJoin
    BY <1>4, <2>3 DEF StopStep, StopClear, StopJoin
  <2> QED
    BY <1>4, <2>1, <2>2, <2>3 DEF StopStep, StopReturn
<1>5. CASE UNCHANGED vars
  BY <1>5 DEF vars
<1> QED
  BY <1>1, <1>2, <1>3, <1>4, <1>5 DEF Next

(* A coroutine is in one place: add_coroutine queues a new one, a worker   *)
(* moves one from the queue to itself.                                     *)
LEMMA PlaceStep == SchedulerInv /\ [Next]_vars => PlaceInv'
<1> SUFFICES ASSUME SchedulerInv, [Next]_vars PROVE PlaceInv'
  OBVIOUS
<1> USE Constants DEF SchedulerInv, TypeOK, PlaceInv, Goto, queueVars,
        workerVars
<1>1. ASSUME NEW a \in Threads, AddCall(a) \/ Notify(a) \/ Count(a),
             UNCHANGED <<corotines, future, cur>>
      PROVE  PlaceInv'
  BY <1>1, SMTT(30) DEF AddCall, AddBegin, Notify, Count, Blocked
<1>2. ASSUME NEW a \in Threads, Push(a), UNCHANGED cur PROVE PlaceInv'
  <2>1. /\ arg[a] \in Coroutines /\ future[arg[a]] = "none"
    BY <1>2, SMTT(30) DEF Push, ArgInv
  <2>2. /\ IsInjective(corotines)'
        /\ Range(corotines)' = Range(corotines) \cup {arg[a]}
    BY <1>2, <2>1, PushElement, SMTT(30) DEF Push
  <2> QED
    BY <1>2, <2>1, <2>2, SMTT(30) DEF Push
<1>3. ASSUME NEW w \in Workers, WorkerStep(w) \/ Spurious(w) PROVE PlaceInv'
  <2>1. CASE Take(w)
    <3>1. /\ IsInjective(corotines)'
          /\ Head(corotines) \in Coroutines \cap Range(corotines)
          /\ Range(corotines)' = Range(corotines) \ {Head(corotines)}
      BY <2>1, PopElement DEF Take, LeaveQueue
    <3> QED
      BY <2>1, <3>1, SMTT(30) DEF Take
  <2>2. CASE Resumed(w)
    BY <2>2, SMTT(30) DEF Resumed
  <2>3. CASE ~Take(w) /\ ~Resumed(w)
    BY <1>3, <2>3, SMTT(30) DEF WorkerStep, Spurious, LoopRunning, LoopTasks, Lock,
       TestTasks, TestRunning, Block, SpuriousWake, Reacquire, AfterWait,
       ExitTasks, ExitRunning
  <2> QED
    BY <2>1, <2>2, <2>3
<1>4. CASE StopStep
  <2>1. CASE Delete
    BY <1>4, <2>1, EmptyQueue, SMTT(30) DEF StopStep, Delete
  <2>2. CASE ~Delete
    BY <1>4, <2>2, StopFrame, SMTT(30)
  <2> QED
    BY <2>1, <2>2
<1>5. CASE UNCHANGED vars
  BY <1>5 DEF vars
<1> QED
  BY <1>1, <1>2, <1>3, <1>4, <1>5 DEF Next, AddCall, AddBegin, AddStep,
     Notify, Count

(* Two calls never carry the same coroutine, and a worker is inside        *)
(* add_coroutine only while it resumes one.                                *)
LEMMA ArgStep == SchedulerInv /\ [Next]_vars => ArgInv'
<1> SUFFICES ASSUME SchedulerInv, [Next]_vars PROVE ArgInv'
  OBVIOUS
<1> USE Constants DEF SchedulerInv, TypeOK, ArgInv, Goto, AddTo, queueVars
<1>1. ASSUME NEW a \in Threads, NEW c \in Coroutines, AddBegin(a, c)
      PROVE  ArgInv'
  BY <1>1, SMTT(30) DEF AddBegin, MayCall, Range
<1>2. ASSUME NEW a \in Threads, Push(a) PROVE ArgInv'
  BY <1>2 DEF Push
<1>3. ASSUME NEW a \in Threads, Notify(a) PROVE ArgInv'
  BY <1>3 DEF Notify, Blocked
<1>4. ASSUME NEW a \in Threads, Count(a) PROVE ArgInv'
  BY <1>4 DEF Count
<1>5. ASSUME NEW w \in Workers, WorkerStep(w) \/ Spurious(w) PROVE ArgInv'
  <2>1. CASE Resumed(w)
    BY <1>5, <2>1, SMTT(30) DEF WorkerStep, Spurious, Resumed, PlaceInv
  <2>2. CASE ~Resumed(w)
    BY <1>5, <2>2, SMTT(30) DEF WorkerStep, Spurious, LoopRunning, LoopTasks, Lock,
       TestTasks, TestRunning, Block, SpuriousWake, Reacquire, ExitTasks,
       ExitRunning, Take
  <2> QED
    BY <2>1, <2>2
<1>6. CASE StopStep
  <2>1. \A c \in Coroutines : future[c] = "none" => future'[c] = "none"
    <3>1. CASE Delete
      BY <3>1 DEF Delete, PlaceInv
    <3> QED
      BY <1>6, <3>1, StopFrame
  <2> QED
    BY <1>6, <2>1, StopFrame, SMTT(30)
<1>7. CASE UNCHANGED vars
  BY <1>7 DEF vars
<1> QED
  BY <1>1, <1>2, <1>3, <1>4, <1>5, <1>6, <1>7 DEF Next, AddCall, AddStep

(* Without a call in flight the counter is the length of the queue. *)
LEMMA NothingUncounted ==
    SchedulerInv /\ spc # "deleted" /\ task_num = 0
      /\ (\A a \in Threads : apc[a] = "idle")
    => corotines = <<>>
<1> SUFFICES ASSUME SchedulerInv, spc # "deleted", task_num = 0,
                    \A a \in Threads : apc[a] = "idle"
             PROVE  corotines = <<>>
  OBVIOUS
<1>1. Uncounted = {}
  BY DEF Uncounted
<1>2. Len(corotines) = 0
  BY <1>1, FS_EmptySet, SMTT(30) DEF SchedulerInv, CountInv
<1> QED
  BY <1>2, EmptySeq DEF SchedulerInv, TypeOK

(* The last worker to exit leaves an empty queue if stop() began with no   *)
(* client inside add_coroutine.                                            *)
LEMMA StopStepInv == SchedulerInv /\ [Next]_vars => StopInv'
<1> SUFFICES ASSUME SchedulerInv, [Next]_vars PROVE StopInv'
  OBVIOUS
<1> DEFINE AllOut == \A w \in Workers : wpc[w] = "exited"
<1>l. ASSUME AllOut, quiet, spc # "deleted" PROVE corotines = <<>>
  BY <1>l DEF SchedulerInv, StopInv
<1> USE Constants DEF SchedulerInv, TypeOK, StopInv, Goto, AddTo, StopTo,
        queueVars, workerVars, stopVars, Alive
<1>1. ASSUME NEW a \in Threads, AddCall(a) PROVE StopInv'
  BY <1>1 DEF AddCall, AddBegin, MayCall
<1>2. ASSUME NEW a \in Threads, AddStep(a) PROVE StopInv'
  <2>0. quiet => a \in Workers /\ wpc[a] = "resume"
    BY <1>2 DEF AddStep, Push, Notify, Count, ArgInv
  <2>1. CASE Push(a)
    BY <1>2, <2>0, <2>1 DEF AddStep, Push
  <2>2. CASE Notify(a)
    <3>1. \A w \in Workers : wpc'[w] = wpc[w] \/
                             (wpc[w] = "blocked" /\ wpc'[w] = "woken")
      BY <2>2 DEF Notify, Blocked
    <3> QED
      BY <1>2, <2>0, <2>2, <3>1, SMTT(30) DEF AddStep, Notify
  <2>3. CASE Count(a)
    BY <1>2, <2>0, <2>3 DEF AddStep, Count
  <2> QED
    BY <1>2, <2>1, <2>2, <2>3 DEF AddStep
<1>3. ASSUME NEW w \in Workers, WorkerStep(w) \/ Spurious(w) PROVE StopInv'
  <2>0. ~AllOut /\ spc \notin {"stopped", "deleted", "abort"}
    BY <1>3 DEF WorkerStep, Spurious, LoopRunning, LoopTasks, Lock,
       TestTasks, TestRunning, Block, SpuriousWake, Reacquire, ExitTasks,
       ExitRunning, Take, Resumed
  <2>1. CASE LoopTasks(w) /\ task_num = 0
    <3>1. ASSUME quiet, \A v \in Workers : v # w => wpc[v] = "exited"
          PROVE  corotines = <<>>
      <4>1. \A a \in Threads : apc[a] = "idle"
        BY <2>1, <3>1 DEF LoopTasks, ArgInv
      <4> QED
        BY <2>0, <2>1, <4>1, NothingUncounted
    <3> QED
      BY <1>3, <2>0, <2>1, <3>1, SMTT(30) DEF WorkerStep, Spurious, LoopTasks, TasksLeft
  <2>2. CASE ExitRunning(w)
    <3>1. ASSUME quiet, \A v \in Workers : v # w => wpc[v] = "exited"
          PROVE  corotines = <<>>
      <4>1. task_num = 0
        BY <2>2, <3>1, SMTT(30) DEF ExitRunning
      <4>2. \A a \in Threads : apc[a] = "idle"
        BY <2>2, <3>1 DEF ExitRunning, ArgInv
      <4> QED
        BY <2>0, <4>1, <4>2, NothingUncounted
    <3>2. ASSUME NEW v \in Workers, v # w PROVE wpc[v] # "exit2"
      BY <2>2, <3>2 DEF ExitRunning, MutexInv, Holding
    <3> QED
      BY <1>3, <2>0, <2>2, <3>1, <3>2, SMTT(30) DEF WorkerStep, Spurious, ExitRunning
  <2>3. CASE Take(w)
    <3>2. ASSUME NEW v \in Workers, v # w PROVE wpc[v] # "exit2"
      BY <2>3, <3>2 DEF Take, MutexInv, Holding
    <3> QED
      BY <1>3, <2>0, <2>3, <3>2, SMTT(30) DEF WorkerStep, Spurious, Take
  <2>4. CASE Resumed(w)
    BY <1>3, <2>0, <2>4, SMTT(30) DEF WorkerStep, Spurious, Resumed
  <2>5. CASE LoopRunning(w) \/ (LoopTasks(w) /\ task_num # 0)
    BY <1>3, <2>0, <2>5, SMTT(30) DEF WorkerStep, Spurious, LoopRunning, LoopTasks,
       TasksLeft
  <2>6. CASE TestTasks(w) \/ TestRunning(w) \/ Block(w) \/ SpuriousWake(w)
             \/ ExitTasks(w)
    BY <1>3, <2>0, <2>6, SMTT(30) DEF WorkerStep, Spurious, TestTasks, TestRunning,
       Block, SpuriousWake, ExitTasks
  <2>7. CASE Lock(w) \/ Reacquire(w)
    <3>1. \A v \in Workers : wpc[v] # "exit2"
      BY <2>7 DEF Lock, Reacquire, MutexInv, Holding
    <3> QED
      BY <1>3, <2>0, <2>7, <3>1, SMTT(30) DEF WorkerStep, Spurious, Lock, Reacquire,
         AfterWait
  <2> QED
    BY <1>3, <2>1, <2>2, <2>3, <2>4, <2>5, <2>6, <2>7
    DEF WorkerStep, Spurious
<1>4. CASE StopStep
  <2>1. CASE StopNotify
    <3>1. \A w \in Workers : wpc'[w] = wpc[w] \/
                             (wpc[w] = "blocked" /\ wpc'[w] = "woken")
      BY <2>1 DEF StopNotify, Blocked
    <3> QED
      BY <1>4, <2>1, <3>1 DEF StopStep, StopNotify
  <2>2. CASE StopClear
    BY <1>4, <2>2 DEF StopStep, StopClear, TakeInv
  <2>3. CASE StopJoin
    <3>1. ASSUME quiet PROVE task_num = 0
      <4>1. Len(corotines) = 0 /\ spc # "deleted"
        BY <2>3, <3>1, EmptySeq DEF StopJoin
      <4>2. Cardinality(Uncounted) \in Nat
        BY FS_Subset, FS_CardinalityType DEF Uncounted
      <4> QED
        BY <4>1, <4>2, SMTT(30) DEF CountInv
    <3> QED
      BY <1>4, <2>3, <3>1 DEF StopStep, StopJoin
  <2>4. CASE Delete
    <3>1. quiet => Range(corotines) = {}
      BY <2>4, EmptyQueue DEF Delete
    <3> QED
      BY <1>4, <2>4, <3>1 DEF StopStep, Delete
  <2> QED
    BY <1>4, <2>1, <2>2, <2>3, <2>4 DEF StopStep, StopReturn
<1>5. CASE UNCHANGED vars
  BY <1>5 DEF vars
<1> QED
  BY <1>1, <1>2, <1>3, <1>4, <1>5 DEF Next

(* SchedulerInv is an invariant of the scheduler: the queue, task_num_,    *)
(* waiting_threads_, mtx_ and the calls in flight agree in every state.    *)
THEOREM SchedulerInvariant == Spec => []SchedulerInv
<1>1. SchedulerInv /\ [Next]_vars => SchedulerInv'
  BY TypeStep, MutexStep, WaitStep, CountStep, TakeStep, PlaceStep, ArgStep,
     StopStepInv DEF SchedulerInv
<1> QED
  BY InitInv, <1>1, PTL DEF Spec

(* A worker that has decided to take a coroutine finds one, so the         *)
(* assertion in worker() never fails.                                      *)
THEOREM TakeFindsFront == Spec => []FrontExists
<1>1. SchedulerInv => FrontExists
  <2> SUFFICES ASSUME SchedulerInv, NEW w \in Workers, wpc[w] = "take"
               PROVE  corotines # <<>>
    BY DEF FrontExists
  <2>1. spc # "deleted" /\ task_num > 0 /\ task_num \in Nat
    BY DEF SchedulerInv, StopInv, TakeInv, TypeOK
  <2>2. Cardinality(Uncounted) \in Nat
    BY Constants, FS_Subset, FS_CardinalityType DEF Uncounted
  <2>3. Len(corotines) > 0
    BY <2>1, <2>2, SMTT(30) DEF SchedulerInv, CountInv
  <2> QED
    BY <2>3, EmptySeq, SMTT(30)
<1> QED
  BY SchedulerInvariant, <1>1, PTL

(* stop() leaves no coroutine behind if no client was inside add_coroutine *)
(* when it began, however many workers exit in whatever order.             *)
THEOREM StopLeavesNothing == Spec => []StopDrains
<1>1. SchedulerInv => StopDrains
  <2> SUFFICES ASSUME SchedulerInv, quiet,
                      spc \in {"stopped", "deleted", "abort"}
               PROVE  /\ spc # "abort"
                      /\ \A c \in Coroutines : future[c] \in {"none", "ready"}
    BY DEF StopDrains
  <2>1. (\A w \in Workers : wpc[w] = "exited") /\ corotines = <<>>
    BY DEF SchedulerInv, StopInv
  <2>2. \A c \in Coroutines : future[c] # "pending"
    BY <2>1, EmptyQueue, Constants, SMTT(30) DEF SchedulerInv, PlaceInv
  <2> QED
    BY <2>2 DEF SchedulerInv, TypeOK, StopInv
<1> QED
  BY SchedulerInvariant, <1>1, PTL

(* The scheduler implements the abstract executor: coroutines are resumed  *)
(* once each, in the order in which they were pushed.                      *)
THEOREM SchedulerImplementsExecutor == Spec => ImplementsExecutor
<1>1. Init => Abstract!Init
  BY DEF Init, Abstract!Init
<1>2. SchedulerInv /\ [Next]_vars => [Abstract!Next]_(Abstract!evars)
  <2> SUFFICES ASSUME SchedulerInv, [Next]_vars,
                      ~ UNCHANGED <<corotines, cur, future>>
               PROVE  Abstract!Next
    BY DEF Abstract!evars
  <2>1. ASSUME NEW a \in Threads, Push(a), UNCHANGED cur PROVE Abstract!Next
    <3>1. arg[a] \in Coroutines /\ future[arg[a]] = "none"
      BY <2>1, Constants DEF Push, SchedulerInv, TypeOK, ArgInv
    <3> QED
      BY <2>1, <3>1 DEF Push, Abstract!Next, Abstract!Submit
  <2>2. ASSUME NEW a \in Threads, AddCall(a) \/ AddStep(a)
        PROVE  Abstract!Next
    BY <2>1, <2>2 DEF AddCall, AddBegin, AddStep, Notify, Count, queueVars,
       workerVars
  <2>3. ASSUME NEW w \in Workers, Take(w) PROVE Abstract!Next
    BY <2>3, Constants DEF Take, Goto, LeaveQueue, SchedulerInv, PlaceInv,
       Abstract!Next, Abstract!Start
  <2>4. ASSUME NEW w \in Workers, Resumed(w) PROVE Abstract!Next
    BY <2>4 DEF Resumed, Goto, SchedulerInv, PlaceInv, Abstract!Next,
       Abstract!Finish
  <2>5. ASSUME NEW w \in Workers, WorkerStep(w) \/ Spurious(w)
        PROVE  Abstract!Next
    BY <2>3, <2>4, <2>5 DEF WorkerStep, Spurious, LoopRunning, LoopTasks,
       Lock, TestTasks, TestRunning, Block, SpuriousWake, Reacquire,
       ExitTasks, ExitRunning, queueVars, workerVars
  <2>6. CASE StopStep
    <3>1. wpc \in [Workers -> WorkerLocs]
      BY DEF SchedulerInv, TypeOK
    <3>2. Delete /\ cur' = cur
      BY <2>6, <3>1, StopFrame DEF queueVars
    <3>3. CASE corotines # <<>>
      BY <3>2, <3>3
      DEF Delete, Abstract!Next, Abstract!Discard, Abstract!Range, Range
    <3>4. CASE corotines = <<>>
      BY <3>2, <3>4, EmptyQueue DEF Delete, SchedulerInv, TypeOK
    <3> QED
      BY <3>3, <3>4
  <2> QED
    BY <2>2, <2>5, <2>6 DEF Next, vars, queueVars, workerVars
<1> QED
  BY SchedulerInvariant, <1>1, <1>2, PTL
  DEF Spec, ImplementsExecutor, Abstract!Spec

=============================================================================
