-------------------------- MODULE ThreadPoolProofs --------------------------
(***************************************************************************)
(* Proofs about ThreadPool, for any number of workers, clients and tasks.  *)
(*                                                                         *)
(* PoolInv is inductive.  There is one lemma per conjunct of PoolInv; each *)
(* takes the steps of callers, of workers and of the controlling thread in *)
(* turn.  The main theorems follow at the end.                             *)
(***************************************************************************)
EXTENDS ThreadPool, SequenceFacts, FiniteSetTheorems, TLAPS

(* Zenon proves most leaves; the others name the SMT solver.               *)
USE ZenonT(30)

(* The assumptions on the constants, in the form in which they are used. *)
LEMMA Constants ==
    /\ IsFiniteSet(Workers) /\ IsFiniteSet(Threads)
    /\ Workers \subseteq Threads
    /\ None \notin Workers /\ None \notin Tasks
    /\ THREADS_NUM \in Nat \ {0}
    /\ MaxHardStops \in Nat
  BY PoolAssumption, FS_Union DEF Threads

(* A new pool satisfies the invariant. *)
LEMMA InitInv == Init => PoolInv
<1> SUFFICES ASSUME Init PROVE PoolInv
  OBVIOUS
<1> USE Constants DEF Init, WorkerLocs, Waiting, Holding
<1>1. TypeOK
  <2>1. task_queue \in Seq(Tasks)
    BY SMTT(30)
  <2>2. cpc \in ControlLocs
    BY DEF ControlLocs
  <2>3. hardStops \in 0 .. MaxHardStops /\ waiting \in Nat
    BY SMTT(30)
  <2> QED
    BY <2>1, <2>2, <2>3 DEF TypeOK
<1>2. MutexInv /\ SleepInv /\ CurInv
  BY DEF MutexInv, SleepInv, CurInv
<1>3. WaitingInv
  <2>1. {w \in Workers : wpc[w] \in Waiting} = {}
    OBVIOUS
  <2> QED
    BY <2>1, FS_EmptySet DEF WaitingInv
<1>4. PlaceInv
  BY EmptyQueue DEF PlaceInv, InQueue
<1>5. ControlInv /\ PromiseInv /\ StopDrains
  BY DEF ControlInv, PromiseInv, StopDrains, Gone
<1>6. WorkConserving
  BY DEF WorkConserving, Blocked
<1> QED
  BY <1>1, <1>2, <1>3, <1>4, <1>5, <1>6 DEF PoolInv

(* Only the thread that locks mtx_ moves to a location inside it. *)
LEMMA MutexStep == PoolInv /\ [Next]_vars => MutexInv'
<1> SUFFICES ASSUME PoolInv, [Next]_vars PROVE MutexInv'
  OBVIOUS
<1> USE Constants DEF PoolInv, TypeOK, MutexInv, Goto, Holding
<1>1. ASSUME NEW a \in Threads, AddStep(a) PROVE MutexInv'
  BY <1>1 DEF AddStep, Push, ReadWaiting, NotifyOne, WakeOne, Blocked
<1>2. ASSUME NEW w \in Workers, WorkerStep(w) PROVE MutexInv'
  BY <1>2, SMTT(30) DEF WorkerStep, Enter, Check, Block, SpuriousWake, Reacquire, Exit,
              Pop, LoopAgain, LeaveWait, FinishTask
<1>3. CASE ControlStep
  BY <1>3 DEF ControlStep, Run, Spawn, Stop, NotifyAll, StopJoin, StopClear,
              StopHard, StopHardDetach, Destroy, Gone
<1>4. CASE UNCHANGED vars
  BY <1>4 DEF vars
<1> QED
  BY <1>1, <1>2, <1>3, <1>4 DEF Next

(* While a worker is about to block, mtx_ keeps the queue empty. *)
LEMMA SleepStep == PoolInv /\ [Next]_vars => SleepInv'
<1> SUFFICES ASSUME PoolInv, [Next]_vars PROVE SleepInv'
  OBVIOUS
<1> USE Constants DEF PoolInv, TypeOK, SleepInv, MutexInv, Goto, Holding
<1>1. ASSUME NEW a \in Threads, AddStep(a) PROVE SleepInv'
  BY <1>1, SMTT(30) DEF AddStep, Push, ReadWaiting, NotifyOne, WakeOne, Blocked,
              taskVars
<1>2. ASSUME NEW w \in Workers, WorkerStep(w) PROVE SleepInv'
  BY <1>2 DEF WorkerStep, Enter, Check, WakeCondition, Block, SpuriousWake,
              Reacquire, Exit, Pop, TakeFront, LoopAgain, LeaveWait,
              FinishTask, taskVars
<1>3. CASE ControlStep
  BY <1>3 DEF ControlStep, Run, Spawn, Stop, NotifyAll, StopJoin, StopClear,
              StopHard, StopHardDetach, Destroy, DropQueue, Gone, taskVars
<1>4. CASE UNCHANGED vars
  BY <1>4 DEF vars, taskVars
<1> QED
  BY <1>1, <1>2, <1>3, <1>4 DEF Next

(* A worker has a task, and may call addTask, only while it executes. *)
LEMMA CurStep == PoolInv /\ [Next]_vars => CurInv'
<1> SUFFICES ASSUME PoolInv, [Next]_vars PROVE CurInv'
  OBVIOUS
<1> USE Constants DEF PoolInv, TypeOK, CurInv, Goto
<1>1. ASSUME NEW a \in Threads, AddStep(a) PROVE CurInv'
  <2>1. ASSUME NEW t \in Tasks, Push(a, t) PROVE CurInv'
    BY <1>1, <2>1, PoolAssumption DEF AddStep, Push, MayCall
  <2>2. CASE ReadWaiting(a) \/ NotifyOne(a)
    BY <1>1, <2>2 DEF AddStep, ReadWaiting, NotifyOne, WakeOne, Blocked
  <2> QED
    BY <1>1, <2>1, <2>2 DEF AddStep
<1>2. ASSUME NEW w \in Workers, WorkerStep(w) PROVE CurInv'
  <2>1. CASE Pop(w)
    <3>1. Head(task_queue) \in Tasks
      BY <2>1, SMTT(30) DEF Pop, TakeFront
    <3> QED
      BY <1>2, <2>1, <3>1 DEF WorkerStep, Pop, TakeFront, LeaveWait
  <2>2. CASE FinishTask(w)
    BY <1>2, <2>2 DEF WorkerStep, FinishTask
  <2> QED
    BY <1>2, <2>1, <2>2, SMTT(30) DEF WorkerStep, Enter, Check, Block, SpuriousWake,
       Reacquire, Exit, LoopAgain, LeaveWait
<1>3. CASE ControlStep
  BY <1>3 DEF ControlStep, Run, Spawn, Stop, NotifyAll, StopJoin, StopClear,
              StopHard, StopHardDetach, Destroy, Gone
<1>4. CASE UNCHANGED vars
  BY <1>4 DEF vars
<1> QED
  BY <1>1, <1>2, <1>3, <1>4 DEF Next

(* Entering and leaving the wait change waiting_threads_ and the set of    *)
(* waiting workers together.                                               *)
LEMMA WaitingStep == PoolInv /\ [Next]_vars => WaitingInv'
<1> SUFFICES ASSUME PoolInv, [Next]_vars PROVE WaitingInv'
  OBVIOUS
<1> DEFINE W == {v \in Workers : wpc[v] \in Waiting}
<1>t. wpc \in [Workers -> WorkerLocs] /\ waiting = Cardinality(W)
  BY DEF PoolInv, TypeOK, WaitingInv
<1>0. IsFiniteSet(W) /\ Cardinality(W) \in Nat
  BY Constants, FS_Subset, FS_CardinalityType
<1>1. ASSUME W' = W, waiting' = waiting PROVE WaitingInv'
  BY <1>1, <1>t DEF WaitingInv
<1> USE <1>t DEF Goto, Waiting, Holding, WorkerLocs
<1>2. ASSUME NEW a \in Threads, AddStep(a) PROVE WaitingInv'
  <2>1. W' = W /\ waiting' = waiting
    BY <1>2 DEF AddStep, Push, ReadWaiting, NotifyOne, WakeOne, Blocked
  <2> QED
    BY <1>1, <2>1
<1>3. ASSUME NEW w \in Workers, WorkerStep(w) PROVE WaitingInv'
  <2>1. CASE Enter(w)
    <3>1. W' = W \cup {w} /\ w \notin W /\ waiting' = waiting + 1
      BY <2>1 DEF Enter
    <3> HIDE DEF W
    <3>2. Cardinality(W') = waiting + 1
      BY <1>0, <3>1, FS_AddElement
    <3> QED
      BY <3>1, <3>2 DEF W, WaitingInv
  <2>2. CASE Exit(w) \/ Pop(w) \/ LoopAgain(w)
    <3>1. W' = W \ {w} /\ w \in W /\ waiting' = waiting - 1
      BY <2>2 DEF Exit, Pop, LoopAgain, LeaveWait
    <3> HIDE DEF W
    <3>2. Cardinality(W') = waiting - 1
      BY <1>0, <3>1, FS_RemoveElement
    <3> QED
      BY <3>1, <3>2 DEF W, WaitingInv
  <2>3. CASE Check(w) \/ Block(w) \/ SpuriousWake(w) \/ Reacquire(w)
             \/ FinishTask(w)
    <3>1. W' = W /\ waiting' = waiting
      BY <2>3 DEF Check, Block, SpuriousWake, Reacquire, FinishTask
    <3> QED
      BY <1>1, <3>1
  <2> QED
    BY <1>3, <2>1, <2>2, <2>3 DEF WorkerStep
<1>4. CASE ControlStep \/ UNCHANGED vars
  <2>1. W' = W /\ waiting' = waiting
    BY <1>4 DEF ControlStep, Run, Spawn, Stop, NotifyAll, StopJoin,
       StopClear, StopHard, StopHardDetach, Destroy, Gone, vars
  <2> QED
    BY <1>1, <2>1
<1> QED
  BY <1>2, <1>3, <1>4 DEF Next

(* Every step preserves the types; waiting_threads_ stays a natural number *)
(* because it is the cardinality of a set.                                 *)
LEMMA TypeStep == PoolInv /\ [Next]_vars => TypeOK'
<1> SUFFICES ASSUME PoolInv, [Next]_vars PROVE TypeOK'
  OBVIOUS
<1>0. waiting' \in Nat
  <2>1. WaitingInv'
    BY WaitingStep
  <2> QED
    BY <2>1, Constants, FS_Subset, FS_CardinalityType DEF WaitingInv
<1> USE Constants, <1>0 DEF PoolInv, TypeOK, Goto, ControlGoto, Waiting,
        Holding, WorkerLocs, ControlLocs, taskVars, controlVars
<1>1. ASSUME NEW a \in Threads, AddStep(a) PROVE TypeOK'
  <2>1. ASSUME NEW t \in Tasks, Push(a, t) PROVE TypeOK'
    BY <1>1, <2>1, SMTT(30) DEF AddStep, Push
  <2>2. CASE ReadWaiting(a) \/ NotifyOne(a)
    BY <1>1, <2>2 DEF AddStep, ReadWaiting, NotifyOne, WakeOne, Blocked
  <2> QED
    BY <1>1, <2>1, <2>2 DEF AddStep
<1>2. ASSUME NEW w \in Workers, WorkerStep(w) PROVE TypeOK'
  <2>1. CASE Pop(w)
    BY <1>2, <2>1, SMTT(30) DEF WorkerStep, Pop, TakeFront, LeaveWait
  <2>2. CASE FinishTask(w)
    BY <1>2, <2>2 DEF WorkerStep, FinishTask, CurInv
  <2> QED
    BY <1>2, <2>1, <2>2 DEF WorkerStep, Enter, Check, Block, SpuriousWake,
       Reacquire, Exit, LoopAgain, LeaveWait
<1>3. CASE ControlStep
  <2>1. CASE StopClear \/ Destroy
    <3>1. DropQueue
      BY <2>1 DEF StopClear, Destroy
    <3>2. task_queue' \in Seq(Tasks)
      BY <3>1, SMTT(30) DEF DropQueue
    <3>3. future' \in [Tasks -> {"none", "pending", "ready", "broken"}]
      BY <3>1 DEF DropQueue
    <3> QED
      BY <1>3, <2>1, <3>2, <3>3 DEF ControlStep, StopClear, Destroy
  <2>2. CASE NotifyAll
    BY <1>3, <2>2 DEF ControlStep, NotifyAll
  <2>3. ASSUME NEW w \in Workers, Spawn(w) PROVE TypeOK'
    BY <1>3, <2>3 DEF ControlStep, Spawn
  <2>4. CASE StopHard
    <3>1. hardStops' \in 0 .. MaxHardStops
      BY <2>4, SMTT(30) DEF StopHard
    <3> QED
      BY <1>3, <2>4, <3>1 DEF ControlStep, StopHard
  <2>5. CASE Run \/ Stop \/ StopJoin \/ StopHardDetach
    BY <1>3, <2>5 DEF ControlStep, Run, Stop, StopJoin, StopHardDetach
  <2> QED
    BY <1>3, <2>1, <2>2, <2>3, <2>4, <2>5 DEF ControlStep
<1>4. CASE UNCHANGED vars
  BY <1>4 DEF vars
<1> QED
  BY <1>1, <1>2, <1>3, <1>4 DEF Next

(* A pending task stays in exactly one place: push adds a new one to the   *)
(* queue, pop moves one from the queue to a worker.                        *)
LEMMA PlaceStep == PoolInv /\ [Next]_vars => PlaceInv'
<1> SUFFICES ASSUME PoolInv, [Next]_vars PROVE PlaceInv'
  OBVIOUS
<1> USE Constants DEF PoolInv, TypeOK, PlaceInv, InQueue, taskVars
<1>0. CASE UNCHANGED <<taskVars, cur>>
  BY <1>0
<1>1. ASSUME NEW a \in Threads, AddStep(a) PROVE PlaceInv'
  <2>1. ASSUME NEW t \in Tasks, Push(a, t) PROVE PlaceInv'
    <3>1. /\ IsInjective(task_queue)'
          /\ Range(task_queue)' = Range(task_queue) \cup {t}
      BY <2>1, PushElement, SMTT(30) DEF Push
    <3> QED
      BY <1>1, <2>1, <3>1, SMTT(30) DEF AddStep, Push
  <2> QED
    BY <1>0, <1>1, <2>1 DEF AddStep, ReadWaiting, NotifyOne
<1>2. ASSUME NEW w \in Workers, WorkerStep(w) PROVE PlaceInv'
  <2>1. CASE Pop(w)
    <3>1. /\ IsInjective(task_queue)'
          /\ Head(task_queue) \in Tasks \cap Range(task_queue)
          /\ Range(task_queue)' = Range(task_queue) \ {Head(task_queue)}
      BY <2>1, PopElement DEF Pop, TakeFront
    <3> QED
      BY <2>1, <3>1, SMTT(30) DEF Pop, TakeFront, LeaveWait, CurInv
  <2>2. CASE FinishTask(w)
    BY <2>2, SMTT(30) DEF FinishTask, CurInv
  <2> QED
    BY <1>0, <1>2, <2>1, <2>2 DEF WorkerStep, Enter, Check, Block,
       SpuriousWake, Reacquire, Exit, LoopAgain
<1>3. CASE ControlStep
  <2>1. CASE StopClear \/ Destroy
    BY <1>3, <2>1, EmptyQueue, SMTT(30) DEF ControlStep, StopClear, Destroy, DropQueue
  <2> QED
    BY <1>0, <1>3, <2>1 DEF ControlStep, Run, Spawn, Stop, NotifyAll,
       StopJoin, StopHard, StopHardDetach
<1> QED
  BY <1>0, <1>1, <1>2, <1>3 DEF Next, vars

(* The controlling thread and the workers agree on running_ and threads_;  *)
(* a worker exits only with an empty queue, and what is queued afterwards  *)
(* was not pending when stop() was called.                                 *)
LEMMA ControlStepInv == PoolInv /\ [Next]_vars => ControlInv'
<1> SUFFICES ASSUME PoolInv, [Next]_vars PROVE ControlInv'
  OBVIOUS
<1> USE Constants DEF PoolInv, TypeOK, ControlInv, InQueue, Gone, Goto,
        ControlGoto, taskVars, controlVars
<1>1. ASSUME NEW a \in Threads, AddStep(a) PROVE ControlInv'
  <2>1. ASSUME NEW t \in Tasks, Push(a, t) PROVE ControlInv'
    <3>1. Range(task_queue)' = Range(task_queue) \cup {t}
      BY <2>1, PushElement, SMTT(30) DEF Push
    <3> QED
      BY <1>1, <2>1, <3>1 DEF AddStep, Push, PromiseInv
  <2>2. CASE ReadWaiting(a) \/ NotifyOne(a)
    BY <1>1, <2>2, SMTT(30) DEF AddStep, ReadWaiting, NotifyOne, WakeOne, Blocked
  <2> QED
    BY <1>1, <2>1, <2>2 DEF AddStep
<1>2. ASSUME NEW w \in Workers, WorkerStep(w) PROVE ControlInv'
  <2>1. CASE Pop(w)
    <3>1. Range(task_queue)' \subseteq Range(task_queue)
      BY <2>1, PopElement, SMTT(30) DEF Pop, TakeFront, PlaceInv
    <3> QED
      BY <1>2, <2>1, <3>1 DEF WorkerStep, Pop, LeaveWait
  <2>2. CASE FinishTask(w)
    BY <1>2, <2>2 DEF WorkerStep, FinishTask
  <2>3. CASE Exit(w)
    BY <1>2, <2>3, EmptyQueue DEF WorkerStep, Exit, MayExit, LeaveWait
  <2> QED
    BY <1>2, <2>1, <2>2, <2>3 DEF WorkerStep, Enter, Check, Block,
       SpuriousWake, Reacquire, LoopAgain, LeaveWait
<1>3. CASE ControlStep
  <2>1. CASE StopClear \/ Destroy
    BY <2>1, EmptyQueue, SMTT(30) DEF StopClear, Destroy, DropQueue
  <2>2. CASE NotifyAll
    BY <2>2 DEF NotifyAll
  <2>3. CASE StopJoin
    BY <2>3 DEF StopJoin, AllExited
  <2>4. ASSUME NEW w \in Workers, Spawn(w) PROVE ControlInv'
    BY <2>4 DEF Spawn
  <2>8. CASE StopHardDetach
    BY <2>8, SMTT(30) DEF StopHardDetach
  <2>5. CASE Stop
    BY <2>5 DEF Stop
  <2>6. CASE StopHard
    BY <2>6, SMTT(30) DEF StopHard
  <2>7. CASE Run
    BY <2>7 DEF Run
  <2> QED
    BY <1>3, <2>1, <2>2, <2>3, <2>4, <2>5, <2>6, <2>7, <2>8
    DEF ControlStep
<1>4. CASE UNCHANGED vars
  BY <1>4 DEF vars
<1> QED
  BY <1>1, <1>2, <1>3, <1>4 DEF Next

(* No task that was pending when stop() was called is dropped, and when    *)
(* stop() has joined the threads all of them are ready: a pending one      *)
(* would be in the queue, which an exited worker has seen without it, or   *)
(* with a worker that has not exited.                                      *)
LEMMA PromiseStep == PoolInv /\ [Next]_vars => PromiseInv' /\ StopDrains'
<1> SUFFICES ASSUME PoolInv, [Next]_vars PROVE PromiseInv' /\ StopDrains'
  OBVIOUS
<1> DEFINE Goal == PromiseInv' /\ StopDrains'
<1> USE Constants DEF PoolInv, TypeOK, PromiseInv, StopDrains, ControlGoto,
        taskVars, controlVars
<1>0. CASE UNCHANGED <<future, promised, cpc, hardStops>>
  BY <1>0
<1>1. ASSUME NEW a \in Threads, AddStep(a) PROVE Goal
  <2>1. ASSUME NEW t \in Tasks, Push(a, t) PROVE Goal
    BY <1>1, <2>1 DEF AddStep, Push
  <2> QED
    BY <1>0, <1>1, <2>1 DEF AddStep, ReadWaiting, NotifyOne
<1>2. ASSUME NEW w \in Workers, WorkerStep(w) PROVE Goal
  <2>1. CASE FinishTask(w)
    BY <1>2, <2>1 DEF WorkerStep, FinishTask, CurInv
  <2> QED
    BY <1>0, <1>2, <2>1 DEF WorkerStep, Enter, Check, Block, SpuriousWake,
       Reacquire, Exit, Pop, LoopAgain
<1>3. CASE ControlStep
  <2>1. CASE StopJoin
    <3>1. ASSUME hardStops = 0, NEW t \in promised
          PROVE  future[t] = "ready"
      BY <2>1, <3>1, SMTT(30) DEF StopJoin, AllExited, ControlInv, Gone, PlaceInv,
         CurInv
    <3> QED
      BY <2>1, <3>1 DEF StopJoin
  <2>2. CASE StopClear \/ Destroy
    BY <2>2, SMTT(30) DEF StopClear, Destroy, DropQueue, InQueue, PlaceInv
  <2>3. CASE Stop
    BY <2>3 DEF Stop
  <2>4. CASE NotifyAll \/ StopHard \/ StopHardDetach \/ Run
             \/ \E w \in Workers : Spawn(w)
    BY <2>4, SMTT(30) DEF NotifyAll, StopHard, StopHardDetach, Run, Spawn, ControlInv
  <2> QED
    BY <1>3, <2>1, <2>2, <2>3, <2>4 DEF ControlStep
<1> QED
  BY <1>0, <1>1, <1>2, <1>3 DEF Next, vars

(* While a worker sleeps, every queued task is matched by a worker on its  *)
(* way to the queue or by a caller that has yet to notify.                 *)
LEMMA WorkStep == PoolInv /\ [Next]_vars => WorkConserving'
<1> DEFINE Goal == Len(task_queue)' <=
                     Cardinality(Ready)' + Cardinality(Notifying)'
<1> SUFFICES ASSUME PoolInv, [Next]_vars, Blocked' # {} PROVE Goal
  BY DEF WorkConserving
<1>t. /\ task_queue \in Seq(Tasks) /\ Len(task_queue) \in Nat
      /\ wpc \in [Workers -> WorkerLocs]
      /\ apc \in [Threads -> {"idle", "pushed", "notify"}]
      /\ WorkConserving
  BY SMTT(30) DEF PoolInv, TypeOK
<1>f. /\ IsFiniteSet(Ready) /\ IsFiniteSet(Notifying)
      /\ Cardinality(Ready) \in Nat /\ Cardinality(Notifying) \in Nat
      /\ Cardinality(Ready)' \in Nat /\ Cardinality(Notifying)' \in Nat
  BY Constants, FS_Subset, FS_CardinalityType DEF Ready, Notifying
<1>0. ASSUME Ready' = Ready, Blocked' = Blocked, Notifying' = Notifying,
             task_queue' = task_queue
      PROVE  Goal
  BY <1>f, <1>t, <1>0 DEF WorkConserving
<1>e. ASSUME task_queue' = <<>> PROVE Goal
  <2>1. Len(task_queue)' = 0
    BY <1>e
  <2> QED
    BY <1>f, <2>1, SMTT(30)
<1>1. ASSUME NEW a \in Threads, NEW t \in Tasks, Push(a, t) PROVE Goal
  <2>1. Notifying' = Notifying \cup {a} /\ a \notin Notifying
    BY <1>1, <1>t DEF Push, Notifying
  <2>2. /\ Blocked' = Blocked /\ Ready' = Ready
        /\ Len(task_queue)' = Len(task_queue) + 1
    BY <1>1, <1>t, SMTT(30) DEF Push, Blocked, Ready
  <2>3. Cardinality(Notifying)' = Cardinality(Notifying) + 1
    BY <1>f, <2>1, FS_AddElement
  <2> QED
    BY <1>f, <1>t, <2>2, <2>3, SMTT(30) DEF WorkConserving
<1>2. ASSUME NEW a \in Threads, ReadWaiting(a) PROVE Goal
  <2> DEFINE W == {v \in Workers : wpc[v] \in Waiting}
  <2>1. W # {}
    BY <1>2 DEF ReadWaiting, Blocked, Waiting
  <2>2. IsFiniteSet(W) /\ waiting = Cardinality(W)
    BY Constants, FS_Subset DEF PoolInv, WaitingInv
  <2> HIDE DEF W
  <2>3. SomeoneWaits
    BY <2>1, <2>2, FS_EmptySet, FS_CardinalityType, SMTT(30) DEF SomeoneWaits
  <2> QED
    BY <1>0, <1>2, <1>t, <2>3
    DEF ReadWaiting, Notifying, Blocked, Ready, taskVars
<1>3. ASSUME NEW a \in Threads, NotifyOne(a) PROVE Goal
  <2>1. PICK w \in Blocked : wpc' = [wpc EXCEPT ![w] = "woken"]
    BY <1>3 DEF NotifyOne, WakeOne, Blocked
  <2>2. Ready' = Ready \cup {w} /\ w \notin Ready
    BY <1>t, <2>1 DEF Ready, Blocked
  <2>3. /\ Notifying' = Notifying \ {a} /\ a \in Notifying
        /\ task_queue' = task_queue
    BY <1>3, <1>t DEF NotifyOne, Notifying, taskVars
  <2>4. /\ Cardinality(Ready)' = Cardinality(Ready) + 1
        /\ Cardinality(Notifying)' = Cardinality(Notifying) - 1
    BY <1>f, <2>2, <2>3, FS_AddElement, FS_RemoveElement
  <2> QED
    BY <1>f, <1>t, <2>1, <2>3, <2>4, SMTT(30) DEF WorkConserving
<1>4. ASSUME NEW w \in Workers, Pop(w), UNCHANGED apc PROVE Goal
  <2>1. Ready' = Ready \ {w} /\ w \in Ready /\ Blocked' = Blocked
    BY <1>4, <1>t DEF Pop, LeaveWait, Goto, Ready, Blocked
  <2>2. Notifying' = Notifying /\ Len(task_queue)' = Len(task_queue) - 1
    BY <1>4, <1>t, SMTT(30) DEF Pop, TakeFront, Notifying
  <2>3. Cardinality(Ready)' = Cardinality(Ready) - 1
    BY <1>f, <2>1, FS_RemoveElement
  <2> QED
    BY <1>f, <1>t, <2>1, <2>2, <2>3, SMTT(30) DEF WorkConserving
<1>5. ASSUME NEW w \in Workers, UNCHANGED apc,
             SpuriousWake(w) \/ FinishTask(w) \/ Spawn(w)
      PROVE  Goal
  <2>1. /\ Ready' = Ready \cup {w} /\ w \notin Ready
        /\ Blocked' \subseteq Blocked
        /\ Notifying' = Notifying /\ task_queue' = task_queue
    BY <1>5, <1>t DEF SpuriousWake, FinishTask, Spawn, Gone, Goto, Ready,
       Blocked, Notifying, taskVars
  <2>2. Cardinality(Ready)' = Cardinality(Ready) + 1
    BY <1>f, <2>1, FS_AddElement
  <2> QED
    BY <1>f, <1>t, <2>1, <2>2, SMTT(30) DEF WorkConserving
<1>6. ASSUME NEW w \in Workers, UNCHANGED apc,
             Exit(w) \/ LoopAgain(w) \/ Block(w) \/ Check(w)
      PROVE  Goal
  <2>1. CASE task_queue = <<>>
    BY <1>e, <1>6, <2>1 DEF Exit, LoopAgain, Block, Check, taskVars
  <2>2. CASE task_queue # <<>>
    <3>1. /\ Ready' = Ready /\ Blocked' = Blocked
          /\ Notifying' = Notifying /\ task_queue' = task_queue
      BY <1>6, <1>t, <2>2 DEF PoolInv, SleepInv, Exit, MayExit, LoopAgain,
         Block, Check, WakeCondition, Goto, Ready, Blocked, Notifying,
         taskVars
    <3> QED
      BY <1>0, <3>1
  <2> QED
    BY <2>1, <2>2
<1>7. ASSUME NEW w \in Workers, UNCHANGED apc, Enter(w) \/ Reacquire(w)
      PROVE  Goal
  BY <1>0, <1>7, <1>t DEF Enter, Reacquire, Goto, Ready, Blocked, Notifying,
     taskVars
<1>8. CASE NotifyAll
  BY <1>8, <1>t DEF NotifyAll, Blocked
<1>9. CASE StopClear \/ Destroy
  BY <1>e, <1>9 DEF StopClear, Destroy, DropQueue
<1>10. CASE UNCHANGED <<wpc, apc, task_queue>>
  BY <1>0, <1>10 DEF Ready, Blocked, Notifying
<1>11. ASSUME NEW a \in Threads, AddStep(a) PROVE Goal
  BY <1>1, <1>2, <1>3, <1>11 DEF AddStep
<1>12. ASSUME NEW w \in Workers, WorkerStep(w) PROVE Goal
  BY <1>4, <1>5, <1>6, <1>7, <1>12 DEF WorkerStep
<1>13. CASE ControlStep
  BY <1>5, <1>8, <1>9, <1>10, <1>13
  DEF ControlStep, Run, Stop, StopJoin, StopHard, StopHardDetach, taskVars
<1> QED
  BY <1>10, <1>11, <1>12, <1>13 DEF Next, vars, taskVars

(* PoolInv is an invariant of the pool: mtx_, waiting_threads_, the queue, *)
(* the tasks in execution and the futures agree in every reachable state.  *)
THEOREM PoolInvariant == Spec => []PoolInv
<1>1. PoolInv /\ [Next]_vars => PoolInv'
  BY TypeStep, MutexStep, WaitingStep, SleepStep, CurStep, PlaceStep,
     ControlStepInv, PromiseStep, WorkStep DEF PoolInv
<1> QED
  BY InitInv, <1>1, PTL DEF Spec

(* addTask loses no wakeup, for any number of workers, callers and tasks,  *)
(* although it notifies after unlocking and only if waiting_threads_ > 0.  *)
THEOREM NoLostWakeup == Spec => []WorkConserving
<1>1. PoolInv => WorkConserving
  BY DEF PoolInv
<1> QED
  BY PoolInvariant, <1>1, PTL

(* stop() drops no task that was pending when it was called. *)
THEOREM StopDrainsQueue == Spec => []StopDrains
<1>1. PoolInv => StopDrains
  BY DEF PoolInv
<1> QED
  BY PoolInvariant, <1>1, PTL

(* Without stopHard() the destructor leaves no worker behind. *)
THEOREM DestroyIsSafe == Spec => []NoWorkerAfterDestroy
<1>1. PoolInv => NoWorkerAfterDestroy
  BY DEF PoolInv, TypeOK, ControlInv, NoWorkerAfterDestroy, Gone
<1> QED
  BY PoolInvariant, <1>1, PTL

(* The pool implements the abstract executor: every step of the pool is a  *)
(* step of Executor on the queue, the running tasks and the futures, or    *)
(* leaves them unchanged.                                                  *)
THEOREM PoolImplementsExecutor == Spec => ImplementsExecutor
<1>1. Init => Abstract!Init
  BY DEF Init, Abstract!Init
<1>2. PoolInv /\ [Next]_vars => [Abstract!Next]_(Abstract!evars)
  <2> SUFFICES ASSUME PoolInv, [Next]_vars,
                      ~ UNCHANGED <<task_queue, cur, future>>
               PROVE  Abstract!Next
    BY DEF Abstract!evars
  <2>1. ASSUME NEW a \in Threads, AddStep(a) PROVE Abstract!Next
    BY <2>1 DEF AddStep, Push, ReadWaiting, NotifyOne, taskVars,
       Abstract!Next, Abstract!Submit
  <2>2. ASSUME NEW w \in Workers, Pop(w) PROVE Abstract!Next
    BY <2>2 DEF Pop, TakeFront, LeaveWait, PoolInv, CurInv, Abstract!Next,
       Abstract!Start
  <2>3. ASSUME NEW w \in Workers, FinishTask(w) PROVE Abstract!Next
    BY <2>3 DEF FinishTask, PoolInv, CurInv, Abstract!Next, Abstract!Finish
  <2>4. ASSUME ControlStep, StopClear \/ Destroy PROVE Abstract!Next
    <3>1. /\ task_queue' = <<>> /\ cur' = cur
          /\ future' = [t \in Tasks |->
                          IF t \in Range(task_queue)
                          THEN "broken" ELSE future[t]]
      BY <2>4 DEF ControlStep, StopClear, Destroy, DropQueue, InQueue
    <3>2. CASE task_queue # <<>>
      BY <3>1, <3>2 DEF Abstract!Next, Abstract!Discard, Abstract!Range, Range
    <3>3. CASE task_queue = <<>>
      <4>1. future' = future
        BY <3>1, <3>3, EmptyQueue DEF PoolInv, TypeOK
      <4> QED
        BY <3>1, <3>3, <4>1
    <3> QED
      BY <3>2, <3>3
  <2>5. ASSUME NEW w \in Workers, WorkerStep(w) PROVE Abstract!Next
    BY <2>2, <2>3, <2>5 DEF WorkerStep, Enter, Check, Block, SpuriousWake,
       Reacquire, Exit, LoopAgain, taskVars
  <2>6. CASE ControlStep
    BY <2>4, <2>6 DEF ControlStep, Run, Spawn, Stop, NotifyAll, StopJoin,
       StopHard, StopHardDetach, taskVars
  <2> QED
    BY <2>1, <2>5, <2>6 DEF Next, vars, taskVars
<1> QED
  BY PoolInvariant, <1>1, <1>2, PTL DEF Spec, ImplementsExecutor, Abstract!Spec

=============================================================================
