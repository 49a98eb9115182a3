------------------------------- MODULE Strand -------------------------------
(***************************************************************************)
(* hspd::Strand (include/net/Strand.hpp): tasks added to a strand run one  *)
(* after the other, in the order of their addition, on a pool with many    *)
(* threads.  The pool is an instance of Executor, which ThreadPool         *)
(* implements; a task of the pool is the lambda that scheduleNext builds   *)
(* around one strand task, and is identified with that task.               *)
(*                                                                         *)
(* The strand moves a single "turn" around: the caller that found running_ *)
(* false has it, then the lambda in the queue of the pool, then the worker *)
(* that runs the lambda and calls scheduleNext again.                      *)
(***************************************************************************)
EXTENDS Naturals, Sequences, Functions

CONSTANTS
    Workers,    \* threads of the pool
    Clients,    \* other threads that call Strand::addTask
    Tasks,      \* the callables added to the strand, each at most once
    TheStrand,  \* the one slot of the abstract executor
    None

Threads == Workers \cup Clients

ASSUME StrandAssumption ==
    /\ Workers \cap Clients = {}
    /\ None \notin Threads \cup Tasks

VARIABLES
    queue,     \* queue_
    running,   \* running_
    pc,        \* where each thread is in addTask, scheduleNext or a lambda
    next,      \* the local variable next of scheduleNext, per thread
    result,    \* the future that Strand::addTask returned for each task
    pending,   \* the pool: lambdas queued
    slot,      \* the pool: the lambda that each worker runs
    future     \* the pool: the futures of the lambdas, which nobody reads

strandVars == <<queue, running, result>>
poolVars == <<pending, slot, future>>
vars == <<pc, next, strandVars, poolVars>>

Pool == INSTANCE Executor WITH Slots <- Workers

(***************************************************************************)
(* Locations of a thread.                                                  *)
(*   idle      outside the strand                                          *)
(*   run       a worker is inside next() of its lambda                     *)
(*   schedule  at the lock of scheduleNext                                 *)
(*   submit    has taken next out of queue_, about to call the pool        *)
(*   return    a worker is back from scheduleNext, at the end of a lambda  *)
(* A task that runs on a worker may itself add a task to the strand; as    *)
(* running_ is then set, that call never schedules and needs no location.  *)
(***************************************************************************)
HasTurn == {"run", "schedule", "submit"}
Locations == HasTurn \cup {"idle", "return"}

-----------------------------------------------------------------------------

Init ==
    /\ queue = <<>>
    /\ running = FALSE
    /\ pc = [a \in Threads |-> "idle"]
    /\ next = [a \in Threads |-> None]
    /\ result = [t \in Tasks |-> "none"]
    /\ Pool!Init

Goto(a, from, to) == pc[a] = from /\ pc' = [pc EXCEPT ![a] = to]

(* Where a thread goes when scheduleNext returns: a caller of addTask is   *)
(* done, a worker is at the end of its lambda.                             *)
Back(a) == IF a \in Workers THEN "return" ELSE "idle"

(* Mutant of TakeTurn: running_ is set but not tested. *)
AlwaysTakeTurn(a) ==
    /\ running' = TRUE
    /\ pc' = [pc EXCEPT ![a] = "schedule"]

(* if (!running_.exchange(true)) needSchedule = true; *)
TakeTurn(a) ==
    /\ running' = TRUE
    /\ pc' = [pc EXCEPT ![a] = IF running THEN @ ELSE "schedule"]

(* addTask up to the end of its critical section. *)
AddTask(a, t) ==
    /\ pc[a] = IF a \in Workers THEN "run" ELSE "idle"
    /\ result[t] = "none"
    /\ queue' = Append(queue, t)
    /\ result' = [result EXCEPT ![t] = "pending"]
    /\ TakeTurn(a)
    /\ UNCHANGED <<next, poolVars>>

(* Mutant of ScheduleNone: running_ = false is missing. *)
ScheduleNoneKeepTurn(a) ==
    /\ Goto(a, "schedule", Back(a))
    /\ queue = <<>>
    /\ UNCHANGED <<strandVars, next, poolVars>>

(* The critical section of scheduleNext with an empty queue: give up the   *)
(* turn.                                                                   *)
ScheduleNone(a) ==
    /\ Goto(a, "schedule", Back(a))
    /\ queue = <<>>
    /\ running' = FALSE
    /\ UNCHANGED <<queue, next, result, poolVars>>

(* Mutant of TakeFront: the newest task is taken. *)
TakeBack(a) ==
    /\ next' = [next EXCEPT ![a] = queue[Len(queue)]]
    /\ queue' = SubSeq(queue, 1, Len(queue) - 1)

(* next = std::move(queue_.front()); queue_.pop(); *)
TakeFront(a) ==
    /\ next' = [next EXCEPT ![a] = Head(queue)]
    /\ queue' = Tail(queue)

(* The critical section of scheduleNext with a task in the queue. *)
ScheduleNext(a) ==
    /\ Goto(a, "schedule", "submit")
    /\ queue # <<>>
    /\ TakeFront(a)
    /\ UNCHANGED <<running, result, poolVars>>

(* executor_->addTask(lambda) *)
SubmitNext(a) ==
    /\ Goto(a, "submit", Back(a))
    /\ Pool!Submit(next[a])
    /\ next' = [next EXCEPT ![a] = None]
    /\ UNCHANGED strandVars

(* A worker of the pool takes a lambda and enters next(). *)
StartLambda(w) ==
    /\ Goto(w, "idle", "run")
    /\ Pool!Start(w)
    /\ UNCHANGED <<next, strandVars>>

(* next() returns or throws into its packaged_task; then scheduleNext(). *)
FinishNext(w) ==
    /\ Goto(w, "run", "schedule")
    /\ result' = [result EXCEPT ![slot[w]] = "ready"]
    /\ UNCHANGED <<queue, running, next, poolVars>>

(* The lambda returns to the pool. *)
FinishLambda(w) ==
    /\ Goto(w, "return", "idle")
    /\ Pool!Finish(w)
    /\ UNCHANGED <<next, strandVars>>

(* ThreadPool::stop() destroys the lambdas in its queue, and with each of  *)
(* them the packaged_task of the strand task inside.  Nobody tells the     *)
(* strand: running_ stays set.                                             *)
PoolDiscard ==
    /\ Pool!Discard
    /\ result' = [t \in Tasks |->
                    IF t \in Range(pending) THEN "broken" ELSE result[t]]
    /\ UNCHANGED <<pc, next, queue, running>>

Step(a) ==
    \/ ScheduleNone(a) \/ ScheduleNext(a) \/ SubmitNext(a)
    \/ a \in Workers /\ (StartLambda(a) \/ FinishNext(a) \/ FinishLambda(a))

Next ==
    \/ \E a \in Threads : Step(a) \/ \E t \in Tasks : AddTask(a, t)
    \/ PoolDiscard

Spec == Init /\ [][Next]_vars

(* A thread that is inside the strand is eventually scheduled, strand      *)
(* tasks return, and the pool runs what it has queued, as ThreadPool does  *)
(* (QueuedTaskRuns there).                                                 *)
FairSpec == Spec /\ \A a \in Threads : WF_vars(Step(a))

-----------------------------------------------------------------------------
(* Properties.                                                             *)

Lost == \E t \in Tasks : result[t] = "broken"

TypeOK ==
    /\ queue \in Seq(Tasks)
    /\ running \in BOOLEAN
    /\ pc \in [Threads -> Locations]
    /\ next \in [Threads -> Tasks \cup {None}]
    /\ result \in [Tasks -> {"none", "pending", "ready", "broken"}]
    /\ pending \in Seq(Tasks)
    /\ slot \in [Workers -> Tasks \cup {None}]
    /\ future \in [Tasks -> {"none", "pending", "ready", "broken"}]

(* There is at most one turn.  Whoever has it, running_ is set; running_   *)
(* is set while a task waits; and only a lambda destroyed by the pool can  *)
(* leave running_ set with nobody to take the next turn.                   *)
TurnInv ==
    /\ \A a, b \in Threads : pc[a] \in HasTurn /\ pc[b] \in HasTurn => a = b
    /\ pending # <<>> =>
         Len(pending) = 1 /\ \A a \in Threads : pc[a] \notin HasTurn
    /\ running \/ (queue = <<>> /\ pending = <<>>
                     /\ \A a \in Threads : pc[a] \notin HasTurn)
    /\ running => Lost \/ pending # <<>> \/
                    \E a \in Threads : pc[a] \in HasTurn

(* The location of a thread determines what it carries. *)
CarryInv ==
    /\ \A a \in Threads : next[a] # None <=> pc[a] = "submit"
    /\ \A c \in Clients : pc[c] \in {"idle", "schedule", "submit"}
    /\ \A w \in Workers : slot[w] = None <=> pc[w] = "idle"

(* A task that waits is in one place, and the pool sees it only when it is *)
(* submitted.                                                              *)
PlaceInv ==
    /\ IsInjective(queue)
    /\ \A t \in Range(queue) : result[t] = "pending" /\ future[t] = "none"
    /\ \A a \in Threads : next[a] # None =>
         /\ result[next[a]] = "pending" /\ future[next[a]] = "none"
         /\ next[a] \notin Range(queue)
    /\ \A t \in Tasks : result[t] = "none" => future[t] = "none"
    /\ \A t \in Range(pending) : future[t] # "none"
    /\ \A w \in Workers : slot[w] # None => future[slot[w]] # "none"

(* The inductive invariant. *)
StrandInv == TypeOK /\ TurnInv /\ CarryInv /\ PlaceInv

(* Tasks of one strand never overlap, on however many threads the pool     *)
(* runs them, and whether or not the pool is stopped in between.           *)
NeverOverlap ==
    \A v, w \in Workers : pc[v] = "run" /\ pc[w] = "run" => v = w

(* The strand is an executor with a single slot.  A task that is in        *)
(* somebody's turn but has not begun is the oldest of the waiting ones.    *)
Submitting == {a \in Threads : pc[a] = "submit"}
Executing == {w \in Workers : pc[w] = "run"}

InTurn ==
    IF Submitting = {} THEN pending
                       ELSE <<next[CHOOSE a \in Submitting : TRUE]>>

Serial == INSTANCE Executor WITH
    Slots <- {TheStrand},
    pending <- InTurn \o queue,
    slot <- [s \in {TheStrand} |->
               IF Executing = {} THEN None
                                 ELSE slot[CHOOSE w \in Executing : TRUE]],
    future <- result

(* Tasks run one at a time, in the order in which addTask queued them, and *)
(* a future becomes ready when its task has run.  This ends only when the  *)
(* pool destroys a lambda: an executor drops all its tasks or none, but    *)
(* the strand then loses the one in its turn and keeps the others.         *)
ImplementsSerialExecutor ==
    Serial!Init /\ [][Serial!Next \/ Lost']_(Serial!evars)

(* Every task added to the strand runs, unless the pool has destroyed a    *)
(* lambda of this strand.  The pool is one that still runs or destroys     *)
(* what it has queued; a lambda that is submitted after stop() of the pool *)
(* has returned is neither, until the pool is run again or destroyed.      *)
EveryTaskRuns ==
    \A t \in Tasks :
        (result[t] = "pending") ~> (result[t] = "ready" \/ Lost)

=============================================================================
