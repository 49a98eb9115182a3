---------------------------- MODULE MCCoroutines ----------------------------
(***************************************************************************)
(* The two kinds of coroutine that run on worker threads, side by side:    *)
(* Awaitable<T> on a ThreadPool, and Task<T> on the Scheduler.  A program  *)
(* that uses both uses two pools that know nothing of each other: the      *)
(* initial state chooses the kind that moves.                              *)
(***************************************************************************)
EXTENDS Awaitable, Task, TLC

VARIABLE kind  \* the kind that moves

allVars == <<kind, vars, taskVars>>

CoroutineInit == kind \in {"awaitable", "task"} /\ Init /\ TaskInit

CoroutineNext ==
    /\ UNCHANGED kind
    /\ \/ kind = "awaitable" /\ Next /\ UNCHANGED taskVars
       \/ kind = "task" /\ TaskNext /\ UNCHANGED vars

(* No step of the kind that does not move is enabled in its initial state  *)
(* except calls by the program, for which there is no fairness.            *)
CoroutineSpec ==
    /\ CoroutineInit /\ [][CoroutineNext]_allVars
    /\ \A w \in Workers : WF_vars(WorkerStep(w))
    /\ TaskFairness

-----------------------------------------------------------------------------
(* Two spawned coroutines, one with two children and a grandchild, the     *)
(* other with one child.                                                   *)

CONSTANTS a, b, a1, a2, a11, b1

MCCoroutineSet == {a, b, a1, a2, a11, b1}
MCParent ==
    a :> None @@ b :> None @@ a1 :> a @@ a2 :> a @@ a11 :> a1 @@ b1 :> b

=============================================================================
