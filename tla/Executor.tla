------------------------------ MODULE Executor ------------------------------
(***************************************************************************)
(* What an executor promises to the threads that hand it tasks, without    *)
(* locks, condition variables or threads.  Tasks are queued in the order   *)
(* in which they are submitted, taken from the front of the queue, and run *)
(* in at most as many slots as there are members of Slots.                 *)
(*                                                                         *)
(* Three components implement it: ThreadPool and Scheduler with one slot   *)
(* per worker thread, and Strand with a single slot.  Strand is also built *)
(* on top of it: the pool under the strand is an instance of this module.  *)
(***************************************************************************)
EXTENDS Sequences, Functions

CONSTANTS
    Tasks,   \* the callables that may be submitted
    Slots,   \* the places in which a task can run
    None     \* an empty slot

VARIABLES
    pending,   \* submitted tasks nobody has started, oldest first
    slot,      \* the task that each slot is running, or None
    future     \* the future handed to the submitter of each task

evars == <<pending, slot, future>>

-----------------------------------------------------------------------------

Init ==
    /\ pending = <<>>
    /\ slot = [s \in Slots |-> None]
    /\ future = [t \in Tasks |-> "none"]

(* A new task enters the queue; its submitter gets a pending future. *)
Submit(t) ==
    /\ future[t] = "none"
    /\ pending' = Append(pending, t)
    /\ future' = [future EXCEPT ![t] = "pending"]
    /\ UNCHANGED slot

(* A free slot starts the oldest task. *)
Start(s) ==
    /\ slot[s] = None
    /\ pending # <<>>
    /\ slot' = [slot EXCEPT ![s] = Head(pending)]
    /\ pending' = Tail(pending)
    /\ UNCHANGED future

(* The task of a slot returns or throws: its future becomes ready. *)
Finish(s) ==
    /\ slot[s] # None
    /\ future' = [future EXCEPT ![slot[s]] = "ready"]
    /\ slot' = [slot EXCEPT ![s] = None]
    /\ UNCHANGED pending

(* The executor is shut down: the tasks still queued are destroyed, and *)
(* their futures report a broken promise.                               *)
Discard ==
    /\ pending # <<>>
    /\ pending' = <<>>
    /\ future' = [t \in Tasks |->
                    IF t \in Range(pending)
                    THEN "broken" ELSE future[t]]
    /\ UNCHANGED slot

Next ==
    \/ \E t \in Tasks : Submit(t)
    \/ \E s \in Slots : Start(s) \/ Finish(s)
    \/ Discard

Spec == Init /\ [][Next]_evars

=============================================================================
