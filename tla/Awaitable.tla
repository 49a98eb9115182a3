----------------------------- MODULE Awaitable ------------------------------
(***************************************************************************)
(* Awaitable<T> and co_spawn (include/coro/Awaitable.hpp): coroutines that *)
(* start suspended, are resumed for the first time by a thread of the pool *)
(* and, at their end, resume the coroutine that awaits them on the thread  *)
(* they end on.                                                            *)
(*                                                                         *)
(* The pool is an instance of Executor, which ThreadPool implements; its   *)
(* tasks are the lambdas that resume a coroutine for the first time, each  *)
(* identified with its coroutine.                                          *)
(***************************************************************************)
EXTENDS Sequences, FiniteSets, Functions

CONSTANTS
    Workers,     \* threads of the pool
    Coroutines,  \* coroutine frames, each created at most once
    Parent,      \* the coroutine that creates it, None for co_spawn
    None

ASSUME AwaitableAssumption ==
    /\ None \notin Coroutines
    /\ Parent \in [Coroutines -> Coroutines \cup {None}]

VARIABLES
    frame,     \* the state of each coroutine frame
    owner,     \* whether an Awaitable has the handle, and will destroy it
    executor,  \* promise.executor # nullptr
    awaiting,  \* promise.awaiting
    result,    \* promise.value and promise.exception
    on,        \* the coroutine that each worker executes
    pending, slot, future  \* the pool

frameVars == <<frame, owner, executor, awaiting, result>>
poolVars == <<pending, slot, future>>
vars == <<frameVars, on, poolVars>>

Pool == INSTANCE Executor WITH Tasks <- Coroutines, Slots <- Workers

(***************************************************************************)
(* States of a frame.                                                      *)
(*   none       not created                                                *)
(*   created    at the initial suspension point, nobody will resume it     *)
(*   queued     its first resumption is in the pool                        *)
(*   running    on a worker                                                *)
(*   awaits     suspended in co_await of a child                           *)
(*   final      at the final suspension point                              *)
(*   destroyed                                                             *)
(***************************************************************************)
States == {"none", "created", "queued", "running", "awaits", "final",
           "destroyed"}

Children(c) == {k \in Coroutines : Parent[k] = c}

-----------------------------------------------------------------------------

Init ==
    /\ frame = [c \in Coroutines |-> "none"]
    /\ owner = [c \in Coroutines |-> FALSE]
    /\ executor = [c \in Coroutines |-> FALSE]
    /\ awaiting = [c \in Coroutines |-> None]
    /\ result = [c \in Coroutines |-> "none"]
    /\ on = [w \in Workers |-> None]
    /\ Pool!Init

(* co_spawn(pool, f()): the executor goes into the promise, the handle is  *)
(* taken out of the Awaitable and a lambda with it goes to the pool.       *)
CoSpawn(c) ==
    /\ Parent[c] = None /\ frame[c] = "none"
    /\ frame' = [frame EXCEPT ![c] = "queued"]
    /\ executor' = [executor EXCEPT ![c] = TRUE]
    /\ Pool!Submit(c)
    /\ UNCHANGED <<owner, awaiting, result, on>>

(* A worker takes the lambda, handle.resume(). *)
Begin(w) ==
    /\ on[w] = None
    /\ Pool!Start(w)
    /\ on' = [on EXCEPT ![w] = Head(pending)]
    /\ frame' = [frame EXCEPT ![Head(pending)] = "running"]
    /\ UNCHANGED <<owner, executor, awaiting, result>>

(* The coroutine calls another one: get_return_object, initial_suspend. *)
Call(w, k) ==
    /\ on[w] # None /\ k \in Children(on[w]) /\ frame[k] = "none"
    /\ frame' = [frame EXCEPT ![k] = "created"]
    /\ owner' = [owner EXCEPT ![k] = TRUE]
    /\ UNCHANGED <<executor, awaiting, result, on, poolVars>>

(* ~Awaitable of an Awaitable that was never awaited. *)
Drop(w, k) ==
    /\ on[w] # None /\ k \in Children(on[w]) /\ frame[k] = "created"
    /\ frame' = [frame EXCEPT ![k] = "destroyed"]
    /\ owner' = [owner EXCEPT ![k] = FALSE]
    /\ UNCHANGED <<executor, awaiting, result, on, poolVars>>

(* Mutant of SetAwaiting: p.awaiting = h is missing. *)
SetNothing(k, c) == UNCHANGED awaiting

(* p.awaiting = h *)
SetAwaiting(k, c) == awaiting' = [awaiting EXCEPT ![k] = c]

(* Mutant of HandDown: await_transform only forwards its argument. *)
HandNothing(k, c) == UNCHANGED executor

(* await_transform: a.handle.promise().executor = this->executor *)
HandDown(k, c) == executor' = [executor EXCEPT ![k] = executor[c]]

(* co_await k: await_transform hands the executor down; the coroutine is   *)
(* suspended, await_suspend stores its handle and gives k to the pool.     *)
CoAwait(w, k) ==
    LET c == on[w]
    IN  /\ c # None /\ k \in Children(c) /\ frame[k] = "created"
        /\ HandDown(k, c)
        /\ frame' = [frame EXCEPT ![c] = "awaits", ![k] = "queued"]
        /\ SetAwaiting(k, c)
        /\ on' = [on EXCEPT ![w] = None]
        /\ Pool!Submit(k)
        /\ UNCHANGED <<owner, result>>

(* When control comes back from resume(): every coroutine below on the     *)
(* stack of the worker is at its final suspension point, or destroyed, and *)
(* final_awaiter::await_suspend touches nothing any more.                  *)
EndTask(w) ==
    /\ on[w] = None
    /\ Pool!Finish(w)
    /\ UNCHANGED <<frameVars, on>>

(* ~Awaitable of all that the coroutine has created and not awaited. *)
Leftover(c) == {k \in Children(c) : frame[k] = "created"}

(* return_value, return_void or unhandled_exception, the destructors of    *)
(* the locals, then final_suspend, without anyone awaiting: back to the    *)
(* pool.  Nobody has the handle, the frame stays.                          *)
EndSpawned(w, r) ==
    LET c == on[w]
    IN  /\ c # None /\ awaiting[c] = None
        /\ result' = [result EXCEPT ![c] = r]
        /\ frame' = [k \in Coroutines |->
                       CASE k = c -> "final"
                         [] k \in Leftover(c) -> "destroyed"
                         [] OTHER -> frame[k]]
        /\ owner' = [k \in Coroutines |-> owner[k] /\ k \notin Leftover(c)]
        /\ on' = [on EXCEPT ![w] = None]
        /\ UNCHANGED <<executor, awaiting, poolVars>>

(* Mutant of ChildEnd: the temporary Awaitable does not destroy the frame. *)
ChildLeaked == "final"

(* After await_resume the temporary Awaitable of the co_await destroys the *)
(* frame of the child.                                                     *)
ChildEnd == "destroyed"

(* The same with a parent waiting: p.awaiting.resume() on this worker, and *)
(* await_resume moves the value out or rethrows.                           *)
EndAwaited(w, r) ==
    LET c == on[w]
        p == awaiting[c]
    IN  /\ c # None /\ p # None
        /\ result' = [result EXCEPT ![c] = r]
        /\ frame' = [k \in Coroutines |->
                       CASE k = c -> ChildEnd
                         [] k = p -> "running"
                         [] k \in Leftover(c) -> "destroyed"
                         [] OTHER -> frame[k]]
        /\ owner' = [k \in Coroutines |->
                       owner[k] /\ k # c /\ k \notin Leftover(c)]
        /\ on' = [on EXCEPT ![w] = p]
        /\ UNCHANGED <<executor, awaiting, poolVars>>

End(w, r) == EndSpawned(w, r) \/ EndAwaited(w, r)

WorkerStep(w) ==
    \/ Begin(w) \/ EndTask(w)
    \/ \E k \in Coroutines : Call(w, k) \/ Drop(w, k) \/ CoAwait(w, k)
    \/ \E r \in {"value", "exception"} : End(w, r)

Next ==
    \/ \E c \in Coroutines : CoSpawn(c)
    \/ \E w \in Workers : WorkerStep(w)

Spec == Init /\ [][Next]_vars

(* Workers run; a coroutine calls finitely many others and then ends. *)
FairSpec == Spec /\ \A w \in Workers : WF_vars(WorkerStep(w))

-----------------------------------------------------------------------------
(* Properties.                                                             *)

TypeOK ==
    /\ frame \in [Coroutines -> States]
    /\ owner \in [Coroutines -> BOOLEAN]
    /\ executor \in [Coroutines -> BOOLEAN]
    /\ awaiting \in [Coroutines -> Coroutines \cup {None}]
    /\ result \in [Coroutines -> {"none", "value", "exception"}]
    /\ on \in [Workers -> Coroutines \cup {None}]

Live == {c \in Coroutines : frame[c] \in {"queued", "running", "awaits"}}

(* A coroutine is resumed only while it is suspended: it runs on at most   *)
(* one worker, it is in the queue of the pool exactly from its start being *)
(* requested, and while it awaits there is exactly one live child that     *)
(* will resume it.                                                         *)
ResumeInv ==
    /\ TypeOK
    /\ \A c \in Coroutines :
         /\ frame[c] = "running" <=> \E w \in Workers : on[w] = c
         /\ frame[c] = "queued" <=> c \in Range(pending)
         /\ frame[c] = "awaits" =>
              Cardinality({k \in Live : awaiting[k] = c}) = 1
    /\ \A v, w \in Workers : on[v] = on[w] /\ on[v] # None => v = w
    /\ \A c \in Coroutines :
         awaiting[c] # None /\ c \in Live => frame[awaiting[c]] = "awaits"

(* A frame that is in use has an executor (assert in await_suspend). *)
HasExecutor == \A c \in Live : executor[c]

(* When a coroutine has ended, all that it created is destroyed: only the  *)
(* frames given to co_spawn are never freed.                               *)
NoFrameLeft ==
    \A c \in Coroutines :
        frame[c] \in {"final", "destroyed"} =>
            \A k \in Children(c) : frame[k] \in {"none", "destroyed"}

(* A coroutine that awaits a child is resumed. *)
AwaitReturns ==
    \A c \in Coroutines : (frame[c] = "awaits") ~> (frame[c] = "running")

=============================================================================
