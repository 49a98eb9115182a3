-------------------------------- MODULE Task --------------------------------
(***************************************************************************)
(* Task<T> (include/coro/Task.hpp) and the scheduler that its coroutines   *)
(* find with Scheduler::get_instance (include/coro/Scheduler.hpp).         *)
(*                                                                         *)
(* A client calls a coroutine: the promise hands the coroutine to the      *)
(* scheduler, and only then is it suspended for the first time.  The       *)
(* client may call get(), and destroys the Task, and with it the frame,    *)
(* when it likes.  What the scheduler does with a coroutine it has been    *)
(* given is the subject of module Scheduler; here a coroutine is queued    *)
(* and then running, on as many workers as are needed.                     *)
(*                                                                         *)
(* A step with undefined behaviour adds its reason to undefined, and       *)
(* nothing is said about what comes after it.                              *)
(***************************************************************************)
EXTENDS Naturals, Sequences

CONSTANTS
    Clients,   \* threads that create tasks
    Tasks,     \* coroutine frames, each created at most once
    NoTask     \* no Task in the variable

VARIABLES
    instance,   \* Scheduler::instance_: 0, or the number of the scheduler
    scheduler,  \* the state of each scheduler made so far
    pc,         \* where each client is
    ref,        \* the scheduler whose add_coroutine a client calls
    task,       \* the Task that each client has
    frames,     \* the state of each coroutine frame
    home,       \* the scheduler that has each coroutine
    suspended,  \* frames that have reached their initial suspension point
    outcome,    \* the promise of each coroutine: empty, value or exception
    got,        \* what get() gave for each coroutine
    undefined,  \* reasons for undefined behaviour
    overlapped, \* two clients were in get_instance with no scheduler running
    hasty       \* a Task was destroyed before get() had returned

schedulerVars == <<instance, scheduler, overlapped>>
taskFrameVars == <<frames, home, suspended, outcome, got, hasty>>
taskVars == <<schedulerVars, pc, ref, task, taskFrameVars, undefined>>

(***************************************************************************)
(* Locations of a client: idle; check, reset, delete, run, spawn (inside   *)
(* run()) and return in get_instance; add in add_coroutine; suspend on the *)
(* way to the initial suspension point; own with the Task in a variable;   *)
(* get in get().                                                           *)
(* States of a frame: none, new, queued, running, valued after set_value   *)
(* or set_exception, final at the final suspension point, destroyed.       *)
(* Reasons for undefined behaviour: twoRuns, two calls of run() append to  *)
(* threads_; notRunning, a scheduler that is not running is used;          *)
(* earlyResume, before the initial suspension; earlyDestroy, between the   *)
(* end of the body and the final suspension; brokenOff, destroyed before   *)
(* the end of the body.                                                    *)
(***************************************************************************)

TaskInit ==
    /\ instance = 0 /\ scheduler = <<>> /\ overlapped = FALSE
    /\ pc = [c \in Clients |-> "idle"]
    /\ ref = [c \in Clients |-> 0]
    /\ task = [c \in Clients |-> NoTask]
    /\ frames = [t \in Tasks |-> "none"]
    /\ home = [t \in Tasks |-> 0]
    /\ suspended = {} /\ undefined = {} /\ hasty = FALSE
    /\ outcome = [t \in Tasks |-> "empty"]
    /\ got = [t \in Tasks |-> "none"]

Goto(c, from, to) == pc[c] = from /\ pc' = [pc EXCEPT ![c] = to]

(* Undefined behaviour for the reason r if the condition holds. *)
UndefinedIf(cond, r) == undefined' = IF cond THEN undefined \cup {r} ELSE undefined

Starting == {"check", "reset", "delete", "run", "spawn"}
IsUp == instance # 0 /\ scheduler[instance] = "running"

(* The coroutine is called: its frame, and get_return_object. *)
Create(c, t) ==
    /\ Goto(c, "idle", "check")
    /\ frames[t] = "none"
    /\ frames' = [frames EXCEPT ![t] = "new"]
    /\ task' = [task EXCEPT ![c] = t]
    /\ overlapped' = (overlapped \/ (~IsUp /\ \E d \in Clients : pc[d] \in Starting))
    /\ UNCHANGED <<instance, scheduler, ref, home, suspended, outcome, got, hasty, undefined>>

(* if(!instance_) *)
NoInstance == instance = 0

Check(c) ==
    /\ Goto(c, "check", IF NoInstance THEN "reset" ELSE "return")
    /\ UNCHANGED <<schedulerVars, ref, task, taskFrameVars, undefined>>

(* instance_.reset(new Scheduler()): the pointer changes, then the old     *)
(* scheduler, if there is one, is stopped and deleted.                     *)
Reset(c) ==
    /\ Goto(c, "reset", IF instance = 0 THEN "run" ELSE "delete")
    /\ instance' = Len(scheduler) + 1
    /\ scheduler' = Append([g \in DOMAIN scheduler |->
                              IF g = instance THEN "stopping" ELSE scheduler[g]], "made")
    /\ ref' = [ref EXCEPT ![c] = instance]
    /\ UNCHANGED <<overlapped, task, taskFrameVars, undefined>>

(* stop() has joined the workers, and the scheduler is deleted.  A         *)
(* coroutine may still be in its queue: see StopDrains of Scheduler.       *)
Delete(c) ==
    /\ Goto(c, "delete", "run")
    /\ \A t \in Tasks : home[t] = ref[c] => frames[t] \notin {"running", "valued"}
    /\ scheduler' = [scheduler EXCEPT ![ref[c]] = "deleted"]
    /\ UNCHANGED <<instance, overlapped, ref, task, taskFrameVars, undefined>>

(* instance_->run() reads the pointer again and sets running_, ... *)
Run(c) ==
    /\ Goto(c, "run", "spawn")
    /\ ref' = [ref EXCEPT ![c] = instance]
    /\ scheduler' = [scheduler EXCEPT ![instance] = "running"]
    /\ UndefinedIf(\E d \in Clients : pc[d] = "spawn" /\ ref[d] = instance, "twoRuns")
    /\ UNCHANGED <<instance, overlapped, task, taskFrameVars>>

(* ... then appends the workers to threads_. *)
Spawn(c) ==
    /\ Goto(c, "spawn", "return")
    /\ UndefinedIf(scheduler[ref[c]] # "running", "notRunning")
    /\ UNCHANGED <<schedulerVars, ref, task, taskFrameVars>>

(* return *instance_ *)
Return(c) ==
    /\ Goto(c, "return", "add")
    /\ ref' = [ref EXCEPT ![c] = instance]
    /\ UNCHANGED <<schedulerVars, task, taskFrameVars, undefined>>

(* add_coroutine: its assertion, and the queue. *)
Add(c) ==
    /\ Goto(c, "add", "suspend")
    /\ UndefinedIf(scheduler[ref[c]] # "running", "notRunning")
    /\ frames' = [frames EXCEPT ![task[c]] = "queued"]
    /\ home' = [home EXCEPT ![task[c]] = ref[c]]
    /\ UNCHANGED <<schedulerVars, ref, task, suspended, outcome, got, hasty>>

(* initial_suspend, and the client has its Task. *)
Suspend(c) ==
    /\ Goto(c, "suspend", "own")
    /\ suspended' = suspended \cup {task[c]}
    /\ UNCHANGED <<schedulerVars, ref, task, frames, home, outcome, got, hasty, undefined>>

(* get_future() and the beginning of the wait; once for a Task. *)
Get(c) ==
    /\ Goto(c, "own", "get")
    /\ got[task[c]] = "none"
    /\ UNCHANGED <<schedulerVars, ref, task, taskFrameVars, undefined>>

(* Mutant of Ready: get() does not wait. *)
ReadyAlways(t) == TRUE

(* The shared state of the promise is ready. *)
Ready(t) == outcome[t] # "empty"

(* get() returns the value or throws the exception. *)
GetReturn(c) ==
    /\ Goto(c, "get", "own")
    /\ Ready(task[c])
    /\ got' = [got EXCEPT ![task[c]] = outcome[task[c]]]
    /\ UNCHANGED <<schedulerVars, ref, task, frames, home, suspended, outcome, hasty, undefined>>

(* ~Task *)
Destroy(c) ==
    LET t == task[c]
    IN  /\ Goto(c, "own", "idle")
        /\ UndefinedIf(frames[t] # "final",
             IF frames[t] = "valued" THEN "earlyDestroy" ELSE "brokenOff")
        /\ frames' = [frames EXCEPT ![t] = "destroyed"]
        /\ hasty' = (hasty \/ got[t] = "none")
        /\ task' = [task EXCEPT ![c] = NoTask]
        /\ UNCHANGED <<schedulerVars, ref, home, suspended, outcome, got>>

ClientStep(c) ==
    \/ Check(c) \/ Reset(c) \/ Delete(c) \/ Run(c) \/ Spawn(c)
    \/ Return(c) \/ Add(c) \/ Suspend(c) \/ GetReturn(c)

(* A worker resumes the coroutine. *)
Resume(t) ==
    /\ frames[t] = "queued"
    /\ scheduler[home[t]] \in {"running", "stopping"}
    /\ UndefinedIf(t \notin suspended, "earlyResume")
    /\ frames' = [frames EXCEPT ![t] = "running"]
    /\ UNCHANGED <<schedulerVars, pc, ref, task, home, suspended, outcome, got, hasty>>

(* Mutant of Kept: unhandled_exception forgets the exception. *)
KeptValue(o) == IF o = "value" THEN o ELSE "empty"

(* set_value or set_exception *)
Kept(o) == o

(* return_value, return_void or unhandled_exception *)
SetOutcome(t) ==
    /\ frames[t] = "running"
    /\ frames' = [frames EXCEPT ![t] = "valued"]
    /\ \E o \in {"value", "exception"} : outcome' = [outcome EXCEPT ![t] = Kept(o)]
    /\ UNCHANGED <<schedulerVars, pc, ref, task, home, suspended, got, hasty, undefined>>

(* final_suspend *)
FinalSuspend(t) ==
    /\ frames[t] = "valued"
    /\ frames' = [frames EXCEPT ![t] = "final"]
    /\ UNCHANGED <<schedulerVars, pc, ref, task, home, suspended, outcome, got, hasty, undefined>>

Defined == undefined = {}

TaskNext ==
    /\ Defined
    /\ \/ \E c \in Clients : \/ \E t \in Tasks : Create(c, t)
                             \/ ClientStep(c) \/ Get(c) \/ Destroy(c)
       \/ \E t \in Tasks : Resume(t) \/ SetOutcome(t) \/ FinalSuspend(t)

TaskSpec == TaskInit /\ [][TaskNext]_taskVars

(* Threads go on; a body that has begun ends.  Nothing is assumed about    *)
(* coroutines that are queued.                                             *)
TaskFairness ==
    /\ \A c \in Clients : WF_taskVars(Defined /\ ClientStep(c))
    /\ \A t \in Tasks : WF_taskVars(Defined /\ (SetOutcome(t) \/ FinalSuspend(t)))

-----------------------------------------------------------------------------
(* Properties.                                                             *)

(* If the first use of get_instance does not overlap with another one,     *)
(* there is one scheduler, and all coroutines are given to it.  If also    *)
(* each Task lives until its get() has returned (the life of the handle is *)
(* up to the user, README.md), behaviour is undefined in two windows only: *)
(* between add_coroutine and the initial suspension, and between set_value *)
(* and the final suspension.                                               *)
UndefinedInWindows ==
    ~overlapped =>
        /\ Len(scheduler) <= 1
        /\ \A t \in Tasks : home[t] # 0 => home[t] = instance
        /\ ~hasty => undefined \subseteq {"earlyResume", "earlyDestroy"}

(* get() of a coroutine that a worker has resumed returns. *)
GetReturns ==
    \A c \in Clients :
        (pc[c] = "get" /\ frames[task[c]] = "running") ~> (pc[c] # "get" \/ ~Defined)

=============================================================================
