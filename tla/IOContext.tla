----------------------------- MODULE IOContext ------------------------------
(***************************************************************************)
(* The network part: IOContext and its event loop (include/net/            *)
(* IOContext.hpp), Epoll, Socket and Acceptor (include/net/Epoll.hpp,      *)
(* Socket.hpp), serving the program of the README: one coroutine accepts   *)
(* connections and spawns a session for each; a session reads and writes   *)
(* its socket any number of times, in any order, and closes it.            *)
(*                                                                         *)
(* Coroutines run on the workers of the thread pool, whose FIFO queue is   *)
(* the variable queue.  co_await of async_accept, async_read and           *)
(* async_write queues the child coroutine (Awaitable::await_suspend); the  *)
(* child resumes its parent on the worker it ends on.  As one of the two   *)
(* is always suspended, both are named by the same coroutine here.         *)
(*                                                                         *)
(* The kernel is external: sockets are readable or not, have room in their *)
(* send buffer or not, and epoll is level-triggered.                       *)
(***************************************************************************)
EXTENDS Naturals, Sequences, FiniteSets, Functions

CONSTANTS
    Workers,    \* threads of the pool
    Acceptor,   \* the coroutine of the accept loop
    Sessions,   \* the coroutines spawned for connections
    ListenFd,   \* listenfd_
    Fds,        \* what accept4 may return
    Ops,        \* what sessions do: a subset of {"read", "write"}
    Failures,   \* which of accept, read and write may fail for good
    None,       \* no waiter, no coroutine
    Null        \* the null coroutine handle

Coroutines == Sessions \cup {Acceptor}
AllFds == Fds \cup {ListenFd}

ASSUME IOContextAssumption ==
    /\ Acceptor \notin Sessions /\ ListenFd \notin Fds
    /\ {None, Null} \cap Coroutines = {} /\ None # Null
    /\ None \notin AllFds
    /\ None \notin [handle : Coroutines \cup {Null}, events : SUBSET {"in", "out"}]
    /\ Ops \subseteq {"read", "write"} /\ Ops # {}
    /\ Failures \subseteq {"accept", "read", "write"}

VARIABLES
    waiters,   \* waiters_: None, or the handle and events of the entry
    interest,  \* epoll: the events each registered descriptor waits for
    open,      \* the descriptors registered with epoll
    loop,      \* the thread in run(): in its loop, or returned
    batch,     \* the events_ that run() still has to handle
    stage,     \* running, stopping (in stop()) or stopped
    queue,     \* the queue of the pool: handles to resume
    wpc,       \* where each worker is
    cur,       \* the coroutine that each worker runs
    aw,        \* the FdAwaiter whose await_suspend each worker executes
    doing,     \* what each coroutine does: the operation it is in or at
    inside,    \* whether it has entered that operation
    fdOf,      \* the descriptor of each coroutine
    conns,     \* kernel: connections to accept
    input,     \* kernel: descriptors with something to read, or at EOF
    room,      \* kernel: descriptors with room in the send buffer
    crashed    \* undefined behaviour has ended the program

loopVars == <<loop, batch, stage>>
kernelVars == <<conns, input, room>>
coVars == <<doing, inside, fdOf>>
vars == <<waiters, interest, open, loopVars, queue, wpc, cur, aw, coVars,
          kernelVars, crashed>>

Entry(handle, events) == [handle |-> handle, events |-> events]
Await(fd, events) == [fd |-> fd, events |-> events]

(***************************************************************************)
(* Locations of a worker.                                                  *)
(*   idle      waits for the queue of the pool                             *)
(*   exited    worker() of the pool has returned                           *)
(*   body      in the coroutine, between two operations                    *)
(*   try       about to call accept4, readv or write                       *)
(*   spawn     has accepted a connection, about to co_spawn the session    *)
(*   events    EAGAIN, about to call get_events                            *)
(*   store     in await_suspend, at waiters_[fd] = ..., without the mutex  *)
(*   modify    in await_suspend, at epoll_ctl                              *)
(*   erase     in await_suspend, epoll_ctl failed, at waiters_.erase(fd)   *)
(***************************************************************************)
Running == {"body", "try", "spawn", "events", "store"}
WorkerLocs == Running \cup {"idle", "exited", "modify", "erase"}

-----------------------------------------------------------------------------

(* The acceptor is constructed, accept_loop spawned, and run() has set     *)
(* running_ and started the pool.                                          *)
Init ==
    /\ waiters = [f \in AllFds |-> None]
    /\ interest = [f \in AllFds |-> IF f = ListenFd THEN {"in"} ELSE {}]
    /\ open = {ListenFd}
    /\ loop = "loop" /\ batch = {} /\ stage = "running"
    /\ queue = <<Acceptor>>
    /\ wpc = [w \in Workers |-> "idle"]
    /\ cur = [w \in Workers |-> None]
    /\ aw = [w \in Workers |-> Await(None, {})]
    /\ doing = [c \in Coroutines |-> IF c = Acceptor THEN "accept" ELSE "none"]
    /\ inside = [c \in Coroutines |-> FALSE]
    /\ fdOf = [c \in Coroutines |-> IF c = Acceptor THEN ListenFd ELSE None]
    /\ conns = 0
    /\ input = {}
    /\ room = {}
    /\ crashed = FALSE

-----------------------------------------------------------------------------
(* The kernel and the peers.                                               *)

Readable(f) == IF f = ListenFd THEN conns > 0 ELSE f \in input

(* Level-triggered readiness. *)
ReadyFds ==
    {f \in open : \/ "in" \in interest[f] /\ Readable(f)
                  \/ "out" \in interest[f] /\ f \in room}

Unborn == {s \in Sessions : doing[s] = "none"}

Connect ==
    /\ conns < Cardinality(Unborn)
    /\ conns' = conns + 1
    /\ UNCHANGED <<input, room>>

(* Data or EOF arrives; the peer reads and makes room. *)
Arrive(f) ==
    /\ f \in open \ input /\ input' = input \cup {f}
    /\ UNCHANGED <<conns, room>>

Drain(f) ==
    /\ f \in open \ room /\ room' = room \cup {f}
    /\ UNCHANGED <<conns, input>>

Peer ==
    /\ Connect \/ \E f \in Fds : Arrive(f) \/ Drain(f)
    /\ UNCHANGED <<waiters, interest, open, loopVars, queue, wpc, cur, aw,
                   coVars, crashed>>

-----------------------------------------------------------------------------
(* Coroutines on the workers.                                              *)

Goto(w, from, to) == wpc[w] = from /\ wpc' = [wpc EXCEPT ![w] = to]

(* A worker takes a handle from the queue of the pool and resumes it. *)
Resume(w) ==
    /\ wpc[w] = "idle" /\ queue # <<>> /\ Head(queue) # Null
    /\ queue' = Tail(queue)
    /\ cur' = [cur EXCEPT ![w] = Head(queue)]
    /\ wpc' = [wpc EXCEPT ![w] = IF inside[Head(queue)] THEN "try" ELSE "body"]
    /\ UNCHANGED <<waiters, interest, open, aw, coVars, kernelVars, crashed>>

(* The process is gone, and its threads with it. *)
Crash ==
    /\ crashed' = TRUE
    /\ waiters' = [f \in AllFds |-> None]
    /\ loop' = "returned" /\ batch' = {} /\ stage' = "stopped"
    /\ queue' = <<>>
    /\ wpc' = [w \in Workers |-> "exited"]
    /\ cur' = [w \in Workers |-> None]
    /\ aw' = [w \in Workers |-> Await(None, {})]
    /\ UNCHANGED <<interest, open, coVars, kernelVars>>

(* h.resume() with a null handle. *)
ResumeNull(w) ==
    /\ wpc[w] = "idle" /\ queue # <<>> /\ Head(queue) = Null
    /\ Crash

(* co_await of an operation: the child coroutine goes to the pool. *)
BeginOp(w) ==
    /\ Goto(w, "body", "idle")
    /\ doing[cur[w]] \in Ops \cup {"accept"}
    /\ inside' = [inside EXCEPT ![cur[w]] = TRUE]
    /\ queue' = Append(queue, cur[w])
    /\ cur' = [cur EXCEPT ![w] = None]
    /\ UNCHANGED <<waiters, interest, open, aw, doing, fdOf, kernelVars,
                   crashed>>

(* co_return from the operation: back in the parent, which goes on with    *)
(* the operation next.                                                     *)
EndOp(c, next) ==
    /\ inside' = [inside EXCEPT ![c] = FALSE]
    /\ doing' = [doing EXCEPT ![c] = next]

(* accept4 succeeds, the constructor of Socket adds the descriptor.  s is  *)
(* the session that the accept loop is going to spawn for it.              *)
Accept(w, s, f) ==
    /\ Goto(w, "try", "spawn")
    /\ cur[w] = Acceptor /\ conns > 0
    /\ s \in Unborn /\ f \in Fds \ open
    /\ conns' = conns - 1
    /\ open' = open \cup {f}
    /\ interest' = [interest EXCEPT ![f] = {"in"}]
    /\ room' = room \cup {f} /\ input' = input \ {f}
    /\ \E op \in Ops : doing' = [doing EXCEPT ![s] = op]
    /\ fdOf' = [fdOf EXCEPT ![s] = f]
    /\ aw' = [aw EXCEPT ![w] = Await(f, {})]
    /\ UNCHANGED <<waiters, queue, cur, inside, crashed>>

(* ctx->co_spawn(handle_client(std::move(client))) *)
Spawn(w) ==
    /\ Goto(w, "spawn", "body")
    /\ \E s \in Sessions :
         /\ fdOf[s] = aw[w].fd /\ doing[s] # "closed"
         /\ queue' = Append(queue, s)
    /\ inside' = [inside EXCEPT ![Acceptor] = FALSE]
    /\ aw' = [aw EXCEPT ![w] = Await(None, {})]
    /\ UNCHANGED <<waiters, interest, open, cur, doing, fdOf, kernelVars,
                   crashed>>

After == Ops \cup {"close"}

(* async_read: readFd returns n >= 0. *)
Read(w, next) ==
    /\ Goto(w, "try", "body")
    /\ doing[cur[w]] = "read" /\ fdOf[cur[w]] \in input
    /\ input' = input \ {fdOf[cur[w]]}
    /\ EndOp(cur[w], next)
    /\ UNCHANGED <<waiters, interest, open, queue, cur, aw, fdOf, conns, room,
                   crashed>>

(* async_write: writeFd returns n >= 0, and may have filled the buffer. *)
Write(w, next) ==
    /\ Goto(w, "try", "body")
    /\ doing[cur[w]] = "write" /\ fdOf[cur[w]] \in room
    /\ room' \in {room, room \ {fdOf[cur[w]]}}
    /\ EndOp(cur[w], next)
    /\ UNCHANGED <<waiters, interest, open, queue, cur, aw, fdOf, conns, input,
                   crashed>>

(* EAGAIN in async_accept: await_fd(listenfd_, EPOLLIN). *)
AcceptAgain(w) ==
    /\ Goto(w, "try", "store")
    /\ cur[w] = Acceptor /\ conns = 0
    /\ aw' = [aw EXCEPT ![w] = Await(ListenFd, {"in"})]
    /\ UNCHANGED <<waiters, interest, open, queue, cur, coVars, kernelVars,
                   crashed>>

(* accept4, readv or write fails with another error, or there is no free   *)
(* descriptor: the exception ends the operation and then the coroutine,    *)
(* whose frame, with the Socket in it, nobody destroys.                    *)
Fail(w) ==
    /\ Goto(w, "try", "idle")
    /\ \/ doing[cur[w]] \in Failures
       \/ cur[w] = Acceptor /\ conns > 0 /\ Fds \subseteq open
    /\ doing' = [doing EXCEPT ![cur[w]] = "failed"]
    /\ cur' = [cur EXCEPT ![w] = None]
    /\ UNCHANGED <<waiters, interest, open, queue, aw, inside, fdOf,
                   kernelVars, crashed>>

Wanted(c) == IF doing[c] = "read" THEN "in" ELSE "out"

(* EAGAIN in async_read or async_write. *)
OpAgain(w) ==
    /\ Goto(w, "try", "events")
    /\ \/ doing[cur[w]] = "read" /\ fdOf[cur[w]] \notin input
       \/ doing[cur[w]] = "write" /\ fdOf[cur[w]] \notin room
    /\ UNCHANGED <<waiters, interest, open, queue, cur, aw, coVars, kernelVars,
                   crashed>>

(* get_events(fd) | event: operator[] makes an entry when there is none. *)
GetEvents(w) ==
    LET f == fdOf[cur[w]]
        e == IF waiters[f] = None THEN Entry(Null, {}) ELSE waiters[f]
    IN  /\ Goto(w, "events", "store")
        /\ waiters' = [waiters EXCEPT ![f] = e]
        /\ aw' = [aw EXCEPT ![w] = Await(f, e.events \cup {Wanted(cur[w])})]
        /\ UNCHANGED <<interest, open, queue, cur, coVars, kernelVars, crashed>>

(* Mutant of Store: the waiter is not saved. *)
StoreNothing(w) ==
    /\ Goto(w, "store", "modify")
    /\ UNCHANGED <<waiters, interest, open, queue, cur, aw, coVars, kernelVars,
                   crashed>>

(* await_suspend: waiters_[fd] = Waiter{awaiting, events}.  From here on   *)
(* another worker may run the coroutine.                                   *)
Store(w) ==
    /\ Goto(w, "store", "modify")
    /\ waiters' = [waiters EXCEPT ![aw[w].fd] = Entry(cur[w], aw[w].events)]
    /\ UNCHANGED <<interest, open, queue, cur, aw, coVars, kernelVars, crashed>>

(* await_suspend: ev_->modify(fd, events), then back to the pool. *)
Modify(w) ==
    /\ Goto(w, "modify", "idle")
    /\ aw[w].fd \in open
    /\ interest' = [interest EXCEPT ![aw[w].fd] = aw[w].events]
    /\ cur' = [cur EXCEPT ![w] = None]
    /\ aw' = [aw EXCEPT ![w] = Await(None, {})]
    /\ UNCHANGED <<waiters, open, queue, coVars, kernelVars, crashed>>

(* await_suspend: epoll_ctl fails and the waiter is removed. *)
ModifyFails(w) ==
    /\ Goto(w, "modify", "erase")
    /\ aw[w].fd \notin open
    /\ UNCHANGED <<waiters, interest, open, queue, cur, aw, coVars, kernelVars,
                   crashed>>

Erase(w) ==
    /\ Goto(w, "erase", "idle")
    /\ waiters' = [waiters EXCEPT ![aw[w].fd] = None]
    /\ cur' = [cur EXCEPT ![w] = None]
    /\ aw' = [aw EXCEPT ![w] = Await(None, {})]
    /\ UNCHANGED <<interest, open, queue, coVars, kernelVars, crashed>>

(* Socket::close: remove_fd and ::close; the session ends. *)
Close(w) ==
    /\ Goto(w, "body", "idle")
    /\ doing[cur[w]] = "close"
    /\ LET f == fdOf[cur[w]]
       IN  /\ waiters' = [waiters EXCEPT ![f] = None]
           /\ open' = open \ {f}
           /\ interest' = [interest EXCEPT ![f] = {}]
           /\ input' = input \ {f} /\ room' = room \ {f}
    /\ doing' = [doing EXCEPT ![cur[w]] = "closed"]
    /\ cur' = [cur EXCEPT ![w] = None]
    /\ UNCHANGED <<queue, aw, inside, fdOf, conns, crashed>>

Step(w) ==
    /\ \/ Resume(w) \/ BeginOp(w)
       \/ \E s \in Sessions, f \in Fds : Accept(w, s, f)
       \/ Spawn(w)
       \/ \E next \in After : Read(w, next) \/ Write(w, next)
       \/ Fail(w) \/ AcceptAgain(w) \/ OpAgain(w) \/ GetEvents(w) \/ Store(w)
       \/ Modify(w) \/ ModifyFails(w) \/ Erase(w) \/ Close(w)
    /\ UNCHANGED loopVars

WorkerStep(w) == Step(w) \/ ResumeNull(w)

-----------------------------------------------------------------------------
(* The event loop.                                                         *)

(* epoll_wait, without a timeout, returns the ready descriptors. *)
Wait ==
    /\ loop = "loop" /\ batch = {} /\ ReadyFds # {}
    /\ batch' = ReadyFds
    /\ UNCHANGED <<waiters, queue, loop>>

(* Mutant of Handled: the loop does not look at running_. *)
HandledForever(f) == f \in batch /\ batch' = batch \ {f} /\ UNCHANGED loop

(* After the last event of the batch: while (running_.load()). *)
Handled(f) ==
    /\ f \in batch /\ batch' = batch \ {f}
    /\ loop' = IF batch' = {} /\ stage # "running" THEN "returned" ELSE loop

NoWaiter(f) ==
    /\ Handled(f) /\ waiters[f] = None
    /\ UNCHANGED <<waiters, queue>>

(* Mutants of Dispatch: the entry stays in waiters_; the task is not added. *)
DispatchKeep(f) ==
    /\ Handled(f) /\ waiters[f] # None
    /\ queue' = Append(queue, waiters[f].handle)
    /\ UNCHANGED waiters

DispatchDrop(f) ==
    /\ Handled(f) /\ waiters[f] # None
    /\ waiters' = [waiters EXCEPT ![f] = None]
    /\ UNCHANGED queue

(* find, erase and executor_->addTask, under waitter_mtx_. *)
Dispatch(f) ==
    /\ Handled(f) /\ waiters[f] # None
    /\ queue' = Append(queue, waiters[f].handle)
    /\ waiters' = [waiters EXCEPT ![f] = None]

LoopStep ==
    /\ Wait \/ \E f \in AllFds : NoWaiter(f) \/ Dispatch(f)
    /\ UNCHANGED <<stage, interest, open, wpc, cur, aw, coVars, kernelVars,
                   crashed>>

-----------------------------------------------------------------------------
(* stop(), called by a thread that is neither the loop nor a worker.       *)

StopTo(from, to) == stage = from /\ stage' = to

(* running_.store(false) and the same in executor_->stop(), which wakes    *)
(* the workers; in between nobody can tell, as no worker need return yet.  *)
Stop == StopTo("running", "stopping") /\ UNCHANGED <<wpc, queue>>

(* worker() of the pool returns when the queue is empty ... *)
WorkerExits(w) ==
    /\ stage = "stopping" /\ UNCHANGED stage
    /\ queue = <<>> /\ UNCHANGED queue
    /\ Goto(w, "idle", "exited")

(* ... and when all have returned, the queue is cleared. *)
Joined ==
    /\ StopTo("stopping", "stopped")
    /\ \A w \in Workers : wpc[w] = "exited"
    /\ queue' = <<>> /\ UNCHANGED wpc

notStopped == <<loop, batch, waiters, interest, open, cur, aw, coVars,
              kernelVars, crashed>>

Stopping ==
    /\ Joined \/ \E w \in Workers : WorkerExits(w)
    /\ UNCHANGED notStopped

StopStep == (Stop /\ UNCHANGED notStopped) \/ Stopping

-----------------------------------------------------------------------------
(* Undefined behaviour: await_suspend writes waiters_ without the mutex    *)
(* while another thread may use it; and it reads its FdAwaiter, which      *)
(* lives in the frame of the coroutine, after another worker has resumed   *)
(* the coroutine.  Either nothing comes of it or the program ends.         *)

Unlocked == {w \in Workers : wpc[w] \in {"store", "erase"}}
UsesMap == {w \in Workers : \/ wpc[w] \in {"store", "erase", "events"}
                            \/ wpc[w] = "body" /\ doing[cur[w]] = "close"}

Race == \E w \in Unlocked : batch # {} \/ UsesMap # {w}
Stale(w) ==
    /\ wpc[w] \in {"modify", "erase"}
    /\ waiters[aw[w].fd] # Entry(cur[w], aw[w].events)
    /\ cur[w] \notin Range(queue)

Undefined ==
    /\ Race \/ \E w \in Workers : Stale(w)
    /\ Crash

Next ==
    /\ ~crashed
    /\ \/ Peer \/ LoopStep \/ StopStep \/ Undefined
       \/ \E w \in Workers : WorkerStep(w)

Spec == Init /\ [][Next]_vars

(* The loop, each worker and the thread in stop() are scheduled; nobody    *)
(* need call stop().                                                       *)
FairSpec ==
    /\ Spec
    /\ WF_vars(~crashed /\ LoopStep)
    /\ WF_vars(~crashed /\ Stopping)
    /\ \A w \in Workers : WF_vars(~crashed /\ WorkerStep(w))

-----------------------------------------------------------------------------
(* Properties.                                                             *)

Events == {"in", "out"}

TypeOK ==
    /\ waiters \in [AllFds -> {None} \cup [handle : Coroutines \cup {Null},
                                           events : SUBSET Events]]
    /\ interest \in [AllFds -> SUBSET Events]
    /\ open \subseteq AllFds /\ ListenFd \in open
    /\ loop \in {"loop", "returned"} /\ batch \subseteq AllFds
    /\ stage \in {"running", "stopping", "stopped"}
    /\ queue \in Seq(Coroutines \cup {Null})
    /\ wpc \in [Workers -> WorkerLocs]
    /\ cur \in [Workers -> Coroutines \cup {None}]
    /\ aw \in [Workers -> [fd : AllFds \cup {None}, events : SUBSET Events]]
    /\ doing \in [Coroutines -> Ops \cup {"none", "accept", "close", "closed",
                                         "failed"}]
    /\ inside \in [Coroutines -> BOOLEAN]
    /\ fdOf \in [Coroutines -> AllFds \cup {None}]
    /\ conns \in Nat
    /\ input \subseteq open /\ room \subseteq open
    /\ crashed \in BOOLEAN

(* Who has the handle of a coroutine and may run it: places in the queue   *)
(* of the pool, entries of waiters_, workers.                              *)
InQueue(c) == {i \in DOMAIN queue : queue[i] = c}
Waits(c) == {f \in AllFds : waiters[f] # None /\ waiters[f].handle = c}
Runs(c) == {w \in Workers : wpc[w] \in Running /\ cur[w] = c}

(* A coroutine is never resumed twice for one suspension, nor after its    *)
(* end: its handle is in the queue, in waiters_ or on a worker, in one of  *)
(* them and once, however late await_suspend finishes, also when the       *)
(* descriptor has been closed and given to another session; and an entry   *)
(* of waiters_ is for the descriptor of its coroutine.                     *)
OneHolder ==
    /\ TypeOK
    /\ \A c \in Coroutines :
         LET n == Cardinality(InQueue(c)) + Cardinality(Waits(c))
                    + Cardinality(Runs(c))
         IN  n <= IF doing[c] \in {"none", "closed", "failed"} THEN 0 ELSE 1
    /\ \A c \in Coroutines : Waits(c) \subseteq {fdOf[c]} \cap open

(* The context is being stopped, or the program has ended. *)
Over == crashed \/ stage # "running"

(* The loop never loses the coroutine that accepts: connections that have  *)
(* arrived are accepted, unless accept4 fails with an error, which ends    *)
(* the coroutine.                                                          *)
ConnectionServed ==
    (conns > 0) ~> (conns = 0 \/ Over \/ doing[Acceptor] = "failed")

(* Comment in await_suspend: makes sure that the events watched by epoll   *)
(* agree with the request.  At least once await_suspend has finished.      *)
EventsMatch ==
    \A f \in open :
        \/ waiters[f] = None
        \/ waiters[f].handle = Null
        \/ \E w \in Workers :
             wpc[w] \in {"store", "modify", "erase"} /\ aw[w].fd = f
        \/ interest[f] = waiters[f].events

(* Comment in await_suspend: when epoll_ctl fails the waiter is removed    *)
(* and its coroutine cannot go on.  That is, the one that called it.       *)
ErasesOwnWaiter ==
    \A w \in Workers :
        wpc[w] = "erase" =>
            \/ waiters[aw[w].fd] = None
            \/ waiters[aw[w].fd].handle \in {cur[w], Null}

(* A session in async_read reads what has arrived, as long as late calls   *)
(* of await_suspend neither change the events of another wait nor erase    *)
(* its waiter: nothing else makes the loop forget a session.               *)
WaitsForInput(s) == doing[s] = "read" /\ fdOf[s] \in input

ReadServed ==
    [](EventsMatch /\ ErasesOwnWaiter) =>
        \A s \in Sessions :
            WaitsForInput(s) ~> (~WaitsForInput(s) \/ Over)

(* After stop() run() returns, if a descriptor is or becomes ready: as     *)
(* epoll_wait has no timeout and stop() does not wake it, nothing else     *)
(* makes it return.                                                        *)
RunReturns ==
    (stage # "running" /\ ReadyFds # {})
        ~> (loop = "returned" \/ ReadyFds = {} \/ crashed)

=============================================================================
