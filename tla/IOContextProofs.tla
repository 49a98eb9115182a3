-------------------------- MODULE IOContextProofs ---------------------------
(***************************************************************************)
(* Proofs about IOContext, for any numbers of workers, sessions and        *)
(* descriptors.  A handle is in the queue, in waiters_ or on a worker; one *)
(* lemma says that the invariant stays when handles only leave, one that   *)
(* it stays when one handle moves, and every action but the creation of a  *)
(* session is one or the other.                                            *)
(***************************************************************************)
EXTENDS IOContext, SequenceFacts, FiniteSetTheorems, TLAPS

(* A coroutine that has begun and not ended. *)
Alive(c) == doing[c] \notin {"none", "closed", "failed"}

(* The socket of a coroutine is open from accept4 to close, also when the  *)
(* coroutine has failed, and no other coroutine has the same descriptor.   *)
HasSocket(c) == doing[c] \notin {"none", "closed"}

SocketInv ==
    /\ doing[Acceptor] \in {"accept", "failed"} /\ fdOf[Acceptor] = ListenFd
    /\ \A s \in Sessions :
         /\ doing[s] # "accept"
         /\ doing[s] = "none" => fdOf[s] = None
         /\ doing[s] # "none" => fdOf[s] \in Fds
         /\ HasSocket(s) => fdOf[s] \in open
    /\ \A s, t \in Sessions :
         HasSocket(s) /\ HasSocket(t) /\ fdOf[s] = fdOf[t] => s = t

(* The coroutine c is on worker w, and may go on. *)
RunsOn(w, c) == wpc[w] \in Running /\ cur[w] = c

(* A worker runs a coroutine that is alive, and no other worker does. *)
RunInv ==
    /\ \A w \in Workers :
         wpc[w] \in Running => cur[w] \in Coroutines /\ Alive(cur[w])
    /\ \A v, w \in Workers :
         wpc[v] \in Running /\ wpc[w] \in Running /\ cur[v] = cur[w] => v = w

(* Null, which get_events may bring to the queue, may be there twice; a    *)
(* coroutine is there once, is alive, and runs nowhere.                    *)
Distinct(q) ==
    \A i, j \in DOMAIN q : q[i] = q[j] /\ q[i] # Null => i = j

QueueInv ==
    /\ Distinct(queue)
    /\ \A c \in Range(queue) : c # Null =>
         Alive(c) /\ \A w \in Workers : ~RunsOn(w, c)

(* An entry of waiters_ is for the descriptor of its coroutine, which is   *)
(* alive, runs nowhere and is not queued.                                  *)
WaiterInv ==
    \A f \in AllFds : waiters[f] # None =>
        LET c == waiters[f].handle
        IN  c # Null =>
              /\ Alive(c) /\ fdOf[c] = f
              /\ c \notin Range(queue)
              /\ \A w \in Workers : ~RunsOn(w, c)

(* await_suspend stores the waiter at the descriptor of its coroutine; and *)
(* between accept4 and co_spawn nobody has the handle of the new session.  *)
AwaitInv ==
    \A w \in Workers :
        /\ wpc[w] = "store" => aw[w].fd = fdOf[cur[w]]
        /\ wpc[w] = "spawn" =>
             /\ cur[w] = Acceptor
             /\ aw[w].fd \in Fds
             /\ \A s \in Sessions : fdOf[s] = aw[w].fd /\ doing[s] # "closed" =>
                  /\ Alive(s)
                  /\ s \notin Range(queue)
                  /\ \A f \in AllFds : waiters[f] # None => waiters[f].handle # s
                  /\ \A v \in Workers : ~RunsOn(v, s)

(* The inductive invariant. *)
IOInv ==
    TypeOK /\ SocketInv /\ RunInv /\ QueueInv /\ WaiterInv /\ AwaitInv

(* Zenon proves most leaves; the others name the SMT solver.               *)
USE ZenonT(30)

-----------------------------------------------------------------------------
(* The queue of the pool.                                                  *)

(* push of a handle that is not queued, or of Null. *)
LEMMA Push ==
    ASSUME NEW S, NEW q \in Seq(S), NEW x \in S,
           Distinct(q), x = Null \/ x \notin Range(q)
    PROVE  /\ Append(q, x) \in Seq(S)
           /\ Range(Append(q, x)) = Range(q) \cup {x}
           /\ Distinct(Append(q, x))
<1> DEFINE r == Append(q, x)
           n == Len(q)
<1>1. /\ n \in Nat /\ DOMAIN q = 1 .. n /\ DOMAIN r = 1 .. n + 1
      /\ r[n + 1] = x /\ \A i \in 1 .. n : r[i] = q[i]
  BY SMTT(30)
<1>2. r \in Seq(S) /\ Range(r) = Range(q) \cup {x}
  BY PushElement, SMTT(30)
<1> HIDE DEF r, n
<1>3. ASSUME NEW i \in 1 .. n + 1, NEW j \in 1 .. n + 1, r[i] = r[j], r[i] # Null
      PROVE  i = j
  <2>1. CASE i \in 1 .. n /\ j \in 1 .. n
    BY <1>1, <1>3, <2>1 DEF Distinct
  <2>2. CASE i \in 1 .. n /\ j = n + 1
    BY <1>1, <1>3, <2>2 DEF Range
  <2>3. CASE i = n + 1 /\ j \in 1 .. n
    BY <1>1, <1>3, <2>3 DEF Range
  <2> QED
    BY <1>1, <2>1, <2>2, <2>3, SMTT(30)
<1> QED
  BY <1>1, <1>2, <1>3 DEF Distinct, r

(* front and pop of a coroutine. *)
LEMMA Pop ==
    ASSUME NEW S, NEW q \in Seq(S), q # <<>>, Distinct(q), Head(q) # Null
    PROVE  /\ Head(q) \in S /\ Head(q) \in Range(q)
           /\ Tail(q) \in Seq(S)
           /\ Range(Tail(q)) \subseteq Range(q) \ {Head(q)}
           /\ Distinct(Tail(q))
<1> DEFINE r == Tail(q)
           n == Len(q)
<1>1. /\ r \in Seq(S) /\ n \in Nat \ {0}
      /\ DOMAIN q = 1 .. n /\ DOMAIN r = 1 .. n - 1
      /\ \A i \in 1 .. n - 1 : r[i] = q[i + 1]
      /\ Head(q) = q[1] /\ q[1] \in S
  BY SMTT(30)
<1> HIDE DEF r, n
<1>2. \A i \in 1 .. n - 1 : i + 1 \in 1 .. n /\ i + 1 # 1 /\ 1 \in 1 .. n
  BY <1>1, SMTT(30)
<1>3. ASSUME NEW y \in Range(r) PROVE y \in Range(q) \ {q[1]}
  <2>1. PICK i \in 1 .. n - 1 : r[i] = y
    BY <1>1, <1>3 DEF Range
  <2>2. q[i + 1] = y /\ q[i + 1] # q[1]
    BY <1>1, <1>2, <2>1 DEF Distinct
  <2> QED
    BY <1>1, <1>2, <2>2 DEF Range
<1>4. ASSUME NEW i \in 1 .. n - 1, NEW j \in 1 .. n - 1, r[i] = r[j], r[i] # Null
      PROVE  i = j
  <2>1. i + 1 = j + 1
    BY <1>1, <1>2, <1>4 DEF Distinct
  <2> QED
    BY <1>1, <2>1, SMTT(30)
<1> QED
  BY <1>1, <1>3, <1>4, SMTT(30) DEF Distinct, Range, r

-----------------------------------------------------------------------------
(* Types.                                                                  *)

(* At first the handle of the acceptor is queued, and no other exists. *)
LEMMA InitInv == Init => IOInv
<1> SUFFICES ASSUME Init PROVE IOInv
  OBVIOUS
<1> USE IOContextAssumption DEF Init, Coroutines, AllFds
<1>1. TypeOK
  <2>1. queue \in Seq(Coroutines \cup {Null})
    BY SMTT(30)
  <2>2. aw \in [Workers -> [fd : AllFds \cup {None}, events : SUBSET Events]]
    BY DEF Await
  <2>3. interest \in [AllFds -> SUBSET Events]
    BY DEF Events
  <2>4. /\ waiters \in [AllFds -> {None}] /\ crashed \in BOOLEAN
        /\ doing \in [Coroutines -> {"none", "accept"}]
        /\ inside \in [Coroutines -> BOOLEAN]
        /\ fdOf \in [Coroutines -> AllFds \cup {None}]
    OBVIOUS
  <2> QED
    BY <2>1, <2>2, <2>3, <2>4 DEF TypeOK, WorkerLocs, Running
<1>2. queue = <<Acceptor>> /\ Range(queue) = {Acceptor} /\ Distinct(queue)
  BY SMTT(30) DEF Range, Distinct
<1> QED
  BY <1>1, <1>2 DEF IOInv, SocketInv, HasSocket, RunInv, QueueInv, WaiterInv,
     AwaitInv, Alive, RunsOn, Running

(* Entries and awaiters. *)
LEMMA Records ==
    /\ \A c \in Coroutines \cup {Null}, e \in SUBSET Events :
         Entry(c, e) \in [handle : Coroutines \cup {Null}, events : SUBSET Events]
    /\ \A f \in AllFds \cup {None}, e \in SUBSET Events :
         Await(f, e) \in [fd : AllFds \cup {None}, events : SUBSET Events]
    /\ \A c, e : Entry(c, e).handle = c /\ Entry(c, e).events = e
    /\ \A f, e : Await(f, e).fd = f /\ Await(f, e).events = e
  BY DEF Entry, Await

(* Undefined behaviour ends the program in a state that has nothing left. *)
LEMMA CrashStep ==
    ASSUME IOInv, Crash
    PROVE  IOInv'
<1> USE IOContextAssumption DEF IOInv, Crash
<1>1. TypeOK'
  <2>1. aw' \in [Workers -> [fd : AllFds \cup {None}, events : SUBSET Events]]
    BY DEF Await
  <2>2. /\ waiters' \in [AllFds -> {None}] /\ crashed' \in BOOLEAN
        /\ queue' \in Seq(Coroutines \cup {Null})
    BY SMTT(30)
  <2> QED
    BY <2>1, <2>2 DEF TypeOK, WorkerLocs, Running, coVars, kernelVars
<1>2. SocketInv'
  BY DEF SocketInv, HasSocket, coVars
<1>3. queue' = <<>> /\ Range(queue') = {} /\ Distinct(queue')
  BY EmptyQueue, SMTT(30) DEF Distinct
<1>4. \A w \in Workers : wpc'[w] = "exited"
  OBVIOUS
<1> HIDE DEF Crash
<1>5. RunInv' /\ QueueInv'
  BY <1>3, <1>4 DEF RunInv, QueueInv, Running
<1>6. WaiterInv' /\ AwaitInv'
  BY <1>4 DEF WaiterInv, AwaitInv, Crash
<1> QED
  BY <1>1, <1>2, <1>5, <1>6

-----------------------------------------------------------------------------
(* Steps in which no handle comes to a new place.                          *)

(* Handles may leave a worker, the queue or waiters_, and Null may come    *)
(* anywhere.  A coroutine ends only on the worker that runs it, and leaves *)
(* that worker.                                                            *)
Released ==
    /\ fdOf' = fdOf
    /\ \A c \in Coroutines :
         /\ doing[c] = "closed" => doing'[c] = "closed"
         /\ Alive(c) /\ ~Alive(c)' =>
              \E w \in Workers : RunsOn(w, c) /\ ~RunsOn(w, c)'
    /\ \A w \in Workers :
         /\ wpc'[w] \in Running => wpc[w] \in Running /\ cur'[w] = cur[w]
         /\ wpc'[w] = "store" => aw'[w].fd = fdOf[cur[w]]
         /\ wpc'[w] = "spawn" => wpc[w] = "spawn" /\ aw'[w] = aw[w]
    /\ Distinct(queue') /\ Range(queue') \subseteq Range(queue) \cup {Null}
    /\ \A f \in AllFds : \/ waiters'[f] \in {waiters[f], None}
                         \/ waiters'[f].handle = Null

(* A step that only lets handles go keeps the invariant. *)
LEMMA ReleaseStep ==
    ASSUME IOInv, TypeOK', SocketInv', Released
    PROVE  IOInv'
<1> USE IOContextAssumption DEF IOInv
<1>t. /\ \A w \in Workers : wpc[w] \in Running => cur[w] \in Coroutines
      /\ \A c \in Range(queue) : c # Null => c \in Coroutines
      /\ \A f \in AllFds : waiters[f] # None /\ waiters[f].handle # Null =>
           waiters[f].handle \in Coroutines
  BY SMTT(30) DEF RunInv, TypeOK, Range
<1>r. \A w \in Workers, c \in Coroutines : RunsOn(w, c)' => RunsOn(w, c)
  BY DEF Released, RunsOn
<1>1. ASSUME NEW c \in Coroutines, Alive(c), ~Alive(c)'
      PROVE  /\ \A w \in Workers : ~RunsOn(w, c)'
             /\ c \notin Range(queue)
             /\ \A f \in AllFds : waiters[f] # None => waiters[f].handle # c
             /\ \E w \in Workers : RunsOn(w, c)
  <2>1. PICK w \in Workers : RunsOn(w, c) /\ ~RunsOn(w, c)'
    BY <1>1 DEF Released
  <2>2. \A v \in Workers : RunsOn(v, c) => v = w
    BY <2>1 DEF RunInv, RunsOn
  <2>3. c # Null
    BY DEF Coroutines
  <2> QED
    BY <1>r, <2>1, <2>2, <2>3, SMTT(30) DEF QueueInv, WaiterInv
<1>2. RunInv'
  <2>1. ASSUME NEW w \in Workers, wpc'[w] \in Running
        PROVE  cur'[w] \in Coroutines /\ Alive(cur[w])' /\ cur'[w] = cur[w]
    <3>1. wpc[w] \in Running /\ cur'[w] = cur[w] /\ cur[w] \in Coroutines
      BY <1>t, <2>1 DEF Released
    <3>2. Alive(cur[w]) /\ RunsOn(w, cur[w])'
      BY <2>1, <3>1 DEF RunInv, RunsOn
    <3>3. Alive(cur[w])'
      BY <1>1, <3>1, <3>2 DEF RunsOn
    <3> QED
      BY <3>1, <3>3
  <2> QED
    BY <2>1 DEF RunInv, Alive, Released
<1>3. QueueInv'
  <2>1. ASSUME NEW c \in Range(queue'), c # Null
        PROVE  Alive(c)' /\ \A w \in Workers : ~RunsOn(w, c)'
    <3>1. c \in Range(queue) /\ c \in Coroutines
      BY <1>t, <2>1 DEF Released
    <3> QED
      BY <1>1, <1>r, <2>1, <3>1 DEF QueueInv
  <2> QED
    BY <2>1 DEF QueueInv, Released
<1>4. WaiterInv'
  <2>1. ASSUME NEW f \in AllFds, waiters'[f] # None, NEW c,
               c = waiters'[f].handle, c # Null
        PROVE  /\ Alive(c)' /\ fdOf'[c] = f
               /\ c \notin Range(queue')
               /\ \A w \in Workers : ~RunsOn(w, c)'
    <3>1. waiters'[f] = waiters[f]
      BY <2>1 DEF Released
    <3>2. c \in Coroutines
      BY <1>t, <2>1, <3>1
    <3>3. Alive(c) /\ fdOf[c] = f /\ c \notin Range(queue)
          /\ \A w \in Workers : ~RunsOn(w, c)
      BY <2>1, <3>1, <3>2 DEF WaiterInv
    <3>4. Alive(c)' /\ \A w \in Workers : ~RunsOn(w, c)'
      BY <1>1, <1>r, <3>2, <3>3
    <3> QED
      BY <3>2, <3>3, <3>4 DEF Released
  <2> QED
    BY <2>1 DEF WaiterInv, Alive, RunsOn
<1>5. AwaitInv'
  <2>1. ASSUME NEW w \in Workers, wpc'[w] = "store"
        PROVE  aw'[w].fd = fdOf'[cur'[w]]
    BY <2>1 DEF Released, Running
  <2>2. ASSUME NEW w \in Workers, wpc'[w] = "spawn"
        PROVE  /\ wpc[w] = "spawn" /\ aw'[w] = aw[w] /\ cur'[w] = cur[w]
               /\ cur[w] = Acceptor /\ aw[w].fd \in Fds
    BY <2>2 DEF Released, Running, AwaitInv
  <2>3. ASSUME NEW w \in Workers, wpc'[w] = "spawn", NEW s \in Sessions,
               fdOf'[s] = aw'[w].fd, doing'[s] # "closed"
        PROVE  /\ Alive(s)' /\ s \notin Range(queue')
               /\ \A f \in AllFds : waiters'[f] # None => waiters'[f].handle # s
               /\ \A v \in Workers : ~RunsOn(v, s)'
    <3>1. s \in Coroutines /\ s # Null
      BY DEF Coroutines
    <3>2. fdOf[s] = aw[w].fd /\ doing[s] # "closed"
      BY <2>2, <2>3, <3>1 DEF Released
    <3>3. /\ Alive(s) /\ s \notin Range(queue)
          /\ \A f \in AllFds : waiters[f] # None => waiters[f].handle # s
          /\ \A v \in Workers : ~RunsOn(v, s)
      BY <2>2, <2>3, <3>2 DEF AwaitInv
    <3> QED
      BY <1>1, <1>r, <3>1, <3>3 DEF Released
  <2> QED
    BY <2>1, <2>2, <2>3, SMTT(30) DEF AwaitInv, Alive, RunsOn
<1> QED
  BY <1>2, <1>3, <1>4, <1>5

(* The kernel, epoll_wait and stop() move no handle, except that the       *)
(* queue is cleared when the workers are gone.                             *)
LEMMA OutsideStep ==
    ASSUME IOInv,
           \/ Peer
           \/ LoopStep /\ ~\E f \in AllFds : Dispatch(f)
           \/ StopStep
    PROVE  IOInv'
<1> USE IOContextAssumption
<1>1. CASE Peer
  <2> USE <1>1 DEF Peer
  <2>1. conns' \in Nat /\ input' \subseteq open /\ room' \subseteq open
    BY SMTT(30) DEF IOInv, TypeOK, Connect, Arrive, Drain
  <2>2. TypeOK'
    BY <2>1 DEF IOInv, TypeOK, loopVars, coVars
  <2>3. SocketInv'
    BY DEF IOInv, SocketInv, HasSocket, coVars
  <2>4. Released
    BY DEF IOInv, AwaitInv, QueueInv, Released, Alive, coVars
  <2> QED
    BY <2>2, <2>3, <2>4, ReleaseStep
<1>2. CASE LoopStep /\ ~\E f \in AllFds : Dispatch(f)
  <2>1. /\ UNCHANGED <<stage, interest, open, wpc, cur, aw, coVars,
                       kernelVars, crashed, waiters, queue>>
        /\ batch' \subseteq AllFds /\ loop' \in {"loop", "returned"}
    BY <1>2 DEF IOInv, TypeOK, LoopStep, Wait, NoWaiter, Handled, ReadyFds
  <2>2. TypeOK'
    BY <2>1 DEF IOInv, TypeOK, coVars, kernelVars
  <2>3. SocketInv'
    BY <2>1 DEF IOInv, SocketInv, HasSocket, coVars
  <2>4. Released
    BY <2>1 DEF IOInv, AwaitInv, QueueInv, Released, Alive, coVars
  <2> QED
    BY <2>2, <2>3, <2>4, ReleaseStep
<1>3. CASE StopStep
  <2>1. /\ UNCHANGED notStopped
        /\ stage' \in {"running", "stopping", "stopped"}
        /\ queue' \in {queue, <<>>}
        /\ \/ wpc' = wpc
           \/ \E w \in Workers : wpc' = [wpc EXCEPT ![w] = "exited"]
    BY <1>3 DEF IOInv, TypeOK, StopStep, Stop, StopTo, Stopping, Joined,
       WorkerExits, Goto
  <2> USE <2>1 DEF notStopped
  <2>2. /\ queue' \in Seq(Coroutines \cup {Null})
        /\ Distinct(queue') /\ Range(queue') \subseteq Range(queue)
    <3>1. CASE queue' = queue
      BY <3>1 DEF IOInv, TypeOK, QueueInv
    <3>2. CASE queue' = <<>>
      BY <3>2, EmptyQueue, SMTT(30) DEF Distinct
    <3> QED
      BY <3>1, <3>2
  <2>3. /\ wpc' \in [Workers -> WorkerLocs]
        /\ \A w \in Workers : wpc'[w] \in {wpc[w], "exited"}
    BY DEF IOInv, TypeOK, WorkerLocs
  <2>4. TypeOK'
    BY <2>2, <2>3 DEF IOInv, TypeOK, coVars, kernelVars
  <2>5. SocketInv'
    BY DEF IOInv, SocketInv, HasSocket, coVars
  <2>6. Released
    BY <2>2, <2>3 DEF IOInv, AwaitInv, Released, Alive, coVars, Running
  <2> QED
    BY <2>4, <2>5, <2>6, ReleaseStep
<1> QED
  BY <1>1, <1>2, <1>3

(* Steps of a worker that keeps the coroutine it runs, or is past the      *)
(* point where it may be resumed elsewhere, and ends none.                 *)
LEMMA KeepStep ==
    ASSUME IOInv, NEW w \in Workers, UNCHANGED loopVars,
           \/ \E next \in After : Read(w, next) \/ Write(w, next)
           \/ AcceptAgain(w) \/ OpAgain(w) \/ GetEvents(w)
           \/ Modify(w) \/ ModifyFails(w) \/ Erase(w)
    PROVE  IOInv'
<1> USE IOContextAssumption DEF IOInv, loopVars, coVars, kernelVars, Goto
<1>0. wpc[w] \in Running => cur[w] \in Coroutines /\ Alive(cur[w])
  BY DEF RunInv
<1>1. ASSUME NEW next \in After, Read(w, next) \/ Write(w, next)
      PROVE  IOInv'
  <2>1. /\ wpc[w] = "try" /\ wpc' = [wpc EXCEPT ![w] = "body"]
        /\ doing[cur[w]] \in {"read", "write"} /\ cur[w] \in Coroutines
        /\ inside' = [inside EXCEPT ![cur[w]] = FALSE]
        /\ doing' = [doing EXCEPT ![cur[w]] = next]
        /\ input' \subseteq input /\ room' \subseteq room
        /\ UNCHANGED <<waiters, interest, open, queue, cur, aw, fdOf, conns,
                       crashed>>
    BY <1>0, <1>1 DEF Read, Write, EndOp, Running
  <2>2. cur[w] \in Sessions /\ next \in Ops \cup {"close"}
        /\ next \notin {"none", "accept", "closed", "failed"}
    BY <2>1 DEF SocketInv, After, Coroutines
  <2>3. TypeOK'
    BY <2>1, <2>2 DEF TypeOK, WorkerLocs, Running
  <2>4. SocketInv'
    BY <2>1, <2>2 DEF SocketInv, HasSocket, TypeOK, Coroutines
  <2>5. Released
    BY <2>1, <2>2 DEF Released, TypeOK, QueueInv, AwaitInv, Alive, Running
  <2> QED
    BY <2>3, <2>4, <2>5, ReleaseStep
<1>2. CASE AcceptAgain(w)
  <2> USE <1>2 DEF AcceptAgain
  <2>1. TypeOK'
    <3>1. Await(ListenFd, {"in"}) \in [fd : AllFds \cup {None}, events : SUBSET Events]
      BY DEF Await, AllFds, Events
    <3> QED
      BY <3>1 DEF TypeOK, WorkerLocs, Running
  <2>2. SocketInv'
    BY DEF SocketInv, HasSocket
  <2>3. aw'[w].fd = fdOf[cur[w]]
    BY Records, SMTT(30) DEF TypeOK, SocketInv
  <2>4. Released
    BY <2>3 DEF Released, TypeOK, QueueInv, AwaitInv, Alive, Running
  <2> QED
    BY <2>1, <2>2, <2>4, ReleaseStep
<1>3. CASE OpAgain(w) \/ ModifyFails(w)
  <2>1. /\ \/ wpc[w] = "try" /\ wpc' = [wpc EXCEPT ![w] = "events"]
           \/ wpc[w] = "modify" /\ wpc' = [wpc EXCEPT ![w] = "erase"]
        /\ UNCHANGED <<waiters, interest, open, queue, cur, aw, coVars,
                       kernelVars, crashed>>
    BY <1>3 DEF OpAgain, ModifyFails
  <2>2. TypeOK'
    BY <2>1 DEF TypeOK, WorkerLocs, Running
  <2>3. SocketInv'
    BY <2>1 DEF SocketInv, HasSocket
  <2>4. Released
    BY <2>1, SMTT(30) DEF Released, TypeOK, QueueInv, AwaitInv, Alive, Running
  <2> QED
    BY <2>2, <2>3, <2>4, ReleaseStep
<1>4. CASE GetEvents(w)
  <2> DEFINE f == fdOf[cur[w]]
             e == IF waiters[f] = None THEN Entry(Null, {}) ELSE waiters[f]
  <2>1. /\ wpc[w] = "events" /\ wpc' = [wpc EXCEPT ![w] = "store"]
        /\ waiters' = [waiters EXCEPT ![f] = e]
        /\ aw' = [aw EXCEPT ![w] = Await(f, e.events \cup {Wanted(cur[w])})]
        /\ UNCHANGED <<interest, open, queue, cur, coVars, kernelVars, crashed>>
    BY <1>4 DEF GetEvents
  <2>2. f \in AllFds
    BY <1>0, <2>1 DEF SocketInv, Alive, Coroutines, AllFds, Running
  <2>3. e \in [handle : Coroutines \cup {Null}, events : SUBSET Events]
        /\ (e = waiters[f] \/ e.handle = Null)
    BY <2>2, Records DEF TypeOK
  <2>4. Await(f, e.events \cup {Wanted(cur[w])})
            \in [fd : AllFds \cup {None}, events : SUBSET Events]
    BY <2>2, <2>3, Records, SMTT(30) DEF Wanted, Events
  <2> HIDE DEF e
  <2>5. TypeOK'
    BY <2>1, <2>2, <2>3, <2>4 DEF TypeOK, WorkerLocs, Running
  <2>6. SocketInv'
    BY <2>1 DEF SocketInv, HasSocket
  <2>7. aw'[w].fd = fdOf[cur[w]]
    BY <2>1, Records, SMTT(30) DEF TypeOK
  <2>8. \A g \in AllFds : \/ waiters'[g] = waiters[g]
                          \/ waiters'[g].handle = Null
    BY <2>1, <2>2, <2>3 DEF TypeOK
  <2>9. Released
    BY <2>1, <2>7, <2>8 DEF Released, TypeOK, QueueInv, AwaitInv, Alive, Running
  <2> QED
    BY <2>5, <2>6, <2>9, ReleaseStep
<1>5. CASE Modify(w) \/ Erase(w)
  <2>1. /\ wpc[w] \in {"modify", "erase"} /\ wpc' = [wpc EXCEPT ![w] = "idle"]
        /\ \/ waiters' = waiters
           \/ waiters' = [waiters EXCEPT ![aw[w].fd] = None]
        /\ \/ interest' = interest
           \/ interest' = [interest EXCEPT ![aw[w].fd] = aw[w].events]
        /\ cur' = [cur EXCEPT ![w] = None]
        /\ aw' = [aw EXCEPT ![w] = Await(None, {})]
        /\ UNCHANGED <<open, queue, coVars, kernelVars, crashed>>
    BY <1>5 DEF Modify, Erase
  <2>2. Await(None, {}) \in [fd : AllFds \cup {None}, events : SUBSET Events]
    BY Records
  <2>3. aw[w].events \in SUBSET Events
    BY DEF TypeOK
  <2>4. /\ waiters' \in [AllFds -> {None} \cup [handle : Coroutines \cup {Null},
                                               events : SUBSET Events]]
        /\ \A f \in AllFds : waiters'[f] \in {waiters[f], None}
    BY <2>1 DEF TypeOK
  <2>5. interest' \in [AllFds -> SUBSET Events]
    BY <2>1, <2>3 DEF TypeOK
  <2>6. TypeOK'
    BY <2>1, <2>2, <2>4, <2>5 DEF TypeOK, WorkerLocs, Running
  <2>7. SocketInv'
    BY <2>1 DEF SocketInv, HasSocket
  <2>8. Released
    BY <2>1, <2>4 DEF Released, TypeOK, QueueInv, AwaitInv, Alive, Running
  <2> QED
    BY <2>6, <2>7, <2>8, ReleaseStep
<1> QED
  BY <1>1, <1>2, <1>3, <1>4, <1>5

(* A coroutine ends on the worker that runs it: it fails, or closes its    *)
(* socket.                                                                 *)
LEMMA EndStep ==
    ASSUME IOInv, NEW w \in Workers, UNCHANGED loopVars, Fail(w) \/ Close(w)
    PROVE  IOInv'
<1> USE IOContextAssumption DEF IOInv, loopVars, coVars, kernelVars, Goto
<1>1. PICK c \in Coroutines : cur[w] = c /\ wpc[w] \in {"try", "body"} /\ Alive(c)
  BY DEF RunInv, Running, Fail, Close
<1>2. /\ wpc' = [wpc EXCEPT ![w] = "idle"] /\ cur' = [cur EXCEPT ![w] = None]
      /\ UNCHANGED <<queue, aw, inside, fdOf, conns, crashed>>
  BY DEF Fail, Close
<1>3. RunsOn(w, c) /\ ~RunsOn(w, c)'
  BY <1>1, <1>2 DEF RunsOn, Running, TypeOK
<1>4. CASE Fail(w)
  <2>1. /\ doing' = [doing EXCEPT ![c] = "failed"]
        /\ UNCHANGED <<waiters, interest, open, kernelVars>>
    BY <1>1, <1>4 DEF Fail
  <2>2. TypeOK'
    BY <1>1, <1>2, <2>1 DEF TypeOK, WorkerLocs, Running
  <2>3. SocketInv'
    BY <1>1, <1>2, <2>1 DEF SocketInv, HasSocket, TypeOK, Coroutines, Alive
  <2>4. Released
    BY <1>1, <1>2, <1>3, <2>1, SMTT(30) DEF Released, TypeOK, QueueInv, AwaitInv, Alive, Running
  <2> QED
    BY <2>2, <2>3, <2>4, ReleaseStep
<1>5. CASE Close(w)
  <2> DEFINE f == fdOf[c]
  <2>1. /\ doing[c] = "close" /\ doing' = [doing EXCEPT ![c] = "closed"]
        /\ waiters' = [waiters EXCEPT ![f] = None]
        /\ open' = open \ {f}
        /\ interest' = [interest EXCEPT ![f] = {}]
        /\ input' = input \ {f} /\ room' = room \ {f}
    BY <1>1, <1>5 DEF Close
  <2>2. c \in Sessions /\ f \in Fds /\ f # ListenFd
    BY <2>1 DEF SocketInv, Coroutines
  <2> HIDE DEF f
  <2>3. /\ waiters' \in [AllFds -> {None} \cup [handle : Coroutines \cup {Null},
                                               events : SUBSET Events]]
        /\ \A g \in AllFds : waiters'[g] \in {waiters[g], None}
    BY <2>1 DEF TypeOK
  <2>4. TypeOK'
    BY <1>1, <1>2, <2>1, <2>2, <2>3 DEF TypeOK, WorkerLocs, Running
  <2>5. SocketInv'
    <3>1. \A s \in Sessions : s # c /\ HasSocket(s) => fdOf[s] # f
      BY <2>1, <2>2 DEF SocketInv, HasSocket, f
    <3> QED
      BY <1>2, <2>1, <2>2, <3>1 DEF SocketInv, HasSocket, TypeOK, Coroutines
  <2>6. Released
    BY <1>1, <1>2, <1>3, <2>1, <2>3, SMTT(30) DEF Released, TypeOK, QueueInv,
       AwaitInv, Alive, Running
  <2> QED
    BY <2>4, <2>5, <2>6, ReleaseStep
<1> QED
  BY <1>4, <1>5

-----------------------------------------------------------------------------
(* Steps in which a handle moves.                                          *)

(* Where the handle of c is. *)
Queued(c) == c \in Range(queue)
WaitsAt(f, c) == waiters[f] # None /\ waiters[f].handle = c
Held(c) == \/ Queued(c) \/ \E f \in AllFds : WaitsAt(f, c)
           \/ \E w \in Workers : RunsOn(w, c)

(* The types of handles. *)
LEMMA Handles ==
    ASSUME TypeOK
    PROVE  /\ \A c : Queued(c) /\ c # Null => c \in Coroutines
           /\ \A f \in AllFds : \A c : WaitsAt(f, c) /\ c # Null => c \in Coroutines
           /\ \A c \in Coroutines : c # Null /\ c # None
  BY IOContextAssumption, SMTT(30) DEF TypeOK, Queued, WaitsAt, Range

(* The session that is about to be spawned is not one that somebody has    *)
(* the handle of.                                                          *)
LEMMA HeldIsSpawned ==
    ASSUME IOInv, NEW c \in Coroutines, Held(c),
           NEW v \in Workers, wpc[v] = "spawn"
    PROVE  fdOf[c] # aw[v].fd
<1>1. Alive(c)
  <2>1. c # Null
    BY Handles DEF IOInv
  <2> QED
    BY <2>1 DEF Held, Queued, WaitsAt, RunsOn, IOInv, QueueInv, WaiterInv, RunInv
<1>2. CASE c = Acceptor
  BY <1>2, IOContextAssumption DEF IOInv, AwaitInv, SocketInv
<1>3. CASE c \in Sessions
  BY <1>1, <1>3 DEF IOInv, AwaitInv, Alive, Held, Queued, WaitsAt
<1> QED
  BY <1>2, <1>3 DEF Coroutines

(* The handle of c moves, and no other comes to a new place. *)
Moved(c) ==
    /\ UNCHANGED <<doing, fdOf, open>>
    /\ \A w \in Workers, d \in Coroutines : RunsOn(w, d)' => d = c \/ RunsOn(w, d)
    /\ \A d \in Coroutines : Queued(d)' => d = c \/ Queued(d)
    /\ \A f \in AllFds, d \in Coroutines : WaitsAt(f, d)' => d = c \/ WaitsAt(f, d)
    /\ Distinct(queue')
    /\ \A w \in Workers :
         /\ wpc'[w] \in Running => cur'[w] \in Coroutines
         /\ wpc'[w] = "store" => wpc[w] = "store" /\ UNCHANGED <<cur[w], aw[w]>>
         /\ wpc'[w] = "spawn" => /\ wpc[w] = "spawn" /\ UNCHANGED <<cur[w], aw[w]>>
                                 /\ fdOf[c] # aw[w].fd

(* Then it has one place. *)
InOnePlace(c) ==
    /\ \A v, w \in Workers : RunsOn(v, c) /\ RunsOn(w, c) => v = w
    /\ \A w \in Workers : RunsOn(w, c) => ~Queued(c)
    /\ \A f \in AllFds : WaitsAt(f, c) =>
         f = fdOf[c] /\ ~Queued(c) /\ \A w \in Workers : ~RunsOn(w, c)

(* A step that moves one handle to one place keeps the invariant. *)
LEMMA MoveStep ==
    ASSUME IOInv, NEW c \in Coroutines, Alive(c),
           TypeOK', Moved(c), InOnePlace(c)'
    PROVE  IOInv'
<1> USE DEF IOInv
<1>1. /\ \A d \in Coroutines : Alive(d)' <=> Alive(d)
      /\ UNCHANGED <<doing, fdOf, open>>
  BY DEF Moved, Alive
<1>2. SocketInv'
  BY <1>1 DEF SocketInv, HasSocket
<1>3. RunInv'
  <2>1. ASSUME NEW w \in Workers, wpc'[w] \in Running
        PROVE  cur'[w] \in Coroutines /\ Alive(cur[w])'
    <3>1. PICK d \in Coroutines : d = cur'[w] /\ RunsOn(w, d)'
      BY <2>1 DEF Moved, RunsOn
    <3>2. Alive(d)
      BY <3>1 DEF Moved, RunsOn, RunInv
    <3> QED
      BY <1>1, <3>1, <3>2 DEF Alive
  <2>2. ASSUME NEW v \in Workers, NEW w \in Workers, wpc'[v] \in Running,
               wpc'[w] \in Running, cur'[v] = cur'[w]
        PROVE  v = w
    <3>1. PICK d \in Coroutines : RunsOn(v, d)' /\ RunsOn(w, d)'
      BY <2>2 DEF Moved, RunsOn
    <3> QED
      BY <3>1, SMTT(30) DEF Moved, InOnePlace, RunInv, RunsOn
  <2> QED
    BY <2>1, <2>2 DEF RunInv, Alive
<1>4. QueueInv'
  <2>1. ASSUME NEW d \in Range(queue'), d # Null
        PROVE  Alive(d)' /\ \A w \in Workers : ~RunsOn(w, d)'
    <3>1. d \in Coroutines /\ Queued(d)'
      BY <2>1, SMTT(30) DEF TypeOK, Queued, Range
    <3>2. CASE d = c
      BY <1>1, <3>1, <3>2 DEF InOnePlace
    <3>3. CASE d # c
      <4>1. Queued(d) /\ \A w \in Workers : RunsOn(w, d)' => RunsOn(w, d)
        BY <3>1, <3>3 DEF Moved
      <4> QED
        BY <1>1, <2>1, <3>1, <4>1 DEF QueueInv, Queued
    <3> QED
      BY <3>2, <3>3
  <2> QED
    BY <2>1 DEF QueueInv, Moved
<1>5. WaiterInv'
  <2>1. ASSUME NEW f \in AllFds, waiters'[f] # None, NEW d,
               d = waiters'[f].handle, d # Null
        PROVE  /\ Alive(d)' /\ fdOf'[d] = f
               /\ d \notin Range(queue')
               /\ \A w \in Workers : ~RunsOn(w, d)'
    <3>1. d \in Coroutines /\ WaitsAt(f, d)'
      BY <2>1 DEF TypeOK, WaitsAt
    <3>2. CASE d = c
      BY <1>1, <3>1, <3>2 DEF InOnePlace, Queued
    <3>3. CASE d # c
      <4>1. /\ WaitsAt(f, d) /\ (Queued(d)' => Queued(d))
            /\ \A w \in Workers : RunsOn(w, d)' => RunsOn(w, d)
        BY <3>1, <3>3 DEF Moved
      <4> QED
        BY <1>1, <2>1, <3>1, <4>1 DEF WaiterInv, WaitsAt, Queued
    <3> QED
      BY <3>2, <3>3
  <2> QED
    BY <2>1, SMTT(30) DEF WaiterInv, Alive, RunsOn
<1>6. AwaitInv'
  <2>1. ASSUME NEW w \in Workers, wpc'[w] = "store"
        PROVE  aw'[w].fd = fdOf'[cur'[w]]
    BY <1>1, <2>1 DEF Moved, AwaitInv
  <2>2. ASSUME NEW w \in Workers, wpc'[w] = "spawn"
        PROVE  /\ wpc[w] = "spawn" /\ aw'[w] = aw[w] /\ cur'[w] = Acceptor
               /\ aw'[w].fd \in Fds /\ fdOf[c] # aw[w].fd
    BY <2>2 DEF Moved, AwaitInv
  <2>3. ASSUME NEW w \in Workers, wpc'[w] = "spawn", NEW s \in Sessions,
               fdOf'[s] = aw'[w].fd, doing'[s] # "closed"
        PROVE  /\ Alive(s)' /\ s \notin Range(queue')
               /\ \A f \in AllFds : waiters'[f] # None => waiters'[f].handle # s
               /\ \A v \in Workers : ~RunsOn(v, s)'
    <3>1. s \in Coroutines /\ s # c /\ fdOf[s] = aw[w].fd /\ doing[s] # "closed"
      BY <1>1, <2>2, <2>3 DEF Coroutines
    <3>2. /\ Alive(s) /\ ~Queued(s) /\ \A f \in AllFds : ~WaitsAt(f, s)
          /\ \A v \in Workers : ~RunsOn(v, s)
      BY <2>2, <2>3, <3>1 DEF AwaitInv, Queued, WaitsAt
    <3>3. /\ ~Queued(s)' /\ \A f \in AllFds : ~WaitsAt(f, s)'
          /\ \A v \in Workers : ~RunsOn(v, s)'
      BY <3>1, <3>2 DEF Moved
    <3> QED
      BY <1>1, <3>1, <3>2, <3>3 DEF Queued, WaitsAt
  <2> QED
    BY <2>1, <2>2, <2>3 DEF AwaitInv, Alive, RunsOn
<1> QED
  BY <1>2, <1>3, <1>4, <1>5, <1>6

(* From the queue to a worker. *)
LEMMA ResumeStep ==
    ASSUME IOInv, NEW w \in Workers, UNCHANGED loopVars, Resume(w)
    PROVE  IOInv'
<1> USE IOContextAssumption DEF IOInv, loopVars, coVars, kernelVars
<1>1. PICK c : /\ c = Head(queue) /\ c # Null /\ Queued(c)
               /\ queue' \in Seq(Coroutines \cup {Null})
               /\ Range(queue') \subseteq Range(queue) \ {c}
               /\ Distinct(queue')
  BY Pop DEF Resume, TypeOK, QueueInv, Queued
<1>2. /\ wpc[w] = "idle"
      /\ wpc' = [wpc EXCEPT ![w] = IF inside[c] THEN "try" ELSE "body"]
      /\ cur' = [cur EXCEPT ![w] = c]
      /\ UNCHANGED <<waiters, interest, open, aw, coVars, kernelVars, crashed>>
  BY <1>1 DEF Resume
<1>3. c \in Coroutines
  BY <1>1, Handles
<1>4. /\ wpc' \in [Workers -> WorkerLocs] /\ wpc'[w] \in {"try", "body"}
      /\ cur'[w] = c
      /\ \A v \in Workers : v # w => wpc'[v] = wpc[v] /\ cur'[v] = cur[v]
  BY <1>2 DEF TypeOK, WorkerLocs, Running
<1>5. /\ Alive(c) /\ \A v \in Workers : ~RunsOn(v, c)
      /\ \A f \in AllFds : ~WaitsAt(f, c)
  BY <1>1, <1>3, SMTT(30) DEF QueueInv, WaiterInv, Queued, WaitsAt
<1>6. TypeOK'
  BY <1>1, <1>2, <1>3, <1>4 DEF TypeOK
<1>7. Moved(c)
  <2>1. \A v \in Workers : wpc[v] = "spawn" => fdOf[c] # aw[v].fd
    BY <1>1, <1>3, HeldIsSpawned DEF Held
  <2>2. \A v \in Workers : wpc'[v] \in Running => cur'[v] \in Coroutines
    BY <1>3, <1>4 DEF RunInv
  <2>3. \A v \in Workers, d \in Coroutines : RunsOn(v, d)' => d = c \/ RunsOn(v, d)
    BY <1>4 DEF RunsOn
  <2> QED
    BY <1>1, <1>2, <1>4, <2>1, <2>2, <2>3 DEF Moved, Queued, WaitsAt
<1>8. InOnePlace(c)'
  BY <1>1, <1>2, <1>4, <1>5 DEF InOnePlace, RunsOn, Queued, WaitsAt
<1> QED
  BY <1>3, <1>5, <1>6, <1>7, <1>8, MoveStep

(* From a worker back to the queue, for the child coroutine. *)
LEMMA BeginOpStep ==
    ASSUME IOInv, NEW w \in Workers, UNCHANGED loopVars, BeginOp(w)
    PROVE  IOInv'
<1> USE IOContextAssumption DEF IOInv, loopVars, coVars, kernelVars
<1>0. PICK c \in Coroutines : c = cur[w] /\ Alive(c) /\ RunsOn(w, c)
  BY DEF BeginOp, Goto, RunInv, Running, RunsOn
<1>1. /\ wpc[w] = "body" /\ wpc' = [wpc EXCEPT ![w] = "idle"]
      /\ inside' = [inside EXCEPT ![c] = TRUE]
      /\ queue' = Append(queue, c)
      /\ cur' = [cur EXCEPT ![w] = None]
      /\ UNCHANGED <<waiters, interest, open, aw, doing, fdOf, kernelVars, crashed>>
  BY <1>0 DEF BeginOp, Goto
<1>2. Alive(c) /\ RunsOn(w, c)
  BY <1>0
<1>3. /\ ~Queued(c) /\ \A f \in AllFds : ~WaitsAt(f, c)
      /\ \A v \in Workers : RunsOn(v, c) => v = w
  BY <1>2, Handles DEF QueueInv, WaiterInv, RunInv, RunsOn, Queued, WaitsAt
<1>4. /\ queue' \in Seq(Coroutines \cup {Null})
      /\ Range(queue') = Range(queue) \cup {c} /\ Distinct(queue')
  BY <1>1, <1>2, <1>3, Push, SMTT(30) DEF TypeOK, QueueInv, Queued
<1>5. /\ wpc' \in [Workers -> WorkerLocs] /\ wpc'[w] = "idle"
      /\ \A v \in Workers : v # w => wpc'[v] = wpc[v] /\ cur'[v] = cur[v]
  BY <1>1 DEF TypeOK, WorkerLocs, Running
<1>6. TypeOK'
  BY <1>1, <1>2, <1>4, <1>5 DEF TypeOK
<1>7. Moved(c)
  <2>1. \A v \in Workers : wpc[v] = "spawn" => fdOf[c] # aw[v].fd
    BY <1>2, HeldIsSpawned DEF Held
  <2>2. \A v \in Workers : wpc'[v] \in Running => cur'[v] \in Coroutines
    BY <1>5 DEF RunInv, Running
  <2>3. \A v \in Workers, d \in Coroutines : RunsOn(v, d)' => RunsOn(v, d)
    BY <1>5 DEF RunsOn, Running
  <2> QED
    BY <1>1, <1>4, <1>5, <2>1, <2>2, <2>3 DEF Moved, Queued, WaitsAt
<1>8. InOnePlace(c)'
  <2>1. \A v \in Workers : ~RunsOn(v, c)'
    BY <1>3, <1>5 DEF RunsOn, Running
  <2> QED
    BY <1>1, <1>3, <2>1 DEF InOnePlace, WaitsAt
<1> QED
  BY <1>2, <1>6, <1>7, <1>8, MoveStep

(* From a worker to waiters_. *)
LEMMA StoreStep ==
    ASSUME IOInv, NEW w \in Workers, UNCHANGED loopVars, Store(w)
    PROVE  IOInv'
<1> USE IOContextAssumption DEF IOInv, loopVars, coVars, kernelVars
<1>0. PICK c \in Coroutines : c = cur[w] /\ Alive(c) /\ RunsOn(w, c)
  BY DEF Store, Goto, RunInv, Running, RunsOn
<1> DEFINE e == Entry(c, aw[w].events)
<1>1. /\ wpc[w] = "store" /\ wpc' = [wpc EXCEPT ![w] = "modify"]
      /\ waiters' = [waiters EXCEPT ![aw[w].fd] = e]
      /\ UNCHANGED <<interest, open, queue, cur, aw, coVars, kernelVars, crashed>>
  BY <1>0 DEF Store, Goto
<1>2. Alive(c) /\ RunsOn(w, c) /\ aw[w].fd = fdOf[c]
  BY <1>0, <1>1 DEF AwaitInv
<1>3. fdOf[c] \in AllFds
  BY <1>2 DEF SocketInv, Alive, Coroutines, AllFds
<1>4. e \in [handle : Coroutines \cup {Null}, events : SUBSET Events] /\ e.handle = c
  BY <1>2, Records DEF TypeOK
<1> HIDE DEF e
<1>5. /\ ~Queued(c) /\ \A f \in AllFds : ~WaitsAt(f, c)
      /\ \A v \in Workers : RunsOn(v, c) => v = w
  BY <1>2, Handles DEF QueueInv, WaiterInv, RunInv, RunsOn, Queued, WaitsAt
<1>6. /\ wpc' \in [Workers -> WorkerLocs] /\ wpc'[w] = "modify"
      /\ \A v \in Workers : v # w => wpc'[v] = wpc[v]
  BY <1>1 DEF TypeOK, WorkerLocs, Running
<1>7. /\ waiters' \in [AllFds -> {None} \cup [handle : Coroutines \cup {Null},
                                             events : SUBSET Events]]
      /\ waiters'[fdOf[c]] = e
      /\ \A f \in AllFds : f # fdOf[c] => waiters'[f] = waiters[f]
  BY <1>1, <1>2, <1>3, <1>4 DEF TypeOK
<1>8. TypeOK'
  BY <1>1, <1>6, <1>7 DEF TypeOK
<1>9. Moved(c)
  <2>1. \A v \in Workers : wpc[v] = "spawn" => fdOf[c] # aw[v].fd
    BY <1>2, HeldIsSpawned DEF Held
  <2>2. \A v \in Workers : wpc'[v] \in Running => cur'[v] \in Coroutines
    BY <1>1, <1>6 DEF RunInv, Running
  <2>3. \A v \in Workers, d \in Coroutines : RunsOn(v, d)' => RunsOn(v, d)
    BY <1>1, <1>6 DEF RunsOn, Running
  <2>4. \A f \in AllFds, d \in Coroutines : WaitsAt(f, d)' => d = c \/ WaitsAt(f, d)
    BY <1>4, <1>7 DEF WaitsAt
  <2> QED
    BY <1>1, <1>6, <2>1, <2>2, <2>3, <2>4 DEF Moved, Queued, QueueInv
<1>10. InOnePlace(c)'
  <2>1. \A v \in Workers : ~RunsOn(v, c)'
    BY <1>1, <1>5, <1>6 DEF RunsOn, Running
  <2>2. ~Queued(c)' /\ \A f \in AllFds : WaitsAt(f, c)' => f = fdOf'[c]
    BY <1>1, <1>5, <1>7 DEF Queued, WaitsAt
  <2> QED
    BY <2>1, <2>2 DEF InOnePlace
<1> QED
  BY <1>2, <1>8, <1>9, <1>10, MoveStep

(* From waiters_ to the queue.  The entry may be one that get_events made. *)
LEMMA DispatchStep ==
    ASSUME IOInv, LoopStep, NEW f \in AllFds, Dispatch(f)
    PROVE  IOInv'
<1> USE IOContextAssumption DEF IOInv, coVars, kernelVars
<1>1. PICK c \in Coroutines \cup {Null} : WaitsAt(f, c)
  BY DEF Dispatch, TypeOK, WaitsAt
<1>2. /\ queue' = Append(queue, c)
      /\ waiters' = [waiters EXCEPT ![f] = None]
      /\ batch' \subseteq AllFds /\ loop' \in {"loop", "returned"}
      /\ UNCHANGED <<stage, interest, open, wpc, cur, aw, coVars, kernelVars,
                     crashed>>
  BY <1>1 DEF Dispatch, LoopStep, Handled, TypeOK, WaitsAt
<1>3. c # Null => /\ Alive(c) /\ fdOf[c] = f /\ ~Queued(c)
                  /\ \A w \in Workers : ~RunsOn(w, c)
  BY <1>1 DEF WaiterInv, WaitsAt, Queued
<1>4. /\ queue' \in Seq(Coroutines \cup {Null})
      /\ Range(queue') = Range(queue) \cup {c} /\ Distinct(queue')
  BY <1>2, <1>3, Push, SMTT(30) DEF TypeOK, QueueInv, Queued
<1>5. /\ waiters' \in [AllFds -> {None} \cup [handle : Coroutines \cup {Null},
                                             events : SUBSET Events]]
      /\ waiters'[f] = None
      /\ \A g \in AllFds : g # f => waiters'[g] = waiters[g]
  BY <1>2 DEF TypeOK
<1>6. TypeOK'
  BY <1>2, <1>4, <1>5 DEF TypeOK
<1>7. CASE c = Null
  <2>1. SocketInv'
    BY <1>2 DEF SocketInv, HasSocket
  <2>2. Released
    BY <1>2, <1>4, <1>5, <1>7 DEF Released, AwaitInv, Alive
  <2> QED
    BY <1>6, <2>1, <2>2, ReleaseStep
<1>8. CASE c # Null
  <2>1. c \in Coroutines
    BY <1>8
  <2>2. \A g \in AllFds, d \in Coroutines : WaitsAt(g, d)' => WaitsAt(g, d) /\ g # f
    BY <1>5 DEF WaitsAt
  <2>3. Moved(c)
    <3>1. \A v \in Workers : wpc[v] = "spawn" => fdOf[c] # aw[v].fd
      BY <1>1, <2>1, HeldIsSpawned DEF Held
    <3>2. \A v \in Workers, d \in Coroutines : RunsOn(v, d)' => RunsOn(v, d)
      BY <1>2 DEF RunsOn
    <3> QED
      BY <1>2, <1>4, <2>2, <3>1, <3>2 DEF Moved, Queued, RunInv
  <2>4. InOnePlace(c)'
    <3>1. \A v \in Workers : ~RunsOn(v, c)'
      BY <1>2, <1>3, <1>8 DEF RunsOn
    <3>2. \A g \in AllFds : ~WaitsAt(g, c)'
      BY <1>3, <1>8, <2>1, <2>2 DEF WaiterInv, WaitsAt
    <3> QED
      BY <3>1, <3>2 DEF InOnePlace
  <2> QED
    BY <1>3, <1>6, <1>8, <2>1, <2>3, <2>4, MoveStep
<1> QED
  BY <1>7, <1>8

(* The handle of the new session comes to the queue. *)
LEMMA SpawnStep ==
    ASSUME IOInv, NEW w \in Workers, UNCHANGED loopVars, Spawn(w)
    PROVE  IOInv'
<1> USE IOContextAssumption DEF IOInv, loopVars, coVars, kernelVars
<1>1. PICK s \in Sessions : fdOf[s] = aw[w].fd /\ doing[s] # "closed"
                            /\ queue' = Append(queue, s)
  BY DEF Spawn
<1>2. /\ wpc[w] = "spawn" /\ wpc' = [wpc EXCEPT ![w] = "body"]
      /\ inside' = [inside EXCEPT ![Acceptor] = FALSE]
      /\ aw' = [aw EXCEPT ![w] = Await(None, {})]
      /\ UNCHANGED <<waiters, interest, open, cur, doing, fdOf, kernelVars, crashed>>
  BY DEF Spawn, Goto
<1>3. /\ s \in Coroutines /\ Alive(s) /\ ~Queued(s)
      /\ \A f \in AllFds : ~WaitsAt(f, s)
      /\ \A v \in Workers : ~RunsOn(v, s)
  BY <1>1, <1>2 DEF AwaitInv, Coroutines, Queued, WaitsAt
<1>4. /\ queue' \in Seq(Coroutines \cup {Null})
      /\ Range(queue') = Range(queue) \cup {s} /\ Distinct(queue')
  BY <1>1, <1>3, Push, SMTT(30) DEF TypeOK, QueueInv, Queued
<1>5. /\ wpc' \in [Workers -> WorkerLocs] /\ wpc'[w] = "body"
      /\ \A v \in Workers : v # w => wpc'[v] = wpc[v]
  BY <1>2 DEF TypeOK, WorkerLocs, Running
<1>6. Await(None, {}) \in [fd : AllFds \cup {None}, events : SUBSET Events]
  BY Records
<1>7. TypeOK'
  BY <1>2, <1>4, <1>5, <1>6 DEF TypeOK
<1>8. \A v \in Workers : wpc[v] = "spawn" => v = w
  BY <1>2, SMTT(30) DEF AwaitInv, RunInv, Running
<1>9. \A v \in Workers, d \in Coroutines : RunsOn(v, d)' <=> RunsOn(v, d)
  BY <1>2, <1>5 DEF RunsOn, Running
<1>10. Moved(s)
  <2>1. \A v \in Workers : wpc'[v] \in Running => cur'[v] \in Coroutines
    BY <1>2, <1>5 DEF RunInv, Running
  <2>2. \A v \in Workers : wpc'[v] # "spawn"
    BY <1>5, <1>8
  <2>3. \A v \in Workers : v # w => aw'[v] = aw[v]
    BY <1>2 DEF TypeOK
  <2> QED
    BY <1>2, <1>4, <1>5, <1>9, <2>1, <2>2, <2>3 DEF Moved, Queued, WaitsAt
<1>11. InOnePlace(s)'
  <2>1. \A f \in AllFds : ~WaitsAt(f, s)'
    BY <1>2, <1>3 DEF WaitsAt
  <2> QED
    BY <1>3, <1>9, <2>1 DEF InOnePlace
<1> QED
  BY <1>3, <1>7, <1>10, <1>11, MoveStep

(* A session begins with a descriptor that was free; as it had not begun,  *)
(* nobody has its handle, and no other coroutine has that descriptor.      *)
LEMMA AcceptStep ==
    ASSUME IOInv, NEW w \in Workers, UNCHANGED loopVars,
           NEW s \in Sessions, NEW f \in Fds, Accept(w, s, f)
    PROVE  IOInv'
<1> USE IOContextAssumption DEF IOInv, loopVars
<1>1. /\ wpc[w] = "try" /\ cur[w] = Acceptor
      /\ doing[s] = "none" /\ f \notin open
      /\ wpc' = [wpc EXCEPT ![w] = "spawn"]
      /\ open' = open \cup {f}
      /\ interest' = [interest EXCEPT ![f] = {"in"}]
      /\ fdOf' = [fdOf EXCEPT ![s] = f]
      /\ aw' = [aw EXCEPT ![w] = Await(f, {})]
      /\ UNCHANGED <<waiters, queue, cur, inside, crashed>>
  BY DEF Accept, Goto, Unborn
<1>2. PICK op \in Ops : doing' = [doing EXCEPT ![s] = op]
  BY DEF Accept
<1>3. /\ s \in Coroutines /\ s # Acceptor /\ s # Null /\ f \in AllFds
      /\ f # ListenFd /\ op \in {"read", "write"}
  BY DEF Coroutines, AllFds
<1>4. /\ doing'[s] = op /\ fdOf'[s] = f /\ fdOf' \in [Coroutines -> AllFds \cup {None}]
      /\ \A c \in Coroutines : c # s => doing'[c] = doing[c] /\ fdOf'[c] = fdOf[c]
  BY <1>1, <1>2, <1>3 DEF TypeOK
<1>5. /\ wpc'[w] = "spawn" /\ aw'[w].fd = f
      /\ \A v \in Workers : v # w => wpc'[v] = wpc[v] /\ aw'[v] = aw[v]
  BY <1>1, <1>3, Records, SMTT(30) DEF TypeOK
<1>6. /\ s \notin Range(queue)
      /\ \A g \in AllFds : waiters[g] # None => waiters[g].handle # s
      /\ \A v \in Workers : ~RunsOn(v, s)
  BY <1>1, <1>3, SMTT(30) DEF QueueInv, WaiterInv, RunInv, RunsOn, Alive
<1>7. TypeOK'
  <2>1. Await(f, {}) \in [fd : AllFds \cup {None}, events : SUBSET Events]
    BY <1>3, Records
  <2>2. aw' \in [Workers -> [fd : AllFds \cup {None}, events : SUBSET Events]]
        /\ wpc' \in [Workers -> WorkerLocs]
    BY <1>1, <2>1 DEF TypeOK, WorkerLocs, Running
  <2>3. interest' \in [AllFds -> SUBSET Events] /\ open' \subseteq AllFds
        /\ ListenFd \in open'
    BY <1>1, <1>3 DEF TypeOK, Events
  <2>4. conns' \in Nat /\ input' \subseteq open' /\ room' \subseteq open'
    BY SMTT(30) DEF TypeOK, Accept
  <2>5. doing' \in [Coroutines -> Ops \cup {"none", "accept", "close", "closed",
                                            "failed"}]
    BY <1>2 DEF TypeOK
  <2> QED
    BY <1>1, <1>4, <2>2, <2>3, <2>4, <2>5 DEF TypeOK
<1>8. \A t \in Sessions : HasSocket(t) => t # s /\ fdOf[t] # f
  BY <1>1 DEF SocketInv, HasSocket
<1>9. SocketInv'
  <2>1. doing'[Acceptor] = doing[Acceptor] /\ fdOf'[Acceptor] = fdOf[Acceptor]
        /\ \A t \in Sessions : t \in Coroutines
    BY <1>3, <1>4 DEF Coroutines
  <2>2. \A t \in Sessions : t # s => (HasSocket(t)' <=> HasSocket(t))
    BY <1>4, <2>1 DEF HasSocket
  <2>3. ASSUME NEW t \in Sessions
        PROVE  /\ doing'[t] # "accept"
               /\ doing'[t] = "none" => fdOf'[t] = None
               /\ doing'[t] # "none" => fdOf'[t] \in Fds
               /\ HasSocket(t)' => fdOf'[t] \in open'
    <3>1. CASE t = s
      BY <1>1, <1>3, <1>4, <3>1
    <3>2. CASE t # s
      BY <1>1, <1>4, <2>1, <2>2, <3>2, SMTT(30) DEF SocketInv
    <3> QED
      BY <3>1, <3>2
  <2>4. ASSUME NEW t \in Sessions, NEW u \in Sessions,
               HasSocket(t)', HasSocket(u)', fdOf'[t] = fdOf'[u]
        PROVE  t = u
    BY <1>4, <1>8, <2>1, <2>2, <2>4 DEF SocketInv
  <2> QED
    BY <2>1, <2>3, <2>4 DEF SocketInv
<1>10. \A c \in Coroutines : Alive(c) => Alive(c)' /\ fdOf'[c] = fdOf[c]
  BY <1>1, <1>4 DEF Alive
<1>11. /\ Alive(s)'
       /\ \A v \in Workers : \A c : RunsOn(v, c)' <=> RunsOn(v, c)
  BY <1>1, <1>3, <1>4, <1>5 DEF RunsOn, Running, Alive
<1>12. RunInv'
  <2>1. \A v \in Workers : wpc'[v] \in Running <=> wpc[v] \in Running
    BY <1>1, <1>5 DEF Running
  <2>2. ASSUME NEW v \in Workers, wpc'[v] \in Running
        PROVE  cur'[v] \in Coroutines /\ Alive(cur[v])'
    BY <1>1, <1>10, <2>1, <2>2 DEF RunInv
  <2> QED
    BY <1>1, <2>1, <2>2 DEF RunInv, Alive
<1>13. QueueInv'
  <2>1. \A c \in Range(queue) : c # Null => c \in Coroutines
    BY SMTT(30) DEF TypeOK, Range
  <2> QED
    BY <1>1, <1>10, <1>11, <2>1 DEF QueueInv
<1>14. WaiterInv'
  <2>1. ASSUME NEW g \in AllFds, waiters'[g] # None, NEW c,
               c = waiters'[g].handle, c # Null
        PROVE  /\ Alive(c)' /\ fdOf'[c] = g
               /\ c \notin Range(queue')
               /\ \A v \in Workers : ~RunsOn(v, c)'
    <3>1. c \in Coroutines /\ waiters[g] # None /\ c = waiters[g].handle
      BY <1>1, <2>1 DEF TypeOK
    <3> QED
      BY <1>1, <1>10, <1>11, <2>1, <3>1 DEF WaiterInv
  <2> QED
    BY <2>1, SMTT(30) DEF WaiterInv, Alive, RunsOn
<1>15. AwaitInv'
  <2>1. ASSUME NEW v \in Workers, wpc'[v] = "store"
        PROVE  aw'[v].fd = fdOf'[cur'[v]]
    <3>1. v # w /\ wpc[v] = "store" /\ cur[v] \in Coroutines /\ Alive(cur[v])
      BY <1>5, <2>1 DEF RunInv, Running
    <3> QED
      BY <1>1, <1>5, <1>10, <3>1, SMTT(30) DEF AwaitInv
  <2>2. ASSUME NEW v \in Workers, wpc'[v] = "spawn"
        PROVE  v = w
    <3>1. CASE v # w
      <4>1. wpc[v] = "spawn" /\ cur[v] = Acceptor
        BY <1>5, <2>2, <3>1 DEF AwaitInv
      <4> QED
        BY <1>1, <3>1, <4>1 DEF RunInv, Running
    <3> QED
      BY <3>1
  <2>3. ASSUME NEW t \in Sessions, fdOf'[t] = f, doing'[t] # "closed"
        PROVE  t = s
    <3>1. CASE t # s
      <4>1. t \in Coroutines /\ fdOf[t] = f /\ doing[t] # "closed"
        BY <1>4, <2>3, <3>1 DEF Coroutines
      <4>2. doing[t] # "none"
        BY <1>3, <4>1 DEF SocketInv
      <4> QED
        BY <1>8, <4>1, <4>2 DEF HasSocket
    <3> QED
      BY <3>1
  <2>4. /\ s \notin Range(queue')
        /\ \A g \in AllFds : waiters'[g] # None => waiters'[g].handle # s
        /\ \A v \in Workers : ~RunsOn(v, s)'
    BY <1>1, <1>6, <1>11
  <2> QED
    BY <1>1, <1>5, <1>11, <2>1, <2>2, <2>3, <2>4, SMTT(30) DEF AwaitInv
<1> QED
  BY <1>7, <1>9, <1>12, <1>13, <1>14, <1>15

-----------------------------------------------------------------------------
(* The theorems.                                                           *)

(* Every step keeps the inductive invariant. *)
LEMMA NextStep == IOInv /\ [Next]_vars => IOInv'
<1> SUFFICES ASSUME IOInv, [Next]_vars PROVE IOInv'
  OBVIOUS
<1>1. CASE UNCHANGED vars
  BY <1>1, SMTT(30) DEF vars, loopVars, coVars, kernelVars, IOInv, TypeOK, SocketInv,
     HasSocket, RunInv, QueueInv, WaiterInv, AwaitInv, Alive, RunsOn, Distinct
<1>2. CASE Peer \/ StopStep
  BY <1>2, OutsideStep
<1>3. CASE LoopStep
  <2>1. CASE \E f \in AllFds : Dispatch(f)
    BY <1>3, <2>1, DispatchStep
  <2>2. CASE ~\E f \in AllFds : Dispatch(f)
    BY <1>3, <2>2, OutsideStep
  <2> QED
    BY <2>1, <2>2
<1>4. CASE Undefined
  BY <1>4, CrashStep DEF Undefined
<1>5. ASSUME NEW w \in Workers, WorkerStep(w) PROVE IOInv'
  <2>1. CASE ResumeNull(w)
    BY <2>1, CrashStep DEF ResumeNull
  <2>2. CASE Step(w)
    <3>1. UNCHANGED loopVars
      BY <2>2 DEF Step
    <3>2. CASE \/ \E next \in After : Read(w, next) \/ Write(w, next)
               \/ AcceptAgain(w) \/ OpAgain(w) \/ GetEvents(w)
               \/ Modify(w) \/ ModifyFails(w) \/ Erase(w)
      BY <3>1, <3>2, KeepStep
    <3>3. CASE Fail(w) \/ Close(w)
      BY <3>1, <3>3, EndStep
    <3>4. CASE \E s \in Sessions, f \in Fds : Accept(w, s, f)
      BY <3>1, <3>4, AcceptStep
    <3>5. CASE Resume(w)
      BY <3>1, <3>5, ResumeStep
    <3>6. CASE BeginOp(w)
      BY <3>1, <3>6, BeginOpStep
    <3>7. CASE Store(w)
      BY <3>1, <3>7, StoreStep
    <3>8. CASE Spawn(w)
      BY <3>1, <3>8, SpawnStep
    <3> QED
      BY <2>2, <3>2, <3>3, <3>4, <3>5, <3>6, <3>7, <3>8 DEF Step
  <2> QED
    BY <1>5, <2>1, <2>2 DEF WorkerStep
<1> QED
  BY <1>1, <1>2, <1>3, <1>4, <1>5 DEF Next

(* Two elements of a set that are always equal. *)
LEMMA AtMostOne ==
    ASSUME NEW S, \A x, y \in S : x = y
    PROVE  Cardinality(S) \in {0, 1} /\ (S = {} => Cardinality(S) = 0)
<1>1. CASE S = {}
  BY <1>1, FS_EmptySet
<1>2. CASE S # {}
  <2>1. PICK x : x \in S
    BY <1>2
  <2>2. S = {x}
    BY <2>1
  <2>3. Cardinality({x}) = 1
    BY FS_Singleton
  <2> QED
    BY <1>2, <2>2, <2>3
<1> QED
  BY <1>1, <1>2

(* What the inductive invariant says of the places of a handle. *)
LEMMA HolderCount == IOInv => OneHolder
<1> SUFFICES ASSUME IOInv PROVE OneHolder
  OBVIOUS
<1> USE DEF IOInv
<1>1. ASSUME NEW c \in Coroutines
      PROVE  /\ Cardinality(InQueue(c)) + Cardinality(Waits(c)) + Cardinality(Runs(c))
                  <= IF doing[c] \in {"none", "closed", "failed"} THEN 0 ELSE 1
             /\ Waits(c) \subseteq {fdOf[c]} \cap open
  <2>1. c # Null
    BY Handles
  <2>2. InQueue(c) # {} => c \in Range(queue)
    BY DEF InQueue, Range
  <2>3. /\ \A i, j \in InQueue(c) : i = j
        /\ InQueue(c) # {} => Alive(c) /\ Runs(c) = {} /\ Waits(c) = {}
    <3>1. \A i, j \in InQueue(c) : i = j
      BY <2>1 DEF InQueue, QueueInv, Distinct
    <3>2. ASSUME c \in Range(queue)
          PROVE  Alive(c) /\ Runs(c) = {} /\ Waits(c) = {}
      <4>1. Alive(c) /\ Runs(c) = {}
        BY <2>1, <3>2 DEF QueueInv, RunsOn, Runs
      <4>2. Waits(c) = {}
        BY <2>1, <3>2 DEF WaiterInv, Waits
      <4> QED
        BY <4>1, <4>2
    <3> QED
      BY <2>2, <3>1, <3>2
  <2>4. \A f \in Waits(c) : f = fdOf[c] /\ Alive(c) /\ Runs(c) = {}
    BY <2>1, SMTT(30) DEF WaiterInv, Waits, RunsOn, Runs
  <2>5. \A v, w \in Runs(c) : v = w
    BY DEF RunInv, Runs
  <2>6. Runs(c) # {} => Alive(c)
    BY DEF RunInv, Runs
  <2>7. Alive(c) => fdOf[c] \in open
    BY DEF Coroutines, Alive, HasSocket, SocketInv, TypeOK
  <2>8. Waits(c) \subseteq {fdOf[c]} \cap open
    BY <2>4, <2>7
  <2>9. \A f, g \in Waits(c) : f = g
    BY <2>4
  <2> DEFINE q == Cardinality(InQueue(c))
             m == Cardinality(Waits(c))
             r == Cardinality(Runs(c))
  <2>10. q \in {0, 1} /\ (InQueue(c) = {} => q = 0)
    BY <2>3, AtMostOne
  <2>11. m \in {0, 1} /\ (Waits(c) = {} => m = 0)
    BY <2>9, AtMostOne
  <2>12. r \in {0, 1} /\ (Runs(c) = {} => r = 0)
    BY <2>5, AtMostOne
  <2> HIDE DEF q, m, r
  <2>13. q + m + r <= IF Alive(c) THEN 1 ELSE 0
    BY <2>3, <2>4, <2>6, <2>10, <2>11, <2>12, SMTT(30)
  <2> QED
    BY <2>8, <2>13 DEF Alive, q, m, r
<1> QED
  BY <1>1 DEF OneHolder

(* The handle of a coroutine is in one place: in the queue of the pool, in *)
(* waiters_ at its own, open descriptor, or on a worker, and nowhere when  *)
(* the coroutine has not begun or has ended.  Thus no coroutine is resumed *)
(* twice for one suspension, although await_suspend goes on after it has   *)
(* saved the waiter and descriptors are used again.                        *)
THEOREM OneHolderInvariant == Spec => []OneHolder
  BY InitInv, NextStep, HolderCount, PTL DEF Spec

(* A session that has been accepted keeps its own descriptor, open and not *)
(* shared with another coroutine, until it closes it: a late await_suspend *)
(* and the reuse of numbers never mix two sockets.                         *)
SocketOwned ==
    \A c, d \in Coroutines :
        HasSocket(c) =>
            /\ fdOf[c] \in open
            /\ HasSocket(d) /\ fdOf[c] = fdOf[d] => c = d

(* Sockets are never mixed up, from accept4 to close. *)
THEOREM SocketOwnedInvariant == Spec => []SocketOwned
<1>1. IOInv => SocketOwned
  BY IOContextAssumption, SMTT(30) DEF IOInv, TypeOK, SocketInv, SocketOwned, Coroutines,
     HasSocket
<1> QED
  BY <1>1, InitInv, NextStep, PTL DEF Spec

-----------------------------------------------------------------------------
(* No coroutine is forgotten.                                              *)

(* Somebody has the handle of c, or is about to give it to the pool. *)
BeingSpawned(c) == \E w \in Workers : wpc[w] = "spawn" /\ aw[w].fd = fdOf[c]
Kept(c) == Held(c) \/ BeingSpawned(c)

(* The end of a coroutine, of the program or of the pool. *)
Gone(c) == ~Alive(c) \/ crashed \/ stage = "stopped"

(* The await_suspend of another coroutine is about to erase the waiter at  *)
(* the descriptor of c.                                                    *)
LateErase(c) ==
    \E w \in Workers : wpc[w] = "erase" /\ cur[w] # c /\ aw[w].fd = fdOf[c]

(* Only the await_suspend of the accept loop touches the entry and the     *)
(* events of listenfd_; await_suspend erases a waiter only when its        *)
(* coroutine has gone on and has closed the socket.                        *)
Suspending == {"store", "modify", "erase"}

SuspendInv ==
    /\ interest[ListenFd] = {"in"}
    /\ \A w \in Workers : wpc[w] \in Suspending =>
         /\ cur[w] \in Coroutines /\ doing[cur[w]] # "none"
         /\ aw[w].fd = fdOf[cur[w]]
         /\ cur[w] = Acceptor => aw[w].events = {"in"}
         /\ wpc[w] = "erase" => doing[cur[w]] = "closed"
    /\ \A w \in Workers : wpc[w] = "events" => cur[w] # Acceptor

(* No call of await_suspend begins or goes on. *)
SuspendKept ==
    /\ interest'[ListenFd] = interest[ListenFd]
    /\ \A w \in Workers : wpc'[w] \in Suspending =>
         UNCHANGED <<wpc[w], cur[w], aw[w]>>
    /\ \A w \in Workers : wpc'[w] = "events" => cur'[w] # Acceptor
    /\ \A c \in Coroutines : doing[c] # "none" =>
         doing'[c] # "none" /\ fdOf'[c] = fdOf[c]
    /\ \A c \in Coroutines : doing[c] = "closed" => doing'[c] = "closed"

(* Then what is known of await_suspend stays. *)
LEMMA SuspendKeptStep ==
    ASSUME SuspendInv, SuspendKept
    PROVE  SuspendInv'
<1>1. ASSUME NEW w \in Workers, wpc'[w] \in Suspending
      PROVE  /\ cur'[w] \in Coroutines /\ doing'[cur'[w]] # "none"
             /\ aw'[w].fd = fdOf'[cur'[w]]
             /\ cur'[w] = Acceptor => aw'[w].events = {"in"}
             /\ wpc'[w] = "erase" => doing'[cur'[w]] = "closed"
  <2>1. /\ wpc'[w] = wpc[w] /\ cur'[w] = cur[w] /\ aw'[w] = aw[w]
        /\ wpc[w] \in Suspending
    BY <1>1 DEF SuspendKept
  <2> QED
    BY <1>1, <2>1, SMTT(30) DEF SuspendInv, SuspendKept
<1> QED
  BY <1>1 DEF SuspendInv, SuspendKept

(* The steps of a worker outside await_suspend. *)
LEMMA OtherWorkSteps ==
    ASSUME IOInv, SuspendInv, NEW w \in Workers,
           \/ \E next \in After : Read(w, next) \/ Write(w, next)
           \/ OpAgain(w) \/ Erase(w) \/ Fail(w) \/ Close(w)
           \/ \E s \in Sessions, f \in Fds : Accept(w, s, f)
           \/ Resume(w) \/ BeginOp(w) \/ Spawn(w)
    PROVE  SuspendKept
<1> USE IOContextAssumption DEF IOInv, coVars, kernelVars, Goto
<1>0. wpc[w] \in Running => cur[w] \in Coroutines /\ Alive(cur[w])
  BY DEF RunInv
<1>1. /\ \A v \in Workers : v # w => UNCHANGED <<wpc[v], cur[v], aw[v]>>
      /\ wpc'[w] \notin Suspending
  <2>1. \E x \in WorkerLocs \ Suspending : wpc' = [wpc EXCEPT ![w] = x]
    BY DEF Read, Write, OpAgain, Erase, Fail, Close, Accept, Resume, BeginOp,
       Spawn, Suspending, WorkerLocs, Running
  <2>2. \E x : cur' = [cur EXCEPT ![w] = x] \/ cur' = cur
    BY DEF Read, Write, OpAgain, Erase, Fail, Close, Accept, Resume, BeginOp, Spawn
  <2>3. \E x : aw' = [aw EXCEPT ![w] = x] \/ aw' = aw
    BY DEF Read, Write, OpAgain, Erase, Fail, Close, Accept, Resume, BeginOp, Spawn
  <2> QED
    BY <2>1, <2>2, <2>3 DEF TypeOK
<1>2. interest'[ListenFd] = interest[ListenFd]
  <2>1. CASE Close(w)
    <3>1. fdOf[cur[w]] # ListenFd
      BY <1>0, <2>1 DEF Close, SocketInv, Coroutines, Running
    <3> QED
      BY <2>1, <3>1 DEF Close, TypeOK
  <2>2. CASE \E s \in Sessions, f \in Fds : Accept(w, s, f)
    BY <2>2 DEF Accept, TypeOK
  <2>3. CASE ~Close(w) /\ ~\E s \in Sessions, f \in Fds : Accept(w, s, f)
    BY <2>3 DEF Read, Write, OpAgain, Erase, Fail, Resume, BeginOp, Spawn
  <2> QED
    BY <2>1, <2>2, <2>3
<1>3. \A c \in Coroutines :
        /\ doing[c] # "none" => doing'[c] # "none" /\ fdOf'[c] = fdOf[c]
        /\ doing[c] = "closed" => doing'[c] = "closed"
  <2>1. CASE \E s \in Sessions, f \in Fds : Accept(w, s, f)
    <3>1. PICK s \in Sessions, f \in Fds : Accept(w, s, f)
      BY <2>1
    <3>2. doing[s] = "none" /\ fdOf' = [fdOf EXCEPT ![s] = f]
      BY <3>1 DEF Accept, Unborn
    <3>3. PICK op \in Ops : doing' = [doing EXCEPT ![s] = op]
      BY <3>1 DEF Accept
    <3> QED
      BY <3>2, <3>3 DEF TypeOK
  <2>2. CASE Fail(w) \/ Close(w) \/ \E next \in After : Read(w, next) \/ Write(w, next)
    <3>1. /\ fdOf' = fdOf /\ cur[w] \in Coroutines /\ doing[cur[w]] # "closed"
          /\ \E x \in After \cup {"failed", "closed"} :
               doing' = [doing EXCEPT ![cur[w]] = x]
      BY <1>0, <2>2 DEF Fail, Close, Read, Write, EndOp, Running, Alive
    <3>2. "none" \notin After \cup {"failed", "closed"}
      BY DEF After
    <3> QED
      BY <3>1, <3>2 DEF TypeOK
  <2>3. CASE OpAgain(w) \/ Erase(w) \/ Resume(w) \/ BeginOp(w) \/ Spawn(w)
    BY <2>3 DEF OpAgain, Erase, Resume, BeginOp, Spawn
  <2> QED
    BY <2>1, <2>2, <2>3
<1>4. wpc'[w] = "events" => cur'[w] # Acceptor
  <2>1. CASE OpAgain(w)
    BY <2>1 DEF OpAgain, SocketInv
  <2>2. CASE ~OpAgain(w)
    <3>1. \E x \in WorkerLocs \ {"events"} : wpc' = [wpc EXCEPT ![w] = x]
      BY <2>2 DEF Read, Write, Erase, Fail, Close, Accept, Resume, BeginOp,
         Spawn, WorkerLocs, Running
    <3> QED
      BY <3>1 DEF TypeOK
  <2> QED
    BY <2>1, <2>2
<1> QED
  BY <1>1, <1>2, <1>3, <1>4, SMTT(30) DEF SuspendKept, SuspendInv

(* Every step keeps what is known of await_suspend. *)
LEMMA SuspendStep ==
    ASSUME IOInv, SuspendInv, [Next]_vars
    PROVE  SuspendInv'
<1> USE IOContextAssumption DEF coVars, kernelVars
<1>1. CASE UNCHANGED vars \/ Peer \/ LoopStep
  BY <1>1, SuspendKeptStep DEF vars, Peer, LoopStep, SuspendKept, SuspendInv
<1>2. CASE StopStep
  <2>1. UNCHANGED <<interest, cur, aw, doing, fdOf>>
        /\ \/ wpc' = wpc
           \/ \E w \in Workers : wpc' = [wpc EXCEPT ![w] = "exited"]
    BY <1>2 DEF StopStep, Stop, Stopping, Joined, WorkerExits, Goto, notStopped
  <2>2. \A w \in Workers : wpc'[w] \in {wpc[w], "exited"}
    BY <2>1 DEF IOInv, TypeOK
  <2>3. SuspendKept
    BY <2>1, <2>2 DEF SuspendKept, Suspending, SuspendInv
  <2> QED
    BY <2>3, SuspendKeptStep
<1>3. CASE Crash
  BY <1>3 DEF Crash, SuspendInv, Suspending
<1>4. ASSUME NEW w \in Workers, Step(w) PROVE SuspendInv'
  <2> USE DEF Goto
  <2>0. wpc[w] \in Running => cur[w] \in Coroutines /\ Alive(cur[w])
    BY DEF IOInv, RunInv
  <2>1. CASE \/ \E next \in After : Read(w, next) \/ Write(w, next)
             \/ OpAgain(w) \/ Erase(w) \/ Fail(w) \/ Close(w)
             \/ \E s \in Sessions, f \in Fds : Accept(w, s, f)
             \/ Resume(w) \/ BeginOp(w) \/ Spawn(w)
    BY <2>1, OtherWorkSteps, SuspendKeptStep
  <2>2. CASE AcceptAgain(w) \/ GetEvents(w)
    <3>1. /\ wpc' = [wpc EXCEPT ![w] = "store"] /\ wpc[w] \in {"try", "events"}
          /\ UNCHANGED <<interest, cur, doing, fdOf>>
      BY <2>2 DEF AcceptAgain, GetEvents
    <3>2. PICK e : /\ aw' = [aw EXCEPT ![w] = Await(fdOf[cur[w]], e)]
                   /\ cur[w] = Acceptor => e = {"in"}
      <4>1. CASE AcceptAgain(w)
        <5>1. aw' = [aw EXCEPT ![w] = Await(fdOf[cur[w]], {"in"})]
          BY <4>1 DEF AcceptAgain, IOInv, SocketInv
        <5> QED
          BY <5>1
      <4>2. CASE GetEvents(w)
        <5>1. wpc[w] = "events" /\ \E e : aw' = [aw EXCEPT ![w] = Await(fdOf[cur[w]], e)]
          BY <4>2 DEF GetEvents
        <5> QED
          BY <5>1 DEF SuspendInv
      <4> QED
        BY <2>2, <4>1, <4>2
    <3>3. /\ wpc'[w] = "store" /\ aw'[w].fd = fdOf[cur[w]]
          /\ cur[w] = Acceptor => aw'[w].events = {"in"}
          /\ \A v \in Workers : v # w => wpc'[v] = wpc[v] /\ aw'[v] = aw[v]
      BY <3>1, <3>2, Records, SMTT(30) DEF IOInv, TypeOK
    <3>4. cur[w] \in Coroutines /\ doing[cur[w]] # "none"
      BY <2>0, <3>1 DEF Running, Alive
    <3> QED
      BY <3>1, <3>3, <3>4, SMTT(30) DEF SuspendInv, Suspending
  <2>3. CASE Store(w) \/ ModifyFails(w)
    <3>1. /\ UNCHANGED <<interest, open, cur, aw, doing, fdOf>>
          /\ \/ Store(w) /\ wpc[w] = "store" /\ wpc' = [wpc EXCEPT ![w] = "modify"]
             \/ ModifyFails(w) /\ wpc[w] = "modify" /\ wpc' = [wpc EXCEPT ![w] = "erase"]
      BY <2>3 DEF Store, ModifyFails
    <3>2. /\ wpc[w] \in Suspending /\ wpc'[w] \in {"modify", "erase"}
          /\ wpc'[w] = "erase" => ModifyFails(w)
          /\ \A v \in Workers : v # w => wpc'[v] = wpc[v]
      BY <3>1 DEF IOInv, TypeOK, Suspending
    <3>3. /\ cur[w] \in Coroutines /\ doing[cur[w]] # "none"
          /\ aw[w].fd = fdOf[cur[w]]
      BY <3>2 DEF SuspendInv
    <3>4. ModifyFails(w) => doing[cur[w]] = "closed"
      <4>1. ModifyFails(w) => fdOf[cur[w]] \notin open
        BY <3>3 DEF ModifyFails
      <4> QED
        BY <3>3, <4>1 DEF IOInv, SocketInv, TypeOK, Coroutines, HasSocket
    <3> QED
      BY <3>1, <3>2, <3>3, <3>4 DEF SuspendInv, Suspending
  <2>4. CASE Modify(w)
    <3>1. /\ UNCHANGED <<doing, fdOf>> /\ wpc[w] \in Suspending
          /\ interest' = [interest EXCEPT ![aw[w].fd] = aw[w].events]
          /\ \A v \in Workers : v # w => UNCHANGED <<wpc[v], cur[v], aw[v]>>
          /\ wpc'[w] = "idle"
      BY <2>4 DEF Modify, IOInv, TypeOK, Suspending
    <3>2. cur[w] \in Coroutines /\ doing[cur[w]] # "none" /\ aw[w].fd = fdOf[cur[w]]
          /\ (cur[w] = Acceptor => aw[w].events = {"in"})
      BY <3>1 DEF SuspendInv
    <3>3. cur[w] # Acceptor => aw[w].fd # ListenFd
      BY <3>2 DEF IOInv, SocketInv, Coroutines
    <3>4. interest'[ListenFd] = {"in"}
      BY <3>1, <3>2, <3>3 DEF SuspendInv, IOInv, TypeOK, AllFds
    <3> QED
      BY <3>1, <3>4, SMTT(30) DEF SuspendInv, Suspending
  <2> QED
    BY <1>4, <2>1, <2>2, <2>3, <2>4 DEF Step
<1> QED
  BY <1>1, <1>2, <1>3, <1>4 DEF Next, Undefined, WorkerStep, ResumeNull

(* front and pop take no other handle. *)
LEMMA PopKeeps ==
    ASSUME NEW S, NEW q \in Seq(S), q # <<>>, NEW c \in Range(q), c # Head(q)
    PROVE  c \in Range(Tail(q))
<1> DEFINE r == Tail(q)
           n == Len(q)
<1>1. /\ n \in Nat \ {0} /\ DOMAIN q = 1 .. n /\ DOMAIN r = 1 .. n - 1
      /\ \A i \in 1 .. n - 1 : r[i] = q[i + 1]
      /\ Head(q) = q[1]
  BY SMTT(30)
<1>2. PICK i \in 1 .. n : q[i] = c
  BY <1>1 DEF Range
<1> HIDE DEF r, n
<1>3. i - 1 \in 1 .. n - 1 /\ r[i - 1] = c
  BY <1>1, <1>2, SMTT(30)
<1> QED
  BY <1>1, <1>3 DEF Range, r

(* push takes none. *)
LEMMA PushKeeps ==
    ASSUME NEW S, NEW q \in Seq(S), NEW x \in S
    PROVE  Range(q) \subseteq Range(Append(q, x)) /\ x \in Range(Append(q, x))
<1>1. Range(Append(q, x)) = Range(q) \cup {x}
  BY PushElement, SMTT(30)
<1> QED
  BY <1>1

(* Where two coroutines have the same descriptor, one of them has closed   *)
(* its socket.                                                             *)
LEMMA OneSocket ==
    ASSUME IOInv, NEW c \in Coroutines, NEW d \in Coroutines,
           HasSocket(c), HasSocket(d), fdOf[c] = fdOf[d]
    PROVE  c = d
  BY IOContextAssumption, SMTT(30) DEF IOInv, SocketInv, Coroutines, HasSocket

(* Whatever worker w does, the other workers stay where they are. *)
LEMMA OthersStay ==
    ASSUME IOInv, NEW w \in Workers, Step(w)
    PROVE  \A v \in Workers : v # w => UNCHANGED <<wpc[v], cur[v], aw[v]>>
<1> USE DEF Goto
<1>1. \E x : wpc' = [wpc EXCEPT ![w] = x]
  BY DEF Step, Read, Write, OpAgain, Erase, Fail, Close, Accept, Resume, BeginOp,
     Spawn, AcceptAgain, GetEvents, Store, Modify, ModifyFails
<1>2. \E x : cur' = [cur EXCEPT ![w] = x] \/ cur' = cur
  BY DEF Step, Read, Write, OpAgain, Erase, Fail, Close, Accept, Resume, BeginOp,
     Spawn, AcceptAgain, GetEvents, Store, Modify, ModifyFails
<1>3. \E x : aw' = [aw EXCEPT ![w] = x] \/ aw' = aw
  BY DEF Step, Read, Write, OpAgain, Erase, Fail, Close, Accept, Resume, BeginOp,
     Spawn, AcceptAgain, GetEvents, Store, Modify, ModifyFails
<1> QED
  BY <1>1, <1>2, <1>3 DEF IOInv, TypeOK

(* A handle in the queue stays there until a worker takes it. *)
LEMMA QueuedKept ==
    ASSUME IOInv, NEW w \in Workers, Step(w), NEW c \in Coroutines, Queued(c)
    PROVE  Queued(c)' \/ RunsOn(w, c)'
<1> USE IOContextAssumption DEF IOInv
<1>1. CASE Resume(w)
  <2>1. c = Head(queue) \/ c \in Range(Tail(queue))
    BY <1>1, PopKeeps DEF Resume, Queued, TypeOK
  <2>2. /\ wpc'[w] \in {"try", "body"} /\ cur'[w] = Head(queue)
        /\ queue' = Tail(queue)
    BY <1>1 DEF Resume, TypeOK
  <2> QED
    BY <2>1, <2>2 DEF RunsOn, Queued, Running
<1>2. CASE BeginOp(w) \/ Spawn(w)
  <2>1. PICK d \in Coroutines : queue' = Append(queue, d)
    BY <1>2 DEF BeginOp, Spawn, Goto, RunInv, Running, Coroutines
  <2>2. queue \in Seq(Coroutines \cup {Null}) /\ d \in Coroutines \cup {Null}
    BY DEF TypeOK
  <2>3. Range(queue) \subseteq Range(Append(queue, d))
    BY <2>2, PushKeeps
  <2> QED
    BY <2>1, <2>3 DEF Queued
<1>3. CASE ~Resume(w) /\ ~BeginOp(w) /\ ~Spawn(w)
  <2>1. queue' = queue
    BY <1>3 DEF Step, Read, Write, OpAgain, Erase, Fail, Close, Accept,
       AcceptAgain, GetEvents, Store, Modify, ModifyFails
  <2> QED
    BY <2>1 DEF Queued
<1> QED
  BY <1>1, <1>2, <1>3

(* A waiter stays in waiters_ when its socket is not closed, except when   *)
(* another await_suspend erases it.                                        *)
LEMMA WaiterKept ==
    ASSUME IOInv, SuspendInv, NEW w \in Workers, Step(w),
           NEW c \in Coroutines, NEW f \in AllFds, WaitsAt(f, c)
    PROVE  \/ WaitsAt(f, c)'
           \/ ~Alive(c)'
           \/ c # Acceptor /\ LateErase(c)
<1> USE IOContextAssumption DEF IOInv, Goto
<1>0. /\ Alive(c) /\ fdOf[c] = f /\ HasSocket(c)
      /\ \A v \in Workers : ~RunsOn(v, c)
  BY Handles DEF WaitsAt, WaiterInv, Alive, HasSocket
<1>1. CASE GetEvents(w)
  <2>1. \/ waiters' = [waiters EXCEPT ![fdOf[cur[w]]] = waiters[fdOf[cur[w]]]]
        \/ /\ waiters[fdOf[cur[w]]] = None
           /\ waiters' = [waiters EXCEPT ![fdOf[cur[w]]] = Entry(Null, {})]
    BY <1>1 DEF GetEvents
  <2>2. waiters'[f] = waiters[f]
    BY <2>1 DEF TypeOK, WaitsAt
  <2> QED
    BY <2>2 DEF WaitsAt
<1>2. CASE Store(w)
  <2>1. /\ wpc[w] = "store" /\ cur[w] \in Coroutines /\ HasSocket(cur[w])
        /\ aw[w].fd = fdOf[cur[w]] /\ RunsOn(w, cur[w])
    BY <1>2 DEF Store, RunInv, AwaitInv, Running, RunsOn, Alive, HasSocket
  <2>2. aw[w].fd # f
    BY <1>0, <2>1, OneSocket
  <2>3. waiters'[f] = waiters[f]
    BY <1>2, <2>2 DEF Store, TypeOK
  <2> QED
    BY <2>3 DEF WaitsAt
<1>3. CASE Erase(w)
  <2>1. CASE aw[w].fd = f
    <3>1. /\ wpc[w] = "erase" /\ cur[w] \in Coroutines /\ doing[cur[w]] = "closed"
          /\ aw[w].fd = fdOf[cur[w]]
      BY <1>3 DEF Erase, SuspendInv, Suspending
    <3>2. cur[w] \in Sessions /\ f # ListenFd
      BY <2>1, <3>1 DEF SocketInv, Coroutines
    <3>3. cur[w] # c /\ c # Acceptor
      BY <1>0, <3>1, <3>2 DEF Alive, SocketInv
    <3> QED
      BY <1>0, <2>1, <3>1, <3>3 DEF LateErase
  <2>2. CASE aw[w].fd # f
    <3>1. waiters'[f] = waiters[f]
      BY <1>3, <2>2 DEF Erase, TypeOK
    <3> QED
      BY <3>1 DEF WaitsAt
  <2> QED
    BY <2>1, <2>2
<1>4. CASE Close(w)
  <2>1. /\ wpc[w] = "body" /\ cur[w] \in Coroutines /\ HasSocket(cur[w])
        /\ RunsOn(w, cur[w])
    BY <1>4 DEF Close, RunInv, Running, RunsOn, Alive, HasSocket
  <2>2. fdOf[cur[w]] # f
    BY <1>0, <2>1, OneSocket
  <2>3. waiters'[f] = waiters[f]
    BY <1>4, <2>2 DEF Close, TypeOK
  <2> QED
    BY <2>3 DEF WaitsAt
<1>5. CASE ~GetEvents(w) /\ ~Store(w) /\ ~Erase(w) /\ ~Close(w)
  <2>1. waiters' = waiters
    BY <1>5 DEF Step, Read, Write, OpAgain, Fail, Accept, Resume, BeginOp,
       Spawn, AcceptAgain, Modify, ModifyFails
  <2> QED
    BY <2>1 DEF WaitsAt
<1> QED
  BY <1>1, <1>2, <1>3, <1>4, <1>5

(* A coroutine leaves its worker for the queue or for waiters_, or ends. *)
LEMMA RunnerKept ==
    ASSUME IOInv, NEW w \in Workers, Step(w), NEW c \in Coroutines, RunsOn(w, c)
    PROVE  \/ RunsOn(w, c)' \/ Queued(c)'
           \/ \E f \in AllFds : WaitsAt(f, c)'
           \/ ~Alive(c)'
<1> USE IOContextAssumption DEF IOInv, Goto
<1>0. wpc[w] \in Running /\ cur[w] = c /\ Alive(c)
  BY DEF RunsOn, RunInv
<1>1. CASE BeginOp(w)
  <2>1. queue' = Append(queue, c)
    BY <1>0, <1>1 DEF BeginOp
  <2>2. queue \in Seq(Coroutines \cup {Null}) /\ c \in Coroutines \cup {Null}
    BY DEF TypeOK
  <2>3. c \in Range(Append(queue, c))
    BY <2>2, PushKeeps
  <2> QED
    BY <2>1, <2>3 DEF Queued
<1>2. CASE Store(w)
  <2>1. /\ wpc[w] = "store" /\ aw[w].fd = fdOf[c] /\ fdOf[c] \in AllFds
    BY <1>0, <1>2 DEF Store, AwaitInv, SocketInv, Alive, Coroutines, AllFds
  <2>2. waiters'[fdOf[c]] = Entry(c, aw[w].events)
    BY <1>0, <1>2, <2>1 DEF Store, TypeOK
  <2>3. waiters'[fdOf[c]].handle = c
    BY <2>2, Records, SMTT(30)
  <2>4. waiters'[fdOf[c]] # None
    <3>1. aw[w].events \in SUBSET Events
      BY DEF TypeOK
    <3>2. Entry(c, aw[w].events) \in [handle : Coroutines \cup {Null}, events : SUBSET Events]
      BY <3>1, Records
    <3> QED
      BY <2>2, <3>2 DEF Events
  <2> QED
    BY <2>1, <2>3, <2>4 DEF WaitsAt
<1>3. CASE Fail(w) \/ Close(w)
  BY <1>0, <1>3 DEF Fail, Close, Alive, TypeOK
<1>4. CASE ~BeginOp(w) /\ ~Store(w) /\ ~Fail(w) /\ ~Close(w)
  <2>1. /\ cur' = cur /\ \E x \in Running : wpc' = [wpc EXCEPT ![w] = x]
    BY <1>0, <1>4 DEF Step, Read, Write, OpAgain, Erase, Accept, Resume,
       Spawn, AcceptAgain, GetEvents, Modify, ModifyFails, Running
  <2> QED
    BY <1>0, <2>1 DEF RunsOn, TypeOK
<1> QED
  BY <1>1, <1>2, <1>3, <1>4

(* The session that is about to be spawned is the one that is spawned. *)
LEMMA SpawnedKept ==
    ASSUME IOInv, NEW w \in Workers, Step(w), NEW c \in Coroutines,
           Alive(c), wpc[w] = "spawn", aw[w].fd = fdOf[c]
    PROVE  Queued(c)'
<1> USE IOContextAssumption DEF IOInv, Goto
<1>1. Spawn(w)
  BY DEF Step, Read, Write, OpAgain, Erase, Fail, Close, Accept, Resume, BeginOp,
     AcceptAgain, GetEvents, Store, Modify, ModifyFails
<1>2. PICK s \in Sessions : fdOf[s] = aw[w].fd /\ doing[s] # "closed"
                            /\ queue' = Append(queue, s)
  BY <1>1 DEF Spawn
<1>3. s \in Coroutines /\ HasSocket(s) /\ HasSocket(c)
  BY <1>2 DEF AwaitInv, Alive, HasSocket, Coroutines
<1>4. s = c
  BY <1>2, <1>3, OneSocket
<1>5. queue \in Seq(Coroutines \cup {Null}) /\ c \in Coroutines \cup {Null}
  BY DEF TypeOK
<1>6. c \in Range(Append(queue, c))
  BY <1>5, PushKeeps
<1> QED
  BY <1>2, <1>4, <1>6 DEF Queued

(* What a coroutine that is alive can lose its handle by. *)
LEMMA KeptStep ==
    ASSUME IOInv, SuspendInv, [Next]_vars, NEW c \in Coroutines,
           Kept(c), Alive(c)
    PROVE  Kept(c)' \/ Gone(c)' \/ (c # Acceptor /\ LateErase(c))
<1> USE IOContextAssumption DEF coVars, kernelVars, loopVars
<1>1. CASE UNCHANGED vars \/ Peer
  BY <1>1 DEF vars, Peer, Kept, Held, BeingSpawned, Queued, WaitsAt, RunsOn
<1>2. CASE LoopStep
  <2>1. UNCHANGED <<wpc, cur, aw, fdOf>>
    BY <1>2 DEF LoopStep
  <2>2. Queued(c) => Queued(c)'
    <3>1. CASE queue' = queue
      BY <3>1 DEF Queued
    <3>2. CASE queue' # queue
      <4>1. PICK f \in AllFds : waiters[f] # None /\ queue' = Append(queue, waiters[f].handle)
        BY <1>2, <3>2 DEF LoopStep, Wait, NoWaiter, Dispatch
      <4> QED
        BY <4>1, PushKeeps DEF IOInv, TypeOK, Queued
    <3> QED
      BY <3>1, <3>2
  <2>3. ASSUME NEW f \in AllFds, WaitsAt(f, c)
        PROVE  WaitsAt(f, c)' \/ Queued(c)'
    <3>1. CASE Dispatch(f)
      BY <2>3, <3>1, PushKeeps DEF Dispatch, IOInv, TypeOK, Queued, WaitsAt
    <3>2. CASE ~Dispatch(f)
      <4>1. waiters'[f] = waiters[f]
        BY <1>2, <3>2 DEF LoopStep, Wait, NoWaiter, Dispatch, IOInv, TypeOK
      <4> QED
        BY <2>3, <4>1 DEF WaitsAt
    <3> QED
      BY <3>1, <3>2
  <2> QED
    BY <2>1, <2>2, <2>3 DEF Kept, Held, BeingSpawned, RunsOn
<1>3. CASE StopStep
  <2>1. CASE stage' = "stopped"
    BY <2>1 DEF Gone
  <2>2. CASE stage' # "stopped"
    <3>1. /\ UNCHANGED <<queue, waiters, cur, aw, fdOf>>
          /\ \/ wpc' = wpc
             \/ \E w \in Workers : wpc[w] = "idle" /\ wpc' = [wpc EXCEPT ![w] = "exited"]
      BY <1>3, <2>2 DEF StopStep, Stop, StopTo, Stopping, Joined, WorkerExits,
         Goto, notStopped
    <3>2. \A w \in Workers : wpc[w] # "idle" => wpc'[w] = wpc[w]
      BY <3>1 DEF IOInv, TypeOK
    <3> QED
      BY <3>1, <3>2 DEF Kept, Held, BeingSpawned, Queued, WaitsAt, RunsOn, Running
  <2> QED
    BY <2>1, <2>2
<1>4. CASE Crash
  BY <1>4 DEF Crash, Gone
<1>5. ASSUME NEW w \in Workers, Step(w)
      PROVE  Kept(c)' \/ Gone(c)' \/ (c # Acceptor /\ LateErase(c))
  <2>1. fdOf'[c] = fdOf[c]
    <3>1. CASE \E s \in Sessions, f \in Fds : Accept(w, s, f)
      BY <3>1 DEF Accept, Unborn, Alive, IOInv, TypeOK
    <3>2. CASE ~\E s \in Sessions, f \in Fds : Accept(w, s, f)
      BY <1>5, <3>2 DEF Step, Read, Write, OpAgain, Erase, Fail, Close, Resume,
         BeginOp, Spawn, AcceptAgain, GetEvents, Store, Modify, ModifyFails
    <3> QED
      BY <3>1, <3>2
  <2>2. CASE Queued(c)
    BY <1>5, <2>2, QueuedKept DEF Kept, Held
  <2>3. CASE \E f \in AllFds : WaitsAt(f, c)
    BY <1>5, <2>3, WaiterKept DEF Kept, Held, Gone
  <2>4. CASE \E v \in Workers : RunsOn(v, c)
    <3>1. PICK v \in Workers : RunsOn(v, c)
      BY <2>4
    <3>2. CASE v = w
      BY <1>5, <3>1, <3>2, RunnerKept DEF Kept, Held, Gone
    <3>3. CASE v # w
      BY <1>5, <3>1, <3>3, OthersStay DEF Kept, Held, RunsOn
    <3> QED
      BY <3>2, <3>3
  <2>5. CASE BeingSpawned(c)
    <3>1. PICK v \in Workers : wpc[v] = "spawn" /\ aw[v].fd = fdOf[c]
      BY <2>5 DEF BeingSpawned
    <3>2. CASE v = w
      BY <1>5, <3>1, <3>2, SpawnedKept DEF Kept, Held
    <3>3. CASE v # w
      BY <1>5, <2>1, <3>1, <3>3, OthersStay DEF Kept, BeingSpawned
    <3> QED
      BY <3>2, <3>3
  <2> QED
    BY <2>2, <2>3, <2>4, <2>5 DEF Kept, Held
<1> QED
  BY <1>1, <1>2, <1>3, <1>4, <1>5 DEF Next, Undefined, WorkerStep, ResumeNull

(* Until it fails or the context has stopped, the coroutine of the accept  *)
(* loop is queued, runs, or waits at listenfd_; and epoll watches          *)
(* listenfd_ for connections, so that a waiting acceptor is found when one *)
(* arrives, whatever sessions and late calls of await_suspend do.          *)
AcceptorKept ==
    ~Gone(Acceptor) =>
        /\ \/ Queued(Acceptor) \/ WaitsAt(ListenFd, Acceptor)
           \/ \E w \in Workers : RunsOn(w, Acceptor)
        /\ ListenFd \in open /\ interest[ListenFd] = {"in"}

(* The inductive invariant, extended. *)
KeptInv == IOInv /\ SuspendInv /\ (~Gone(Acceptor) => Held(Acceptor))

(* At first the acceptor is queued. *)
LEMMA KeptInit == Init => KeptInv
<1> SUFFICES ASSUME Init PROVE KeptInv
  OBVIOUS
<1>1. IOInv
  BY InitInv
<1>2. SuspendInv
  <2>1. /\ interest[ListenFd] = {"in"} /\ \A w \in Workers : wpc[w] = "idle"
    BY DEF Init, AllFds
  <2> QED
    BY <2>1 DEF SuspendInv, Suspending
<1>3. Queued(Acceptor)
  BY SMTT(30) DEF Init, Queued, Range
<1> QED
  BY <1>1, <1>2, <1>3 DEF KeptInv, Held

(* The end of the acceptor, of the program or of the pool is final. *)
LEMMA GoneForever ==
    ASSUME IOInv, [Next]_vars, Gone(Acceptor)
    PROVE  Gone(Acceptor)'
<1> USE IOContextAssumption DEF coVars, kernelVars, loopVars
<1>1. CASE UNCHANGED vars \/ Peer \/ LoopStep
  <2>1. UNCHANGED <<crashed, stage, doing>>
    BY <1>1 DEF vars, Peer, LoopStep
  <2> QED
    BY <2>1 DEF Gone, Alive
<1>2. CASE StopStep
  BY <1>2 DEF StopStep, Stop, StopTo, Stopping, Joined, WorkerExits, notStopped,
     Gone, Alive
<1>3. CASE Crash
  BY <1>3 DEF Crash, Gone
<1>4. ASSUME NEW w \in Workers, Step(w) PROVE Gone(Acceptor)'
  <2>1. UNCHANGED <<crashed, stage>>
    BY <1>4 DEF Step, Read, Write, OpAgain, Erase, Fail, Close, Accept, Resume,
       BeginOp, Spawn, AcceptAgain, GetEvents, Store, Modify, ModifyFails
  <2>2. ASSUME ~Alive(Acceptor) PROVE ~Alive(Acceptor)'
    <3>1. wpc[w] \in Running => cur[w] \in Coroutines /\ cur[w] # Acceptor
      BY <2>2 DEF IOInv, RunInv, Alive
    <3>2. CASE \E s \in Sessions, f \in Fds : Accept(w, s, f)
      BY <3>1, <3>2 DEF Accept, Goto, Running
    <3>3. CASE Fail(w) \/ Close(w) \/ \E next \in After : Read(w, next) \/ Write(w, next)
      <4>1. \E x : cur[w] # Acceptor /\ doing' = [doing EXCEPT ![cur[w]] = x]
        BY <3>1, <3>3 DEF Fail, Close, Read, Write, EndOp, Goto, Running
      <4> QED
        BY <2>2, <4>1 DEF Alive, IOInv, TypeOK, Coroutines
    <3>4. CASE \/ OpAgain(w) \/ Erase(w) \/ Resume(w) \/ BeginOp(w) \/ Spawn(w)
               \/ AcceptAgain(w) \/ GetEvents(w) \/ Store(w) \/ Modify(w) \/ ModifyFails(w)
      BY <2>2, <3>4 DEF OpAgain, Erase, Resume, BeginOp, Spawn, AcceptAgain,
         GetEvents, Store, Modify, ModifyFails, Alive
    <3> QED
      BY <1>4, <3>2, <3>3, <3>4 DEF Step
  <2> QED
    BY <2>1, <2>2 DEF Gone
<1> QED
  BY <1>1, <1>2, <1>3, <1>4 DEF Next, Undefined, WorkerStep, ResumeNull

(* Every step keeps the acceptor. *)
LEMMA KeptNext == KeptInv /\ [Next]_vars => KeptInv'
<1> SUFFICES ASSUME KeptInv, [Next]_vars PROVE KeptInv'
  OBVIOUS
<1>1. IOInv' /\ SuspendInv'
  BY NextStep, SuspendStep DEF KeptInv
<1>2. ASSUME ~Gone(Acceptor)' PROVE Held(Acceptor)'
  <2>1. Acceptor \in Coroutines
    BY DEF Coroutines
  <2>2. ~Gone(Acceptor)
    BY <1>2, GoneForever DEF KeptInv
  <2>3. Kept(Acceptor)'
    BY <1>2, <2>1, <2>2, KeptStep DEF KeptInv, Kept, Gone
  <2>4. ~BeingSpawned(Acceptor)'
    BY <1>1, IOContextAssumption DEF BeingSpawned, IOInv, AwaitInv, SocketInv
  <2> QED
    BY <2>3, <2>4 DEF Kept
<1> QED
  BY <1>1, <1>2 DEF KeptInv

(* The acceptor is never lost. *)
THEOREM AcceptorNeverLost == Spec => []AcceptorKept
<1>1. KeptInv => AcceptorKept
  <2> SUFFICES ASSUME KeptInv, ~Gone(Acceptor) PROVE AcceptorKept
    BY DEF AcceptorKept
  <2>1. \A f \in AllFds : WaitsAt(f, Acceptor) => f = ListenFd
    BY Handles DEF KeptInv, IOInv, WaiterInv, SocketInv, WaitsAt, Coroutines
  <2> QED
    BY <2>1 DEF KeptInv, IOInv, SuspendInv, TypeOK, AcceptorKept, Held
<1> QED
  BY <1>1, KeptInit, KeptNext, PTL DEF Spec

(* A coroutine that is alive and has a holder keeps one with every step,   *)
(* until it ends, the program ends or the pool has stopped; the one        *)
(* exception is a session whose descriptor is the one that an earlier      *)
(* session had: the late await_suspend of the earlier one may erase its    *)
(* waiter, and nothing resumes it any more.                                *)
OnlyEraseForgets ==
    \A c \in Coroutines :
        Alive(c) /\ Kept(c) =>
            Kept(c)' \/ Gone(c)' \/ (c # Acceptor /\ LateErase(c))

(* Nothing but a late erase makes the network part forget a coroutine. *)
THEOREM CoroutinesKept == Spec => [][OnlyEraseForgets]_vars
<1>1. KeptInv /\ [Next]_vars => [OnlyEraseForgets]_vars
  BY KeptStep DEF KeptInv, OnlyEraseForgets
<1> QED
  BY <1>1, KeptInit, KeptNext, PTL DEF Spec

=============================================================================
