-------------------------- MODULE CoroutineProofs ---------------------------
(***************************************************************************)
(* Proofs about the coroutine types of include/coro: Awaitable, for any    *)
(* number of workers and any forest of coroutines; Task, for any clients   *)
(* and coroutines; and Generator, for any frames, generators, iterators    *)
(* and number of values.  The three do not interact: each has its own      *)
(* inductive invariant.                                                    *)
(***************************************************************************)
EXTENDS Awaitable, Task, Generator, SequenceFacts, FiniteSetTheorems, TLAPS

-----------------------------------------------------------------------------
(* Awaitable: the inductive invariant.                                     *)

(* Types, and the queue of the pool: it has no coroutine twice, and those  *)
(* it has are the ones whose first resumption was requested.               *)
QueueInv ==
    /\ TypeOK
    /\ pending \in Seq(Coroutines) /\ IsInjective(pending)
    /\ \A c \in Coroutines : frame[c] = "queued" <=> c \in Range(pending)

(* A coroutine runs on one worker. *)
RunInv ==
    /\ \A c \in Coroutines : frame[c] = "running" <=> \E w \in Workers : on[w] = c
    /\ \A v, w \in Workers : on[v] = on[w] /\ on[v] # None => v = w

(* promise.awaiting links every live child to its parent, which awaits it  *)
(* and nobody else.                                                        *)
LinkInv ==
    /\ \A c \in Coroutines : frame[c] = "none" => awaiting[c] = None
    /\ \A c \in Live : awaiting[c] = Parent[c]
    /\ \A c \in Live : awaiting[c] # None => frame[awaiting[c]] = "awaits"
    /\ \A j, k \in Live : awaiting[j] = awaiting[k] /\ awaiting[j] # None => j = k
    /\ \A c \in Coroutines : frame[c] = "awaits" => \E k \in Live : awaiting[k] = c

(* A coroutine that has not run has no children; only spawned ones stay at *)
(* the final suspension point; those that have ended left nothing.         *)
FamilyInv ==
    /\ \A c \in Coroutines :
         frame[c] \in {"none", "created", "queued"} =>
             \A k \in Children(c) : frame[k] = "none"
    /\ \A c \in Coroutines : frame[c] = "final" => Parent[c] = None
    /\ NoFrameLeft

(* The inductive invariant. *)
AwaitableInv == QueueInv /\ RunInv /\ LinkInv /\ HasExecutor /\ FamilyInv

(* Zenon proves most leaves; the others name the SMT solver.               *)
USE ZenonT(30)

-----------------------------------------------------------------------------

(* None is no coroutine, and a parent is a coroutine or None. *)
LEMMA Constants ==
    /\ None \notin Coroutines
    /\ \A c \in Coroutines : Parent[c] \in Coroutines \cup {None}
  BY AwaitableAssumption

(* The invariant of Awaitable holds at first. *)
LEMMA InitInv == Init => AwaitableInv
<1> SUFFICES ASSUME Init PROVE AwaitableInv
  OBVIOUS
<1> USE Constants DEF Init, Pool!Init
<1>1. QueueInv
  BY EmptyQueue, SMTT(30) DEF QueueInv, TypeOK, States
<1>2. RunInv /\ LinkInv /\ HasExecutor
  BY DEF RunInv, LinkInv, HasExecutor, Live
<1>3. FamilyInv
  BY DEF FamilyInv, NoFrameLeft, Children
<1> QED
  BY <1>1, <1>2, <1>3 DEF AwaitableInv


(* What the end of a coroutine does to the frames. *)
LEMMA EndFrames ==
    ASSUME AwaitableInv, NEW w \in Workers, NEW r, End(w, r)
    PROVE  LET c == on[w]
               p == awaiting[c]
           IN  /\ c \in Coroutines /\ frame[c] = "running" /\ p = Parent[c]
               /\ p \in Coroutines \cup {None} /\ awaiting' = awaiting
               /\ p = None => EndSpawned(w, r) /\ frame'[c] = "final"
               /\ p # None =>
                    /\ EndAwaited(w, r) /\ frame'[c] = "destroyed"
                    /\ frame[p] = "awaits" /\ frame'[p] = "running"
               /\ \A k \in Coroutines \ {c, p} :
                    frame'[k] = IF Parent[k] = c /\ frame[k] = "created"
                                THEN "destroyed" ELSE frame[k]
<1> USE Constants DEF AwaitableInv, QueueInv, TypeOK
<1>1. on[w] \in Coroutines /\ frame[on[w]] = "running"
  BY DEF End, EndSpawned, EndAwaited, RunInv
<1>2. awaiting[on[w]] = Parent[on[w]]
  BY <1>1 DEF LinkInv, Live
<1>3. CASE EndSpawned(w, r)
  BY <1>1, <1>2, <1>3 DEF EndSpawned, Leftover, Children
<1>4. CASE EndAwaited(w, r)
  <2>1. awaiting[on[w]] # None /\ frame[awaiting[on[w]]] = "awaits"
    BY <1>1, <1>4 DEF EndAwaited, LinkInv, Live
  <2> QED
    BY <1>1, <1>2, <1>4, <2>1 DEF EndAwaited, Leftover, Children, ChildEnd
<1> QED
  BY <1>3, <1>4 DEF End

(* The pool takes a coroutine that is not in its queue. *)
LEMMA QueueStep == AwaitableInv /\ [Next]_vars => QueueInv'
<1> SUFFICES ASSUME AwaitableInv, [Next]_vars PROVE QueueInv'
  OBVIOUS
<1> USE Constants DEF AwaitableInv, QueueInv, TypeOK, States, frameVars, poolVars
<1>1. ASSUME NEW c \in Coroutines, CoSpawn(c) PROVE QueueInv'
  <2>1. c \notin Range(pending)
    BY <1>1 DEF CoSpawn
  <2> QED
    BY <1>1, <2>1, PushElement, SMTT(30) DEF CoSpawn, Pool!Submit
<1>2. ASSUME NEW w \in Workers, Begin(w) PROVE QueueInv'
  BY <1>2, PopElement, SMTT(30) DEF Begin, Pool!Start
<1>3. ASSUME NEW w \in Workers, NEW k \in Coroutines, Call(w, k) PROVE QueueInv'
  BY <1>3 DEF Call
<1>4. ASSUME NEW w \in Workers, NEW k \in Coroutines, Drop(w, k) PROVE QueueInv'
  BY <1>4 DEF Drop
<1>5. ASSUME NEW w \in Workers, NEW k \in Coroutines, CoAwait(w, k) PROVE QueueInv'
  <2>1. on[w] \in Coroutines /\ frame[on[w]] = "running" /\ on[w] # k
    BY <1>5, SMTT(30) DEF CoAwait, RunInv
  <2>2. k \notin Range(pending) /\ on[w] \notin Range(pending)
    BY <1>5, <2>1 DEF CoAwait
  <2> QED
    BY <1>5, <2>1, <2>2, PushElement, SMTT(30) DEF CoAwait, HandDown,
       SetAwaiting, Pool!Submit
<1>6. ASSUME NEW w \in Workers, EndTask(w) PROVE QueueInv'
  BY <1>6 DEF EndTask, Pool!Finish
<1>7. ASSUME NEW w \in Workers, NEW r \in {"value", "exception"}, EndSpawned(w, r)
      PROVE  QueueInv'
  <2>1. on[w] \in Coroutines /\ frame[on[w]] = "running"
    BY <1>7 DEF EndSpawned, RunInv
  <2> QED
    BY <1>7, <2>1 DEF EndSpawned, Leftover, Children
<1>8. ASSUME NEW w \in Workers, NEW r \in {"value", "exception"}, EndAwaited(w, r)
      PROVE  QueueInv'
  <2>1. on[w] \in Coroutines /\ frame[on[w]] = "running"
    BY <1>8 DEF EndAwaited, RunInv
  <2>2. awaiting[on[w]] \in Coroutines /\ frame[awaiting[on[w]]] = "awaits"
    BY <1>8, <2>1 DEF EndAwaited, LinkInv, Live
  <2> QED
    BY <1>8, <2>1, <2>2 DEF EndAwaited, Leftover, Children, ChildEnd
<1>9. CASE UNCHANGED vars
  BY <1>9 DEF vars
<1> QED
  BY <1>1, <1>2, <1>3, <1>4, <1>5, <1>6, <1>7, <1>8, <1>9 DEF Next, WorkerStep, End

(* A coroutine moves from the queue or from its child to one worker. *)
LEMMA RunStep == AwaitableInv /\ [Next]_vars => RunInv'
<1> SUFFICES ASSUME AwaitableInv, [Next]_vars PROVE RunInv'
  OBVIOUS
<1> USE Constants DEF AwaitableInv, QueueInv, TypeOK, States, frameVars, poolVars,
        RunInv
<1>1. ASSUME NEW c \in Coroutines, CoSpawn(c) PROVE RunInv'
  BY <1>1 DEF CoSpawn
<1>2. ASSUME NEW w \in Workers, Begin(w) PROVE RunInv'
  <2>1. Head(pending) \in Coroutines /\ frame[Head(pending)] = "queued"
    BY <1>2, PopElement DEF Begin, Pool!Start
  <2> QED
    BY <1>2, <2>1, SMTT(30) DEF Begin
<1>3. ASSUME NEW w \in Workers, NEW k \in Coroutines, Call(w, k) PROVE RunInv'
  BY <1>3 DEF Call
<1>4. ASSUME NEW w \in Workers, NEW k \in Coroutines, Drop(w, k) PROVE RunInv'
  BY <1>4 DEF Drop
<1>5. ASSUME NEW w \in Workers, NEW k \in Coroutines, CoAwait(w, k) PROVE RunInv'
  <2>1. on[w] \in Coroutines /\ frame[on[w]] = "running" /\ on[w] # k
    BY <1>5, SMTT(30) DEF CoAwait, RunInv
  <2> QED
    BY <1>5, <2>1, SMTT(30) DEF CoAwait, HandDown, SetAwaiting, Children
<1>6. ASSUME NEW w \in Workers, EndTask(w) PROVE RunInv'
  BY <1>6 DEF EndTask
<1>7. ASSUME NEW w \in Workers, NEW r \in {"value", "exception"}, EndSpawned(w, r)
      PROVE  RunInv'
  <2>1. on[w] \in Coroutines /\ frame[on[w]] = "running"
    BY <1>7 DEF EndSpawned, RunInv
  <2> QED
    BY <1>7, <2>1, SMTT(30) DEF EndSpawned, Leftover, Children
<1>8. ASSUME NEW w \in Workers, NEW r \in {"value", "exception"}, EndAwaited(w, r)
      PROVE  RunInv'
  <2>1. on[w] \in Coroutines /\ frame[on[w]] = "running"
    BY <1>8 DEF EndAwaited, RunInv
  <2>2. awaiting[on[w]] \in Coroutines /\ frame[awaiting[on[w]]] = "awaits"
    BY <1>8, <2>1, SMTT(30) DEF EndAwaited, LinkInv, Live
  <2> QED
    BY <1>8, <2>1, <2>2, SMTT(30) DEF EndAwaited, Leftover, Children, ChildEnd
<1>9. CASE UNCHANGED vars
  BY <1>9 DEF vars
<1> QED
  BY <1>1, <1>2, <1>3, <1>4, <1>5, <1>6, <1>7, <1>8, <1>9, SMTT(30) DEF Next,
     WorkerStep, End

(* Links are made by co_await and end with the child. *)
LEMMA LinkStep == AwaitableInv /\ [Next]_vars => LinkInv'
<1> SUFFICES ASSUME AwaitableInv, [Next]_vars PROVE LinkInv'
  OBVIOUS
<1> USE Constants DEF AwaitableInv, QueueInv, TypeOK, States, frameVars, poolVars,
        LinkInv, Live, RunInv
<1>1. ASSUME NEW c \in Coroutines, CoSpawn(c) PROVE LinkInv'
  BY <1>1, SMTT(30) DEF CoSpawn
<1>2. ASSUME NEW w \in Workers, Begin(w) PROVE LinkInv'
  <2>1. Head(pending) \in Coroutines /\ frame[Head(pending)] = "queued"
    BY <1>2, PopElement DEF Begin, Pool!Start
  <2> QED
    BY <1>2, <2>1, SMTT(30) DEF Begin
<1>3. ASSUME NEW w \in Workers, NEW k \in Coroutines, Call(w, k) PROVE LinkInv'
  BY <1>3, SMTT(30) DEF Call
<1>4. ASSUME NEW w \in Workers, NEW k \in Coroutines, Drop(w, k) PROVE LinkInv'
  BY <1>4, SMTT(30) DEF Drop
<1>5. ASSUME NEW w \in Workers, NEW k \in Coroutines, CoAwait(w, k) PROVE LinkInv'
  <2>1. on[w] \in Coroutines /\ frame[on[w]] = "running" /\ on[w] # k
    BY <1>5, SMTT(30) DEF CoAwait, RunInv
  <2> QED
    BY <1>5, <2>1, SMTT(30) DEF CoAwait, HandDown, SetAwaiting, Children
<1>6. ASSUME NEW w \in Workers, EndTask(w) PROVE LinkInv'
  BY <1>6 DEF EndTask
<1>7. ASSUME NEW w \in Workers, NEW r \in {"value", "exception"}, End(w, r)
      PROVE  LinkInv'
  <2> DEFINE c == on[w]
             p == awaiting[c]
  <2>1. /\ c \in Coroutines /\ frame[c] = "running" /\ p = Parent[c]
        /\ p \in Coroutines \cup {None} /\ awaiting' = awaiting
        /\ p = None => frame'[c] = "final"
        /\ p # None => /\ frame'[c] = "destroyed" /\ frame[p] = "awaits"
                       /\ frame'[p] = "running"
        /\ \A k \in Coroutines \ {c, p} :
             frame'[k] = IF Parent[k] = c /\ frame[k] = "created"
                         THEN "destroyed" ELSE frame[k]
    BY <1>7, EndFrames
  <2> HIDE DEF c, p
  <2>2. p = awaiting[c]
    BY DEF p
  <2>3. Live' = Live \ {c}
    BY <2>1, SMTT(30)
  <2>4. \A k \in Coroutines : frame'[k] = "none" => awaiting'[k] = None
    BY <2>1, SMTT(30)
  <2>5. ASSUME NEW k \in Live', awaiting[k] # None
        PROVE  frame'[awaiting[k]] = "awaits"
    <3>1. /\ k \in Live /\ k # c /\ c \in Live
          /\ awaiting[k] \in Coroutines /\ frame[awaiting[k]] = "awaits"
      BY <2>1, <2>3, <2>5, SMTT(30)
    <3>2. awaiting[k] # c /\ awaiting[k] # p
      BY <2>1, <2>2, <2>5, <3>1, SMTT(30)
    <3> QED
      BY <2>1, <3>1, <3>2
  <2>6. ASSUME NEW q \in Coroutines, frame'[q] = "awaits"
        PROVE  \E k \in Live' : awaiting[k] = q
    <3>1. q # c /\ q # p /\ frame[q] = "awaits"
      BY <2>1, <2>6, SMTT(30)
    <3>2. PICK k \in Live : awaiting[k] = q
      BY <3>1
    <3> QED
      BY <2>2, <2>3, <3>1, <3>2
  <2>7. \A k \in Live' : awaiting'[k] = Parent[k]
    BY <2>1, <2>3
  <2>8. \A j, k \in Live' : awaiting'[j] = awaiting'[k] /\ awaiting'[j] # None => j = k
    BY <2>1, <2>3
  <2> QED
    BY <2>1, <2>4, <2>5, <2>6, <2>7, <2>8, SMTT(30)
<1>8. CASE UNCHANGED vars
  BY <1>8 DEF vars
<1> QED
  BY <1>1, <1>2, <1>3, <1>4, <1>5, <1>6, <1>7, <1>8, SMTT(30) DEF Next, WorkerStep

(* The executor comes from co_spawn or from the parent. *)
LEMMA ExecutorStep == AwaitableInv /\ [Next]_vars => HasExecutor'
<1> SUFFICES ASSUME AwaitableInv, [Next]_vars PROVE HasExecutor'
  OBVIOUS
<1> USE Constants DEF AwaitableInv, QueueInv, TypeOK, States, frameVars, poolVars,
        HasExecutor, Live
<1>1. ASSUME NEW c \in Coroutines, CoSpawn(c) PROVE HasExecutor'
  BY <1>1 DEF CoSpawn
<1>2. ASSUME NEW w \in Workers, Begin(w) PROVE HasExecutor'
  <2>1. Head(pending) \in Coroutines /\ frame[Head(pending)] = "queued"
    BY <1>2, PopElement DEF Begin, Pool!Start
  <2> QED
    BY <1>2, <2>1 DEF Begin
<1>3. ASSUME NEW w \in Workers, NEW k \in Coroutines, Call(w, k) PROVE HasExecutor'
  BY <1>3 DEF Call
<1>4. ASSUME NEW w \in Workers, NEW k \in Coroutines, Drop(w, k) PROVE HasExecutor'
  BY <1>4 DEF Drop
<1>5. ASSUME NEW w \in Workers, NEW k \in Coroutines, CoAwait(w, k) PROVE HasExecutor'
  <2>1. on[w] \in Coroutines /\ frame[on[w]] = "running" /\ on[w] # k
    BY <1>5, SMTT(30) DEF CoAwait, RunInv
  <2> QED
    BY <1>5, <2>1 DEF CoAwait, HandDown, SetAwaiting, Children
<1>6. ASSUME NEW w \in Workers, EndTask(w) PROVE HasExecutor'
  BY <1>6 DEF EndTask
<1>7. ASSUME NEW w \in Workers, NEW r \in {"value", "exception"}, EndSpawned(w, r)
      PROVE  HasExecutor'
  <2>1. on[w] \in Coroutines /\ frame[on[w]] = "running"
    BY <1>7 DEF EndSpawned, RunInv
  <2> QED
    BY <1>7, <2>1 DEF EndSpawned, Leftover, Children
<1>8. ASSUME NEW w \in Workers, NEW r \in {"value", "exception"}, EndAwaited(w, r)
      PROVE  HasExecutor'
  <2>1. on[w] \in Coroutines /\ frame[on[w]] = "running"
    BY <1>8 DEF EndAwaited, RunInv
  <2>2. awaiting[on[w]] \in Coroutines /\ frame[awaiting[on[w]]] = "awaits"
    BY <1>8, <2>1, SMTT(30) DEF EndAwaited, LinkInv, Live
  <2> QED
    BY <1>8, <2>1, <2>2 DEF EndAwaited, Leftover, Children, ChildEnd
<1>9. CASE UNCHANGED vars
  BY <1>9 DEF vars
<1> QED
  BY <1>1, <1>2, <1>3, <1>4, <1>5, <1>6, <1>7, <1>8, <1>9, SMTT(30) DEF Next,
     WorkerStep, End

(* A coroutine ends when it has no live child, and takes the others with it. *)
LEMMA FamilyStep == AwaitableInv /\ [Next]_vars => FamilyInv'
<1> SUFFICES ASSUME AwaitableInv, [Next]_vars PROVE FamilyInv'
  OBVIOUS
<1> USE Constants DEF AwaitableInv, QueueInv, TypeOK, States, frameVars, poolVars,
        FamilyInv, NoFrameLeft, LinkInv, Live, RunInv, Children
<1>1. ASSUME NEW c \in Coroutines, CoSpawn(c) PROVE FamilyInv'
  BY <1>1, SMTT(30) DEF CoSpawn
<1>2. ASSUME NEW w \in Workers, Begin(w) PROVE FamilyInv'
  <2>1. Head(pending) \in Coroutines /\ frame[Head(pending)] = "queued"
    BY <1>2, PopElement DEF Begin, Pool!Start
  <2> QED
    BY <1>2, <2>1, SMTT(30) DEF Begin
<1>3. ASSUME NEW w \in Workers, NEW k \in Coroutines, Call(w, k) PROVE FamilyInv'
  BY <1>3, SMTT(30) DEF Call
<1>4. ASSUME NEW w \in Workers, NEW k \in Coroutines, Drop(w, k) PROVE FamilyInv'
  BY <1>4, SMTT(30) DEF Drop
<1>5. ASSUME NEW w \in Workers, NEW k \in Coroutines, CoAwait(w, k) PROVE FamilyInv'
  <2>1. on[w] \in Coroutines /\ frame[on[w]] = "running" /\ on[w] # k
    BY <1>5 DEF CoAwait, RunInv
  <2>2. /\ Parent[k] = on[w] /\ frame[k] = "created"
        /\ frame'[on[w]] = "awaits" /\ frame'[k] = "queued"
        /\ \A d \in Coroutines \ {on[w], k} : frame'[d] = frame[d]
    BY <1>5, <2>1, SMTT(30) DEF CoAwait
  <2>3. ASSUME NEW d \in Coroutines, frame'[d] \in {"none", "created", "queued"},
               NEW j \in Children(d)
        PROVE  frame'[j] = "none"
    <3>1. frame[d] \in {"none", "created", "queued"}
      BY <2>2, <2>3
    <3>2. frame[j] = "none"
      BY <3>1
    <3> QED
      BY <2>1, <2>2, <3>2
  <2>4. \A d \in Coroutines : frame'[d] = "final" => Parent[d] = None
    BY <2>2, SMTT(30)
  <2>5. ASSUME NEW d \in Coroutines, frame'[d] \in {"final", "destroyed"},
               NEW j \in Children(d)
        PROVE  frame'[j] \in {"none", "destroyed"}
    <3>1. frame[d] \in {"final", "destroyed"}
      BY <2>2, <2>5
    <3>2. frame[j] \in {"none", "destroyed"}
      BY <3>1
    <3> QED
      BY <2>1, <2>2, <3>2
  <2> QED
    BY <2>3, <2>4, <2>5
<1>6. ASSUME NEW w \in Workers, EndTask(w) PROVE FamilyInv'
  BY <1>6 DEF EndTask
<1>7. ASSUME NEW w \in Workers, NEW r \in {"value", "exception"}, End(w, r)
      PROVE  FamilyInv'
  <2> DEFINE c == on[w]
             p == awaiting[c]
  <2>1. /\ c \in Coroutines /\ frame[c] = "running" /\ p = Parent[c]
        /\ p \in Coroutines \cup {None} /\ awaiting' = awaiting
        /\ p = None => frame'[c] = "final"
        /\ p # None => /\ frame'[c] = "destroyed" /\ frame[p] = "awaits"
                       /\ frame'[p] = "running"
        /\ \A k \in Coroutines \ {c, p} :
             frame'[k] = IF Parent[k] = c /\ frame[k] = "created"
                         THEN "destroyed" ELSE frame[k]
    BY <1>7, EndFrames
  <2> HIDE DEF c, p
  <2>2. \A k \in Children(c) : frame[k] \in {"none", "created", "destroyed"}
    BY <2>1, SMTT(30)
  <2>3. \A k \in Children(c) : frame'[k] \in {"none", "destroyed"}
    BY <2>1, <2>2, SMTT(30)
  <2>4. ASSUME NEW d \in Coroutines, frame'[d] \in {"none", "created", "queued"},
               NEW k \in Children(d)
        PROVE  frame'[k] = "none"
    BY <2>1, <2>4, SMTT(30)
  <2>5. \A d \in Coroutines : frame'[d] = "final" => Parent[d] = None
    BY <2>1, SMTT(30)
  <2>6. ASSUME NEW d \in Coroutines, frame'[d] \in {"final", "destroyed"},
               NEW k \in Children(d)
        PROVE  frame'[k] \in {"none", "destroyed"}
    <3>1. CASE d = c
      BY <2>3, <3>1
    <3>2. CASE d # c
      <4>1. d # p /\ frame[d] \in {"created", "final", "destroyed"}
        BY <2>1, <2>6, <3>2, SMTT(30)
      <4>2. frame[k] \in {"none", "destroyed"}
        BY <4>1, SMTT(30)
      <4> QED
        BY <2>1, <4>2, SMTT(30)
    <3> QED
      BY <3>1, <3>2
  <2> QED
    BY <2>4, <2>5, <2>6
<1>8. CASE UNCHANGED vars
  <2>1. frame' = frame
    BY <1>8 DEF vars
  <2> QED
    BY <2>1
<1> QED
  BY <1>1, <1>2, <1>3, <1>4, <1>5, <1>6, <1>7, <1>8, SMTT(30) DEF Next, WorkerStep

-----------------------------------------------------------------------------

(* The inductive invariant of Awaitable. *)
LEMMA Invariant == Spec => []AwaitableInv
<1>1. AwaitableInv /\ [Next]_vars => AwaitableInv'
  BY QueueStep, RunStep, LinkStep, ExecutorStep, FamilyStep DEF AwaitableInv
<1> QED
  BY <1>1, InitInv, PTL DEF Spec

(* For any coroutines and workers: a coroutine is resumed only while it is *)
(* suspended, runs on one worker, and while it awaits has exactly one live *)
(* child, which resumes it at its end (await_suspend and final_suspend).   *)
THEOREM ResumedWhileSuspended == Spec => []ResumeInv
<1>1. AwaitableInv => ResumeInv
  <2> SUFFICES ASSUME AwaitableInv PROVE ResumeInv
    OBVIOUS
  <2> USE DEF AwaitableInv, QueueInv, RunInv, LinkInv
  <2>1. ASSUME NEW c \in Coroutines, frame[c] = "awaits"
        PROVE  Cardinality({k \in Live : awaiting[k] = c}) = 1
    <3>1. PICK k \in Live : awaiting[k] = c
      BY <2>1
    <3>2. {j \in Live : awaiting[j] = c} = {k}
      BY <2>1, <3>1, Constants, SMTT(30)
    <3> QED
      BY <3>2, FS_Singleton
  <2>2. \A c \in Coroutines :
          awaiting[c] # None /\ c \in Live => frame[awaiting[c]] = "awaits"
    OBVIOUS
  <2> QED
    BY <2>1, <2>2 DEF ResumeInv
<1> QED
  BY <1>1, Invariant, PTL

(* Every coroutine in use has an executor: the assertion in await_suspend  *)
(* holds, at any depth, because await_transform hands it down.             *)
THEOREM ExecutorHandedDown == Spec => []HasExecutor
<1>1. AwaitableInv => HasExecutor
  BY DEF AwaitableInv
<1> QED
  BY <1>1, Invariant, PTL

(* When a coroutine has ended, by return or exception, every frame that it *)
(* created is destroyed (~Awaitable).                                      *)
THEOREM ChildrenDestroyed == Spec => []NoFrameLeft
<1>1. AwaitableInv => NoFrameLeft
  BY DEF AwaitableInv, FamilyInv
<1> QED
  BY <1>1, Invariant, PTL

-----------------------------------------------------------------------------
(* Task: the inductive invariant.                                          *)

(* Where a client has not given its coroutine to a scheduler yet, and has. *)
Before == Starting \cup {"return", "add"}
After == {"suspend", "own", "get"}
Alive == {"queued", "running", "valued", "final"}

TaskTypeOK ==
    /\ instance \in Nat
    /\ scheduler \in Seq({"made", "running", "stopping", "deleted"})
    /\ pc \in [Clients -> {"idle"} \cup Before \cup After]
    /\ ref \in [Clients -> Nat]
    /\ task \in [Clients -> Tasks \cup {NoTask}]
    /\ frames \in [Tasks -> {"none", "new", "destroyed"} \cup Alive]
    /\ home \in [Tasks -> Nat]
    /\ outcome \in [Tasks -> {"empty", "value", "exception"}]
    /\ got \in [Tasks -> {"none", "empty", "value", "exception"}]
    /\ overlapped \in BOOLEAN /\ hasty \in BOOLEAN

(* A client in a call, or with a Task, has a frame of its own, which has   *)
(* been given to a scheduler or not, depending on where the client is.     *)
FrameInv ==
    /\ \A c \in Clients :
         /\ pc[c] # "idle" => task[c] \in Tasks
         /\ pc[c] \in Before => frames[task[c]] = "new"
         /\ pc[c] \in After => frames[task[c]] \in Alive
    /\ \A c, d \in Clients :
         pc[c] # "idle" /\ pc[d] # "idle" /\ task[c] = task[d] => c = d

(* A coroutine has an outcome only when its body has ended, and get() has  *)
(* returned nothing but that outcome.                                      *)
OutcomeInv ==
    \A t \in Tasks :
        /\ outcome[t] # "empty" => frames[t] \in {"valued", "final", "destroyed"}
        /\ got[t] # "none" => got[t] = outcome[t] /\ outcome[t] # "empty"

(* Before the scheduler is running one client, at most, is on its way: it  *)
(* has to make the scheduler, or has made it and is about to start it.     *)
Alone(locs) ==
    \A c \in Clients :
        pc[c] # "idle" =>
            pc[c] \in locs /\ \A d \in Clients : d # c => pc[d] = "idle"

NoScheduler ==
    /\ scheduler = <<>> /\ instance = 0
    /\ Alone({"check", "reset"})
    /\ \A t \in Tasks : home[t] = 0

MadeScheduler ==
    /\ scheduler = <<"made">> /\ instance = 1
    /\ Alone({"run"}) /\ \E c \in Clients : pc[c] = "run"
    /\ \A t \in Tasks : home[t] = 0

(* Then all use the one that is there. *)
OneScheduler ==
    /\ scheduler = <<"running">> /\ instance = 1
    /\ \A c \in Clients :
         /\ pc[c] \notin {"reset", "delete", "run"}
         /\ pc[c] \in {"spawn", "add"} => ref[c] = 1
    /\ \A t \in Tasks : home[t] \in {0, 1}

SingletonInv == NoScheduler \/ MadeScheduler \/ OneScheduler

Windows == {"earlyResume", "earlyDestroy"}

TaskInv ==
    /\ TaskTypeOK /\ FrameInv /\ OutcomeInv
    /\ ~overlapped => SingletonInv /\ (~hasty => undefined \subseteq Windows)

-----------------------------------------------------------------------------

(* At first there is neither task nor scheduler. *)
LEMMA TaskInitInv == TaskInit => TaskInv
<1> SUFFICES ASSUME TaskInit PROVE TaskInv
  OBVIOUS
<1> USE DEF TaskInit
<1>1. TaskTypeOK
  <2>1. scheduler \in Seq({"made", "running", "stopping", "deleted"})
    BY SMTT(30)
  <2>2. overlapped \in BOOLEAN /\ hasty \in BOOLEAN
    OBVIOUS
  <2> QED
    BY <2>1, <2>2 DEF TaskTypeOK
<1>2. FrameInv /\ OutcomeInv
  BY DEF FrameInv, OutcomeInv, Before, After, Starting
<1>3. SingletonInv
  BY DEF SingletonInv, NoScheduler, MadeScheduler, OneScheduler, Alone
<1> QED
  BY <1>1, <1>2, <1>3 DEF TaskInv

(* A function on the indices of a sequence is a sequence. *)
LEMMA SameIndices ==
    ASSUME NEW S, NEW q \in Seq(S), NEW f \in [DOMAIN q -> S]
    PROVE  f \in Seq(S)
<1>1. DOMAIN q = 1 .. Len(q) /\ Len(q) \in Nat
  BY SMTT(30)
<1> QED
  BY <1>1, SMTT(30)

(* Every step keeps the types. *)
LEMMA TypeStep == TaskTypeOK /\ FrameInv /\ TaskNext => TaskTypeOK'
<1> SUFFICES ASSUME TaskTypeOK, FrameInv, TaskNext PROVE TaskTypeOK'
  OBVIOUS
<1> USE DEF TaskTypeOK, Goto, Before, After, Alive, Starting,
            schedulerVars, taskFrameVars
<1>1. ASSUME NEW c \in Clients, NEW t \in Tasks, Create(c, t) PROVE TaskTypeOK'
  BY <1>1 DEF Create
<1>2. ASSUME NEW c \in Clients, Check(c) \/ Spawn(c) \/ Return(c) PROVE TaskTypeOK'
  BY <1>2 DEF Check, Spawn, Return
<1>3. ASSUME NEW c \in Clients, Reset(c) PROVE TaskTypeOK'
  <2> DEFINE S == {"made", "running", "stopping", "deleted"}
  <2>1. scheduler \in Seq(S) /\ "made" \in S /\ "stopping" \in S
    OBVIOUS
  <2> HIDE DEF S
  <2>2. instance' \in Nat
    BY <1>3, <2>1, SMTT(30) DEF Reset
  <2> DEFINE f == [g \in DOMAIN scheduler |->
                     IF g = instance THEN "stopping" ELSE scheduler[g]]
  <2>3. f \in [DOMAIN scheduler -> S]
    BY <2>1, SMTT(30)
  <2> HIDE DEF f
  <2>4. Append(f, "made") \in Seq(S)
    BY <2>1, <2>3, SameIndices, SMTT(30)
  <2>5. scheduler' \in Seq(S)
    BY <1>3, <2>4 DEF Reset, f
  <2> QED
    BY <1>3, <2>2, <2>5 DEF Reset, S
<1>4. ASSUME NEW c \in Clients, Delete(c) \/ Run(c) PROVE TaskTypeOK'
  <2> DEFINE S == {"made", "running", "stopping", "deleted"}
  <2>1. scheduler \in Seq(S) /\ "deleted" \in S /\ "running" \in S
    OBVIOUS
  <2> HIDE DEF S
  <2>2. scheduler' \in [DOMAIN scheduler -> S]
    <3>1. scheduler \in [DOMAIN scheduler -> S]
      BY <2>1, SMTT(30)
    <3>2. \/ scheduler' = [scheduler EXCEPT ![ref[c]] = "deleted"]
          \/ scheduler' = [scheduler EXCEPT ![instance] = "running"]
      BY <1>4 DEF Delete, Run
    <3> QED
      BY <2>1, <3>1, <3>2
  <2>3. scheduler' \in Seq(S)
    BY <2>1, <2>2, SameIndices
  <2> QED
    BY <1>4, <2>3 DEF Delete, Run, S
<1>5. ASSUME NEW c \in Clients, Add(c) \/ Suspend(c) \/ Get(c) PROVE TaskTypeOK'
  <2>1. CASE Add(c)
    BY <2>1 DEF Add
  <2>2. CASE Suspend(c) \/ Get(c)
    BY <2>2 DEF Suspend, Get
  <2> QED
    BY <1>5, <2>1, <2>2
<1>6. ASSUME NEW c \in Clients, GetReturn(c) PROVE TaskTypeOK'
  <2>1. task[c] \in Tasks
    BY <1>6 DEF GetReturn, FrameInv
  <2> QED
    BY <1>6, <2>1 DEF GetReturn
<1>7. ASSUME NEW c \in Clients, Destroy(c) PROVE TaskTypeOK'
  BY <1>7 DEF Destroy
<1>8. ASSUME NEW t \in Tasks, Resume(t) \/ SetOutcome(t) \/ FinalSuspend(t)
      PROVE  TaskTypeOK'
  BY <1>8 DEF Resume, SetOutcome, FinalSuspend, Kept
<1> QED
  BY <1>1, <1>2, <1>3, <1>4, <1>5, <1>6, <1>7, <1>8 DEF TaskNext, ClientStep

(* A frame goes from its creation to its destruction, and keeps its outcome. *)
LEMMA FrameStep ==
    ASSUME TaskTypeOK, FrameInv, OutcomeInv, TaskNext
    PROVE  FrameInv' /\ OutcomeInv'
<1> USE DEF TaskTypeOK, schedulerVars, taskFrameVars
<1>1. ASSUME NEW c \in Clients, NEW t \in Tasks, Create(c, t)
      PROVE  FrameInv' /\ OutcomeInv'
  <2>1. \A d \in Clients : pc[d] # "idle" => task[d] # t
    BY <1>1 DEF Create, FrameInv, Before, After, Alive
  <2>2. FrameInv'
    BY <1>1, <2>1, SMTT(30) DEF Create, Goto, FrameInv, Before, After, Starting
  <2> QED
    BY <1>1, <2>2 DEF Create, OutcomeInv
<1>2. ASSUME NEW c \in Clients,
             Check(c) \/ Reset(c) \/ Delete(c) \/ Run(c) \/ Spawn(c) \/ Return(c)
      PROVE  FrameInv' /\ OutcomeInv'
  <2>1. PICK to \in Before : pc[c] \in Before /\ pc' = [pc EXCEPT ![c] = to]
    BY <1>2 DEF Check, Reset, Delete, Run, Spawn, Return, Goto, Before, Starting
  <2>2. UNCHANGED <<task, frames, outcome, got>>
    BY <1>2 DEF Check, Reset, Delete, Run, Spawn, Return
  <2>3. Before \cap After = {} /\ "idle" \notin Before
    BY DEF Before, After, Starting
  <2> QED
    BY <2>1, <2>2, <2>3, SMTT(30) DEF FrameInv, OutcomeInv
<1>3. ASSUME NEW c \in Clients, Add(c)
      PROVE  FrameInv' /\ OutcomeInv'
  <2>1. task[c] \in Tasks /\ frames[task[c]] = "new"
    BY <1>3 DEF Add, Goto, FrameInv, Before
  <2>2. \A d \in Clients : d # c /\ pc[d] # "idle" => task[d] # task[c]
    BY <1>3 DEF Add, Goto, FrameInv
  <2>3. /\ pc'[c] = "suspend" /\ frames'[task[c]] = "queued" /\ task' = task
        /\ \A d \in Clients : d # c => pc'[d] = pc[d]
        /\ \A t \in Tasks : t # task[c] => frames'[t] = frames[t]
    BY <1>3, <2>1 DEF Add, Goto
  <2>4. \A d \in Clients : pc'[d] # "idle" => pc[d] # "idle"
    BY <1>3, <2>3 DEF Add, Goto
  <2>5. ASSUME NEW d \in Clients
        PROVE  /\ pc'[d] # "idle" => task'[d] \in Tasks
               /\ pc'[d] \in Before => frames'[task'[d]] = "new"
               /\ pc'[d] \in After => frames'[task'[d]] \in Alive
    <3>1. CASE d = c
      BY <2>1, <2>3, <3>1 DEF Before, After, Alive, Starting
    <3>2. CASE d # c /\ pc[d] # "idle"
      BY <2>1, <2>2, <2>3, <3>2, SMTT(30) DEF FrameInv
    <3>3. CASE d # c /\ pc[d] = "idle"
      BY <2>3, <3>3 DEF Before, After, Starting
    <3> QED
      BY <3>1, <3>2, <3>3
  <2>6. FrameInv'
    BY <2>3, <2>4, <2>5 DEF FrameInv
  <2> QED
    BY <1>3, <2>1, <2>6 DEF Add, OutcomeInv
<1>4. ASSUME NEW c \in Clients, Suspend(c) \/ Get(c)
      PROVE  FrameInv' /\ OutcomeInv'
  <2>1. PICK to \in After : pc[c] \in After /\ pc' = [pc EXCEPT ![c] = to]
    BY <1>4 DEF Suspend, Get, Goto, After
  <2>2. UNCHANGED <<task, frames, outcome, got>>
    BY <1>4 DEF Suspend, Get
  <2>3. Before \cap After = {} /\ "idle" \notin After
    BY DEF Before, After, Starting
  <2> QED
    BY <2>1, <2>2, <2>3, SMTT(30) DEF FrameInv, OutcomeInv
<1>5. ASSUME NEW c \in Clients, GetReturn(c)
      PROVE  FrameInv' /\ OutcomeInv'
  <2>1. FrameInv'
    BY <1>5 DEF GetReturn, Goto, FrameInv, Before, After, Starting
  <2> QED
    BY <1>5, <2>1 DEF GetReturn, Ready, OutcomeInv
<1>6. ASSUME NEW c \in Clients, Destroy(c)
      PROVE  FrameInv' /\ OutcomeInv'
  <2>1. PICK t \in Tasks : task[c] = t
    BY <1>6 DEF Destroy, Goto, FrameInv
  <2>2. \A d \in Clients : d # c /\ pc[d] # "idle" => task[d] # t
    BY <1>6, <2>1 DEF Destroy, Goto, FrameInv
  <2>3. FrameInv'
    BY <1>6, <2>1, <2>2, SMTT(30) DEF Destroy, Goto, FrameInv, Before, After,
       Starting
  <2> QED
    BY <1>6, <2>1, <2>3 DEF Destroy, OutcomeInv
<1>7. ASSUME NEW t \in Tasks, Resume(t) \/ SetOutcome(t) \/ FinalSuspend(t)
      PROVE  FrameInv' /\ OutcomeInv'
  <2>1. /\ frames[t] \in Alive /\ UNCHANGED <<pc, task, got>>
        /\ \E s \in Alive : frames' = [frames EXCEPT ![t] = s]
    BY <1>7 DEF Resume, SetOutcome, FinalSuspend, Alive
  <2>2. FrameInv'
    BY <2>1, SMTT(30) DEF FrameInv, Alive
  <2>3. OutcomeInv'
    BY <1>7 DEF Resume, SetOutcome, FinalSuspend, OutcomeInv, Kept
  <2> QED
    BY <2>2, <2>3
<1> QED
  BY <1>1, <1>2, <1>3, <1>4, <1>5, <1>6, <1>7 DEF TaskNext, ClientStep


(* The scheduler that is running, and no other. *)
LEMMA SingletonStep ==
    ASSUME TaskTypeOK, SingletonInv, TaskNext, ~overlapped'
    PROVE  /\ SingletonInv'
           /\ ~overlapped
           /\ undefined' \subseteq Windows \cup {"brokenOff"}
<1> USE DEF TaskTypeOK, schedulerVars, taskFrameVars, Goto
<1>0. undefined = {}
  BY DEF TaskNext, Defined
<1>m. /\ <<"made">>[1] = "made" /\ <<"running">>[1] = "running"
      /\ [<<"made">> EXCEPT ![1] = "running"] = <<"running">>
      /\ <<>> # <<"made">> /\ <<>> # <<"running">> /\ <<"made">> # <<"running">>
  BY SMTT(30)
<1>1. ASSUME NEW c \in Clients, NEW t \in Tasks, Create(c, t)
      PROVE  SingletonInv' /\ ~overlapped /\ undefined' = {}
  <2>1. /\ UNCHANGED <<scheduler, instance, ref, home, undefined>> /\ ~overlapped
        /\ pc[c] = "idle" /\ pc' = [pc EXCEPT ![c] = "check"]
        /\ IsUp \/ \A d \in Clients : pc[d] \notin Starting
    BY <1>1 DEF Create
  <2>2. CASE scheduler = <<"running">> /\ instance = 1
    BY <1>0, <1>m, <2>1, <2>2 DEF SingletonInv, NoScheduler, MadeScheduler,
       OneScheduler
  <2>3. CASE scheduler = <<>> /\ instance = 0
    <3>1. \A d \in Clients : pc[d] = "idle"
      BY <1>m, <2>1, <2>3 DEF SingletonInv, NoScheduler, MadeScheduler,
         OneScheduler, Alone, IsUp, Starting
    <3>2. Alone({"check", "reset"})'
      BY <2>1, <3>1 DEF Alone
    <3> QED
      BY <1>0, <1>m, <2>1, <2>3, <3>2 DEF SingletonInv, NoScheduler,
         MadeScheduler, OneScheduler

  <2>4. CASE scheduler = <<"made">> /\ instance = 1
    BY <1>m, <2>1, <2>4 DEF SingletonInv, NoScheduler, MadeScheduler,
       OneScheduler, IsUp, Starting
  <2> QED
    BY <2>2, <2>3, <2>4 DEF SingletonInv, NoScheduler, MadeScheduler, OneScheduler
<1>2. ASSUME NEW c \in Clients, Check(c)
      PROVE  SingletonInv' /\ ~overlapped /\ undefined' = {}
  <2>1. /\ UNCHANGED <<scheduler, instance, ref, home, undefined, overlapped>>
        /\ pc[c] = "check"
        /\ pc' = [pc EXCEPT ![c] = IF instance = 0 THEN "reset" ELSE "return"]
    BY <1>2 DEF Check, NoInstance
  <2>2. CASE scheduler = <<"running">> /\ instance = 1
    BY <1>0, <1>m, <2>1, <2>2, SMTT(30) DEF SingletonInv, NoScheduler,
       MadeScheduler, OneScheduler
  <2>3. CASE scheduler = <<>> /\ instance = 0
    <3>1. Alone({"check", "reset"})'
      BY <1>m, <2>1, <2>3 DEF SingletonInv, NoScheduler, MadeScheduler,
         OneScheduler, Alone
    <3> QED
      BY <1>0, <1>m, <2>1, <2>3, <3>1 DEF SingletonInv, NoScheduler,
         MadeScheduler, OneScheduler
  <2>4. CASE scheduler = <<"made">> /\ instance = 1
    BY <1>m, <2>1, <2>4 DEF SingletonInv, NoScheduler, MadeScheduler,
       OneScheduler, Alone
  <2> QED
    BY <2>2, <2>3, <2>4 DEF SingletonInv, NoScheduler, MadeScheduler, OneScheduler
<1>3. ASSUME NEW c \in Clients, Reset(c)
      PROVE  SingletonInv' /\ ~overlapped /\ undefined' = {}
  <2>1. pc[c] = "reset" /\ scheduler = <<>> /\ instance = 0 /\ Alone({"check", "reset"})
        /\ \A t \in Tasks : home[t] = 0
    BY <1>3, <1>m DEF Reset, SingletonInv, NoScheduler, MadeScheduler,
       OneScheduler, Alone
  <2>2. /\ instance' = 1 /\ pc' = [pc EXCEPT ![c] = "run"]
        /\ UNCHANGED <<home, undefined, overlapped>>
    BY <1>3, <2>1, SMTT(30) DEF Reset
  <2>3. scheduler' = <<"made">>
    <3> DEFINE f == [g \in DOMAIN scheduler |->
                       IF g = instance THEN "stopping" ELSE scheduler[g]]
    <3>1. f = <<>>
      BY <2>1, SMTT(30)
    <3> HIDE DEF f
    <3>2. scheduler' = Append(f, "made")
      BY <1>3 DEF Reset, f
    <3> QED
      BY <3>1, <3>2, SMTT(30)
  <2>4. Alone({"run"})' /\ pc'[c] = "run"
    BY <2>1, <2>2 DEF Alone
  <2> QED
    BY <1>0, <2>1, <2>2, <2>3, <2>4 DEF SingletonInv, NoScheduler, MadeScheduler,
       OneScheduler
<1>4. ASSUME NEW c \in Clients, Delete(c)
      PROVE  FALSE
  BY <1>4, <1>m DEF Delete, SingletonInv, NoScheduler, MadeScheduler,
     OneScheduler, Alone
<1>5. ASSUME NEW c \in Clients, Run(c)
      PROVE  SingletonInv' /\ ~overlapped /\ undefined' = {}
  <2>1. /\ pc[c] = "run" /\ scheduler = <<"made">> /\ instance = 1 /\ Alone({"run"})
        /\ \A t \in Tasks : home[t] = 0
    BY <1>5, <1>m DEF Run, SingletonInv, NoScheduler, MadeScheduler,
       OneScheduler, Alone
  <2>2. ~\E d \in Clients : pc[d] = "spawn" /\ ref[d] = instance
    BY <2>1 DEF Alone
  <2>3. /\ scheduler' = <<"running">> /\ undefined' = {}
        /\ pc' = [pc EXCEPT ![c] = "spawn"] /\ ref' = [ref EXCEPT ![c] = 1]
        /\ UNCHANGED <<instance, home, overlapped>>
    BY <1>0, <1>5, <1>m, <2>1, <2>2 DEF Run, UndefinedIf
  <2>4. \A d \in Clients : pc'[d] \in {"idle", "spawn"} /\ (d # c => pc'[d] = "idle")
    BY <2>1, <2>3 DEF Alone
  <2> QED
    BY <2>1, <2>3, <2>4 DEF SingletonInv, NoScheduler, MadeScheduler, OneScheduler
<1>6. ASSUME NEW c \in Clients, Spawn(c) \/ Return(c) \/ Add(c)
      PROVE  SingletonInv' /\ ~overlapped /\ undefined' = {}
  <2>1. pc[c] \in {"spawn", "return", "add"}
    BY <1>6 DEF Spawn, Return, Add
  <2>2. OneScheduler
    BY <2>1 DEF SingletonInv, NoScheduler, MadeScheduler, Alone
  <2>3. UNCHANGED <<scheduler, instance, overlapped>>
    BY <1>6 DEF Spawn, Return, Add
  <2>4. CASE Spawn(c)
    <3>1. undefined' = {}
      BY <1>0, <1>m, <2>2, <2>4 DEF Spawn, UndefinedIf, OneScheduler
    <3>2. pc' = [pc EXCEPT ![c] = "return"] /\ UNCHANGED <<ref, home>>
      BY <2>4 DEF Spawn
    <3> QED
      BY <2>2, <2>3, <3>1, <3>2 DEF SingletonInv, OneScheduler
  <2>5. CASE Return(c)
    <3>1. /\ pc' = [pc EXCEPT ![c] = "add"] /\ ref' = [ref EXCEPT ![c] = 1]
          /\ UNCHANGED <<home, undefined>>
      BY <2>2, <2>5 DEF Return, OneScheduler
    <3>2. OneScheduler'
      BY <2>2, <2>3, <3>1 DEF OneScheduler
    <3> QED
      BY <1>0, <2>3, <3>1, <3>2 DEF SingletonInv
  <2>6. CASE Add(c)
    <3>1. undefined' = {}
      BY <1>0, <1>m, <2>2, <2>6 DEF Add, UndefinedIf, OneScheduler
    <3>2. /\ pc' = [pc EXCEPT ![c] = "suspend"] /\ ref' = ref
          /\ home' = [home EXCEPT ![task[c]] = 1]
      BY <2>2, <2>6 DEF Add, OneScheduler
    <3>3. \A t \in Tasks : home'[t] \in {0, 1}
      BY <2>2, <3>2 DEF OneScheduler
    <3>4. \A d \in Clients : /\ pc'[d] \notin {"reset", "delete", "run"}
                             /\ pc'[d] \in {"spawn", "add"} => ref'[d] = 1
      BY <2>2, <3>2 DEF OneScheduler
    <3>5. scheduler' = <<"running">> /\ instance' = 1 /\ ~overlapped
      BY <2>2, <2>3 DEF OneScheduler
    <3>6. OneScheduler'
      BY <3>3, <3>4, <3>5 DEF OneScheduler
    <3> QED
      BY <3>1, <3>5, <3>6 DEF SingletonInv
  <2> QED
    BY <1>6, <2>4, <2>5, <2>6
<1>7. ASSUME NEW c \in Clients, Suspend(c) \/ Get(c) \/ GetReturn(c) \/ Destroy(c)
      PROVE  /\ SingletonInv' /\ ~overlapped
             /\ undefined' \subseteq Windows \cup {"brokenOff"}
  <2>1. /\ pc[c] \in After /\ UNCHANGED <<scheduler, instance, overlapped, ref, home>>
        /\ \E to \in {"idle", "own", "get"} : pc' = [pc EXCEPT ![c] = to]
    BY <1>7 DEF Suspend, Get, GetReturn, Destroy, After
  <2>2. OneScheduler
    BY <2>1 DEF SingletonInv, NoScheduler, MadeScheduler, Alone, After
  <2>3. SingletonInv'
    BY <2>1, <2>2 DEF SingletonInv, OneScheduler
  <2>4. undefined' \subseteq Windows \cup {"brokenOff"}
    <3>1. CASE Suspend(c) \/ Get(c) \/ GetReturn(c)
      BY <1>0, <3>1 DEF Suspend, Get, GetReturn
    <3>2. CASE Destroy(c)
      <4>1. PICK r \in Windows \cup {"brokenOff"} : undefined' \in {{}, {r}}
        BY <1>0, <3>2 DEF Destroy, UndefinedIf, Windows
      <4> QED
        BY <4>1
    <3> QED
      BY <1>7, <3>1, <3>2
  <2> QED
    BY <2>1, <2>3, <2>4
<1>8. ASSUME NEW t \in Tasks, Resume(t) \/ SetOutcome(t) \/ FinalSuspend(t)
      PROVE  SingletonInv' /\ ~overlapped /\ undefined' \subseteq Windows
  <2>1. UNCHANGED <<scheduler, instance, overlapped, ref, home, pc>>
    BY <1>8 DEF Resume, SetOutcome, FinalSuspend
  <2>2. undefined' \subseteq Windows
    <3>1. undefined' \in {{}, {"earlyResume"}}
      BY <1>0, <1>8 DEF Resume, SetOutcome, FinalSuspend, UndefinedIf
    <3> QED
      BY <3>1 DEF Windows
  <2> QED
    BY <2>1, <2>2 DEF SingletonInv, NoScheduler, MadeScheduler, OneScheduler, Alone
<1> QED
  BY <1>1, <1>2, <1>3, <1>4, <1>5, <1>6, <1>7, <1>8 DEF TaskNext, ClientStep

(* A Task that is destroyed after its get() has returned has ended. *)
LEMMA DestroyAfterGet ==
    ASSUME TaskTypeOK, FrameInv, OutcomeInv, TaskNext, ~hasty'
    PROVE  ~hasty /\ "brokenOff" \notin undefined'
<1> USE DEF TaskTypeOK, schedulerVars, taskFrameVars, Goto
<1>0. undefined = {}
  BY DEF TaskNext, Defined
<1>1. ASSUME NEW c \in Clients, Destroy(c)
      PROVE  ~hasty /\ "brokenOff" \notin undefined'
  <2>1. PICK t \in Tasks : task[c] = t
    BY <1>1 DEF Destroy, FrameInv
  <2>2. ~hasty /\ got[t] # "none"
    BY <1>1, <2>1 DEF Destroy
  <2>3. frames[t] \in {"valued", "final"}
    BY <1>1, <2>1, <2>2 DEF Destroy, FrameInv, OutcomeInv, After, Alive
  <2> QED
    BY <1>0, <1>1, <2>1, <2>2, <2>3 DEF Destroy, UndefinedIf
<1>2. CASE ~\E c \in Clients : Destroy(c)
  <2>1. ~hasty
    BY <1>2 DEF TaskNext, ClientStep, Create, Check, Reset, Delete, Run, Spawn,
       Return, Add, Suspend, Get, GetReturn, Resume, SetOutcome, FinalSuspend
  <2>2. "brokenOff" \notin undefined'
    <3>1. \/ undefined' = undefined
          \/ \E cond \in BOOLEAN :
               \E r \in {"twoRuns", "notRunning", "earlyResume"} :
                 UndefinedIf(cond, r)
      BY <1>2 DEF TaskNext, ClientStep, Create, Check, Reset, Delete, Run,
         Spawn, Return, Add, Suspend, Get, GetReturn, Resume, SetOutcome,
         FinalSuspend
    <3> QED
      BY <1>0, <3>1 DEF UndefinedIf
  <2> QED
    BY <2>1, <2>2
<1> QED
  BY <1>1, <1>2

(* Every step keeps the inductive invariant of Task. *)
LEMMA TaskNextInv == TaskInv /\ [TaskNext]_taskVars => TaskInv'
<1> SUFFICES ASSUME TaskInv, [TaskNext]_taskVars PROVE TaskInv'
  OBVIOUS
<1>1. CASE TaskNext
  <2>1. TaskTypeOK' /\ FrameInv' /\ OutcomeInv'
    BY <1>1, TypeStep, FrameStep DEF TaskInv
  <2>2. overlapped => overlapped'
    BY <1>1 DEF TaskNext, ClientStep, Create, Check, Reset, Delete, Run, Spawn,
       Return, Add, Suspend, Get, GetReturn, Destroy, Resume, SetOutcome,
       FinalSuspend, schedulerVars
  <2>3. ASSUME ~overlapped'
        PROVE  SingletonInv' /\ (~hasty' => undefined' \subseteq Windows)
    <3>1. SingletonInv
      BY <2>2, <2>3 DEF TaskInv
    <3>2. /\ SingletonInv'
          /\ undefined' \subseteq Windows \cup {"brokenOff"}
      BY <1>1, <2>3, <3>1, SingletonStep DEF TaskInv
    <3>3. ~hasty' => "brokenOff" \notin undefined'
      BY <1>1, DestroyAfterGet DEF TaskInv
    <3> QED
      BY <3>2, <3>3
  <2> QED
    BY <2>1, <2>3 DEF TaskInv
<1>2. CASE UNCHANGED taskVars
  BY <1>2, SMTT(30) DEF taskVars, schedulerVars, taskFrameVars, TaskInv, TaskTypeOK,
     FrameInv, OutcomeInv, SingletonInv, NoScheduler, MadeScheduler, OneScheduler, Alone
<1> QED
  BY <1>1, <1>2

(* If the first use of get_instance overlaps with no other, there is one   *)
(* scheduler and every coroutine is given to it; and if every Task lives   *)
(* until its get() has returned, behaviour is undefined in the two windows *)
(* only, before the initial and before the final suspension.               *)
THEOREM TaskWindows == TaskSpec => []UndefinedInWindows
<1>1. TaskInv => UndefinedInWindows
  <2>1. SingletonInv => Len(scheduler) <= 1
    BY SMTT(30) DEF SingletonInv, NoScheduler, MadeScheduler, OneScheduler
  <2>2. SingletonInv => \A t \in Tasks : home[t] # 0 => home[t] = instance
    BY DEF SingletonInv, NoScheduler, MadeScheduler, OneScheduler
  <2> QED
    BY <2>1, <2>2 DEF TaskInv, UndefinedInWindows, Windows
<1> QED
  BY <1>1, TaskInitInv, TaskNextInv, PTL DEF TaskSpec

(* get() gives what the body of the coroutine ended with, its value or its *)
(* exception, and only after the body has ended.                           *)
GetGivesOutcome ==
    \A t \in Tasks :
        got[t] # "none" => /\ got[t] = outcome[t]
                           /\ outcome[t] \in {"value", "exception"}
                           /\ frames[t] \in {"valued", "final", "destroyed"}

(* get() never returns early and never returns anything else, whoever      *)
(* makes the scheduler and whenever Tasks are destroyed.                   *)
THEOREM GetFaithful == TaskSpec => []GetGivesOutcome
<1>1. TaskInv => GetGivesOutcome
  BY DEF TaskInv, TaskTypeOK, OutcomeInv, GetGivesOutcome
<1> QED
  BY <1>1, TaskInitInv, TaskNextInv, PTL DEF TaskSpec

-----------------------------------------------------------------------------
(* Generator: the inductive invariant.                                     *)

GeneratorTypeOK ==
    /\ coro \in [Generators -> Frames \cup {NullCoro}]
    /\ pos \in [Frames -> 0 .. Yields + 1]
    /\ state \in [Frames -> {"unborn", "live", "destroyed"}]
    /\ it \in [Iterators -> [coro : Frames \cup {NullCoro}, is_end : BOOLEAN]]

(* A generator owns a frame that is live, alone, and every live frame is   *)
(* owned.                                                                  *)
OwnerInv ==
    /\ \A g \in Generators : coro[g] # NullCoro => state[coro[g]] = "live"
    /\ \A g, h \in Generators : coro[g] = coro[h] /\ coro[g] # NullCoro => g = h
    /\ \A c \in Frames : state[c] = "live" => \E g \in Generators : coro[g] = c

(* The frame of an iterator has been resumed, and is at its end if the     *)
(* iterator says so.                                                       *)
IteratorInv ==
    \A i \in Iterators :
        it[i].coro # NullCoro =>
            /\ pos[it[i].coro] > 0
            /\ it[i].is_end => Done(it[i].coro)

GeneratorIInv ==
    /\ GeneratorTypeOK /\ OwnerInv /\ IteratorInv
    /\ last.op = "*" => last.result # "empty"

(* At first there is no generator. *)
LEMMA GeneratorInitInv == GeneratorInit => GeneratorIInv
  BY GeneratorAssumption, SMTT(30) DEF GeneratorInit, GeneratorIInv,
     GeneratorTypeOK,
     OwnerInv, IteratorInv, Iterator, Called

(* Handles move, frames are made and destroyed. *)
LEMMA OwnerStep ==
    ASSUME GeneratorIInv,
           \/ \E g \in Generators, c \in Frames : GetReturnObject(g, c)
           \/ \E g, h \in Generators : MoveAssign(g, h)
           \/ \E g \in Generators : DeleteGenerator(g)
    PROVE  GeneratorIInv'
<1> USE GeneratorAssumption DEF GeneratorIInv, Called
<1>1. UNCHANGED <<pos, exception, it>> /\ last'.op # "*"
  BY SMTT(30) DEF GetReturnObject, MoveAssign, DeleteGenerator
<1>2. IteratorInv'
  BY <1>1 DEF IteratorInv, Done
<1>3. CASE \E g \in Generators, c \in Frames : GetReturnObject(g, c)
  <2>1. PICK g \in Generators, c \in Frames : GetReturnObject(g, c)
    BY <1>3
  <2>2. GeneratorTypeOK'
    BY <1>1, <2>1 DEF GetReturnObject, GeneratorTypeOK
  <2>3. OwnerInv'
    BY <2>1, SMTT(30) DEF GetReturnObject, GeneratorTypeOK, OwnerInv
  <2> QED
    BY <1>1, <1>2, <2>2, <2>3
<1>4. CASE \E g, h \in Generators : MoveAssign(g, h)
  <2>1. PICK g \in Generators, h \in Generators : MoveAssign(g, h)
    BY <1>4
  <2>2. /\ g # h
        /\ state' = [d \in Frames |-> IF d = coro[g] THEN "destroyed" ELSE state[d]]
        /\ coro' = [coro EXCEPT ![g] = coro[h], ![h] = NullCoro]
    BY <2>1 DEF MoveAssign, Destroyed, Exchange
  <2>3. GeneratorTypeOK'
    BY <1>1, <2>2 DEF GeneratorTypeOK
  <2>4. /\ coro'[g] = coro[h] /\ coro'[h] = NullCoro
        /\ \A k \in Generators : k # g /\ k # h => coro'[k] = coro[k]
    BY <2>2 DEF GeneratorTypeOK
  <2>5. OwnerInv'
    <3>1. ASSUME NEW k \in Generators, coro'[k] # NullCoro
          PROVE  state'[coro'[k]] = "live"
      BY <2>2, <2>4, <3>1, SMTT(30) DEF OwnerInv, GeneratorTypeOK
    <3>2. ASSUME NEW k \in Generators, NEW l \in Generators,
                 coro'[k] = coro'[l], coro'[k] # NullCoro
          PROVE  k = l
      <4>1. k # h /\ l # h
        BY <2>4, <3>2
      <4>2. CASE k = g /\ l # g
        BY <2>4, <3>2, <4>1, <4>2, SMTT(30) DEF OwnerInv
      <4>3. CASE k # g /\ l = g
        BY <2>4, <3>2, <4>1, <4>3, SMTT(30) DEF OwnerInv
      <4>4. CASE k # g /\ l # g
        BY <2>4, <3>2, <4>1, <4>4, SMTT(30) DEF OwnerInv
      <4> QED
        BY <4>2, <4>3, <4>4
    <3>3. ASSUME NEW c \in Frames, state'[c] = "live"
          PROVE  \E k \in Generators : coro'[k] = c
      <4>1. state[c] = "live" /\ c # coro[g]
        BY <2>2, <3>3
      <4>2. PICK k \in Generators : coro[k] = c
        BY <4>1 DEF OwnerInv
      <4> QED
        BY <2>4, <4>1, <4>2
    <3> QED
      BY <3>1, <3>2, <3>3 DEF OwnerInv
  <2> QED
    BY <1>1, <1>2, <2>3, <2>5
<1>5. CASE \E g \in Generators : DeleteGenerator(g)
  <2>1. PICK g \in Generators : DeleteGenerator(g)
    BY <1>5
  <2>2. /\ state' = [d \in Frames |-> IF d = coro[g] THEN "destroyed" ELSE state[d]]
        /\ coro' = [coro EXCEPT ![g] = NullCoro]
    BY <2>1 DEF DeleteGenerator, Destroyed
  <2>3. GeneratorTypeOK'
    BY <1>1, <2>2 DEF GeneratorTypeOK
  <2>4. OwnerInv'
    BY <2>2, SMTT(30) DEF OwnerInv, GeneratorTypeOK
  <2> QED
    BY <1>1, <1>2, <2>3, <2>4
<1> QED
  BY <1>3, <1>4, <1>5

(* A coroutine that has not ended is resumed: it goes on by one, and what  *)
(* the caller sees is its end exactly when it has ended.                   *)
LEMMA AdvanceFact ==
    ASSUME GeneratorTypeOK, NEW c \in Frames, NEW op, ~Done(c), Advance(op, c)
    PROVE  /\ pos' \in [Frames -> 0 .. Yields + 1] /\ pos'[c] > 0
           /\ \A d \in Frames : /\ pos[d] > 0 => pos'[d] > 0
                                /\ Done(d) => Done(d)'
           /\ Outcome(c) = "end" <=> Done(c)'
           /\ last'.op = op /\ state' = state
<1> USE GeneratorAssumption
<1>1. pos' = [pos EXCEPT ![c] = pos[c] + 1] /\ state' = state /\ last'.op = op
  BY DEF Advance, ResumeCoro, Called
<1>2. pos \in [Frames -> 0 .. Yields + 1] /\ pos[c] \in 0 .. Yields
  BY SMTT(30) DEF GeneratorTypeOK, Done
<1>3. /\ pos' \in [Frames -> 0 .. Yields + 1] /\ pos'[c] = pos[c] + 1
      /\ \A d \in Frames : d # c => pos'[d] = pos[d]
  BY <1>1, <1>2, SMTT(30)
<1> QED
  BY <1>1, <1>2, <1>3, SMTT(30) DEF Done, Outcome

(* The calls that resume the coroutine. *)
LEMMA AdvanceStep ==
    ASSUME GeneratorIInv,
           \/ \E g \in Generators : NextValue(g)
           \/ \E g \in Generators, i \in Iterators : BeginValue(g, i)
           \/ \E i \in Iterators : Increment(i)
    PROVE  GeneratorIInv'
<1> USE GeneratorAssumption DEF GeneratorIInv
<1>1. PICK c \in Frames, op \in {"next", "begin", "++"} :
        /\ ~Done(c) /\ Advance(op, c) /\ coro' = coro
        /\ \/ it' = it
           \/ \E i \in Iterators :
                it' = [it EXCEPT ![i] = Iterator(c, Outcome(c) = "end")]
  <2>1. CASE \E g \in Generators : NextValue(g)
    BY <2>1 DEF NextValue, Ended, GeneratorTypeOK
  <2>2. CASE \E g \in Generators, i \in Iterators : BeginValue(g, i)
    BY <2>2 DEF BeginValue, Ended, GeneratorTypeOK
  <2>3. CASE \E i \in Iterators : Increment(i)
    <3>1. PICK i \in Iterators : Increment(i)
      BY <2>3
    <3>2. PICK c \in Frames : it[i].coro = c
      BY <3>1 DEF Increment, AtEnd, Ended, GeneratorTypeOK
    <3> QED
      BY <3>1, <3>2 DEF Increment, AtEnd, Ended
  <2> QED
    BY <2>1, <2>2, <2>3
<1>2. /\ pos' \in [Frames -> 0 .. Yields + 1] /\ pos'[c] > 0
      /\ \A d \in Frames : /\ pos[d] > 0 => pos'[d] > 0
                           /\ Done(d) => Done(d)'
      /\ Outcome(c) = "end" <=> Done(c)'
      /\ last'.op # "*" /\ state' = state
  BY <1>1, AdvanceFact
<1>3. OwnerInv'
  BY <1>1, <1>2 DEF OwnerInv
<1> DEFINE e == Outcome(c) = "end"
<1>4. e \in BOOLEAN
  OBVIOUS
<1>5. e <=> Done(c)'
  BY <1>2
<1> HIDE DEF e
<1>6. CASE it' = it
  <2>1. IteratorInv'
    BY <1>2, <1>6 DEF IteratorInv, GeneratorTypeOK
  <2> QED
    BY <1>1, <1>2, <1>3, <1>6, <2>1 DEF GeneratorTypeOK
<1>7. ASSUME NEW i \in Iterators, it' = [it EXCEPT ![i] = Iterator(c, e)]
      PROVE  GeneratorIInv'
  <2>1. GeneratorTypeOK'
    BY <1>1, <1>2, <1>4, <1>7 DEF GeneratorTypeOK, Iterator
  <2>2. /\ it'[i].coro = c /\ it'[i].is_end = e
        /\ \A j \in Iterators : j # i => it'[j] = it[j]
    BY <1>7 DEF GeneratorTypeOK, Iterator
  <2>3. IteratorInv'
    BY <1>2, <1>5, <2>2 DEF IteratorInv, GeneratorTypeOK
  <2> QED
    BY <1>2, <1>3, <2>1, <2>3
<1> QED
  BY <1>1, <1>6, <1>7 DEF e

(* Calls that resume nothing. *)
LEMMA LookStep ==
    ASSUME GeneratorIInv,
           \/ \E g \in Generators : NextEnded(g)
           \/ \E g \in Generators, i \in Iterators : BeginEnded(g, i)
           \/ \E i, j \in Iterators : Copy(i, j)
           \/ \E i \in Iterators : IncrementEnded(i) \/ Dereference(i)
    PROVE  GeneratorIInv'
<1> USE GeneratorAssumption DEF GeneratorIInv, Called, coroVars
<1>1. UNCHANGED <<coro, pos, state>>
  BY DEF NextEnded, BeginEnded, Copy, IncrementEnded, Dereference
<1>2. OwnerInv'
  BY <1>1 DEF OwnerInv
<1>3. CASE \E g \in Generators : NextEnded(g)
  BY <1>1, <1>2, <1>3, SMTT(30) DEF NextEnded, GeneratorTypeOK, IteratorInv, Done
<1>4. CASE \E i \in Iterators : Dereference(i)
  <2>1. PICK i \in Iterators : Dereference(i)
    BY <1>4
  <2>2. it' = it /\ last'.result # "empty"
    BY <2>1, SMTT(30) DEF Dereference, AtEnd, Ended, IteratorInv, GeneratorTypeOK
  <2> QED
    BY <1>1, <1>2, <2>2 DEF GeneratorTypeOK, IteratorInv, Done
<1>5. CASE \E i, j \in Iterators : Copy(i, j)
  BY <1>1, <1>2, <1>5, SMTT(30) DEF Copy, GeneratorTypeOK, IteratorInv, Done
<1>6. CASE \E g \in Generators, i \in Iterators : BeginEnded(g, i)
  BY <1>1, <1>2, <1>6, SMTT(30) DEF BeginEnded, GeneratorTypeOK, IteratorInv,
     Done, Iterator
<1>7. CASE \E i \in Iterators : IncrementEnded(i)
  <2>1. PICK i \in Iterators : IncrementEnded(i)
    BY <1>7
  <2>2. /\ it' = [it EXCEPT ![i] = Iterator(it[i].coro, TRUE)] /\ last'.op = "++"
        /\ it[i].coro # NullCoro => Done(it[i].coro)
    BY <2>1 DEF IncrementEnded, AtEnd, Ended, IteratorInv
  <2>3. GeneratorTypeOK'
    BY <1>1, <2>2 DEF GeneratorTypeOK, Iterator
  <2>4. IteratorInv'
    BY <1>1, <2>2 DEF GeneratorTypeOK, Iterator, IteratorInv, Done
  <2> QED
    BY <1>2, <2>2, <2>3, <2>4
<1> QED
  BY <1>3, <1>4, <1>5, <1>6, <1>7

(* Every call keeps the inductive invariant of Generator. *)
LEMMA GeneratorNextInv ==
    GeneratorIInv /\ [GeneratorNext]_generatorVars => GeneratorIInv'
<1> SUFFICES ASSUME GeneratorIInv, [GeneratorNext]_generatorVars
             PROVE  GeneratorIInv'
  OBVIOUS
<1>1. CASE GeneratorNext
  BY <1>1, OwnerStep, AdvanceStep, LookStep DEF GeneratorNext
<1>2. CASE UNCHANGED generatorVars
  BY <1>2 DEF generatorVars, GeneratorIInv, GeneratorTypeOK, OwnerInv,
     IteratorInv, Done
<1> QED
  BY <1>1, <1>2

(* A frame has one owner from its creation to its destruction, whatever    *)
(* moves there are, and is destroyed once; it is never resumed at its      *)
(* final suspension point, though another iterator may have brought it     *)
(* there; iterators know the end; operator* never meets an empty optional. *)
THEOREM GeneratorInvariant == GeneratorSpec => []GeneratorInv
<1>1. ASSUME GeneratorIInv PROVE GeneratorInv
  <2>1. ASSUME NEW c \in Frames
        PROVE  Cardinality({g \in Generators : coro[g] = c})
                 = IF state[c] = "live" THEN 1 ELSE 0
    <3>1. CASE state[c] = "live"
      <4>1. PICK g \in Generators : coro[g] = c
        BY <1>1, <3>1 DEF GeneratorIInv, OwnerInv
      <4>2. {h \in Generators : coro[h] = c} = {g}
        BY <1>1, <4>1, GeneratorAssumption DEF GeneratorIInv, OwnerInv
      <4> QED
        BY <3>1, <4>2, FS_Singleton
    <3>2. CASE state[c] # "live"
      <4>1. {h \in Generators : coro[h] = c} = {}
        BY <1>1, <3>2, GeneratorAssumption, SMTT(30) DEF GeneratorIInv, OwnerInv
      <4> QED
        BY <3>2, <4>1, FS_EmptySet
    <3> QED
      BY <3>1, <3>2
  <2> QED
    BY <1>1, <2>1 DEF GeneratorIInv, GeneratorInv, GeneratorTypeOK, IteratorInv
<1> QED
  BY <1>1, GeneratorInitInv, GeneratorNextInv, PTL DEF GeneratorSpec

(* A frame is resumed only while it exists and is not at its final         *)
(* suspension point, and it does not come back once it is destroyed.       *)
ResumesLive ==
    \A c \in Frames :
        /\ pos'[c] # pos[c] => state[c] = "live" /\ pos[c] <= Yields
        /\ state[c] = "destroyed" => state'[c] = "destroyed"

(* begin, next and operator++ never resume a coroutine that has ended or   *)
(* is gone, whatever moves and copies there were.                          *)
THEOREM OnlyLiveResumed == GeneratorSpec => [][ResumesLive]_generatorVars
<1>1. ASSUME GeneratorIInv, GeneratorNext PROVE ResumesLive
  <2> SUFFICES ASSUME NEW c \in Frames
               PROVE  /\ pos'[c] # pos[c] => state[c] = "live" /\ pos[c] <= Yields
                      /\ state[c] = "destroyed" => state'[c] = "destroyed"
    BY DEF ResumesLive
  <2> USE <1>1, GeneratorAssumption DEF GeneratorIInv
  <2>1. ASSUME NEW d \in Frames, NEW op, Advance(op, d), ~Done(d), state[d] = "live"
        PROVE  /\ pos'[c] # pos[c] => state[c] = "live" /\ pos[c] <= Yields
               /\ state' = state
    BY <2>1, SMTT(30) DEF Advance, ResumeCoro, Done, GeneratorTypeOK
  <2>2. ASSUME NEW g \in Generators,
               NextValue(g) \/ \E i \in Iterators : BeginValue(g, i)
        PROVE  \E d \in Frames, op \in {"next", "begin"} :
                 Advance(op, d) /\ ~Done(d) /\ state[d] = "live"
    BY <2>2 DEF NextValue, BeginValue, Ended, OwnerInv, GeneratorTypeOK
  <2>3. ASSUME NEW i \in Iterators, Increment(i)
        PROVE  \E d \in Frames : Advance("++", d) /\ ~Done(d) /\ state[d] = "live"
    BY <2>3 DEF Increment, Usable, AtEnd, Ended, GeneratorTypeOK
  <2>4. ASSUME NEW g \in Generators,
               \/ \E d \in Frames : GetReturnObject(g, d)
               \/ \E h \in Generators : MoveAssign(g, h)
               \/ DeleteGenerator(g)
        PROVE  pos' = pos /\ (state[c] = "destroyed" => state'[c] = "destroyed")
    BY <2>4 DEF GetReturnObject, MoveAssign, DeleteGenerator, Destroyed,
       GeneratorTypeOK
  <2>5. CASE \/ \E g \in Generators : NextEnded(g)
             \/ \E g \in Generators, i \in Iterators : BeginEnded(g, i)
             \/ \E i, j \in Iterators : Copy(i, j)
             \/ \E i \in Iterators : IncrementEnded(i) \/ Dereference(i)
    <3>1. pos' = pos /\ state' = state
      BY <2>5 DEF NextEnded, BeginEnded, Copy, IncrementEnded, Dereference, coroVars
    <3> QED
      BY <3>1
  <2>6. CASE \E g \in Generators :
               NextValue(g) \/ \E i \in Iterators : BeginValue(g, i)
    BY <2>1, <2>2, <2>6
  <2>7. CASE \E i \in Iterators : Increment(i)
    BY <2>1, <2>3, <2>7
  <2>8. CASE \E g \in Generators : \/ \E d \in Frames : GetReturnObject(g, d)
                                   \/ \E h \in Generators : MoveAssign(g, h)
                                   \/ DeleteGenerator(g)
    BY <2>4, <2>8
  <2> QED
    BY <2>5, <2>6, <2>7, <2>8 DEF GeneratorNext
<1> QED
  BY <1>1, GeneratorInitInv, GeneratorNextInv, PTL DEF GeneratorSpec

=============================================================================
