# HighSpeed: TLA+ models, checks and proofs

HighSpeed is a header-only C++ library: a thread pool, coroutine types, an
epoll-based network layer, a memory pool, a logger and two protocol parsers.
This directory holds TLA+ modules that model its components, TLC configurations
that check them on small instances, and TLAPS proofs of what holds for
instances of every size. Paths below are relative to `src/`.

## 1. The system: inventory

| Component | State | Operations that change it | What makes it hard | What makes it correct |
|---|---|---|---|---|
| `tools/ThreadPool.hpp` | queue, `threads_`, `waiting_threads_`, `running_`, one mutex, one condition variable | `addTask`, `worker`, `run`, `stop`, `stopHard`, destructor | notification after unlocking, `stop` without the mutex, detached threads, spurious wakeups | no lost wakeup; every task runs once, in order; `stop` drains |
| `net/Strand.hpp` | `queue_`, `running_` | `addTask`, `scheduleNext`, the lambda on the pool | turn passed between threads, pool stopped underneath | one task at a time, in order, none forgotten |
| `coro/Scheduler.hpp` | `corotines_`, `task_num_`, `waiting_threads_`, `running_` | `add_coroutine`, `worker`, `stop`, deleter | counter updated outside the mutex and after the notification | the assertions hold; every coroutine is resumed once, in order |
| `coro/Awaitable.hpp` | coroutine frames and promises | creation, `co_spawn`, `co_await`, return or exception, destruction | parent and child on different workers, handing over of frames | resumed only while suspended; every frame destroyed once |
| `coro/Generator.hpp` | frame, generators, iterators | create, move, destroy, `begin`, `++`, `*`, `next` | several iterators on one frame, exceptions | one owner; never resumed at the end; the end is final |
| `net/IOContext.hpp`, `Epoll.hpp`, `Socket.hpp` | `waiters_`, the interest list of epoll, sockets | event loop, `await_fd`, `async_accept/read/write`, `close` | await_suspend races with the loop and with the resumed coroutine, descriptors are reused | one resumption per suspension; nothing ready is forgotten |
| `io/Buffer.hpp` | vector, two indices | `append`, `retrieve*`, `readFd`, `writeFd` | moving, growing, scatter read | indices in range; bytes in order; bounded growth |
| `alloc/MemoryPool.hpp` | free lists, thread caches, chunks | `allocate`, `deallocate`, refill, flush, thread exit | blocks freed by other threads, one cache for all pools | one user per block; blocks large enough; bounded caches |
| `coro/Task.hpp`, `Scheduler::get_instance` | frame and promise of a task, a static `unique_ptr` | call of a coroutine, `get`, `~Task`, test and reset of the singleton | resumed before it is suspended, destroyed while it ends, unsynchronised first use | `get` gives the outcome; one scheduler; misuse of a frame in two windows only |
| `alloc/alloc.hpp` | none of its own; objects in blocks | `alloc`, `alloc_array`, `dealloc`, `dealloc_array` | constructors that throw and that allocate | every block handed out has one owner; it goes back once, with its size |
| `log/Log.hpp` | the singleton, two loggers, a file stream, the static object of `localtime` | `instance`, setters, `log`, outputs | loggers replaced while in use, a lock around the output only | no dead logger is used; no record is lost; a record has the time of its call |
| `log/format.hpp` | stream flags, argument counter | `format`, `vformat` | escapes, automatic and numbered fields, flags that stay set | nothing of the format string is skipped or read twice; every argument used, and printed as its own field asks |
| `protocol/Http.hpp` | message | setters, `serialize_to_string`, `parse_from_string` | text that arrives in pieces, objects used again, an unsigned difference | what was sent is what is parsed |
| `protocol/Json.hpp` | tree of values, proxies into its vectors | `operator[]`, assignment, `push`, `insert`, `toString`, `dump`, `parse` | vectors that grow under proxies, escapes, open strings | round trip; a proxy denotes what its keys say; JSON is accepted, and little else |

How they interact: `Strand`, `Awaitable` and `IOContext` all hand callables to
`ThreadPool`; `Socket` operations are `Awaitable` coroutines that suspend in
`IOContext`; sockets read and write through `Buffer`; `Task` hands its frame to
`Scheduler`. `Allocator` takes its blocks from the memory pool; the logger builds
its records with `format`. `HttpMessage` and `Json` stand apart.

`PROJECT.json` lists the hazards of this code one by one, with source line and
the properties that cover each.

## 2. Structure of the development

`Executor` is the abstract specification that holds the development together.
It says what a caller may rely on: tasks are queued in the order of submission,
started from the front, run in at most as many slots as there are, and their
future becomes `ready` at the end, or `broken` if the executor drops them.

```
                    Executor
          implements /  |  \ implements
        ThreadPool  Scheduler  Strand (one slot)
                                  | built on
                    Executor <----+---- Awaitable

        Alloc (extends MemoryPool)      IOContext   Task   Logger
        MCSequential:  Buffer  Generator  Http  Json  Format
        MCCoroutines:  Awaitable  Task
```

`Strand` and `Awaitable` do not use the details of `ThreadPool`: their pool is
an `INSTANCE` of `Executor`, which `ThreadPool` is shown to implement.
`IOContext` keeps the pool as a FIFO queue of handles, because a handle may be
queued more than once in a run of the program. `Alloc` extends `MemoryPool`: its
actions contain the actions of the pool.

Components that do not interact and are small are checked in one run: in
`MCSequential` and `MCCoroutines` a variable that never changes says which of
them moves.

| Module | Code | State and actions |
|---|---|---|
| `ThreadPool` | `tools/ThreadPool.hpp` | A step is a critical section of `mtx_`, one access to an atomic or one notification. Evaluating the wait predicate and blocking are two steps with the mutex held, because `stop` changes `running_` without the mutex. `Push`, `ReadWaiting`, `NotifyOne` are `addTask`; `Enter` to `FinishTask` are `worker`; `Run` to `Destroy` belong to one controlling thread. |
| `Strand` | `net/Strand.hpp` | One turn moves from the caller that found `running_` false to the lambda in the pool to the worker that executes it. `PoolDiscard` is a pool that stops. |
| `Scheduler` | `coro/Scheduler.hpp` | Each read of `task_num_` and `running_` in the loops of `worker` is a step. `task_num` and `corotines` are separate variables. A failed assertion is the location `abort` and ends the program. |
| `Buffer` | `io/Buffer.hpp` | The member functions as functions of the object; a byte is its position in the stream. |
| `MemoryPool` | `alloc/MemoryPool.hpp` | One action per path of `allocate` and one for `deallocate`; each has at most one critical section. |
| `IOContext` | `net/IOContext.hpp`, `Epoll.hpp`, `Socket.hpp` | Every step of `await_suspend` is separate: `GetEvents`, `Store`, `Modify`, `Erase`. `Wait`, `Dispatch` and `NoWaiter` are the event loop, which tests `running_` after the last event of a batch; `Stop`, `WorkerExits` and `Joined` are `stop`. The kernel is external. |
| `Awaitable` | `coro/Awaitable.hpp` | States of frames; `Begin`, `Call`, `Drop`, `CoAwait`, `EndSpawned`, `EndAwaited`. |
| `Generator` | `coro/Generator.hpp` | Frames, generators and iterators of one thread; a value is how often the body was resumed. |
| `Task` | `coro/Task.hpp`, `Scheduler::get_instance` | `Check` to `Return` are `get_instance`, with each access to `instance_` a step; `Add`, `Suspend` the creation of the coroutine; `Get`, `GetReturn`, `Destroy` what the client does; `Resume`, `SetOutcome`, `FinalSuspend` the worker. |
| `Alloc` | `alloc/alloc.hpp` | The calls that a thread is in are a stack, because constructors and destructors may use the allocator: `Begin`, `Constructed`, `Throws`, `Dealloc`, `Destroyed`. |
| `Logger` | `log/Log.hpp` | Each step of `log` is separate: selecting the logger, testing the level, `localtime`, the copy of its object, `output`. A setter is a write of the setting and `flush`. |
| `Format` | `log/format.hpp` | A behaviour is one call of `vformat`, an action one way through its loop: `RestOfText`, `EscapedBrace`, `AutomaticField`, `NumberedField`, `FormatError`, `ReturnText`. The history variable `parts` says where in the format string each piece of the output comes from. |
| `Http` | `protocol/Http.hpp` | A sender: `SetField`; `Serialize`, `WriteHeader`, `WriteBody`, which are the loop of `serialize_to_string`, the headers in the order of a hash table. A receiver that parses what has arrived: `Receive`. |
| `Json` | `protocol/Json.hpp` | One document, proxies that are paths into it with the chain of keys they were made with, and a text that grows, for the parser. |
| `MC...` | | Symmetry sets, constants and compositions for TLC. |
| `SequenceFacts`, `...Proofs` | | Lemmas and proofs. |

Undefined behaviour ends the behaviour of the model (`crashed` in `IOContext`,
`undefined` in `Task` and `Logger`): the unlocked write of `waiters_`, the
`FdAwaiter` that is read after its frame has gone on, a frame that is resumed or
destroyed while it runs, a logger that is used while it is replaced. In
`IOContext` the program may also go on as if nothing had happened. A failed `assert` is an end of the program too.

Definitions called mutants stand before the definition they are a variant of.
Each is a plausible mistake in the code, and each property fails when the
mutant replaces the original.

## 3. Runs

Passing runs:

| Run | Instance | Shows |
|---|---|---|
| `ThreadPool` | 3 workers, 1 client, 2 tasks that add tasks, 2 threads per `run`, one hard stop and restart, fair | `PoolInv`; no lost wakeup (`WorkConserving`); `stop` waits for what was pending (`StopDrains`); no thread left at destruction (`NoWorkerAfterDestroy`); refinement of `Executor` (`ImplementsExecutor`); queued tasks run across stops and restarts (`QueuedTaskRuns`); `stop` returns unless a notification was missed (`StopReturns`) |
| `StrandSafety` | 3 workers, 2 clients, 4 tasks, the pool may stop, fair | one turn (`StrandInv`); `NeverOverlap`; refinement of `Executor` with one slot (`ImplementsSerialExecutor`) and `EveryTaskRuns`, both until the pool destroys a lambda of the strand, the latter as long as the pool runs what it has queued |
| `SchedulerSafety` | 2 workers, 1 client, 3 coroutines that add coroutines, fair | `SchedulerInv`, from which the assertion in `worker` follows; `stop` drains if no client was adding (`StopDrains`); refinement of `Executor`; `StopReturns` |
| `AllocSafety` | 2 threads, an object of 20 bytes and an array of 2 x 16 bytes (two classes with one block size), calls 2 deep | every block in one place (`MemoryPoolInv`), `CacheBound`, one owner per block handed out (`AllocInv`); when blocks are large enough is the theorem `BlocksFit` |
| `IOContextSafety` | 2 workers, 2 sessions, 1 descriptor, reads and writes, all failures, `stop` at any time, fair | `OneHolder` of each handle; connections are accepted (`ConnectionServed`); input is read (`ReadServed`); the loop ends after `stop` (`RunReturns`) |
| `Coroutines` | `Awaitable`: 2 workers, 6 coroutines in 3 levels; `Task`: 2 clients, 3 tasks; fair | `ResumeInv`, `HasExecutor`, `NoFrameLeft`, `AwaitReturns`; one scheduler and the windows of undefined behaviour (`UndefinedInWindows`), `GetReturns` |
| `Sequential` | Buffer: reserve 2, size 3, second vector 2, 8 bytes. Generator: 2 frames, 2 generators, 2 iterators, 2 values. Http: 2 messages, 2 headers, bodies with a colon and an empty line. Json: 2 proxies, 4 operations; texts of up to 4 elements after three beginnings. Format: strings of up to 5 characters, and three fields one after the other, with up to 2 arguments | indices and content (`BufferInv`), `InOrder`, bounded growth (`SizeBound`); ownership, ends and values (`GeneratorInv`); `ParsedMessage`; `RoundTrip`, `ProxyDenotes`, `ParserAccepts`; `ReadOnce`, `ArgumentsUsed` |
| `LoggerSafety` | 2 threads, 5 calls, 2 levels, 2 files | `SelectedIsCurrent`, `NothingLost` |

Runs that end in a violation. Each states what a comment or the README of the
repository says, and TLC gives a behaviour of the code that contradicts it:

| Run | What happens |
|---|---|
| `SchedulerLostCoroutine` | `add_coroutine` notifies before `task_num_++`. Nobody waits yet; a worker then tests `task_num_`, finds 0 and goes to sleep. Nobody wakes it after the increment, and the coroutine stays queued while `running_` is true. (A worker that the notification wakes too early sleeps again in the same way.) |
| `MemoryPoolMixedSizes` | the cache of a thread serves the pools of all classes: a block of a small class is handed out for a larger request |
| `IOContextEvents` | a late `epoll_ctl` overwrites the interest of a later wait |
| `LoggerTime` | the object of `std::localtime` is shared and copied outside the lock: a record gets a time from before its call |

Some properties have a condition, because the code has a way to go wrong and the
property says that it is the only one:

- `StopReturns` of `ThreadPool` and of `Scheduler`: `stop` sets the flag and
  notifies without the mutex. A worker that has evaluated its predicate and has
  not blocked yet misses the notification, and `join` waits for ever. `Missed`
  is that state. Without it `stop` returns (in `Scheduler`: or an assertion
  fails).
- `ReadServed` of `IOContext`: the steps of `await_suspend` that come after the
  waiter is stored race with the resumed coroutine. A late `epoll_ctl` may
  replace the interest of a later wait (`EventsMatch`), and one that fails may
  erase the waiter of another session on the same descriptor
  (`ErasesOwnWaiter`). Without both, input that has arrived is read.
- `RunReturns` of `IOContext`: `stop` clears `running_` and does not wake
  `epoll_wait`, which has no timeout. The loop ends when a descriptor is ready.
- `UndefinedInWindows` of `Task`: `get_instance` is not
  synchronised, so its first use must not overlap another one; and a `Task` has
  to live until `get` has returned. Even then a worker may resume the coroutine
  before its initial suspension (`coro/Task.hpp:21`), and the client may destroy
  it between `set_value` and the final suspension.
- the properties of `Logger` but `TimeOfCall`: the first use and the setters
  overlap no other call.
- `EveryTaskRuns` of `Strand`: the pool must not have destroyed a lambda of the
  strand (`Lost`), and it still runs or destroys what it has queued. A lambda
  submitted after `stop` of the pool has returned is neither,
  until the pool is run again or destroyed itself.
- `ParsedMessage` of `Http` and `RoundTrip` of `Json` except the messages and
  keys named in their comments, and `ParserAccepts` of `Json` names the texts
  that are accepted although they are not JSON; see below.
- `ProxyDenotes` of `Json` is about proxies that are still valid. A proxy whose
  vector has grown may dangle.

Where such a condition takes away a failure that the code has, no property covers
it, and `PROJECT.json` says so at that hazard.

Other behaviours of the code that the models show, and that no run is about:

- a task of a thread detached by `stopHard` may still run when a later `stop`
  has returned (`tools/ThreadPool.hpp:228`);
- an `add_coroutine` in progress makes `assert(task_num_ == 0)` at the end of
  `Scheduler::stop` fail, and a coroutine that is executed during `stop` and
  creates another one makes the assertion in `add_coroutine` fail
  (`coro/Scheduler.hpp:182` and `87`);
- the entry that `get_events` creates may be dispatched before it is filled,
  and then a null handle is resumed (`net/IOContext.hpp:169`);
- an exception in the body of a generator is not rethrown: `done()` is tested
  first (`coro/Generator.hpp:104`);
- while sessions keep the queue of the pool filled, `IOContext::stop` does not
  return, and sessions that wait in `waiters_` are never resumed after it; their
  frames stay (`net/IOContext.hpp:139`);
- when a constructor throws, `alloc_array` destroys all `n` elements, though the
  comment before the loop says those already constructed (`alloc/alloc.hpp:37`);
- in a message without headers the header block is the rest of the text, and
  lines of the body with a colon become headers (`protocol/Http.hpp:183`);
- a message without a url, which is how a message begins, is serialized with two
  spaces between method and version; the receiver then takes the version for
  the url and has an unknown version (`protocol/Http.hpp:129`);
- keys are printed without escapes, so that a key with a quote does not survive
  the round trip; a number keeps six digits; a string that lacks its closing
  quote is accepted as a document, and a backslash before any character that
  has no escape stands for that character (`protocol/Json.hpp:475` and `488`);
- a format string all of whose fields are numbered is always refused with "Too
  many arguments" (`log/format.hpp:290`), and the floating-point notation and
  precision set by one field stay for the later ones (`log/format.hpp:120`).

Why the bounds are enough for the cases of interest:

- Two workers and two callers are the least for a notification to reach the
  wrong worker and for two notifications to race; a worker whose task adds a
  task is a caller too. In `ThreadPool` the third worker lets a thread detached
  by `stopHard` live beside the two of the next `run`.
- `THREADS_NUM` is 2 in the code of `ThreadPool`. `kCheapPrepend` is 8 and the
  second vector of `readFd` is 65536 bytes; the small values let a few bytes
  reach every branch. `blocksPerChunk_` is 1024 and `localCacheLimit_` is 64;
  with 2 and 1, refill, flush and new chunks all happen. A chunk is then not
  larger than two caches, so the second case of `CacheBound`, the rest of a
  chunk, is left to the proof.
- Two calls deep, an array of two elements: a constructor that throws inside
  the constructor of an element of which another exists already. Depth adds no
  case that the stack does not have at two.
- Five calls of the logger: change level and path while another logger is
  selected, select, log, log again or exit. Two are enough for the shared time.
- Two messages let the receiver parse into a used object; two headers come in
  two orders; one body looks like a header followed by an empty line.
- Texts of JSON begin empty, inside an object or inside an array, so that four
  more elements reach every state of the parser; format strings of five
  characters hold two fields, or an escape beside a field; three fields, two of
  them numbered and with every spec, let one field leave flags to the next.
- `MaxHardStops`, `MaxBytes`, `MaxLen`, `MaxChunks`, `MaxDepth`, `MaxCalls`,
  `MaxTime`, `MaxMessages`, `MaxOps` and `MaxText` are bounds of
  the model and named as such where they are declared.
- One descriptor for two sessions in `IOContextSafety` forces its reuse.

Deadlock is not checked. All these systems may really stop: tasks are done, the
object is destroyed, there is nothing to serve, or a bound of the model is
reached. Where something must go on there is a liveness property.

Symmetry is used in `AllocSafety`, `MemoryPoolMixedSizes`, `Sequential` and the
runs of `Logger`. Their properties are invariants and properties of single
steps, for which it is sound; runs with fairness do not use it.

### Fairness

- `ThreadPool`: weak fairness for each thread that is inside a call, each
  worker that is not blocked and the controlling thread inside `run`, `stop` or
  `stopHard`. Nobody need call anything, no spurious wakeup is promised, and
  the mutex is not assumed to be fair.
- `Strand`, `Awaitable`: weak fairness for each thread. A worker that is idle
  takes what the pool has queued, which is `QueuedTaskRuns` of `ThreadPool`.
  Tasks and coroutines end.
- `Scheduler`: strong fairness for callers and workers, so that the violations
  are not mere starvation at the mutex; weak fairness for `stop` once begun.
- `IOContext`: weak fairness for the event loop, each worker, and `stop` once it
  is called. Peers need not do anything.
- `Task`: weak fairness for each client inside a call and for each coroutine
  that a worker has resumed. Nothing is assumed of queued coroutines, because
  the scheduler may forget them (`SchedulerLostCoroutine`).

## 4. Proofs

TLAPS checks these theorems for all values of the constants that satisfy the
named `ASSUME` of the module.

| Module | Theorems |
|---|---|
| `ThreadPoolProofs` | `PoolInvariant`, `NoLostWakeup`, `StopDrainsQueue`, `DestroyIsSafe`, `PoolImplementsExecutor` |
| `SchedulerProofs` | `SchedulerInvariant`, `TakeFindsFront`, `StopLeavesNothing`, `SchedulerImplementsExecutor` |
| `OrderProofs` | `Buffer`: `BufferInvariant`, `BufferSizeBound`, `BytesInOrder`. `Strand`: `StrandInvariant`, `StrandSerializes`, `StrandIsSerial` (until the pool destroys a lambda of the strand). `Logger`: `SelectedCurrent`, `RecordsKept`, `OnlySelectedRecords` |
| `AllocProofs` | `MemoryPool`: `MemoryPoolInvariant`, `CacheBounded`, `BlocksFit` (while no thread mixes block sizes in its cache). `Alloc`: `BlocksHaveOwners`, `DeallocateContract`, `AllocUsesPool` |
| `CoroutineProofs` | `Awaitable`: `ResumedWhileSuspended`, `ExecutorHandedDown`, `ChildrenDestroyed`. `Task`: `TaskWindows`, `GetFaithful`. `Generator`: `GeneratorInvariant`, `OnlyLiveResumed` |
| `IOContextProofs` | `OneHolderInvariant`, `SocketOwnedInvariant`, `AcceptorNeverLost`, `CoroutinesKept` |
| `TextProofs` | `Format`: `FormatReadOnce`, `FormatUsesArguments`, `FormatReadsOn`. `Http`: `HttpParsesMessage`, `HttpKeepsHeader` |

Most of them state a property that a run checks, for every instance. The others
have no run: `GetFaithful`, `OnlyLiveResumed`, `SocketOwnedInvariant`,
`AcceptorNeverLost`, `CoroutinesKept`, `FormatReadsOn`, `HttpKeepsHeader` and
`OnlySelectedRecords` state a property that is defined in or beside them,
`TakeFindsFront` an assertion of the code, `BlocksFit`, `DeallocateContract` and
`AllocUsesPool` what the allocator and the pool owe each other.

The arguments:

- **ThreadPool.** `WorkConserving` says that while somebody is blocked the queue
  is no longer than the workers on their way to it plus the callers that have
  still to notify. It is not inductive. That a caller which reads
  `waiting_threads_ = 0` may go away needs `WaitingInv` (the counter counts the
  workers between `++` and `--`); that nothing is queued between predicate and
  blocking needs `SleepInv`, and that needs `MutexInv`. `StopDrains` needs
  `ControlInv`: a joined thread left only when nothing promised was queued.
  `PlaceInv` (a pending task is in one place) gives the refinement.
- **Strand.** `TurnInv` says that there is one turn and that `running_` is set
  exactly while it exists or was lost with the pool. Two tasks that overlap
  would be two turns. For the refinement the queue of the abstract executor is
  the task in the turn followed by `queue_`.
- **Scheduler.** `CountInv` relates the queue to `task_num_` plus the callers
  between push and count; so a positive counter means a non-empty queue
  (`FrontExists`). `StopInv` follows the last worker that leaves.
- **Buffer.** The invariant ties every readable byte to its stream position;
  each member function is shown to preserve it. The size bound needs the
  history variable `need`.
- **MemoryPool.** Caches and free lists are seen as one function from places to
  sequences. Every call moves blocks between ends of two sequences, and one
  lemma per kind of move shows that no block is duplicated or lost. `BlocksFit`
  holds for any sizes, under the hypothesis `SizesApart` on what the program
  does: a thread allocates and frees only sizes for which the blocks in its
  cache, if there are any, were made. Then (`SizesInv`) a free list has blocks
  of its class only, a cache blocks of one size, and a block in use fits. The
  hypothesis is what the run `MemoryPoolMixedSizes` violates; the theorem says
  that nothing else can lead to a block that is too small.
- **Alloc.** Every step of the allocator is a step of the pool or changes
  nothing of it, so `MemoryPoolInv` holds. With it a block that `allocate`
  returns is in nobody's hands, and `AllocInv` (with types) is inductive: one
  lemma each for pushing, popping and replacing a call says what happens to the
  set of calls. `DeallocateContract` shows that the guard of `Deallocate` in the
  model takes no behaviour away from the allocator.
- **Awaitable.** `AwaitableInv` has the queue of the pool (`QueueInv`), the
  worker of each coroutine (`RunInv`), the links (`LinkInv`: a live child's
  `awaiting` is its parent, which awaits this child and no other) and the
  families (`FamilyInv`: who has not run has no children). That a coroutine ends
  with no live child, hence `NoFrameLeft`, follows from the links: a parent
  with a live child is suspended.

- **Task.** `FrameInv` gives each client in a call a frame of its own, in a
  state that fits the place of the client; `OutcomeInv` ties the promise to the
  state of the frame and to what `get` returned. Both hold whatever overlaps,
  and `GetFaithful` follows: `get` never returns early or anything else.
  `TaskWindows` needs more. While no first use overlaps another,
  `SingletonInv` says that there is no scheduler, one that its maker, alone, has
  still to start, or one that runs and that everybody uses.
- **Generator.** `OwnerInv` (a live frame is in one `Generator`) and
  `IteratorInv` (the frame of an iterator has been resumed before, and is at its
  end if the iterator says so) are inductive with the types. `OnlyLiveResumed`
  is what they mean for single steps.
- **IOContext.** `OneHolder` speaks of the handles only, and is not inductive:
  that `co_spawn` finds no waiter at a reused descriptor needs `SocketInv`
  (sockets of different coroutines differ, from `accept4` to `close`),
  `WaiterInv` (a waiter is at the descriptor of its own coroutine) and
  `AwaitInv` (so is what `await_suspend` is about to store; the session that
  `async_accept` is about to start has no holder). Every action lets handles
  go, moves one handle to one place, or creates a session; a lemma for each
  does the work. Undefined behaviour either ends the model, where nothing
  holds a handle any more, or has no effect.

  That a handle has at most one holder does not say that it has one.
  `OnlyEraseForgets` does, for single steps: a coroutine that has a holder keeps
  one until it ends or the context stops. The exception is a session whose
  waiter is erased by the late `await_suspend` of an earlier session on the same
  descriptor, and the proof of `CoroutinesKept` shows that there is no other.
  It needs `SuspendInv`, which follows what `await_suspend` has stored up to
  `epoll_ctl`. The listening descriptor is never handed out again, so the
  exception does not touch the accept loop: `KeptInv` is inductive, and until
  the loop fails or the context stops it is queued, runs, or waits at
  `listenfd_`, which epoll watches (`AcceptorKept`). `ConnectionServed` rests on
  this; that the event loop goes on is the fairness that TLC adds.
- **Format.** `FormatIInv` has the types, that `oss` and `parts` agree in length
  and kind (`Aligned`), that the parts are adjacent and reach exactly to `pos`
  (`ReadTo`), and that the automatic fields written so far have printed the
  arguments below `arg_index`, each once and in order (`Used`), and that the
  stream is idle between fields: decimal, with small letters. An action
  writes some plain text and then at most one other piece: one lemma for each
  of the two says what becomes of `ReadTo` and of `Used`. At the end `pos` is
  past the string and the check of `arg_index` has been made, which gives
  `ReadOnce` and `ArgumentsUsed`. `FormatReadsOn` says that each turn of the
  loop moves `pos` forward, so that it ends.
- **Http.** The text of a message is described by its positions, not by
  recursion: `HeadText` says that it is the start line and, in any order, one
  line for each header written so far, with no empty line among them.
  `HttpIInv` has this for a text being written and for one that was sent.
  Against it stands what the parser finds: `FindLineEnd` and `FindEmptyLine`
  where the first line and the header end in any prefix that has arrived,
  `ThreeWordsRead` and, without a url, `TwoWordsRead` the words of the start
  line, `HeaderParsed` name and value of
  one line, `HeadersParsed` the map that all of them give. `MessageParsed`
  combines these. `HttpKeepsHeader` is what it means for two calls of
  `parse_from_string` one after the other: once the header has been there, only
  the body changes, and only by growing. All this is for urls without spaces and
  headers without line ends, with names without a colon (`HttpAssumption`): the
  code does not encode them.
- **Logger.** `LoggerIInv` adds to the two properties that calls exclude each
  other as far as the hypothesis says (`ExclusionInv`), that a call uses the one
  `GlobalLogger` and the selected logger, and that a record past the test of its
  level still has at least the level set (`ObjectInv`). `FileInv` holds without
  the hypothesis: closing, opening and writing keep the records of each file
  whatever overlaps, as long as no dead object is used. `OnlySelectedRecords`
  says of single steps where a record may go.

`SequenceFacts` has the facts about queues and concatenation that the other
modules cite, and that a non-empty set of naturals has a least element, which
stands in for induction wherever the first position of something is meant.

`Buffer` with `Strand` and `Logger`, `Format` with `Http`, `MemoryPool` with
`Alloc`, and the three kinds of coroutine share a proof module each; their
models are independent, apart from `Alloc`, which extends `MemoryPool`. That is
why they have names such as `BufferInit`, `TaskInit` and `LoggerNext`.

Only model-checked: `Json` (`RoundTrip`, `ProxyDenotes`, `ParserAccepts`), and
all liveness. Liveness under fairness and `ENABLED` are outside what the proof
system handles. So are induction over data and recursive operators: documents
are trees of any depth, the printer and the parser of `Json` recur over them,
and that one undoes the other is a statement by induction on that depth. That
the actions of a model do what the code does is not proved by anything; it is
what the comments are for.

## 5. Not modelled

Assumptions and gaps of the models:

- One thread controls a pool; `stop` is not called by a task (it would join its
  own thread). A strand is not destroyed while tasks are outstanding. After the
  pool has destroyed a lambda of a strand the strand never runs anything again;
  `EveryTaskRuns` excludes this by its disjunct `Lost`.
- `IOContext`: the start of `run`, a second `run` after `stop`,
  `Acceptor::close`, `async_write` of an empty buffer (it returns at once),
  moves of sockets, and several coroutines on one socket: the second would
  overwrite the waiter of the first, by design of `waiters_`.
- `Task`: copies, which share the handle and destroy it twice; several calls of
  `get`, of which the second throws.
- `Alloc` and `MemoryPool`: `operator new` does not fail; requests of more than
  4096 bytes go to `malloc` and change nothing; requests of no bytes are left
  out; `sizeof(T) * n` does not overflow. Destructors of elements that were
  never constructed have no effect in the model.
- `Logger`: formats that throw are modelled by their control only; the text of
  a record, its date format and flushing of `std::cout` are not.
- `Format`: digits, width and wording. `Http`: methods and versions are single
  elements, and the characters of names and values are few. `Json`: numerals,
  `true`, `false` and `null` are single elements, so which numerals are
  accepted (`parseNumber` takes `01` and `1.`), control characters inside
  strings and `\u` (taken for the letter) are not covered; a proxy whose vector has grown
  is not used again, because that is undefined behaviour; a null pointer given
  to `insert` is left out (`toString` would dereference it).

Left out: `log/Log.bak.hpp` (a backup that nothing includes), `tools/Tool.hpp`
(reads and writes whole files, no state), `container/algorithm.hpp` (empty),
`main.cpp` (a demonstration of Json).
