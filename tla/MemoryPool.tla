----------------------------- MODULE MemoryPool -----------------------------
(***************************************************************************)
(* ThreadSafeMemoryPool and GlobalPoolManager (include/alloc/              *)
(* MemoryPool.hpp): one pool per size class, each with a free list under a *)
(* mutex, and in front of them a cache per thread.                         *)
(*                                                                         *)
(* localCache() is a static member function with one thread_local vector,  *)
(* so a thread has one cache for the pools of all classes.                 *)
(*                                                                         *)
(* A cache is touched by its own thread only and a free list only under    *)
(* its mutex, in one critical section per call, so that a call is one      *)
(* action.  Requests above MAX_POOL_SIZE go to malloc and free, and change *)
(* nothing here.                                                           *)
(***************************************************************************)
EXTENDS Naturals, Integers, Sequences, Functions

CONSTANTS
    Threads,
    Sizes,          \* the sizes that the program asks for, in bytes
    BlocksPerChunk, \* blocksPerChunk_, 1024 in GlobalPoolManager
    CacheLimit,     \* localCacheLimit_, 64 in GlobalPoolManager
    MaxChunks       \* bound: chunks allocated in one behaviour

ALIGN == 8
MAX_POOL_SIZE == 4096
NUM_CLASSES == MAX_POOL_SIZE \div ALIGN
Classes == 0 .. NUM_CLASSES - 1

ASSUME MemoryPoolAssumption ==
    /\ Threads \cap Classes = {}
    /\ Sizes \subseteq Nat
    /\ BlocksPerChunk \in Nat \ {0} /\ CacheLimit \in Nat
    /\ MaxChunks \in Nat

-----------------------------------------------------------------------------
(* Size classes.                                                           *)

(* (n + ALIGN - 1) & ~(ALIGN - 1) *)
align_up(n) == ((n + 7) \div 8) * 8

size_to_class(n) ==
    IF align_up(n) > MAX_POOL_SIZE THEN -1 ELSE (align_up(n) \div ALIGN) - 1

(* alignBlockSize: blocks are aligned for max_align_t, 16 bytes. *)
alignBlockSize(s) == ((s + 15) \div 16) * 16

(* blockSize_ of pools_[cls]. *)
blockSize(cls) == alignBlockSize((cls + 1) * ALIGN)

-----------------------------------------------------------------------------

VARIABLES
    local,           \* the cache of each thread
    globalFreeList,  \* globalFreeList_ of the pool of each class
    chunks,          \* the chunks_ of all pools in order of allocation,
                     \* each represented by the class of its pool
    used,            \* blocks in the hands of the program, with the size
                     \* it asked for
    lost             \* blocks in the caches of threads that have exited

vars == <<local, globalFreeList, chunks, used, lost>>

(* Block i of chunk k.  Its size is that of the class of the chunk. *)
Block == Nat \X Nat
Blocks == (1 .. Len(chunks)) \X (0 .. BlocksPerChunk - 1)

(* The classes of the sizes in use: the other pools stay empty. *)
UsedClasses == {size_to_class(s) : s \in Sizes} \ {-1}

Init ==
    /\ local = [t \in Threads |-> <<>>]
    /\ globalFreeList = [c \in UsedClasses |-> <<>>]
    /\ chunks = <<>>
    /\ used = {}
    /\ lost = {}

(* The n last elements of a vector, last first: the order in which a loop  *)
(* of back() and pop_back() visits them; and what it leaves.               *)
PoppedBack(v, n) == [i \in 1 .. n |-> v[Len(v) + 1 - i]]
LeftAfter(v, n) == SubSeq(v, 1, Len(v) - n)

(* p = local.back(); local.pop_back(); return p;  with v in the cache. *)
Return(t, v, size) ==
    /\ local' = [local EXCEPT ![t] = LeftAfter(v, 1)]
    /\ used' = used \cup {<<v[Len(v)], size>>}
    /\ UNCHANGED lost

(* allocate with a block in the cache. *)
AllocateLocal(t, size) ==
    /\ size_to_class(size) >= 0
    /\ local[t] # <<>>
    /\ Return(t, local[t], size)
    /\ UNCHANGED <<globalFreeList, chunks>>

(* The number of blocks that refillLocalFromGlobal moves. *)
toMove(c) ==
    IF CacheLimit < Len(globalFreeList[c]) THEN CacheLimit
                                           ELSE Len(globalFreeList[c])

(* allocate with an empty cache: refillLocalFromGlobal finds blocks. *)
AllocateRefill(t, size) ==
    LET c == size_to_class(size)
    IN  /\ c >= 0
        /\ local[t] = <<>>
        /\ toMove(c) > 0
        /\ Return(t, PoppedBack(globalFreeList[c], toMove(c)), size)
        /\ globalFreeList' =
             [globalFreeList EXCEPT ![c] = LeftAfter(@, toMove(c))]
        /\ UNCHANGED chunks

(* The blocks of a new chunk, in the order of allocateChunkToLocal. *)
NewChunk == [i \in 1 .. BlocksPerChunk |-> <<Len(chunks) + 1, i - 1>>]

(* allocate with an empty cache and an empty free list. *)
AllocateChunk(t, size) ==
    LET c == size_to_class(size)
    IN  /\ c >= 0
        /\ local[t] = <<>>
        /\ toMove(c) = 0
        /\ Len(chunks) < MaxChunks
        /\ chunks' = Append(chunks, c)
        /\ Return(t, NewChunk, size)
        /\ UNCHANGED globalFreeList

(* Mutant of FlushCount: deallocate never flushes. *)
FlushNever(v) == 0

(* How many blocks flushLocalToGlobal moves, if deallocate calls it. *)
FlushCount(v) == IF Len(v) > CacheLimit * 2 THEN Len(v) - CacheLimit ELSE 0

(* Mutant of Flush: local.pop_back() is missing. *)
FlushCopies(t, c, v) ==
    /\ local' = [local EXCEPT ![t] = v]
    /\ globalFreeList' =
         [globalFreeList EXCEPT ![c] = @ \o PoppedBack(v, FlushCount(v))]

(* flushLocalToGlobal *)
Flush(t, c, v) ==
    /\ local' = [local EXCEPT ![t] = LeftAfter(v, FlushCount(v))]
    /\ globalFreeList' =
         [globalFreeList EXCEPT ![c] = @ \o PoppedBack(v, FlushCount(v))]

(* deallocate, by any thread, with the size of the allocation. *)
Deallocate(t, p, size) ==
    /\ size_to_class(size) >= 0
    /\ <<p, size>> \in used
    /\ used' = used \ {<<p, size>>}
    /\ Flush(t, size_to_class(size), Append(local[t], p))
    /\ UNCHANGED <<chunks, lost>>

(* A thread exits: the vector of pointers is destroyed, the blocks are in  *)
(* no list any more.  Later threads start with an empty cache.             *)
ThreadExit(t) ==
    /\ local[t] # <<>>
    /\ local' = [local EXCEPT ![t] = <<>>]
    /\ lost' = lost \cup Range(local[t])
    /\ UNCHANGED <<globalFreeList, chunks, used>>

Allocate(t, size) ==
    AllocateLocal(t, size) \/ AllocateRefill(t, size) \/ AllocateChunk(t, size)

Next ==
    \E t \in Threads :
        \/ \E size \in Sizes : Allocate(t, size)
        \/ \E u \in used : Deallocate(t, u[1], u[2])
        \/ ThreadExit(t)

Spec == Init /\ [][Next]_vars

-----------------------------------------------------------------------------
(* Properties.                                                             *)

TypeOK ==
    /\ local \in [Threads -> Seq(Block)]
    /\ globalFreeList \in [UsedClasses -> Seq(Block)]
    /\ chunks \in Seq(UsedClasses)
    /\ used \subseteq Block \X Sizes
    /\ lost \subseteq Block

(* All lists of free blocks, and the blocks in them. *)
Places == Threads \cup UsedClasses
Lists == [x \in Places |-> IF x \in Threads THEN local[x] ELSE globalFreeList[x]]
InLists(L) == UNION {Range(L[x]) : x \in Places}

Handed == {u[1] : u \in used}

(* No block is twice in the lists. *)
Distinct(L) ==
    \A x, y \in Places : \A i \in DOMAIN L[x], j \in DOMAIN L[y] :
        L[x][i] = L[y][j] => x = y /\ i = j

(* A block is handed out to one user, or once in one list, or lost. *)
OnePlace ==
    /\ Distinct(Lists)
    /\ InLists(Lists) \cap (Handed \cup lost) = {}
    /\ Handed \cap lost = {}
    /\ \A u, v \in used : u[1] = v[1] => u = v

(* Every block of every chunk is somewhere, and no other block exists. *)
Accounted == Blocks = InLists(Lists) \cup Handed \cup lost

(* No two users have the same block, whichever threads allocate and free   *)
(* it, and none disappears except with the cache of a thread that exits.   *)
MemoryPoolInv == TypeOK /\ OnePlace /\ Accounted

(* A cache stays bounded: freeing flushes it before it exceeds twice the   *)
(* limit, and only a new chunk may leave more than that in it.             *)
CacheBound ==
    \A t \in Threads :
        \/ Len(local[t]) <= 2 * CacheLimit
        \/ Len(local[t]) <= BlocksPerChunk - 1

(* Blocks have a fixed size per pool (header comment): a block is at least *)
(* as large as what was asked for.                                         *)
SizeFits == \A u \in used : blockSize(chunks[u[1][1]]) >= u[2]

(* What the program may do, in the light of the shared cache: while the    *)
(* cache of a thread holds blocks, the thread allocates and frees only     *)
(* sizes for which the blocks in it were made.  When it is empty, or for   *)
(* another thread, any size will do.                                       *)
SizesApart ==
    \A t \in Threads : local'[t] # local[t] =>
        \A u \in (used \ used') \cup (used' \ used), i \in DOMAIN local[t] :
            blockSize(chunks[local[t][i][1]]) = blockSize(size_to_class(u[2]))

=============================================================================
