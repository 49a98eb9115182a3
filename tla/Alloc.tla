------------------------------- MODULE Alloc --------------------------------
(***************************************************************************)
(* Allocator (include/alloc/alloc.hpp): objects and arrays of objects in   *)
(* the blocks of the memory pool.                                          *)
(*                                                                         *)
(* Constructors and destructors are the program's: they may use the        *)
(* allocator again, and a constructor may throw.  So a call is not one     *)
(* step: what a thread has begun and not ended is a stack.                 *)
(***************************************************************************)
EXTENDS MemoryPool, FiniteSets

CONSTANTS
    Requests,  \* what the program allocates: [elem, n, array]
    MaxDepth   \* bound: calls of the allocator inside one another

(* sizeof(T) * n; alloc is the case n = 1. *)
BytesOf(r) == r.elem * r.n

ASSUME AllocAssumption ==
    /\ \A r \in Requests : r.elem \in Nat /\ r.n \in Nat \ {0} /\ r.array \in BOOLEAN
    /\ {BytesOf(r) : r \in Requests} \subseteq Sizes

VARIABLES
    stack,    \* the calls that each thread is in, the innermost last
    objects   \* what alloc and alloc_array have returned and is not freed

allocVars == <<vars, stack, objects>>

AllocInit == Init /\ stack = [t \in Threads |-> <<>>] /\ objects = {}

(* A call: its block, what it asked for, how many elements are constructed, *)
(* and whether it is constructing or destroying them.                      *)
Call(p, r, made, phase) == [p |-> p, r |-> r, made |-> made, phase |-> phase]

Top(t) == stack[t][Len(stack[t])]
In(t, phase) == stack[t] # <<>> /\ Top(t).phase = phase

Pushed(t, call) == stack' = [stack EXCEPT ![t] = Append(@, call)]
Popped(t) == stack' = [stack EXCEPT ![t] = LeftAfter(@, 1)]
TopIs(t, call) == stack' = [stack EXCEPT ![t] = Append(LeftAfter(@, 1), call)]

(* alloc and alloc_array, up to the first constructor. *)
Begin(t, r) ==
    /\ Len(stack[t]) < MaxDepth
    /\ Allocate(t, BytesOf(r))
    /\ \E u \in used' \ used : Pushed(t, Call(u[1], r, 0, "construct"))
    /\ UNCHANGED objects

(* A constructor returns; after the last one the call does. *)
Constructed(t) ==
    LET c == Top(t)
    IN  /\ In(t, "construct")
        /\ IF c.made + 1 < c.r.n
           THEN /\ TopIs(t, [c EXCEPT !.made = @ + 1])
                /\ UNCHANGED objects
           ELSE /\ Popped(t)
                /\ objects' = objects \cup {[p |-> c.p, r |-> c.r]}
        /\ UNCHANGED vars

(* gMemoryPool.deallocate(p, sz), and the end of the call. *)
Release(t) ==
    /\ Deallocate(t, Top(t).p, BytesOf(Top(t).r))
    /\ Popped(t)
    /\ UNCHANGED objects

(* Mutant of Thrown: the call forgets its block. *)
ThrownLeaks(t) == Popped(t) /\ UNCHANGED <<vars, objects>>

(* A constructor throws: alloc deallocates; alloc_array calls the          *)
(* destructors first, of all n elements.                                   *)
Thrown(t) ==
    IF Top(t).r.array
    THEN TopIs(t, [Top(t) EXCEPT !.phase = "destroy"]) /\ UNCHANGED <<vars, objects>>
    ELSE Release(t)

Throws(t) == In(t, "construct") /\ Thrown(t)

(* dealloc and dealloc_array, up to the end of the destructors ... *)
Dealloc(t, o) ==
    /\ Len(stack[t]) < MaxDepth
    /\ objects' = objects \ {o}
    /\ Pushed(t, Call(o.p, o.r, o.r.n, "destroy"))
    /\ UNCHANGED vars

(* ... and their last line. *)
Destroyed(t) == In(t, "destroy") /\ Release(t)

(* A thread leaves no call behind when it exits. *)
Exit(t) ==
    /\ stack[t] = <<>>
    /\ ThreadExit(t)
    /\ UNCHANGED <<stack, objects>>

AllocNext ==
    \E t \in Threads :
        \/ \E r \in Requests : Begin(t, r)
        \/ Constructed(t) \/ Throws(t) \/ Destroyed(t)
        \/ \E o \in objects : Dealloc(t, o)
        \/ Exit(t)

AllocSpec == AllocInit /\ [][AllocNext]_allocVars

-----------------------------------------------------------------------------
(* Properties.                                                             *)

Calls == UNION {Range(stack[t]) : t \in Threads}

(* Two calls, of one thread or two, or a call and an object, never have    *)
(* the same block ...                                                      *)
OneOwner ==
    /\ \A t, s \in Threads : \A i \in DOMAIN stack[t], j \in DOMAIN stack[s] :
         stack[t][i].p = stack[s][j].p => t = s /\ i = j
    /\ \A c \in Calls, o \in objects : c.p # o.p
    /\ \A o, q \in objects : o.p = q.p => o = q

(* ... and the blocks that the pool has handed out are theirs, with the    *)
(* size of the allocation: a constructor that throws leaves no block       *)
(* behind, and each block goes back with the size with which it came,      *)
(* however deep constructors and destructors use the allocator.            *)
AllocInv ==
    /\ OneOwner
    /\ used = {<<c.p, BytesOf(c.r)>> : c \in Calls \cup objects}

=============================================================================
