----------------------------- MODULE Generator ------------------------------
(***************************************************************************)
(* Generator<T> and its iterator (include/coro/Generator.hpp), used by one *)
(* thread.  A coroutine yields Yields values and then returns or throws.   *)
(* Generators own frames and may be moved; iterators, of which there may   *)
(* be several on one generator, share the frame and remember is_end_ for   *)
(* themselves.  The program uses an iterator only while its frame exists.  *)
(***************************************************************************)
EXTENDS Naturals, FiniteSets

CONSTANTS
    Frames,      \* coroutine frames, each created at most once
    Generators,  \* variables of type Generator<T>
    Iterators,   \* variables of type Generator<T>::iterator
    Yields,      \* how many values a coroutine yields
    NullCoro     \* the null handle

ASSUME GeneratorAssumption == Yields \in Nat /\ NullCoro \notin Frames

VARIABLES
    coro,       \* coro_ of each generator
    pos,        \* how often each frame was resumed; Yields + 1 when done
    state,      \* whether each frame is unborn, live or destroyed
    exception,  \* promise.exception_ is set
    it,         \* coro_ and is_end_ of each iterator
    last        \* what the latest call was and gave

generatorVars == <<coro, pos, state, exception, it, last>>
coroVars == <<pos, state, exception>>

Iterator(c, is_end) == [coro |-> c, is_end |-> is_end]
Done(c) == pos[c] > Yields
(* !coro_ || coro_.done() *)
Ended(c) == IF c = NullCoro THEN TRUE ELSE Done(c)
Called(op, c, result) == [op |-> op, coro |-> c, result |-> result]

-----------------------------------------------------------------------------

GeneratorInit ==
    /\ coro = [g \in Generators |-> NullCoro]
    /\ pos = [c \in Frames |-> 0]
    /\ state = [c \in Frames |-> "unborn"]
    /\ exception = {}
    /\ it = [i \in Iterators |-> Iterator(NullCoro, TRUE)]
    /\ last = Called("none", NullCoro, "none")

(* get_return_object, into a generator variable that is empty. *)
GetReturnObject(g, c) ==
    /\ coro[g] = NullCoro /\ state[c] = "unborn"
    /\ coro' = [coro EXCEPT ![g] = c]
    /\ state' = [state EXCEPT ![c] = "live"]
    /\ last' = Called("create", c, "none")
    /\ UNCHANGED <<pos, exception, it>>

(* What coro_.destroy() does, if there is a coroutine. *)
Destroyed(c) == [d \in Frames |-> IF d = c THEN "destroyed" ELSE state[d]]

(* ~Generator *)
DeleteGenerator(g) ==
    /\ coro[g] # NullCoro
    /\ state' = Destroyed(coro[g])
    /\ coro' = [coro EXCEPT ![g] = NullCoro]
    /\ last' = Called("delete", coro[g], "none")
    /\ UNCHANGED <<pos, exception, it>>

(* Mutant of Exchange: the handle is copied. *)
Copied(g, h) == [coro EXCEPT ![g] = coro[h]]

(* coro_ = std::exchange(other.coro_, {}) *)
Exchange(g, h) == [coro EXCEPT ![g] = coro[h], ![h] = NullCoro]

(* operator=(Generator&&); when coro[g] is null, also the move constructor. *)
MoveAssign(g, h) ==
    /\ g # h
    /\ state' = Destroyed(coro[g])
    /\ coro' = Exchange(g, h)
    /\ last' = Called("move", coro[h], "none")
    /\ UNCHANGED <<pos, exception, it>>

(* coro_.resume(): up to the next co_yield, or to the end of the body,     *)
(* through return_void or unhandled_exception.                             *)
ResumeCoro(c) ==
    /\ pos' = [pos EXCEPT ![c] = @ + 1]
    /\ exception' \in IF pos[c] = Yields THEN {exception, exception \cup {c}}
                                         ELSE {exception}
    /\ UNCHANGED state

(* After resume(): done() is tested before exception_. *)
Outcome(c) ==
    IF pos'[c] > Yields THEN "end" ELSE IF c \in exception' THEN "throw" ELSE "value"

(* The common part of begin, operator++ and next: resume and look. *)
Advance(op, c) ==
    /\ ResumeCoro(c)
    /\ last' = Called(op, c, Outcome(c))

(* begin() *)
BeginEnded(g, i) ==
    /\ Ended(coro[g])
    /\ it' = [it EXCEPT ![i] = Iterator(NullCoro, TRUE)]
    /\ last' = Called("begin", coro[g], "end")
    /\ UNCHANGED <<coro, coroVars>>

BeginValue(g, i) ==
    /\ ~Ended(coro[g])
    /\ Advance("begin", coro[g])
    /\ it' = [it EXCEPT ![i] = Iterator(coro[g], Outcome(coro[g]) = "end")]
    /\ UNCHANGED coro

Copy(i, j) ==
    /\ i # j
    /\ it' = [it EXCEPT ![i] = it[j]]
    /\ last' = Called("copy", it[j].coro, "none")
    /\ UNCHANGED <<coro, coroVars>>

Usable(i) == it[i].coro # NullCoro => state[it[i].coro] = "live"

(* is_end_ || !coro_ || coro_.done() *)
AtEnd(i) == it[i].is_end \/ Ended(it[i].coro)

(* operator++ *)
IncrementEnded(i) ==
    /\ Usable(i) /\ AtEnd(i)
    /\ it' = [it EXCEPT ![i] = Iterator(@.coro, TRUE)]
    /\ last' = Called("++", it[i].coro, "end")
    /\ UNCHANGED <<coro, coroVars>>

Increment(i) ==
    /\ Usable(i) /\ ~AtEnd(i)
    /\ Advance("++", it[i].coro)
    /\ it' = [it EXCEPT ![i] = Iterator(@.coro, Outcome(@.coro) = "end")]
    /\ UNCHANGED coro

(* operator*: the value of the latest co_yield, or an exception. *)
Dereference(i) ==
    /\ Usable(i)
    /\ last' = Called("*", it[i].coro,
                    IF AtEnd(i) THEN "error"
                    ELSE IF pos[it[i].coro] = 0 THEN "empty" ELSE "value")
    /\ UNCHANGED <<coro, coroVars, it>>

(* next() *)
NextEnded(g) ==
    /\ Ended(coro[g])
    /\ last' = Called("next", coro[g], "end")
    /\ UNCHANGED <<coro, coroVars, it>>

NextValue(g) ==
    /\ ~Ended(coro[g])
    /\ Advance("next", coro[g])
    /\ UNCHANGED <<coro, it>>

GeneratorNext ==
    \/ \E g \in Generators :
         \/ \E c \in Frames : GetReturnObject(g, c)
         \/ \E h \in Generators : MoveAssign(g, h)
         \/ \E i \in Iterators : BeginEnded(g, i) \/ BeginValue(g, i)
         \/ DeleteGenerator(g) \/ NextEnded(g) \/ NextValue(g)
    \/ \E i \in Iterators :
         \/ \E j \in Iterators : Copy(i, j)
         \/ IncrementEnded(i) \/ Increment(i) \/ Dereference(i)

GeneratorSpec == GeneratorInit /\ [][GeneratorNext]_generatorVars

-----------------------------------------------------------------------------
(* Properties.                                                             *)

(* A frame has one owner from its creation to its destruction, whatever    *)
(* moves there are, and is destroyed once; it is never resumed at its      *)
(* final suspension point, though another iterator may have brought it     *)
(* there; an iterator is at its end only if its coroutine is; and one that *)
(* can be dereferenced gives a value, never the empty optional.            *)
GeneratorInv ==
    /\ coro \in [Generators -> Frames \cup {NullCoro}]
    /\ pos \in [Frames -> 0 .. Yields + 1]
    /\ it \in [Iterators -> [coro : Frames \cup {NullCoro}, is_end : BOOLEAN]]
    /\ \A c \in Frames :
         Cardinality({g \in Generators : coro[g] = c})
           = IF state[c] = "live" THEN 1 ELSE 0
    /\ \A i \in Iterators :
         it[i].is_end /\ it[i].coro # NullCoro => Done(it[i].coro)
    /\ last.op = "*" => last.result # "empty"

=============================================================================
