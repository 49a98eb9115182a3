------------------------------- MODULE Buffer -------------------------------
(***************************************************************************)
(* hspd::Buffer (include/io/Buffer.hpp): the byte buffer between a socket  *)
(* and the code that parses what it reads or produces what it writes.      *)
(*                                                                         *)
(* A byte is identified by its position in the stream of all bytes that    *)
(* were ever put into the buffer, so the content shows whether bytes are   *)
(* lost, repeated or reordered when data is moved or the vector grows.     *)
(* 0 is a byte of the vector that was never written.  Indices are those of *)
(* the code, from 0.                                                       *)
(***************************************************************************)
EXTENDS Naturals, Integers

CONSTANTS
    KCheapPrepend,  \* kCheapPrepend
    InitialSize,    \* the argument of the constructor
    ExtraBuf,       \* sizeof(extraBuf) in readFd
    MaxBytes,       \* bound: bytes put into the buffer in one behaviour
    MaxLen          \* bound: bytes one append or retrieve asks for

ASSUME BufferAssumption ==
    /\ KCheapPrepend \in Nat /\ InitialSize \in Nat /\ ExtraBuf \in Nat
    /\ MaxBytes \in Nat /\ MaxLen \in Nat

VARIABLES
    buf,       \* the object: size, data, readIndex and writeIndex
    produced,  \* bytes put in so far: the stream position of the newest one
    consumed,  \* bytes taken out so far
    out,       \* the stream positions the last retrieving call handed out
    need       \* the most space any append was entitled to, see SizeBound

bufferVars == <<buf, produced, consumed, out, need>>

Smaller(m, n) == IF m < n THEN m ELSE n
Larger(m, n) == IF m < n THEN n ELSE m

-----------------------------------------------------------------------------
(* The member functions, as functions of the object.                       *)

readableBytes(b) == b.writeIndex - b.readIndex
writableBytes(b) == b.size - b.writeIndex
prependableBytes(b) == b.readIndex

Object(size, data, readIndex, writeIndex) ==
    [size |-> size, data |-> data,
     readIndex |-> readIndex, writeIndex |-> writeIndex]

New(initialSize) ==
    Object(KCheapPrepend + initialSize,
           [i \in 0 .. KCheapPrepend + initialSize - 1 |-> 0],
           KCheapPrepend, KCheapPrepend)

retrieveAll(b) == Object(b.size, b.data, KCheapPrepend, KCheapPrepend)

(* Mutant of retrieve: the reset also when one byte is left to read. *)
retrieveTooMuch(b, len) ==
    IF len + 1 < readableBytes(b)
    THEN Object(b.size, b.data, b.readIndex + len, b.writeIndex)
    ELSE retrieveAll(b)

retrieve(b, len) ==
    IF len < readableBytes(b)
    THEN Object(b.size, b.data, b.readIndex + len, b.writeIndex)
    ELSE retrieveAll(b)

(* The bytes [peek(), peek() + len). *)
peek(b, len) == [i \in 1 .. len |-> b.data[b.readIndex + i - 1]]

(* Mutants of MustGrow: the reserve in front is not subtracted; the free   *)
(* space in front is not used.                                             *)
MustGrowUnlessFull(b, len) ==
    writableBytes(b) + prependableBytes(b) < len
MustGrowAlways(b, len) == TRUE

MustGrow(b, len) ==
    writableBytes(b) + prependableBytes(b) < len + KCheapPrepend

(* buffer_.resize(writeIndex_ + len) *)
grow(b, len) ==
    Object(b.writeIndex + len,
           [i \in 0 .. b.writeIndex + len - 1 |->
              IF i < b.size THEN b.data[i] ELSE 0],
           b.readIndex, b.writeIndex)

(* std::copy of the readable bytes to kCheapPrepend. *)
moveToFront(b) ==
    LET last == KCheapPrepend + readableBytes(b)
        shift == b.readIndex - KCheapPrepend
    IN  Object(b.size,
               [i \in 0 .. b.size - 1 |->
                  IF KCheapPrepend <= i /\ i < last
                  THEN b.data[i + shift] ELSE b.data[i]],
               KCheapPrepend, last)

makeSpace(b, len) == IF MustGrow(b, len) THEN grow(b, len) ELSE moveToFront(b)

(* std::copy of len bytes, the first of them at stream position first, to  *)
(* beginWrite(), and writeIndex_ += len.                                   *)
fill(b, first, len) ==
    Object(b.size,
           [i \in 0 .. b.size - 1 |->
              IF b.writeIndex <= i /\ i < b.writeIndex + len
              THEN first + (i - b.writeIndex) ELSE b.data[i]],
           b.readIndex, b.writeIndex + len)

append(b, first, len) ==
    fill(IF len > writableBytes(b) THEN makeSpace(b, len) ELSE b, first, len)

(* The most bytes that readv may return: the second vector is used only    *)
(* while the first one is smaller than it.                                 *)
readLimit(b) ==
    writableBytes(b) + (IF writableBytes(b) < ExtraBuf THEN ExtraBuf ELSE 0)

(* readFd when readv returns n >= 0: what did not fit is appended from     *)
(* extraBuf.                                                               *)
readFd(b, first, n) ==
    LET fit == Smaller(n, writableBytes(b))
        b1 == fill(b, first, fit)
    IN  IF n <= writableBytes(b) THEN b1 ELSE append(b1, first + fit, n - fit)

-----------------------------------------------------------------------------

BufferInit ==
    /\ buf = New(InitialSize)
    /\ produced = 0 /\ consumed = 0
    /\ out = <<>>
    /\ need = 0

(* len bytes leave the buffer, and the caller gets the ones at peek(). *)
TakeOut(len) ==
    /\ out' = peek(buf, len)
    /\ consumed' = consumed + len
    /\ UNCHANGED <<produced, need>>

AppendBytes(len) ==
    /\ produced + len <= MaxBytes
    /\ buf' = append(buf, produced + 1, len)
    /\ produced' = produced + len
    /\ need' = Larger(need, readableBytes(buf) + 2 * len)
    /\ UNCHANGED <<consumed, out>>

(* retrieve drops at most what is readable. *)
Retrieve(len) ==
    /\ buf' = retrieve(buf, len)
    /\ TakeOut(Smaller(len, readableBytes(buf)))

RetrieveAll ==
    /\ buf' = retrieveAll(buf)
    /\ TakeOut(readableBytes(buf))

(* retrieveAsString; retrieveAllAsString is the case len = readableBytes(). *)
RetrieveAsString(len) ==
    LET n == Smaller(len, readableBytes(buf))
    IN  buf' = retrieve(buf, n) /\ TakeOut(n)

(* readv returns n >= 0.  When it fails only *savedErrno changes. *)
ReadFd(n) ==
    /\ n <= readLimit(buf)
    /\ produced + n <= MaxBytes
    /\ buf' = readFd(buf, produced + 1, n)
    /\ produced' = produced + n
    /\ need' = Larger(need, readableBytes(buf) + 2 * n)
    /\ UNCHANGED <<consumed, out>>

(* write(2) takes n of the readable bytes. *)
WriteFd(n) ==
    /\ n <= readableBytes(buf)
    /\ buf' = retrieve(buf, n)
    /\ TakeOut(n)

BufferNext ==
    \/ \E len \in 0 .. MaxLen :
         AppendBytes(len) \/ Retrieve(len) \/ RetrieveAsString(len)
    \/ RetrieveAll
    \/ \E n \in 0 .. MaxBytes : ReadFd(n) \/ WriteFd(n)

BufferSpec == BufferInit /\ [][BufferNext]_bufferVars

-----------------------------------------------------------------------------
(* Properties.                                                             *)

(* Object b is well formed and holds exactly the bytes c+1, ..., p of the  *)
(* stream, in order.                                                       *)
WellFormed(b) ==
    /\ b.size \in Nat /\ b.readIndex \in Nat /\ b.writeIndex \in Nat
    /\ KCheapPrepend <= b.readIndex
    /\ b.readIndex <= b.writeIndex
    /\ b.writeIndex <= b.size
    /\ DOMAIN b.data = 0 .. b.size - 1

Holds(b, c, p) ==
    /\ p = c + readableBytes(b)
    /\ \A i \in b.readIndex .. b.writeIndex - 1 :
         b.data[i] = c + 1 + (i - b.readIndex)

(* The indices stay in order and inside the vector, so no call copies      *)
(* outside it, and the readable bytes are the ones that were put in and    *)
(* not yet taken out, in order, whatever was moved or reallocated.         *)
BufferInv ==
    /\ produced \in Nat /\ consumed \in Nat /\ need \in Nat
    /\ WellFormed(buf)
    /\ Holds(buf, consumed, produced)

(* What a retrieving call hands out continues where the one before it      *)
(* stopped: no byte is skipped, repeated or invented.                      *)
InOrder ==
    [][ out' # out =>
          out' = [i \in 1 .. consumed' - consumed |-> consumed + i] ]_bufferVars

(* The vector never gets larger than its first size or, for some append,   *)
(* the unread bytes plus twice the new ones, apart from the reserve in     *)
(* front: reading and consuming forever does not make it grow.             *)
SizeBound == buf.size <= KCheapPrepend + Larger(InitialSize, need)

=============================================================================
