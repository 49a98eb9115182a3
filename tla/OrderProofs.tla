---------------------------- MODULE OrderProofs -----------------------------
(***************************************************************************)
(* Proofs about Buffer, Strand and Logger, which keep bytes, tasks and     *)
(* records in order, for any sizes, threads, tasks, paths and numbers of   *)
(* calls.                                                                  *)
(*                                                                         *)
(* Buffer: the lemmas say of each member function what it does to an       *)
(* object that holds bytes c+1, ..., p of the stream, and how large the    *)
(* object gets.                                                            *)
(*                                                                         *)
(* Logger: the inductive invariant LoggerIInv adds to the properties that  *)
(* calls exclude each other as far as ~overlapped says, that a call uses   *)
(* the one GlobalLogger and its selected logger, and that a file logger    *)
(* that does not exist has nothing in its stream.                          *)
(***************************************************************************)
EXTENDS Buffer, Strand, Logger, SequenceFacts, SequenceTheorems, TLAPS

-----------------------------------------------------------------------------
(* Buffer.                                                                 *)

(* Indices r and w into a vector of size s whose readable part holds the   *)
(* bytes c+1, ..., p.                                                      *)
Fits(s, d, r, w, c, p) ==
    /\ KCheapPrepend \in Nat /\ c \in Nat /\ p \in Nat
    /\ s \in Nat /\ r \in Nat /\ w \in Nat
    /\ KCheapPrepend <= r /\ r <= w /\ w <= s
    /\ p = c + (w - r)
    /\ DOMAIN d = 0 .. s - 1
    /\ \A i \in r .. w - 1 : d[i] = c + 1 + (i - r)

Good(b, c, p) == Fits(b.size, b.data, b.readIndex, b.writeIndex, c, p)

(* The fields of an object. *)
LEMMA ObjectFields ==
    ASSUME NEW s, NEW d, NEW r, NEW w
    PROVE  /\ Object(s, d, r, w).size = s /\ Object(s, d, r, w).data = d
           /\ Object(s, d, r, w).readIndex = r
           /\ Object(s, d, r, w).writeIndex = w
  BY DEF Object

(* An object is good if its fields fit. *)
LEMMA ObjectGood ==
    ASSUME NEW s, NEW d, NEW r, NEW w, NEW c, NEW p, Fits(s, d, r, w, c, p)
    PROVE  Good(Object(s, d, r, w), c, p)
  BY ObjectFields DEF Good

(* The constructor makes an empty buffer. *)
LEMMA NewGood ==
    ASSUME KCheapPrepend \in Nat, NEW n \in Nat
    PROVE  Good(New(n), 0, 0) /\ New(n).size = KCheapPrepend + n
<1> DEFINE d == [i \in 0 .. KCheapPrepend + n - 1 |-> 0]
<1>1. Fits(KCheapPrepend + n, d, KCheapPrepend, KCheapPrepend, 0, 0)
  BY DEF Fits
<1> QED
  BY <1>1, ObjectGood, ObjectFields DEF New

(* retrieveAll leaves nothing. *)
LEMMA RetrieveAllGood ==
    ASSUME NEW b, NEW c, NEW p, Good(b, c, p)
    PROVE  Good(retrieveAll(b), p, p) /\ retrieveAll(b).size = b.size
<1>1. Fits(b.size, b.data, KCheapPrepend, KCheapPrepend, p, p)
  BY SMTT(30) DEF Good, Fits
<1> QED
  BY <1>1, ObjectGood, ObjectFields DEF retrieveAll

(* retrieve takes len bytes, or all of them. *)
LEMMA RetrieveGood ==
    ASSUME NEW b, NEW c, NEW p, Good(b, c, p), NEW len \in Nat
    PROVE  /\ Good(retrieve(b, len), c + Smaller(len, readableBytes(b)), p)
           /\ retrieve(b, len).size = b.size
<1>1. CASE len < readableBytes(b)
  <2>0. PICK s, d, r, w : /\ s = b.size /\ d = b.data
                          /\ r = b.readIndex /\ w = b.writeIndex
    OBVIOUS
  <2>f. Fits(s, d, r, w, c, p) /\ len < w - r
    BY <1>1, <2>0 DEF Good, readableBytes
  <2>1. Fits(s, d, r + len, w, c + len, p)
    BY <2>f DEF Fits
  <2> QED
    BY <1>1, <2>0, <2>1, ObjectGood, ObjectFields DEF retrieve, Smaller
<1>2. CASE ~(len < readableBytes(b))
  <2>1. c + Smaller(len, readableBytes(b)) = p
    BY <1>2 DEF Smaller, Good, Fits, readableBytes
  <2> QED
    BY <1>2, <2>1, RetrieveAllGood DEF retrieve
<1> QED
  BY <1>1, <1>2

(* makeSpace keeps the content and leaves room for len bytes.  If it has   *)
(* to grow the vector, the free space in front was smaller than len plus   *)
(* the reserve.                                                            *)
LEMMA MakeSpaceGood ==
    ASSUME NEW b, NEW c, NEW p, Good(b, c, p), NEW len \in Nat,
           len > writableBytes(b)
    PROVE  /\ Good(makeSpace(b, len), c, p)
           /\ len <= writableBytes(makeSpace(b, len))
           /\ \/ makeSpace(b, len).size = b.size
              \/ makeSpace(b, len).size
                   <= KCheapPrepend + readableBytes(b) + 2 * len
<1>0. PICK s, d, r, w : /\ s = b.size /\ d = b.data
                        /\ r = b.readIndex /\ w = b.writeIndex
  OBVIOUS
<1>f. Fits(s, d, r, w, c, p) /\ len > s - w
  BY <1>0 DEF Good, writableBytes
<1>1. CASE MustGrow(b, len)
  <2> DEFINE e == [i \in 0 .. w + len - 1 |-> IF i < s THEN d[i] ELSE 0]
  <2>1. makeSpace(b, len) = Object(w + len, e, r, w)
    BY <1>0, <1>1 DEF makeSpace, grow
  <2>2. Fits(w + len, e, r, w, c, p)
    BY <1>f DEF Fits
  <2>3. w + len <= KCheapPrepend + (w - r) + 2 * len
    BY <1>0, <1>1, <1>f, SMTT(30)
    DEF Fits, MustGrow, writableBytes, prependableBytes
  <2>4. len <= (w + len) - w
    BY <1>f DEF Fits
  <2> HIDE DEF e
  <2> QED
    BY <1>0, <2>1, <2>2, <2>3, <2>4, ObjectGood, ObjectFields
    DEF readableBytes, writableBytes
<1>2. CASE ~MustGrow(b, len)
  <2> DEFINE last == KCheapPrepend + (w - r)
             e == [i \in 0 .. s - 1 |->
                     IF KCheapPrepend <= i /\ i < last
                     THEN d[i + (r - KCheapPrepend)] ELSE d[i]]
  <2>1. makeSpace(b, len) = Object(s, e, KCheapPrepend, last)
    BY <1>0, <1>2 DEF makeSpace, moveToFront, readableBytes
  <2>2. Fits(s, e, KCheapPrepend, last, c, p)
    <3>1. ASSUME NEW i \in KCheapPrepend .. last - 1
          PROVE  e[i] = c + 1 + (i - KCheapPrepend)
      <4>1. i + (r - KCheapPrepend) \in r .. w - 1 /\ i \in 0 .. s - 1
        BY <1>f DEF Fits
      <4>2. e[i] = d[i + (r - KCheapPrepend)]
        BY <1>f, <4>1 DEF Fits
      <4> QED
        BY <1>f, <4>1, <4>2 DEF Fits
    <3>2. DOMAIN e = 0 .. s - 1
      OBVIOUS
    <3> HIDE DEF e
    <3> QED
      BY <1>f, <3>1, <3>2 DEF Fits
  <2>3. len <= s - last
    BY <1>0, <1>2, <1>f, SMTT(30)
    DEF Fits, MustGrow, writableBytes, prependableBytes
  <2> HIDE DEF e, last
  <2> QED
    BY <1>0, <2>1, <2>2, <2>3, ObjectGood, ObjectFields
    DEF writableBytes
<1> QED
  BY <1>1, <1>2

(* fill adds the next len bytes if there is room for them. *)
LEMMA FillGood ==
    ASSUME NEW b, NEW c, NEW p, Good(b, c, p), NEW len \in Nat,
           len <= writableBytes(b)
    PROVE  /\ Good(fill(b, p + 1, len), c, p + len)
           /\ fill(b, p + 1, len).size = b.size
           /\ writableBytes(fill(b, p + 1, len)) = writableBytes(b) - len
           /\ readableBytes(fill(b, p + 1, len)) = readableBytes(b) + len
<1>0. PICK s, d, r, w : /\ s = b.size /\ d = b.data
                        /\ r = b.readIndex /\ w = b.writeIndex
  OBVIOUS
<1>f. Fits(s, d, r, w, c, p) /\ len <= s - w
  BY <1>0 DEF Good, writableBytes
<1> DEFINE e == [i \in 0 .. s - 1 |-> IF w <= i /\ i < w + len
                                      THEN p + 1 + (i - w) ELSE d[i]]
<1>1. fill(b, p + 1, len) = Object(s, e, r, w + len)
  BY <1>0 DEF fill
<1>2. Fits(s, e, r, w + len, c, p + len)
  BY <1>f DEF Fits
<1> HIDE DEF e
<1>3. Good(fill(b, p + 1, len), c, p + len)
  BY <1>1, <1>2, ObjectGood
<1>4. /\ s - (w + len) = (s - w) - len
      /\ (w + len) - r = (w - r) + len
  BY <1>f DEF Fits
<1> QED
  BY <1>0, <1>1, <1>3, <1>4, ObjectFields DEF readableBytes, writableBytes

(* append adds the next len bytes.  The vector grows only to what SizeBound *)
(* allows.                                                                  *)
LEMMA AppendGood ==
    ASSUME NEW b, NEW c, NEW p, Good(b, c, p), NEW len \in Nat
    PROVE  /\ Good(append(b, p + 1, len), c, p + len)
           /\ \/ append(b, p + 1, len).size = b.size
              \/ append(b, p + 1, len).size
                   <= KCheapPrepend + readableBytes(b) + 2 * len
<1>1. CASE len > writableBytes(b)
  <2> DEFINE m == makeSpace(b, len)
  <2>1. /\ Good(m, c, p) /\ len <= writableBytes(m)
        /\ \/ m.size = b.size
           \/ m.size <= KCheapPrepend + readableBytes(b) + 2 * len
    BY <1>1, MakeSpaceGood
  <2>2. append(b, p + 1, len) = fill(m, p + 1, len)
    BY <1>1 DEF append
  <2> HIDE DEF m
  <2>3. Good(fill(m, p + 1, len), c, p + len) /\ fill(m, p + 1, len).size = m.size
    BY <2>1, FillGood
  <2> QED
    BY <2>1, <2>2, <2>3
<1>2. CASE ~(len > writableBytes(b))
  <2>1. len <= writableBytes(b)
    BY <1>2, SMTT(30) DEF Good, Fits, writableBytes
  <2> QED
    BY <1>2, <2>1, FillGood DEF append
<1> QED
  BY <1>1, <1>2

(* readFd adds the n bytes that readv returned, across both vectors. *)
LEMMA ReadFdGood ==
    ASSUME NEW b, NEW c, NEW p, Good(b, c, p), NEW n \in Nat
    PROVE  /\ Good(readFd(b, p + 1, n), c, p + n)
           /\ \/ readFd(b, p + 1, n).size = b.size
              \/ readFd(b, p + 1, n).size
                   <= KCheapPrepend + readableBytes(b) + 2 * n
<1>0. writableBytes(b) \in Nat /\ readableBytes(b) \in Nat /\ p \in Nat
      /\ KCheapPrepend \in Nat
  BY SMTT(30) DEF Good, Fits, writableBytes, readableBytes
<1>1. CASE n <= writableBytes(b)
  <2>1. readFd(b, p + 1, n) = fill(b, p + 1, n)
    BY <1>1, <1>0 DEF readFd, Smaller
  <2> QED
    BY <1>1, <2>1, FillGood
<1>2. CASE ~(n <= writableBytes(b))
  <2> DEFINE fit == writableBytes(b)
             m == fill(b, p + 1, fit)
             rest == n - fit
  <2>1. Smaller(n, writableBytes(b)) = fit
    BY <1>0, <1>2 DEF Smaller
  <2>2. readFd(b, p + 1, n) = append(m, p + 1 + fit, rest)
    BY <1>2, <2>1 DEF readFd
  <2>3. /\ Good(m, c, p + fit) /\ m.size = b.size
        /\ readableBytes(m) = readableBytes(b) + fit
    BY <1>0, FillGood
  <2>4. /\ rest \in Nat /\ fit \in Nat
        /\ p + 1 + fit = (p + fit) + 1 /\ (p + fit) + rest = p + n
        /\ readableBytes(b) + fit + 2 * rest <= readableBytes(b) + 2 * n
    BY <1>0, <1>2
  <2> HIDE DEF fit, rest, m
  <2>5. /\ Good(append(m, (p + fit) + 1, rest), c, (p + fit) + rest)
        /\ \/ append(m, (p + fit) + 1, rest).size = m.size
           \/ append(m, (p + fit) + 1, rest).size
                <= KCheapPrepend + readableBytes(m) + 2 * rest
    BY <2>3, <2>4, AppendGood, Zenon
  <2>6. append(m, (p + fit) + 1, rest).size \in Nat
    BY <2>5 DEF Good, Fits
  <2> QED
    BY <1>0, <2>2, <2>3, <2>4, <2>5, <2>6
<1> QED
  BY <1>1, <1>2

(* The invariant, in the form in which the lemmas use it. *)
Inv == Good(buf, consumed, produced) /\ need \in Nat /\ SizeBound

(* The inductive invariant is what the run checks. *)
LEMMA InvIsInv == Inv <=> BufferInv /\ SizeBound
  BY BufferAssumption, SMTT(30)
  DEF Inv, Good, Fits, BufferInv, WellFormed, Holds, readableBytes

(* A new size is within the bound if it is the old one or that of a grown  *)
(* vector.                                                                 *)
LEMMA BoundStep ==
    ASSUME Inv, NEW size \in Nat, NEW x \in Nat,
           size = buf.size \/ size <= KCheapPrepend + x
    PROVE  /\ Larger(need, x) \in Nat
           /\ size <= KCheapPrepend + Larger(InitialSize, Larger(need, x))
  BY BufferAssumption DEF Inv, SizeBound, Larger

(* Every step keeps the invariant, and hands out the next bytes. *)
LEMMA BufferInvStep ==
    ASSUME Inv, [BufferNext]_bufferVars
    PROVE  /\ Inv'
           /\ out' # out =>
                out' = [i \in 1 .. consumed' - consumed |-> consumed + i]
<1> DEFINE Goal == /\ Inv'
                   /\ out' # out => out' = [i \in 1 .. consumed' - consumed
                                              |-> consumed + i]
           avail == readableBytes(buf)
<1>0. /\ Good(buf, consumed, produced) /\ need \in Nat /\ SizeBound
      /\ produced \in Nat /\ consumed \in Nat
      /\ avail \in Nat /\ produced = consumed + avail
  BY SMTT(30) DEF Inv, Good, Fits, readableBytes
<1>t. ASSUME NEW n \in 0 .. avail, TakeOut(n),
             Good(buf', consumed + n, produced), buf'.size = buf.size
      PROVE  Goal
  <2>1. consumed' = consumed + n /\ produced' = produced /\ need' = need
    BY <1>t DEF TakeOut
  <2>2. Inv'
    BY <1>0, <1>t, <2>1 DEF Inv, SizeBound
  <2>3. consumed' - consumed = n
    BY <1>0, <2>1
  <2>4. ASSUME NEW i \in 1 .. n
        PROVE  buf.data[buf.readIndex + i - 1] = consumed + i
    <3> DEFINE j == buf.readIndex + i - 1
    <3>0. /\ buf.readIndex \in Nat /\ buf.writeIndex \in Nat
          /\ avail = buf.writeIndex - buf.readIndex
      BY <1>0 DEF Good, Fits, readableBytes
    <3> HIDE DEF avail
    <3>1. /\ j \in buf.readIndex .. buf.writeIndex - 1
          /\ consumed + 1 + (j - buf.readIndex) = consumed + i
      BY <1>0, <3>0
    <3> HIDE DEF j
    <3>2. buf.data[j] = consumed + 1 + (j - buf.readIndex)
      BY <1>0, <3>1 DEF Good, Fits
    <3> QED
      BY <3>1, <3>2 DEF j
  <2>5. out' = [i \in 1 .. n |-> consumed + i]
    BY <1>t, <2>4 DEF TakeOut, peek
  <2> QED
    BY <2>2, <2>3, <2>5
<1>p. ASSUME NEW n \in Nat, NEW b, buf' = b, Good(b, consumed, produced + n),
             \/ b.size = buf.size
             \/ b.size <= KCheapPrepend + avail + 2 * n,
             produced' = produced + n, need' = Larger(need, avail + 2 * n),
             UNCHANGED <<consumed, out>>
      PROVE  Goal
  <2>0. b.size \in Nat
    BY <1>p DEF Good, Fits
  <2>1. b.size \in Nat /\ avail + 2 * n \in Nat
    BY <1>0, <2>0
  <2>2. b.size = buf.size \/ b.size <= KCheapPrepend + (avail + 2 * n)
    BY <1>0, <1>p, BufferAssumption
  <2> HIDE DEF avail
  <2>3. /\ need' \in Nat
        /\ b.size <= KCheapPrepend + Larger(InitialSize, need')
    BY <1>p, <2>1, <2>2, BoundStep
  <2> QED
    BY <1>p, <2>3 DEF Inv, SizeBound
<1>1. ASSUME NEW len \in 0 .. MaxLen, AppendBytes(len) PROVE Goal
  <2>1. len \in Nat
    BY BufferAssumption
  <2> HIDE DEF avail
  <2>2. /\ Good(append(buf, produced + 1, len), consumed, produced + len)
        /\ \/ append(buf, produced + 1, len).size = buf.size
           \/ append(buf, produced + 1, len).size
                <= KCheapPrepend + avail + 2 * len
    BY <1>0, <2>1, AppendGood, Zenon DEF avail
  <2>3. /\ buf' = append(buf, produced + 1, len)
        /\ produced' = produced + len /\ need' = Larger(need, avail + 2 * len)
        /\ UNCHANGED <<consumed, out>>
    BY <1>1 DEF AppendBytes, avail
  <2> HIDE DEF Goal
  <2> QED
    BY <1>p, <2>1, <2>2, <2>3
<1>2. ASSUME NEW len \in 0 .. MaxLen, Retrieve(len) PROVE Goal
  <2>1. Smaller(len, avail) \in 0 .. avail
    BY <1>0 DEF Smaller
  <2>2. len \in Nat
    BY BufferAssumption
  <2>3. /\ Good(retrieve(buf, len), consumed + Smaller(len, avail), produced)
        /\ retrieve(buf, len).size = buf.size
    BY <1>0, <2>2, RetrieveGood
  <2>4. buf' = retrieve(buf, len) /\ TakeOut(Smaller(len, avail))
    BY <1>2 DEF Retrieve
  <2> HIDE DEF Goal
  <2> QED
    BY <1>t, <2>1, <2>3, <2>4
<1>3. ASSUME NEW len \in 0 .. MaxLen, RetrieveAsString(len) PROVE Goal
  <2>1. PICK n \in 0 .. avail : buf' = retrieve(buf, n) /\ TakeOut(n)
    BY <1>0, <1>3 DEF RetrieveAsString, Smaller
  <2>2. Smaller(n, avail) = n /\ n \in Nat
    BY <1>0, <2>1 DEF Smaller
  <2> QED
    BY <1>0, <1>t, <2>1, <2>2, RetrieveGood, Zenon
<1>4. CASE RetrieveAll
  <2>1. avail \in 0 .. avail /\ consumed + avail = produced
    BY <1>0
  <2> QED
    BY <1>0, <1>4, <1>t, <2>1, RetrieveAllGood DEF RetrieveAll
<1>5. ASSUME NEW n \in 0 .. MaxBytes, ReadFd(n) PROVE Goal
  <2>1. n \in Nat
    BY BufferAssumption
  <2> HIDE DEF avail
  <2>2. /\ Good(readFd(buf, produced + 1, n), consumed, produced + n)
        /\ \/ readFd(buf, produced + 1, n).size = buf.size
           \/ readFd(buf, produced + 1, n).size
                <= KCheapPrepend + avail + 2 * n
    BY <1>0, <2>1, ReadFdGood, Zenon DEF avail
  <2>3. /\ buf' = readFd(buf, produced + 1, n)
        /\ produced' = produced + n /\ need' = Larger(need, avail + 2 * n)
        /\ UNCHANGED <<consumed, out>>
    BY <1>5 DEF ReadFd, avail
  <2> HIDE DEF Goal
  <2> QED
    BY <1>p, <2>1, <2>2, <2>3
<1>6. ASSUME NEW n \in 0 .. MaxBytes, WriteFd(n) PROVE Goal
  <2>1. n \in 0 .. avail /\ Smaller(n, avail) = n /\ n \in Nat
    BY <1>0, <1>6 DEF WriteFd, Smaller
  <2> QED
    BY <1>0, <1>6, <1>t, <2>1, RetrieveGood, Zenon DEF WriteFd
<1>7. CASE UNCHANGED bufferVars
  BY <1>7 DEF bufferVars, Inv, SizeBound
<1> QED
  BY <1>1, <1>2, <1>3, <1>4, <1>5, <1>6, <1>7 DEF BufferNext

(* A new buffer satisfies the invariant. *)
LEMMA BufferInitInv == BufferInit => Inv
<1> SUFFICES ASSUME BufferInit PROVE Inv
  OBVIOUS
<1>1. Good(buf, consumed, produced) /\ buf.size = KCheapPrepend + InitialSize
  BY NewGood, BufferAssumption, SMTT(30) DEF BufferInit
<1> QED
  BY <1>1, BufferAssumption DEF Inv, SizeBound, BufferInit, Larger

(* The buffer never loses, repeats or reorders a byte and never indexes    *)
(* outside its vector, for all sizes.                                      *)
THEOREM BufferInvariant == BufferSpec => []BufferInv
<1>1. Inv /\ [BufferNext]_bufferVars => Inv'
  BY BufferInvStep
<1>2. Inv => BufferInv
  BY InvIsInv
<1> QED
  BY BufferInitInv, <1>1, <1>2, PTL DEF BufferSpec

(* The vector grows only as far as some append needed. *)
THEOREM BufferSizeBound == BufferSpec => []SizeBound
<1>1. Inv /\ [BufferNext]_bufferVars => Inv'
  BY BufferInvStep
<1>2. Inv => SizeBound
  BY InvIsInv
<1> QED
  BY BufferInitInv, <1>1, <1>2, PTL DEF BufferSpec

(* Every retrieving call hands out the bytes that follow those of the call *)
(* before it.                                                              *)
THEOREM BytesInOrder == BufferSpec => InOrder
<1> DEFINE Taken == out' # out => out' = [i \in 1 .. consumed' - consumed
                                           |-> consumed + i]
<1>1. Inv /\ [BufferNext]_bufferVars => Inv' /\ Taken
  BY BufferInvStep
<1>2. Inv /\ [BufferNext]_bufferVars => [Taken]_bufferVars
  BY <1>1
<1> QED
  BY BufferInitInv, <1>1, <1>2, PTL DEF BufferSpec, InOrder

-----------------------------------------------------------------------------
(* Strand.                                                                 *)

(* The assumptions on the constants, in the form in which they are used. *)
LEMMA Constants ==
    /\ Workers \subseteq Threads /\ Clients \subseteq Threads
    /\ \A a \in Threads : a \in Clients <=> a \notin Workers
    /\ None \notin Tasks
  BY StrandAssumption DEF Threads

(* A new strand satisfies the invariant. *)
LEMMA InitInv == Init => StrandInv
<1> SUFFICES ASSUME Init PROVE StrandInv
  OBVIOUS
<1> USE Constants DEF Init, Pool!Init, Locations, HasTurn
<1>1. TypeOK
  <2>1. queue \in Seq(Tasks) /\ pending \in Seq(Tasks)
    OBVIOUS
  <2> QED
    BY <2>1, Zenon DEF TypeOK
<1>2. TurnInv /\ CarryInv
  BY DEF TurnInv, CarryInv
<1>3. PlaceInv
  BY EmptyQueue DEF PlaceInv
<1> QED
  BY <1>1, <1>2, <1>3 DEF StrandInv

(* Every step preserves the types. *)
LEMMA TypeStep == StrandInv /\ [Next]_vars => TypeOK'
<1> SUFFICES ASSUME StrandInv, [Next]_vars PROVE TypeOK'
  OBVIOUS
<1> USE Constants DEF StrandInv, TypeOK, Goto, Back, Locations, HasTurn,
        strandVars, poolVars
<1>1. ASSUME NEW a \in Threads, NEW t \in Tasks, AddTask(a, t) PROVE TypeOK'
  BY <1>1 DEF AddTask, TakeTurn
<1>2. ASSUME NEW a \in Threads, ScheduleNone(a) PROVE TypeOK'
  BY <1>2, Zenon DEF ScheduleNone
<1>3. ASSUME NEW a \in Threads, ScheduleNext(a) PROVE TypeOK'
  BY <1>3 DEF ScheduleNext, TakeFront
<1>4. ASSUME NEW a \in Threads, SubmitNext(a) PROVE TypeOK'
  BY <1>4 DEF SubmitNext, Pool!Submit, CarryInv
<1>5. ASSUME NEW w \in Workers, StartLambda(w) PROVE TypeOK'
  BY <1>5 DEF StartLambda, Pool!Start
<1>6. ASSUME NEW w \in Workers, FinishNext(w) PROVE TypeOK'
  BY <1>6 DEF FinishNext, CarryInv
<1>7. ASSUME NEW w \in Workers, FinishLambda(w) PROVE TypeOK'
  BY <1>7 DEF FinishLambda, Pool!Finish, CarryInv
<1>8. CASE PoolDiscard
  BY <1>8 DEF PoolDiscard, Pool!Discard
<1>9. CASE UNCHANGED vars
  BY <1>9, SMTT(30) DEF vars
<1> QED
  BY <1>1, <1>2, <1>3, <1>4, <1>5, <1>6, <1>7, <1>8, <1>9, ZenonT(30) DEF Next, Step

(* The turn is handed over, never copied. *)
LEMMA TurnStep == StrandInv /\ [Next]_vars => TurnInv'
<1> SUFFICES ASSUME StrandInv, [Next]_vars PROVE TurnInv'
  OBVIOUS
<1> USE Constants DEF StrandInv, TypeOK, TurnInv, Lost, Goto, Back, HasTurn,
        strandVars, poolVars
<1>1. ASSUME NEW a \in Threads, NEW t \in Tasks, AddTask(a, t)
      PROVE  TurnInv'
  BY <1>1 DEF AddTask, TakeTurn
<1>2. ASSUME NEW a \in Threads, ScheduleNone(a) PROVE TurnInv'
  BY <1>2 DEF ScheduleNone
<1>3. ASSUME NEW a \in Threads, ScheduleNext(a) PROVE TurnInv'
  BY <1>3 DEF ScheduleNext, TakeFront
<1>4. ASSUME NEW a \in Threads, SubmitNext(a) PROVE TurnInv'
  BY <1>4 DEF SubmitNext, Pool!Submit, CarryInv
<1>5. ASSUME NEW w \in Workers, StartLambda(w) PROVE TurnInv'
  BY <1>5 DEF StartLambda, Pool!Start
<1>6. ASSUME NEW w \in Workers, FinishNext(w) PROVE TurnInv'
  BY <1>6 DEF FinishNext, CarryInv
<1>7. ASSUME NEW w \in Workers, FinishLambda(w) PROVE TurnInv'
  BY <1>7 DEF FinishLambda, Pool!Finish, CarryInv
<1>8. CASE PoolDiscard
  <2>1. PICK t \in Tasks : t = Head(pending) /\ t \in Range(pending)
    BY <1>8 DEF PoolDiscard, Pool!Discard, Range
  <2>2. result'[t] = "broken"
    BY <1>8, <2>1 DEF PoolDiscard
  <2> QED
    BY <1>8, <2>2 DEF PoolDiscard, Pool!Discard
<1>9. CASE UNCHANGED vars
  BY <1>9, SMTT(30) DEF vars
<1> QED
  BY <1>1, <1>2, <1>3, <1>4, <1>5, <1>6, <1>7, <1>8, <1>9, ZenonT(30) DEF Next, Step

(* A thread carries what its location says. *)
LEMMA CarryStep == StrandInv /\ [Next]_vars => CarryInv'
<1> SUFFICES ASSUME StrandInv, [Next]_vars PROVE CarryInv'
  OBVIOUS
<1> USE Constants DEF StrandInv, TypeOK, CarryInv, Goto, Back, strandVars,
        poolVars
<1>1. ASSUME NEW a \in Threads, NEW t \in Tasks, AddTask(a, t)
      PROVE  CarryInv'
  BY <1>1 DEF AddTask, TakeTurn, TurnInv, HasTurn
<1>2. ASSUME NEW a \in Threads, ScheduleNone(a) PROVE CarryInv'
  BY <1>2 DEF ScheduleNone
<1>3. ASSUME NEW a \in Threads, ScheduleNext(a) PROVE CarryInv'
  BY <1>3 DEF ScheduleNext, TakeFront
<1>4. ASSUME NEW a \in Threads, SubmitNext(a) PROVE CarryInv'
  BY <1>4 DEF SubmitNext, Pool!Submit
<1>5. ASSUME NEW w \in Workers, StartLambda(w) PROVE CarryInv'
  BY <1>5 DEF StartLambda, Pool!Start
<1>6. ASSUME NEW w \in Workers, FinishNext(w) PROVE CarryInv'
  BY <1>6 DEF FinishNext
<1>7. ASSUME NEW w \in Workers, FinishLambda(w) PROVE CarryInv'
  BY <1>7 DEF FinishLambda, Pool!Finish
<1>8. CASE PoolDiscard \/ UNCHANGED vars
  BY <1>8, SMTT(30) DEF PoolDiscard, Pool!Discard, vars
<1> QED
  BY <1>1, <1>2, <1>3, <1>4, <1>5, <1>6, <1>7, <1>8, ZenonT(30) DEF Next, Step

(* A waiting task stays in one place and is submitted to the pool once. *)
LEMMA PlaceStep == StrandInv /\ [Next]_vars => PlaceInv'
<1> SUFFICES ASSUME StrandInv, [Next]_vars PROVE PlaceInv'
  OBVIOUS
<1> USE Constants DEF StrandInv, TypeOK, PlaceInv, strandVars, poolVars
<1>1. ASSUME NEW a \in Threads, NEW t \in Tasks, AddTask(a, t)
      PROVE  PlaceInv'
  <2>1. /\ IsInjective(queue)'
        /\ Range(queue)' = Range(queue) \cup {t}
    BY <1>1, PushElement DEF AddTask
  <2> QED
    BY <1>1, <2>1 DEF AddTask
<1>2. ASSUME NEW a \in Threads, ScheduleNext(a) PROVE PlaceInv'
  <2>1. /\ IsInjective(queue)'
        /\ Head(queue) \in Tasks \cap Range(queue)
        /\ Range(queue)' = Range(queue) \ {Head(queue)}
    BY <1>2, PopElement DEF ScheduleNext, TakeFront
  <2> QED
    BY <1>2, <2>1 DEF ScheduleNext, TakeFront, Goto, TurnInv, HasTurn,
       CarryInv
<1>3. ASSUME NEW a \in Threads, SubmitNext(a) PROVE PlaceInv'
  <2>1. next[a] \in Tasks
    BY <1>3 DEF SubmitNext, Goto, CarryInv
  <2>2. Range(pending)' = Range(pending) \cup {next[a]}
    BY <1>3, <2>1, PushElement DEF SubmitNext, Pool!Submit
  <2> QED
    BY <1>3, <2>1, <2>2
    DEF SubmitNext, Pool!Submit, Goto, TurnInv, HasTurn, CarryInv
<1>4. ASSUME NEW w \in Workers, StartLambda(w) PROVE PlaceInv'
  <2>1. Head(pending) \in Range(pending)
    BY <1>4 DEF StartLambda, Pool!Start, Range
  <2>2. Range(pending)' \subseteq Range(pending)
    BY <1>4 DEF StartLambda, Pool!Start, Range
  <2> QED
    BY <1>4, <2>1, <2>2, SMTT(30) DEF StartLambda, Pool!Start
<1>5. ASSUME NEW w \in Workers, FinishNext(w) PROVE PlaceInv'
  <2>1. slot[w] \in Tasks /\ future[slot[w]] # "none"
    BY <1>5 DEF FinishNext, Goto, CarryInv
  <2> QED
    BY <1>5, <2>1 DEF FinishNext
<1>6. ASSUME NEW w \in Workers, FinishLambda(w) PROVE PlaceInv'
  <2>1. slot[w] \in Tasks /\ future[slot[w]] # "none"
    BY <1>6 DEF FinishLambda, Goto, CarryInv
  <2> QED
    BY <1>6, <2>1 DEF FinishLambda, Pool!Finish
<1>7. CASE PoolDiscard
  <2>1. /\ pending' = <<>>
        /\ future' = [t \in Tasks |->
                        IF t \in Range(pending) THEN "broken" ELSE future[t]]
    BY <1>7 DEF PoolDiscard, Pool!Discard, Pool!Range, Range
  <2>2. /\ UNCHANGED <<queue, next, slot>>
        /\ result' = [t \in Tasks |->
                        IF t \in Range(pending) THEN "broken" ELSE result[t]]
    BY <1>7 DEF PoolDiscard, Pool!Discard
  <2>3. \A t \in Tasks : future[t] = "none" =>
          result'[t] = result[t] /\ future'[t] = future[t]
    BY <2>1, <2>2, SMTT(30)
  <2>4. Range(queue) \subseteq Tasks
    BY DEF Range
  <2>5. Range(pending)' = {}
    BY <2>1, EmptyQueue
  <2> QED
    BY <2>1, <2>2, <2>3, <2>4, <2>5, SMTT(30)
<1>8. CASE UNCHANGED <<queue, next, result, pending, slot, future>>
  BY <1>8
<1> QED
  BY <1>1, <1>2, <1>3, <1>4, <1>5, <1>6, <1>7, <1>8, SMTT(30)
  DEF Next, Step, ScheduleNone, vars

(* The turn, the tasks and the futures agree in every reachable state. *)
THEOREM StrandInvariant == Spec => []StrandInv
<1>1. StrandInv /\ [Next]_vars => StrandInv'
  BY TypeStep, TurnStep, CarryStep, PlaceStep DEF StrandInv
<1> QED
  BY InitInv, <1>1, PTL DEF Spec

(* Two tasks of a strand never run at the same time, for any number of     *)
(* pool threads and callers, also when the pool is stopped.                *)
THEOREM StrandSerializes == Spec => []NeverOverlap
<1>1. StrandInv => NeverOverlap
  BY Constants DEF StrandInv, TurnInv, NeverOverlap, HasTurn
<1> QED
  BY StrandInvariant, <1>1, PTL

(* What the abstract executor sees, by the place of the turn. *)
Waiting == InTurn \o queue
Slot == IF Executing = {} THEN None ELSE slot[CHOOSE w \in Executing : TRUE]

View ==
    /\ Submitting = {} => InTurn = pending
    /\ pending # <<>> => /\ Submitting = {} /\ Executing = {}
                         /\ Tail(pending) = <<>> /\ pending = <<Head(pending)>>
    /\ \A a \in Threads : pc[a] = "submit" =>
         /\ InTurn = <<next[a]>> /\ next[a] \in Tasks
         /\ Submitting = {a} /\ Executing = {} /\ pending = <<>>
    /\ \A w \in Workers : pc[w] = "run" =>
         /\ Slot = slot[w] /\ slot[w] \in Tasks
         /\ Submitting = {} /\ Executing = {w} /\ pending = <<>>
    /\ \A a \in Threads : pc[a] = "schedule" =>
         Submitting = {} /\ Executing = {} /\ pending = <<>>

(* The invariant determines the view. *)
LEMMA ViewOfInv == StrandInv => View
<1> SUFFICES ASSUME StrandInv PROVE View
  OBVIOUS
<1> USE Constants DEF StrandInv, TypeOK
<1>1. \A a \in Threads, b \in Threads :
         pc[a] \in HasTurn /\ pc[b] \in HasTurn => a = b
  BY DEF TurnInv
<1>2. \A a \in Threads : pc[a] \in HasTurn => pending = <<>>
  BY DEF TurnInv
<1>3. Submitting = {} => InTurn = pending
  BY DEF InTurn
<1>4. ASSUME pending # <<>>
      PROVE  /\ Submitting = {} /\ Executing = {}
             /\ Tail(pending) = <<>> /\ pending = <<Head(pending)>>
  <2>1. Submitting = {} /\ Executing = {}
    BY <1>4 DEF TurnInv, HasTurn, Submitting, Executing
  <2>2. Len(pending) = 1 /\ pending \in Seq(Tasks)
    BY <1>4 DEF TurnInv
  <2>3. Len(Tail(pending)) = 0 /\ Tail(pending) \in Seq(Tasks)
    BY <1>4, <2>2
  <2>4. Tail(pending) = <<>>
    BY <2>3, EmptySeq, Zenon
  <2>5. pending = <<Head(pending)>>
    BY <2>2
  <2> QED
    BY <2>1, <2>4, <2>5
<1>5. ASSUME NEW a \in Threads, pc[a] = "submit"
      PROVE  /\ InTurn = <<next[a]>> /\ next[a] \in Tasks
             /\ Submitting = {a} /\ Executing = {} /\ pending = <<>>
  <2>1. Submitting = {a} /\ Executing = {}
    BY <1>1, <1>5 DEF HasTurn, Submitting, Executing
  <2>2. (CHOOSE b \in Submitting : TRUE) = a
    BY <2>1
  <2> QED
    BY <1>2, <1>5, <2>1, <2>2 DEF HasTurn, InTurn, CarryInv
<1>6. ASSUME NEW w \in Workers, pc[w] = "run"
      PROVE  /\ Slot = slot[w] /\ slot[w] \in Tasks
             /\ Submitting = {} /\ Executing = {w} /\ pending = <<>>
  <2>1. Submitting = {} /\ Executing = {w}
    BY <1>1, <1>6 DEF HasTurn, Submitting, Executing
  <2>2. (CHOOSE v \in Executing : TRUE) = w
    BY <2>1
  <2> QED
    BY <1>2, <1>6, <2>1, <2>2 DEF HasTurn, Slot, CarryInv
<1>7. ASSUME NEW a \in Threads, pc[a] = "schedule"
      PROVE  Submitting = {} /\ Executing = {} /\ pending = <<>>
  BY <1>1, <1>2, <1>7 DEF HasTurn, Submitting, Executing
<1> QED
  BY <1>3, <1>4, <1>5, <1>6, <1>7 DEF View

(* Until the pool destroys a lambda of it, a strand implements the         *)
(* abstract executor with a single slot: first in, first out, one at a     *)
(* time.                                                                   *)
THEOREM StrandIsSerial == Spec => ImplementsSerialExecutor
<1>1. Init => Serial!Init
  <2> SUFFICES ASSUME Init PROVE Serial!Init
    OBVIOUS
  <2>1. Submitting = {} /\ Executing = {}
    BY Constants DEF Init, Submitting, Executing
  <2>2. InTurn \o queue = <<>>
    BY <2>1 DEF Init, Pool!Init, InTurn
  <2> QED
    BY <2>1, <2>2 DEF Init, Serial!Init
<1>2. StrandInv /\ View /\ View' /\ [Next]_vars
        => [Serial!Next \/ Lost']_(Serial!evars)
  <2> SUFFICES ASSUME StrandInv, View, View', [Next]_vars
               PROVE  [Serial!Next \/ Lost']_(Serial!evars)
    OBVIOUS
  <2>m. /\ Serial!evars = <<Waiting, [s \in {TheStrand} |-> Slot], result>>
        /\ Serial!evars' =
             <<Waiting', [s \in {TheStrand} |-> Slot'], result'>>
    BY DEF Serial!evars, Waiting, Slot
  <2>s. ASSUME Waiting' = Waiting, Slot' = Slot, result' = result
        PROVE  [Serial!Next \/ Lost']_(Serial!evars)
    BY <2>m, <2>s
  <2>t. /\ queue \in Seq(Tasks) /\ pending \in Seq(Tasks)
        /\ pc \in [Threads -> Locations]
        /\ next \in [Threads -> Tasks \cup {None}]
        /\ slot \in [Workers -> Tasks \cup {None}]
        /\ result \in [Tasks -> {"none", "pending", "ready", "broken"}]
    BY DEF StrandInv, TypeOK
  <2> USE Constants DEF strandVars, poolVars
  <2>1. ASSUME NEW a \in Threads, NEW t \in Tasks, AddTask(a, t)
        PROVE  [Serial!Next \/ Lost']_(Serial!evars)
    <3>1. Submitting' = Submitting /\ Executing' = Executing
      BY <2>1, <2>t, SMTT(30) DEF AddTask, TakeTurn, Submitting, Executing, StrandInv,
         TurnInv, HasTurn
    <3>2. Slot' = Slot /\ InTurn' = InTurn
      BY <2>1, <3>1 DEF AddTask, Slot, InTurn
    <3>3. InTurn \in Seq(Tasks)
      <4>1. CASE Submitting = {}
        BY <2>t, <4>1 DEF InTurn
      <4>2. CASE Submitting # {}
        <5>1. PICK b \in Threads : pc[b] = "submit"
          BY <4>2 DEF Submitting
        <5>2. InTurn = <<next[b]>> /\ next[b] \in Tasks
          BY <5>1 DEF View
        <5>3. <<next[b]>> \in Seq(Tasks)
          BY <5>2
        <5> QED
          BY <5>2, <5>3
      <4> QED
        BY <4>1, <4>2
    <3>4. Waiting' = Append(Waiting, t)
      BY <2>1, <2>t, <3>2, <3>3, SMTT(30) DEF AddTask, Waiting
    <3>5. Serial!Submit(t)
      BY <2>1, <3>2, <3>4 DEF AddTask, Serial!Submit, Waiting, Slot
    <3> QED
      BY <3>5 DEF Serial!Next
  <2>2. ASSUME NEW a \in Threads, ScheduleNone(a)
        PROVE  [Serial!Next \/ Lost']_(Serial!evars)
    <3>1. Submitting' = Submitting /\ Executing' = Executing
      BY <2>2, <2>t DEF ScheduleNone, Goto, Back, Submitting, Executing
    <3> QED
      BY <2>2, <2>s, <3>1 DEF ScheduleNone, Waiting, InTurn, Slot
  <2>3. ASSUME NEW a \in Threads, ScheduleNext(a)
        PROVE  [Serial!Next \/ Lost']_(Serial!evars)
    <3>1. /\ Submitting = {} /\ Executing = {} /\ pending = <<>>
          /\ InTurn = <<>>
      BY <2>3 DEF ScheduleNext, Goto, View
    <3>2. InTurn' = <<Head(queue)>> /\ Executing' = {}
      BY <2>3, <2>t DEF ScheduleNext, Goto, TakeFront, View
    <3>3. <<Head(queue)>> \o Tail(queue) = <<>> \o queue
      BY <2>3, <2>t DEF ScheduleNext
    <3>4. Waiting' = Waiting
      BY <2>3, <3>1, <3>2, <3>3, SMTT(30) DEF ScheduleNext, TakeFront, Waiting
    <3> QED
      BY <2>3, <2>s, <3>1, <3>2, <3>4, SMTT(30) DEF ScheduleNext, Slot
  <2>4. ASSUME NEW a \in Threads, SubmitNext(a)
        PROVE  [Serial!Next \/ Lost']_(Serial!evars)
    <3>1. /\ InTurn = <<next[a]>> /\ Submitting = {a} /\ Executing = {}
          /\ pending = <<>>
      BY <2>4 DEF SubmitNext, Goto, View
    <3>2. Submitting' = {} /\ Executing' = {}
      BY <2>4, <2>t, <3>1
      DEF SubmitNext, Goto, Back, Submitting, Executing
    <3>3. pending' = <<next[a]>>
      BY <2>4, <3>1 DEF SubmitNext, Pool!Submit
    <3>4. InTurn' = InTurn
      BY <3>1, <3>2, <3>3 DEF InTurn
    <3> QED
      BY <2>4, <2>s, <3>1, <3>2, <3>4, SMTT(30) DEF SubmitNext, Waiting, Slot
  <2>5. ASSUME NEW w \in Workers, StartLambda(w)
        PROVE  [Serial!Next \/ Lost']_(Serial!evars)
    <3>1. /\ InTurn = <<Head(pending)>> /\ Executing = {}
          /\ Tail(pending) = <<>>
      BY <2>5 DEF StartLambda, Pool!Start, View
    <3>2. /\ Slot' = Head(pending) /\ InTurn' = <<>>
      BY <2>5, <2>t, <3>1 DEF StartLambda, Pool!Start, Goto, View
    <3>3. /\ Waiting # <<>> /\ Head(Waiting) = Head(pending)
          /\ Tail(Waiting) = queue /\ Waiting' = queue
      BY <2>5, <2>t, <3>1, <3>2 DEF StartLambda, Pool!Start, Waiting
    <3>4. Serial!Start(TheStrand)
      BY <2>5, <3>1, <3>2, <3>3 DEF StartLambda, Serial!Start, Waiting, Slot
    <3> QED
      BY <3>4, SMTT(30) DEF Serial!Next
  <2>6. ASSUME NEW w \in Workers, FinishNext(w)
        PROVE  [Serial!Next \/ Lost']_(Serial!evars)
    <3>1. Slot = slot[w] /\ slot[w] \in Tasks /\ InTurn = <<>>
      BY <2>6 DEF FinishNext, Goto, View
    <3>2. pc'[w] = "schedule"
      BY <2>6, <2>t DEF FinishNext, Goto
    <3>3. Executing' = {} /\ InTurn' = <<>>
      BY <3>2 DEF View
    <3>4. Slot' = None /\ Waiting' = Waiting
      BY <2>6, <3>1, <3>3 DEF FinishNext, Slot, Waiting
    <3>5. Serial!Finish(TheStrand)
      BY <2>6, <3>1, <3>4, Zenon DEF FinishNext, Serial!Finish, Waiting, Slot
    <3> QED
      BY <3>5 DEF Serial!Next
  <2>7. ASSUME NEW w \in Workers, FinishLambda(w)
        PROVE  [Serial!Next \/ Lost']_(Serial!evars)
    <3>1. /\ Submitting' = Submitting /\ Executing' = Executing
          /\ w \notin Executing
      BY <2>7, <2>t DEF FinishLambda, Goto, Submitting, Executing
    <3>2. Slot' = Slot
      <4>1. ASSUME NEW v \in Executing PROVE slot'[v] = slot[v]
        BY <2>7, <2>t, <3>1, <4>1 DEF FinishLambda, Pool!Finish, Executing
      <4> QED
        BY <3>1, <4>1 DEF Slot
    <3> QED
      BY <2>7, <2>s, <3>1, <3>2
      DEF FinishLambda, Pool!Finish, Waiting, InTurn
  <2>8. CASE PoolDiscard
    <3>1. PICK t \in Tasks : t \in Range(pending)
      BY <2>8, <2>t DEF PoolDiscard, Pool!Discard, Range
    <3>2. result'[t] = "broken"
      BY <2>8, <3>1 DEF PoolDiscard
    <3> QED
      BY <3>2 DEF Lost
  <2>9. CASE UNCHANGED vars
    BY <2>9, <2>s DEF vars, Waiting, InTurn, Submitting, Slot, Executing
  <2> QED
    BY <2>1, <2>2, <2>3, <2>4, <2>5, <2>6, <2>7, <2>8, <2>9
    DEF Next, Step
<1> QED
  BY StrandInvariant, ViewOfInv, <1>1, <1>2, PTL
  DEF Spec, ImplementsSerialExecutor

-----------------------------------------------------------------------------
(* Logger.                                                                 *)

(* Zenon proves most leaves; the others name the SMT solver.               *)
USE ZenonT(30)

(* The values of the variables. *)
LoggerKinds == {"STDOUT", "FILE"}
LoggerRecords == [id : Nat, level : Nat, path : Paths]
Places == {"idle", "instance", "reset", "call", "flush", "level", "localtime",
           "copy", "output", "exited"}
CallRecords(v) ==
           [pc : Places,
            kind : {"none", "log", "level", "choice", "path"},
            value : {v},
            n : Nat, from : Nat, inst : Nat, logger : Nat, time : Nat]

CallTypeOK ==
    /\ call = [t \in Callers |-> call[t]]
    /\ \A t \in Callers : call[t] \in CallRecords(call[t].value)

LoggerTypeOK ==
    /\ inst \in Nat /\ calls \in Nat /\ clock \in Nat /\ tm \in Nat
    /\ settings \in [choice : Choices, level : Levels, path : Paths]
    /\ loggers \in [LoggerKinds -> LoggerRecords]
    /\ buffer \in Seq(Nat)
    /\ files \in [Paths -> Seq(Nat)] /\ written \in [Paths -> Seq(Nat)]
    /\ CallTypeOK

(* Callers in a call, and those of them that have chosen a logger. *)
Active(t) == call[t].pc \notin {"idle", "exited"}
Logging(t) == call[t].pc \in {"level", "localtime", "copy", "output"}

(* Where a call is fits its kind, and its value does.  Callers end together. *)
CallInv == \A t \in Callers :
    /\ At(t, "flush") => IsSetter(call[t])
    /\ Logging(t) => call[t].kind = "log"
    /\ Active(t) => [kind |-> call[t].kind, value |-> call[t].value] \in Ops
    /\ At(t, "exited") => \A u \in Callers : At(u, "exited")

(* Two calls in progress are log calls, and the singleton exists. *)
ExclusionInv == \A t, u \in Callers : t # u /\ Active(t) /\ Active(u) =>
    inst # 0 /\ call[t].kind = "log"

(* A call uses the one GlobalLogger, and a logger that is selected.  A     *)
(* record past the test of its level has at least the level of the         *)
(* settings.                                                               *)
UsesObjects(t) ==
    /\ At(t, "reset") => inst = 0
    /\ At(t, "exited") => inst # 0
    /\ At(t, "call") \/ At(t, "flush") \/ Logging(t) =>
         inst # 0 /\ call[t].inst = inst
    /\ Logging(t) => /\ settings.choice # "NONE"
                     /\ call[t].logger = Selected.id
    /\ Logging(t) /\ ~At(t, "level") => settings.level <= call[t].value
ObjectInv == \A t \in Callers : UsesObjects(t)

(* Between setters the selected logger exists and is up to date. *)
SelectedInv ==
    (settings.choice # "NONE" /\ inst # 0
       /\ \A t \in Callers : ~At(t, "flush") /\ ~At(t, "exited")) =>
        Selected.id # 0 /\ Selected.level = settings.level /\ Selected.path = settings.path

(* Two loggers have two numbers; a file logger that does not exist has     *)
(* nothing in its stream.                                                  *)
IdInv ==
    /\ loggers["STDOUT"].id = loggers["FILE"].id => loggers["FILE"].id = 0
    /\ loggers["FILE"].id = 0 => buffer = <<>>

(* The records of a file, with those in the stream of an open logger. *)
FileInv == \A p \in Paths :
    written[p] = IF loggers["FILE"].id # 0 /\ loggers["FILE"].path = p
                 THEN files[p] \o buffer ELSE files[p]

UseInv == ~undefined /\ ExclusionInv /\ ObjectInv /\ SelectedInv

LoggerIInv ==
    /\ LoggerTypeOK /\ CallInv /\ IdInv /\ FileInv
    /\ ~overlapped => UseInv

(* What ProceedWith, Proceed and Done do to the calls. *)
LEMMA ProceedWithCall ==
    ASSUME CallTypeOK, NEW t \in Callers, NEW place \in Places,
           NEW f \in {"inst", "logger", "time"}, NEW v \in Nat, ProceedWith(t, place, f, v)
    PROVE  /\ CallTypeOK'
           /\ \A u \in Callers \ {t} : call'[u] = call[u]
           /\ call'[t].pc = place /\ call'[t].kind = call[t].kind
           /\ call'[t].value = call[t].value /\ call'[t].n = call[t].n
           /\ call'[t].inst = IF f = "inst" THEN v ELSE call[t].inst
           /\ call'[t].logger = IF f = "logger" THEN v ELSE call[t].logger
<1> DEFINE r == [call[t] EXCEPT !.pc = place, ![f] = v]
<1>1. call' = [call EXCEPT ![t] = r]
  BY DEF ProceedWith
<1>2. call[t] \in CallRecords(call[t].value)
  BY DEF CallTypeOK
<1>3. r.value = call[t].value /\ r \in CallRecords(call[t].value)
  BY <1>2 DEF CallRecords
<1>4. call' = [u \in Callers |-> IF u = t THEN r ELSE call[u]]
  BY <1>1 DEF CallTypeOK
<1>5. r.pc = place /\ r.kind = call[t].kind /\ r.n = call[t].n
      /\ r.inst = (IF f = "inst" THEN v ELSE call[t].inst)
      /\ r.logger = (IF f = "logger" THEN v ELSE call[t].logger)
  BY <1>2 DEF CallRecords
<1> HIDE DEF r
<1>6. call'[t] = r /\ \A u \in Callers \ {t} : call'[u] = call[u]
  BY <1>4
<1>7. call' = [u \in Callers |-> call'[u]]
  BY <1>4
<1>8. \A u \in Callers : call'[u] \in CallRecords(call'[u].value)
  BY <1>3, <1>6 DEF CallTypeOK
<1> QED
  BY <1>3, <1>5, <1>6, <1>7, <1>8 DEF CallTypeOK

(* Proceed. *)
LEMMA ProceedCall ==
    ASSUME CallTypeOK, NEW t \in Callers, NEW place \in Places, Proceed(t, place)
    PROVE  /\ CallTypeOK'
           /\ \A u \in Callers \ {t} : call'[u] = call[u]
           /\ call'[t] = [call[t] EXCEPT !.pc = place]
           /\ call'[t].pc = place /\ call'[t].kind = call[t].kind
           /\ call'[t].value = call[t].value /\ call'[t].n = call[t].n
           /\ call'[t].inst = call[t].inst /\ call'[t].logger = call[t].logger
<1> DEFINE r == [call[t] EXCEPT !.pc = place]
<1>1. call' = [u \in Callers |-> IF u = t THEN r ELSE call[u]]
  BY DEF Proceed, CallTypeOK
<1>2. call[t] \in CallRecords(call[t].value)
  BY DEF CallTypeOK
<1>3. r.value = call[t].value /\ r \in CallRecords(call[t].value)
  BY <1>2 DEF CallRecords
<1>4. r.pc = place /\ r.kind = call[t].kind /\ r.n = call[t].n
      /\ r.inst = call[t].inst /\ r.logger = call[t].logger
  BY <1>2 DEF CallRecords
<1>5. call'[t] = [call[t] EXCEPT !.pc = place]
  BY <1>1
<1> HIDE DEF r
<1>6. call'[t] = r /\ \A u \in Callers \ {t} : call'[u] = call[u]
  BY <1>1
<1>7. call' = [u \in Callers |-> call'[u]]
  BY <1>1
<1>8. \A u \in Callers : call'[u] \in CallRecords(call'[u].value)
  BY <1>3, <1>6 DEF CallTypeOK
<1> QED
  BY <1>3, <1>4, <1>5, <1>6, <1>7, <1>8 DEF CallTypeOK

(* Done. *)
LEMMA DoneCall ==
    ASSUME CallTypeOK, NEW t \in Callers, Done(t)
    PROVE  /\ CallTypeOK'
           /\ \A u \in Callers \ {t} : call'[u] = call[u]
           /\ call'[t].pc = "idle"
<1>1. call' = [u \in Callers |-> IF u = t THEN Idle ELSE call[u]]
  BY DEF Done, CallTypeOK
<1>2. Idle \in CallRecords(Idle.value) /\ Idle.pc = "idle"
  BY DEF CallRecords, Idle, Places
<1> HIDE DEF Idle
<1>3. call'[t] = Idle /\ \A u \in Callers \ {t} : call'[u] = call[u]
  BY <1>1
<1>4. call' = [u \in Callers |-> call'[u]]
  BY <1>1
<1>5. \A u \in Callers : call'[u] \in CallRecords(call'[u].value)
  BY <1>2, <1>3 DEF CallTypeOK
<1> QED
  BY <1>2, <1>3, <1>4, <1>5 DEF CallTypeOK

(* A new logger gets a number that no logger has. *)
LEMMA NewIdFresh ==
    ASSUME loggers \in [LoggerKinds -> LoggerRecords]
    PROVE  NewId \in Nat /\ \A c \in LoggerKinds : loggers[c].id < NewId
<1> DEFINE ids == {loggers[c].id : c \in DOMAIN loggers}
           a == loggers["STDOUT"].id
           b == loggers["FILE"].id
           m == CHOOSE i \in ids : \A j \in ids : j <= i
<1>1. a \in Nat /\ b \in Nat /\ DOMAIN loggers = LoggerKinds
  BY DEF LoggerKinds, LoggerRecords
<1>2. ids = {a, b}
  BY <1>1 DEF LoggerKinds
<1>3. \E i \in ids : \A j \in ids : j <= i
  <2>1. CASE a <= b
    BY <2>1, <1>1, <1>2, SMTT(30)
  <2>2. CASE b <= a
    BY <2>2, <1>1, <1>2, SMTT(30)
  <2> QED
    BY <2>1, <2>2, <1>1, SMTT(30)
<1>4. m \in ids /\ \A j \in ids : j <= m
  BY <1>3
<1>5. NewId = 1 + m
  BY DEF NewId
<1>6. \A c \in LoggerKinds : loggers[c].id \in ids
  BY <1>1
<1> HIDE DEF m
<1>7. m \in Nat /\ \A c \in LoggerKinds : loggers[c].id \in Nat /\ loggers[c].id <= m
  BY <1>1, <1>2, <1>4, <1>6
<1> QED
  BY <1>5, <1>7, SMTT(30)

(* Nothing happens to the files as long as no logger changes. *)
LEMMA SameFiles ==
    ASSUME IdInv, FileInv, UNCHANGED <<loggers, buffer, files, written>>
    PROVE  IdInv' /\ FileInv'
  BY DEF IdInv, FileInv

(* A step of one call that leaves the objects alone. *)
LEMMA CallStep ==
    ASSUME LoggerIInv, NEW t \in Callers, Active(t), ~At(t, "flush"),
           UNCHANGED <<inst, settings, loggers, overlapped>>,
           \A u \in Callers \ {t} : call'[u] = call[u],
           \/ call'[t].pc = "idle"
           \/ /\ call'[t].pc \notin {"idle", "exited", "flush"}
              /\ call'[t].kind = call[t].kind /\ call'[t].value = call[t].value
              /\ Logging(t)' => call[t].kind = "log"
              /\ ~overlapped => UsesObjects(t)'
    PROVE  CallInv' /\ (~overlapped => ExclusionInv' /\ ObjectInv' /\ SelectedInv')
<1>1. CallInv'
  BY DEF LoggerIInv, CallInv, At, Active, Logging, IsSetter
<1>2. ASSUME ~overlapped PROVE ExclusionInv' /\ ObjectInv' /\ SelectedInv'
  <2>1. ExclusionInv'
    BY <1>2 DEF LoggerIInv, UseInv, ExclusionInv, Active
  <2>2. UsesObjects(t)'
    BY <1>2 DEF UsesObjects, At, Logging
  <2>3. ASSUME NEW u \in Callers \ {t} PROVE UsesObjects(u)'
    BY <1>2 DEF LoggerIInv, UseInv, ObjectInv, UsesObjects, At, Logging, Selected
  <2>4. ObjectInv'
    BY <2>2, <2>3 DEF ObjectInv
  <2>5. SelectedInv'
    BY <1>2 DEF LoggerIInv, UseInv, SelectedInv, At, Active, Selected
  <2> QED
    BY <2>1, <2>4, <2>5
<1> QED
  BY <1>1, <1>2

(* instance() returns the singleton, or goes on to make it. *)
LEMMA InstanceStep ==
    ASSUME LoggerIInv, NEW t \in Callers, Instance(t), ~undefined
    PROVE  LoggerIInv'
<1> DEFINE place == IF inst = 0 THEN "reset" ELSE "call"
<1>1. At(t, "instance") /\ ProceedWith(t, place, "inst", inst)
      /\ UNCHANGED <<objectVars, fileVars, timeVars, historyVars>>
  BY DEF Instance
<1>2. CallTypeOK /\ inst \in Nat /\ place \in Places
  BY DEF LoggerIInv, LoggerTypeOK, Places
<1>3. /\ CallTypeOK' /\ \A u \in Callers \ {t} : call'[u] = call[u]
      /\ call'[t].pc = place /\ call'[t].kind = call[t].kind
      /\ call'[t].value = call[t].value /\ call'[t].inst = inst
  BY <1>1, <1>2, ProceedWithCall, SMTT(30)
<1>4. LoggerTypeOK' /\ IdInv' /\ FileInv'
  BY <1>1, <1>3, SameFiles
     DEF LoggerIInv, LoggerTypeOK, objectVars, fileVars, timeVars, historyVars
<1>5. UsesObjects(t)'
  BY <1>1, <1>3 DEF UsesObjects, At, Logging, objectVars
<1>6. CallInv' /\ (~overlapped => ExclusionInv' /\ ObjectInv' /\ SelectedInv')
  BY <1>1, <1>3, <1>5, CallStep DEF At, Active, Logging, objectVars, historyVars
<1> QED
  BY <1>1, <1>4, <1>6 DEF LoggerIInv, UseInv, historyVars

(* The six log functions choose a logger, or none. *)
LEMMA ChooseStep ==
    ASSUME LoggerIInv, NEW t \in Callers, Choose(t), ~undefined
    PROVE  LoggerIInv'
<1> DEFINE none == settings.choice = "NONE"
<1>1. /\ At(t, "call") /\ ~IsSetter(call[t])
      /\ none => Done(t)
      /\ ~none => ProceedWith(t, "level", "logger", Selected.id)
      /\ undefined' = (call[t].inst # inst) /\ UNCHANGED <<calls, overlapped>>
      /\ UNCHANGED <<objectVars, fileVars, timeVars>>
  BY DEF Choose, UndefinedIf
<1>2. CallTypeOK /\ "level" \in Places /\ (~none => Selected.id \in Nat)
  BY DEF LoggerIInv, LoggerTypeOK, Places, Choices, LoggerKinds, LoggerRecords,
     Selected
<1>3. /\ CallTypeOK' /\ \A u \in Callers \ {t} : call'[u] = call[u]
      /\ \/ call'[t].pc = "idle"
         \/ /\ ~none /\ call'[t].pc = "level" /\ call'[t].kind = call[t].kind
            /\ call'[t].value = call[t].value /\ call'[t].inst = call[t].inst
            /\ call'[t].logger = Selected.id
  <2>1. CASE none
    BY <2>1, <1>1, <1>2, DoneCall
  <2>2. CASE ~none
    BY <2>2, <1>1, <1>2, ProceedWithCall
  <2> QED
    BY <2>1, <2>2
<1>4. LoggerTypeOK' /\ IdInv' /\ FileInv'
  BY <1>1, <1>3, SameFiles DEF LoggerIInv, LoggerTypeOK, objectVars, fileVars,
     timeVars
<1>5. call[t].kind = "log"
  BY <1>1 DEF LoggerIInv, CallInv, At, Active, IsSetter, Ops
<1>6. ~overlapped => inst # 0 /\ call[t].inst = inst
  BY <1>1 DEF LoggerIInv, UseInv, ObjectInv, UsesObjects
<1>7. ~overlapped => UsesObjects(t)'
  BY <1>1, <1>3, <1>6 DEF UsesObjects, At, Logging, Selected, objectVars
<1>8. CallInv' /\ (~overlapped => ExclusionInv' /\ ObjectInv' /\ SelectedInv')
  BY <1>1, <1>3, <1>5, <1>7, CallStep DEF At, Active, Logging, objectVars
<1> QED
  BY <1>1, <1>4, <1>6, <1>8 DEF LoggerIInv, UseInv

(* A log call that has chosen a logger uses the selected one, which is     *)
(* alive: no setter is under way.                                          *)
LEMMA InUse ==
    ASSUME LoggerIInv, ~overlapped, NEW t \in Callers, Logging(t)
    PROVE  /\ settings.choice \in LoggerKinds /\ Mine(t) = {settings.choice}
           /\ Selected.level = settings.level /\ Selected.path = settings.path
<1>1. settings.choice \in LoggerKinds /\ call[t].logger = Selected.id /\ inst # 0
  BY DEF LoggerIInv, LoggerTypeOK, UseInv, ObjectInv, UsesObjects, Choices,
     LoggerKinds
<1>2. ASSUME NEW u \in Callers PROVE ~At(u, "flush") /\ ~At(u, "exited")
  BY DEF LoggerIInv, CallInv, UseInv, ExclusionInv, Active, Logging, At, IsSetter
<1>3. Selected.id # 0 /\ Selected.level = settings.level /\ Selected.path = settings.path
  BY <1>1, <1>2 DEF LoggerIInv, UseInv, SelectedInv, LoggerKinds
<1>4. DOMAIN loggers = LoggerKinds
  BY DEF LoggerIInv, LoggerTypeOK
<1>5. Mine(t) = {settings.choice}
  BY <1>1, <1>3, <1>4 DEF LoggerIInv, IdInv, Mine, Selected, LoggerKinds
<1> QED
  BY <1>1, <1>3, <1>5

(* log() tests the level, and takes the time. *)
LEMMA LevelStep ==
    ASSUME LoggerIInv, NEW t \in Callers, Level(t), ~undefined
    PROVE  LoggerIInv'
<1> DEFINE below == \E c \in Mine(t) : call[t].value < loggers[c].level
<1>1. /\ At(t, "level")
      /\ below => Done(t)
      /\ ~below => ProceedWith(t, "localtime", "time", clock)
      /\ undefined' = (Mine(t) = {}) /\ UNCHANGED <<calls, overlapped>>
      /\ UNCHANGED <<objectVars, fileVars, timeVars>>
  BY DEF Level, UndefinedIf
<1>2. CallTypeOK /\ "localtime" \in Places /\ clock \in Nat
  BY DEF LoggerIInv, LoggerTypeOK, Places
<1>3. /\ CallTypeOK' /\ \A u \in Callers \ {t} : call'[u] = call[u]
      /\ \/ call'[t].pc = "idle"
         \/ /\ ~below /\ call'[t].pc = "localtime" /\ call'[t].kind = call[t].kind
            /\ call'[t].value = call[t].value /\ call'[t].inst = call[t].inst
            /\ call'[t].logger = call[t].logger
  <2>1. CASE below
    BY <2>1, <1>1, <1>2, DoneCall
  <2>2. CASE ~below
    BY <2>2, <1>1, <1>2, ProceedWithCall
  <2> QED
    BY <2>1, <2>2
<1>4. LoggerTypeOK' /\ IdInv' /\ FileInv'
  BY <1>1, <1>3, SameFiles DEF LoggerIInv, LoggerTypeOK, objectVars, fileVars,
     timeVars
<1>5. Logging(t) /\ call[t].kind = "log"
  BY <1>1 DEF LoggerIInv, CallInv, At, Logging
<1>6. call[t].value \in Nat
  BY <1>5, LoggerAssumption DEF LoggerIInv, CallInv, Logging, Active, Ops
<1>7. ASSUME ~overlapped PROVE Mine(t) # {} /\ (~below => settings.level <= call[t].value)
  <2>1. Mine(t) = {settings.choice} /\ Selected.level = settings.level
    BY <1>5, <1>7, InUse
  <2>2. settings.level \in Nat
    BY LoggerAssumption DEF LoggerIInv, LoggerTypeOK
  <2>3. ~below => ~(call[t].value < loggers[settings.choice].level)
    BY <2>1
  <2> HIDE DEF below
  <2> QED
    BY <1>6, <2>1, <2>2, <2>3, SMTT(30) DEF Selected
<1> HIDE DEF below
<1>8. ~overlapped => UsesObjects(t)'
  BY <1>1, <1>3, <1>5, <1>7
     DEF LoggerIInv, UseInv, ObjectInv, UsesObjects, At, Logging, Selected, objectVars
<1>9. CallInv' /\ (~overlapped => ExclusionInv' /\ ObjectInv' /\ SelectedInv')
  BY <1>1, <1>3, <1>5, <1>8, CallStep DEF At, Active, Logging, objectVars
<1> QED
  BY <1>1, <1>4, <1>7, <1>9 DEF LoggerIInv, UseInv

(* log() has the time broken down. *)
LEMMA LocaltimeStep ==
    ASSUME LoggerIInv, NEW t \in Callers, Localtime(t), ~undefined
    PROVE  LoggerIInv'
<1>1. /\ At(t, "localtime") /\ Proceed(t, "copy") /\ tm' = call[t].time
      /\ UNCHANGED <<objectVars, fileVars, clock, historyVars>>
  BY DEF Localtime
<1>2. CallTypeOK /\ "copy" \in Places /\ call[t].time \in Nat
  BY DEF LoggerIInv, LoggerTypeOK, CallTypeOK, CallRecords, Places
<1>3. /\ CallTypeOK' /\ \A u \in Callers \ {t} : call'[u] = call[u]
      /\ call'[t].pc = "copy" /\ call'[t].kind = call[t].kind
      /\ call'[t].value = call[t].value /\ call'[t].inst = call[t].inst
      /\ call'[t].logger = call[t].logger
  BY <1>1, <1>2, ProceedCall
<1>4. LoggerTypeOK' /\ IdInv' /\ FileInv'
  BY <1>1, <1>2, <1>3, SameFiles
     DEF LoggerIInv, LoggerTypeOK, objectVars, fileVars, timeVars, historyVars
<1>5. call[t].kind = "log"
  BY <1>1 DEF LoggerIInv, CallInv, At, Logging
<1>6. ~overlapped => UsesObjects(t)'
  BY <1>1, <1>3
     DEF LoggerIInv, UseInv, ObjectInv, UsesObjects, At, Logging, Selected, objectVars
<1>7. CallInv' /\ (~overlapped => ExclusionInv' /\ ObjectInv' /\ SelectedInv')
  BY <1>1, <1>3, <1>5, <1>6, CallStep DEF At, Active, Logging, objectVars,
     historyVars
<1> QED
  BY <1>1, <1>4, <1>7 DEF LoggerIInv, UseInv, historyVars

(* log() copies what localtime returned. *)
LEMMA CopyStep ==
    ASSUME LoggerIInv, NEW t \in Callers, Copy(t), ~undefined
    PROVE  LoggerIInv'
<1>1. /\ At(t, "copy") /\ ProceedWith(t, "output", "time", tm)
      /\ UNCHANGED <<objectVars, fileVars, timeVars, historyVars>>
  BY DEF Copy
<1>2. CallTypeOK /\ "output" \in Places /\ tm \in Nat
  BY DEF LoggerIInv, LoggerTypeOK, Places
<1>3. /\ CallTypeOK' /\ \A u \in Callers \ {t} : call'[u] = call[u]
      /\ call'[t].pc = "output" /\ call'[t].kind = call[t].kind
      /\ call'[t].value = call[t].value /\ call'[t].inst = call[t].inst
      /\ call'[t].logger = call[t].logger
  BY <1>1, <1>2, ProceedWithCall
<1>4. LoggerTypeOK' /\ IdInv' /\ FileInv'
  BY <1>1, <1>3, SameFiles
     DEF LoggerIInv, LoggerTypeOK, objectVars, fileVars, timeVars, historyVars
<1>5. call[t].kind = "log"
  BY <1>1 DEF LoggerIInv, CallInv, At, Logging
<1>6. ~overlapped => UsesObjects(t)'
  BY <1>1, <1>3
     DEF LoggerIInv, UseInv, ObjectInv, UsesObjects, At, Logging, Selected, objectVars
<1>7. CallInv' /\ (~overlapped => ExclusionInv' /\ ObjectInv' /\ SelectedInv')
  BY <1>1, <1>3, <1>5, <1>6, CallStep DEF At, Active, Logging, objectVars,
     historyVars
<1> QED
  BY <1>1, <1>4, <1>7 DEF LoggerIInv, UseInv, historyVars

(* format throws in log(). *)
LEMMA FormatThrowsStep ==
    ASSUME LoggerIInv, NEW t \in Callers, FormatThrows(t), ~undefined
    PROVE  LoggerIInv'
<1>1. /\ At(t, "output") /\ Done(t)
      /\ UNCHANGED <<objectVars, fileVars, timeVars, historyVars>>
  BY DEF FormatThrows
<1>2. /\ CallTypeOK' /\ call'[t].pc = "idle"
      /\ \A u \in Callers \ {t} : call'[u] = call[u]
  BY <1>1, DoneCall DEF LoggerIInv, LoggerTypeOK
<1>3. LoggerTypeOK' /\ IdInv' /\ FileInv'
  BY <1>1, <1>2, SameFiles
     DEF LoggerIInv, LoggerTypeOK, objectVars, fileVars, timeVars, historyVars
<1>4. CallInv' /\ (~overlapped => ExclusionInv' /\ ObjectInv' /\ SelectedInv')
  BY <1>1, <1>2, CallStep DEF At, Active, objectVars, historyVars
<1> QED
  BY <1>1, <1>3, <1>4 DEF LoggerIInv, UseInv, historyVars

(* Sequences of records. *)
LEMMA RecordsAppended ==
    ASSUME NEW s \in Seq(Nat), NEW u \in Seq(Nat), NEW n \in Nat
    PROVE  /\ s \o u \in Seq(Nat) /\ Append(u, n) \in Seq(Nat)
           /\ s \o <<>> = s
           /\ Append(s \o u, n) = s \o Append(u, n)
  BY SMTT(30)

(* output() puts the record behind the others, in the stream or in the     *)
(* file.                                                                   *)
LEMMA ToFileStep ==
    ASSUME LoggerTypeOK, IdInv, FileInv, NEW n \in Nat, loggers["FILE"].id # 0,
           ToFile(loggers["FILE"].path, n), UNCHANGED loggers
    PROVE  /\ buffer' \in Seq(Nat)
           /\ files' \in [Paths -> Seq(Nat)] /\ written' \in [Paths -> Seq(Nat)]
           /\ IdInv' /\ FileInv'
<1> DEFINE q == loggers["FILE"].path
<1>1. q \in Paths /\ buffer \in Seq(Nat) /\ files \in [Paths -> Seq(Nat)]
      /\ written \in [Paths -> Seq(Nat)]
  BY DEF LoggerTypeOK, LoggerKinds, LoggerRecords
<1>2. written[q] = files[q] \o buffer
  BY <1>1 DEF FileInv
<1>3. written' = [written EXCEPT ![q] = Append(written[q], n)]
  BY DEF ToFile
<1>4. files[q] \in Seq(Nat) /\ written[q] \in Seq(Nat)
  BY <1>1
<1> HIDE DEF q
<1>5. Append(written[q], n) = files[q] \o Append(buffer, n)
  <2>1. Append(files[q] \o buffer, n) = files[q] \o Append(buffer, n)
    BY <1>1, <1>4, RecordsAppended, SMTT(30)
  <2> QED
    BY <1>2, <2>1
<1>6. Append(buffer, n) \in Seq(Nat) /\ files[q] \o Append(buffer, n) \in Seq(Nat)
      /\ Append(written[q], n) \in Seq(Nat)
  BY <1>1, <1>4, RecordsAppended
<1>7. \A s \in Seq(Nat) : s \o <<>> = s
  BY RecordsAppended
<1>8. CASE buffer' = Append(buffer, n) /\ UNCHANGED files
  BY <1>1, <1>3, <1>5, <1>6, <1>8 DEF q, FileInv, IdInv
<1>9. CASE files' = [files EXCEPT ![q] = files[q] \o Append(buffer, n)] /\ buffer' = <<>>
  <2>1. buffer' \in Seq(Nat) /\ files' \in [Paths -> Seq(Nat)]
        /\ written' \in [Paths -> Seq(Nat)]
    BY <1>1, <1>3, <1>6, <1>9, SMTT(30)
  <2>2. written'[q] = files'[q] /\ \A p \in Paths \ {q} : written'[p] = written[p]
        /\ files'[p] = files[p]
    BY <1>1, <1>3, <1>5, <1>9
  <2>3. written'[q] = files'[q] \o buffer'
    BY <1>1, <1>7, <1>9, <2>1, <2>2
  <2> QED
    BY <1>1, <1>9, <2>1, <2>2, <2>3 DEF q, FileInv, IdInv
<1> QED
  BY <1>8, <1>9 DEF ToFile, q

(* output() uses the selected logger. *)
LEMMA OutputStep ==
    ASSUME LoggerIInv, NEW t \in Callers, Output(t), ~undefined
    PROVE  LoggerIInv'
<1>1. /\ At(t, "output") /\ Done(t)
      /\ Mine(t) = {"FILE"} => ToFile(loggers["FILE"].path, call[t].n)
      /\ Mine(t) # {"FILE"} => UNCHANGED fileVars
      /\ undefined' = (Mine(t) = {}) /\ UNCHANGED <<calls, overlapped>>
      /\ UNCHANGED <<objectVars, timeVars>>
  BY DEF Output, UndefinedIf
<1>2. /\ CallTypeOK' /\ call'[t].pc = "idle"
      /\ \A u \in Callers \ {t} : call'[u] = call[u]
  BY <1>1, DoneCall DEF LoggerIInv, LoggerTypeOK
<1>3. call[t].n \in Nat
  BY DEF LoggerIInv, LoggerTypeOK, CallTypeOK, CallRecords
<1>4. /\ buffer' \in Seq(Nat)
      /\ files' \in [Paths -> Seq(Nat)] /\ written' \in [Paths -> Seq(Nat)]
      /\ IdInv' /\ FileInv'
  <2>1. CASE Mine(t) = {"FILE"}
    <3>1. loggers["FILE"].id # 0
      BY <2>1 DEF Mine
    <3> QED
      BY <1>1, <1>3, <2>1, <3>1, ToFileStep DEF LoggerIInv, objectVars
  <2>2. CASE Mine(t) # {"FILE"}
    BY <1>1, <2>2, SameFiles DEF LoggerIInv, LoggerTypeOK, objectVars, fileVars
  <2> QED
    BY <2>1, <2>2
<1>5. LoggerTypeOK'
  BY <1>1, <1>2, <1>4 DEF LoggerIInv, LoggerTypeOK, objectVars, timeVars
<1>6. CallInv' /\ (~overlapped => ExclusionInv' /\ ObjectInv' /\ SelectedInv')
  BY <1>1, <1>2, CallStep DEF At, Active, objectVars
<1>7. ~overlapped => Mine(t) # {}
  BY <1>1, InUse DEF At, Logging
<1> QED
  BY <1>1, <1>4, <1>5, <1>6, <1>7 DEF LoggerIInv, UseInv

(* Time passes. *)
LEMMA TickStep ==
    ASSUME LoggerIInv, Tick, ~undefined
    PROVE  LoggerIInv'
<1>1. UNCHANGED <<inst, settings, loggers, buffer, files, written, tm, call, calls,
                  undefined, overlapped>> /\ clock' = clock + 1
  BY DEF Tick, objectVars, fileVars, historyVars
<1>2. LoggerTypeOK' /\ CallInv' /\ IdInv' /\ FileInv'
  BY <1>1, SameFiles, SMTT(30) DEF LoggerIInv, LoggerTypeOK, CallTypeOK, CallInv,
     At, Active, Logging
<1>3. ~overlapped => UseInv'
  BY <1>1 DEF LoggerIInv, UseInv, ExclusionInv, ObjectInv, UsesObjects, SelectedInv,
              At, Active, Logging, Selected
<1> QED
  BY <1>1, <1>2, <1>3 DEF LoggerIInv

(* Closing writes what is in the stream. *)
LEMMA CloseFiles ==
    ASSUME LoggerTypeOK, IdInv, FileInv, Close
    PROVE  /\ buffer' = <<>> /\ buffer' \in Seq(Nat)
           /\ files' \in [Paths -> Seq(Nat)]
           /\ files' = written
<1> DEFINE q == loggers["FILE"].path
<1>1. q \in Paths /\ buffer \in Seq(Nat) /\ files \in [Paths -> Seq(Nat)]
      /\ written \in [Paths -> Seq(Nat)]
  BY DEF LoggerTypeOK, LoggerKinds, LoggerRecords
<1>2. files' = [files EXCEPT ![q] = files[q] \o buffer] /\ buffer' = <<>>
  BY DEF Close
<1>3. files[q] \in Seq(Nat) /\ files[q] \o buffer \in Seq(Nat) /\ files[q] \o <<>> = files[q]
  BY <1>1, RecordsAppended
<1>4. written[q] = files[q] \o buffer
  BY <1>1, <1>3 DEF FileInv, IdInv
<1>5. \A p \in Paths \ {q} : written[p] = files[p]
  BY DEF FileInv
<1> HIDE DEF q
<1>6. files' \in [Paths -> Seq(Nat)] /\ \A p \in Paths : files'[p] = written[p]
  BY <1>1, <1>2, <1>3, <1>4, <1>5
<1> QED
  BY <1>1, <1>2, <1>6, SMTT(30)

(* Whatever logger is opened then has nothing in its stream. *)
LEMMA OpenFile ==
    ASSUME written \in [Paths -> Seq(Nat)], buffer' = <<>>, files' = written,
           UNCHANGED written
    PROVE  FileInv'
<1>1. \A p \in Paths : files'[p] \o buffer' = files'[p]
  BY RecordsAppended
<1> QED
  BY <1>1 DEF FileInv

(* A setter is alone: every other thread is idle. *)
LEMMA SetterAlone ==
    ASSUME LoggerIInv, ~overlapped, NEW t \in Callers, Active(t),
           IsSetter(call[t]) \/ inst = 0
    PROVE  \A u \in Callers \ {t} : At(u, "idle")
<1>1. \A u \in Callers \ {t} : ~Active(u)
  BY DEF LoggerIInv, UseInv, ExclusionInv, IsSetter
<1>2. \A u \in Callers : ~At(u, "exited")
  BY DEF LoggerIInv, CallInv, At, Active
<1> QED
  BY <1>1, <1>2 DEF Active, At

(* A setter assigns a member, if it changes. *)
LEMMA SetStep ==
    ASSUME LoggerIInv, NEW t \in Callers, Set(t), ~undefined
    PROVE  LoggerIInv'
<1> DEFINE k == call[t].kind
           v == call[t].value
<1>1. /\ At(t, "call") /\ IsSetter(call[t])
      /\ settings[k] = v => Done(t)
      /\ settings[k] # v => Proceed(t, "flush")
      /\ settings' = [settings EXCEPT ![k] = v]
      /\ undefined' = (call[t].inst # inst) /\ UNCHANGED <<calls, overlapped>>
      /\ UNCHANGED <<inst, loggers, fileVars, timeVars>>
  BY DEF Set, UndefinedIf
<1>2. CallTypeOK /\ "flush" \in Places
  BY DEF LoggerIInv, LoggerTypeOK, Places
<1>3. /\ k = "level" => v \in Levels
      /\ k = "choice" => v \in Choices
      /\ k = "path" => v \in Paths
      /\ k \in {"level", "choice", "path"}
  BY <1>1 DEF LoggerIInv, CallInv, At, Active, Ops, IsSetter
<1> HIDE DEF k, v
<1>4. settings \in [choice : Choices, level : Levels, path : Paths]
  BY DEF LoggerIInv, LoggerTypeOK
<1>5. settings' \in [choice : Choices, level : Levels, path : Paths]
  BY <1>1, <1>3, <1>4
<1>6. IdInv' /\ FileInv'
  BY <1>1, SameFiles DEF LoggerIInv, fileVars
<1>7. ~overlapped => inst # 0 /\ call[t].inst = inst
  BY <1>1 DEF LoggerIInv, UseInv, ObjectInv, UsesObjects
<1>8. CASE settings[k] = v
  <2>1. settings' = settings
    BY <1>1, <1>3, <1>4, <1>8
  <2>2. /\ CallTypeOK' /\ call'[t].pc = "idle"
        /\ \A u \in Callers \ {t} : call'[u] = call[u]
    BY <1>1, <1>2, <1>8, DoneCall
  <2>3. CallInv' /\ (~overlapped => ExclusionInv' /\ ObjectInv' /\ SelectedInv')
    BY <1>1, <2>1, <2>2, CallStep DEF At, Active
  <2>4. LoggerTypeOK'
    BY <1>1, <1>5, <2>2 DEF LoggerIInv, LoggerTypeOK, fileVars, timeVars
  <2> QED
    BY <1>1, <1>6, <1>7, <2>3, <2>4 DEF LoggerIInv, UseInv
<1>9. CASE settings[k] # v
  <2>1. /\ CallTypeOK' /\ \A u \in Callers \ {t} : call'[u] = call[u]
        /\ call'[t].pc = "flush" /\ call'[t].kind = call[t].kind
        /\ call'[t].value = call[t].value /\ call'[t].inst = call[t].inst
    BY <1>1, <1>2, <1>9, ProceedCall
  <2>2. LoggerTypeOK'
    BY <1>1, <1>5, <2>1 DEF LoggerIInv, LoggerTypeOK, fileVars, timeVars
  <2>3. CallInv'
    BY <1>1, <2>1 DEF LoggerIInv, CallInv, At, Active, Logging, IsSetter
  <2>4. ASSUME ~overlapped PROVE UseInv'
    <3>1. \A u \in Callers \ {t} : At(u, "idle")
      BY <1>1, <2>4, SetterAlone DEF At, Active
    <3>2. ExclusionInv' /\ ObjectInv' /\ SelectedInv'
      BY <1>1, <1>7, <2>1, <2>4, <3>1, SMTT(30)
         DEF ExclusionInv, ObjectInv, UsesObjects, SelectedInv, At, Active, Logging
    <3> QED
      BY <1>1, <1>7, <2>4, <3>2 DEF UseInv
  <2> QED
    BY <1>1, <1>6, <2>2, <2>3, <2>4 DEF LoggerIInv
<1> QED
  BY <1>8, <1>9

(* flush() makes the selected logger anew. *)
LEMMA CreatedLogger ==
    ASSUME LoggerTypeOK, IdInv, FileInv, NEW c \in LoggerKinds, Created(c),
           UNCHANGED written
    PROVE  /\ loggers' \in [LoggerKinds -> LoggerRecords]
           /\ buffer' \in Seq(Nat) /\ files' \in [Paths -> Seq(Nat)]
           /\ loggers'[c].id # 0 /\ loggers'[c].level = settings.level
           /\ loggers'[c].path = settings.path
           /\ IdInv' /\ FileInv'
<1>1. loggers \in [LoggerKinds -> LoggerRecords]
      /\ loggers' = [loggers EXCEPT ![c] = Fresh]
  BY DEF LoggerTypeOK, Created
<1>2. NewId \in Nat /\ \A d \in LoggerKinds : loggers[d].id \in Nat /\ loggers[d].id < NewId
  BY <1>1, NewIdFresh DEF LoggerRecords
<1>3. Fresh \in LoggerRecords /\ Fresh.id = NewId /\ Fresh.level = settings.level
      /\ Fresh.path = settings.path
  BY <1>2, LoggerAssumption DEF Fresh, LoggerRecords, LoggerTypeOK
<1>4. loggers' \in [LoggerKinds -> LoggerRecords] /\ loggers'[c] = Fresh
      /\ \A d \in LoggerKinds \ {c} : loggers'[d] = loggers[d]
  BY <1>1, <1>3
<1>5. NewId # 0
  BY <1>2, SMTT(30)
<1>6. CASE c = "FILE"
  <2>1. /\ buffer' = <<>> /\ buffer' \in Seq(Nat)
        /\ files' \in [Paths -> Seq(Nat)] /\ files' = written
    BY <1>6, CloseFiles DEF Created
  <2>2. FileInv'
    BY <2>1, OpenFile DEF LoggerTypeOK
  <2>3. IdInv'
    BY <1>2, <1>3, <1>4, <1>6, <2>1, SMTT(30) DEF IdInv, LoggerKinds
  <2> QED
    BY <1>3, <1>4, <1>5, <2>1, <2>2, <2>3
<1>7. CASE c = "STDOUT"
  <2>1. UNCHANGED <<buffer, files>>
    BY <1>7 DEF Created
  <2>2. loggers'["FILE"] = loggers["FILE"] /\ loggers'["STDOUT"].id = NewId
    BY <1>3, <1>4, <1>7 DEF LoggerKinds
  <2>3. FileInv'
    BY <2>1, <2>2 DEF FileInv
  <2>4. IdInv'
    BY <1>2, <2>1, <2>2, SMTT(30) DEF IdInv, LoggerKinds
  <2> QED
    BY <1>3, <1>4, <1>5, <2>1, <2>3, <2>4 DEF LoggerTypeOK
<1> QED
  BY <1>6, <1>7 DEF LoggerKinds

(* The rest of a setter that changed something. *)
LEMMA FlushStep ==
    ASSUME LoggerIInv, NEW t \in Callers, Flush(t), ~undefined
    PROVE  LoggerIInv'
<1>1. /\ At(t, "flush") /\ Done(t)
      /\ settings.choice = "NONE" => UNCHANGED <<loggers, buffer, files>>
      /\ settings.choice # "NONE" => Created(settings.choice)
      /\ undefined' = (call[t].inst # inst) /\ UNCHANGED <<calls, overlapped>>
      /\ UNCHANGED <<inst, settings, written, timeVars>>
  BY DEF Flush, UndefinedIf
<1>2. /\ CallTypeOK' /\ call'[t].pc = "idle"
      /\ \A u \in Callers \ {t} : call'[u] = call[u]
  BY <1>1, DoneCall DEF LoggerIInv, LoggerTypeOK
<1>3. /\ loggers' \in [LoggerKinds -> LoggerRecords]
      /\ buffer' \in Seq(Nat) /\ files' \in [Paths -> Seq(Nat)]
      /\ settings.choice # "NONE" =>
           /\ loggers'[settings.choice].id # 0
           /\ loggers'[settings.choice].level = settings.level
           /\ loggers'[settings.choice].path = settings.path
      /\ IdInv' /\ FileInv'
  <2>1. CASE settings.choice = "NONE"
    BY <1>1, <2>1, SameFiles DEF LoggerIInv, LoggerTypeOK
  <2>2. CASE settings.choice # "NONE"
    <3>1. settings.choice \in LoggerKinds
      BY <2>2 DEF LoggerIInv, LoggerTypeOK, Choices, LoggerKinds
    <3> QED
      BY <1>1, <2>2, <3>1, CreatedLogger DEF LoggerIInv
  <2> QED
    BY <2>1, <2>2
<1>4. LoggerTypeOK'
  BY <1>1, <1>2, <1>3 DEF LoggerIInv, LoggerTypeOK, timeVars
<1>5. CallInv'
  BY <1>1, <1>2 DEF LoggerIInv, CallInv, At, Active, Logging, IsSetter
<1>6. ASSUME ~overlapped PROVE UseInv'
  <2>1. Active(t) /\ IsSetter(call[t])
    BY <1>1 DEF LoggerIInv, CallInv, At, Active
  <2>2. \A u \in Callers : call'[u].pc = "idle"
    BY <1>2, <1>6, <2>1, SetterAlone DEF At
  <2>3. call[t].inst = inst
    BY <1>1, <1>6 DEF LoggerIInv, UseInv, ObjectInv, UsesObjects
  <2>4. ExclusionInv' /\ ObjectInv'
    BY <2>2 DEF ExclusionInv, ObjectInv, UsesObjects, At, Active, Logging
  <2>5. SelectedInv'
    BY <1>1, <1>3 DEF SelectedInv, Selected
  <2> QED
    BY <1>1, <2>3, <2>4, <2>5 DEF UseInv
<1> QED
  BY <1>1, <1>3, <1>4, <1>5, <1>6 DEF LoggerIInv

(* instance() makes the singleton. *)
LEMMA ResetStep ==
    ASSUME LoggerIInv, NEW t \in Callers, Reset(t), ~undefined
    PROVE  LoggerIInv'
<1>1. /\ At(t, "reset") /\ ProceedWith(t, "call", "inst", inst + 1)
      /\ inst' = inst + 1 /\ settings' = Defaults
      /\ loggers' = [NoLoggers EXCEPT !["STDOUT"] = [Null EXCEPT !.id = NewId]]
      /\ Close /\ UNCHANGED <<written, timeVars, historyVars>>
  BY DEF Reset
<1>2. CallTypeOK /\ inst \in Nat /\ inst + 1 \in Nat /\ inst + 1 # 0 /\ "call" \in Places
  BY SMTT(30) DEF LoggerIInv, LoggerTypeOK, Places
<1>3. /\ CallTypeOK' /\ \A u \in Callers \ {t} : call'[u] = call[u]
      /\ call'[t].pc = "call" /\ call'[t].kind = call[t].kind
      /\ call'[t].value = call[t].value /\ call'[t].inst = inst'
  BY <1>1, <1>2, ProceedWithCall, SMTT(30)
<1>4. NewId \in Nat /\ NewId # 0
  <2>1. NewId \in Nat /\ loggers["FILE"].id \in Nat /\ loggers["FILE"].id < NewId
    BY NewIdFresh DEF LoggerIInv, LoggerTypeOK, LoggerKinds, LoggerRecords
  <2> QED
    BY <2>1, SMTT(30)
<1>5. /\ loggers' \in [LoggerKinds -> LoggerRecords]
      /\ loggers'["STDOUT"] = [id |-> NewId, level |-> 0, path |-> DefaultPath]
      /\ loggers'["FILE"].id = 0
  BY <1>1, <1>4, LoggerAssumption DEF NoLoggers, Null, LoggerKinds, LoggerRecords
<1>6. settings' \in [choice : Choices, level : Levels, path : Paths]
      /\ settings'.choice = "STDOUT" /\ settings'.level = 0 /\ settings'.path = DefaultPath
  BY <1>1, LoggerAssumption DEF Defaults, Choices
<1>7. /\ buffer' = <<>> /\ buffer' \in Seq(Nat)
      /\ files' \in [Paths -> Seq(Nat)] /\ files' = written
  BY <1>1, CloseFiles DEF LoggerIInv
<1>8. LoggerTypeOK'
  BY <1>1, <1>2, <1>3, <1>5, <1>6, <1>7
     DEF LoggerIInv, LoggerTypeOK, timeVars, historyVars
<1>9. IdInv' /\ FileInv'
  <2>1. FileInv'
    BY <1>1, <1>7, OpenFile DEF LoggerIInv, LoggerTypeOK
  <2> QED
    BY <1>4, <1>5, <1>7, <2>1 DEF IdInv
<1>10. CallInv'
  BY <1>1, <1>3 DEF LoggerIInv, CallInv, At, Active, Logging, IsSetter
<1>11. ASSUME ~overlapped PROVE UseInv'
  <2>1. inst = 0
    BY <1>1, <1>11 DEF LoggerIInv, UseInv, ObjectInv, UsesObjects
  <2>2. \A u \in Callers \ {t} : At(u, "idle")
    BY <1>1, <1>11, <2>1, SetterAlone DEF At, Active
  <2>3. ExclusionInv' /\ ObjectInv'
    BY <1>1, <1>2, <1>3, <2>2, SMTT(30)
       DEF ExclusionInv, ObjectInv, UsesObjects, At, Active, Logging
  <2>4. SelectedInv'
    BY <1>4, <1>5, <1>6, SMTT(30) DEF SelectedInv, Selected
  <2> QED
    BY <1>1, <1>11, <2>3, <2>4 DEF LoggerIInv, UseInv, historyVars
<1> QED
  BY <1>1, <1>8, <1>9, <1>10, <1>11 DEF LoggerIInv, historyVars

(* A call begins, and overlaps with others or not. *)
LEMMA BeginStep ==
    ASSUME LoggerIInv, NEW t \in Callers, NEW o \in Ops, Begin(t, o), ~undefined
    PROVE  LoggerIInv'
<1> DEFINE r == [Idle EXCEPT !.pc = "instance", !.kind = o.kind, !.value = o.value,
                             !.n = calls + 1, !.from = clock]
<1>1. /\ At(t, "idle") /\ calls' = calls + 1 /\ call' = [call EXCEPT ![t] = r]
      /\ overlapped' = (overlapped \/ \E u \in Callers :
             ~At(u, "idle") /\ (IsSetter(o) \/ IsSetter(call[u]) \/ inst = 0))
      /\ UNCHANGED <<objectVars, fileVars, timeVars, undefined>>
  BY DEF Begin
<1>2. CallTypeOK /\ calls + 1 \in Nat /\ clock \in Nat
  BY SMTT(30) DEF LoggerIInv, LoggerTypeOK
<1>3. o.kind \in {"log", "level", "choice", "path"}
      /\ o = [kind |-> o.kind, value |-> o.value]
  BY DEF Ops
<1>4. r \in CallRecords(r.value) /\ r.pc = "instance" /\ r.kind = o.kind /\ r.value = o.value
  BY <1>2, <1>3 DEF Idle, CallRecords, Places
<1> HIDE DEF r
<1>5. call' = [u \in Callers |-> IF u = t THEN r ELSE call[u]]
  BY <1>1 DEF LoggerIInv, LoggerTypeOK, CallTypeOK
<1>6. call'[t] = r /\ \A u \in Callers \ {t} : call'[u] = call[u]
  BY <1>5
<1>7. CallTypeOK'
  <2>1. call' = [u \in Callers |-> call'[u]]
    BY <1>5
  <2>2. \A u \in Callers : call'[u] \in CallRecords(call'[u].value)
    BY <1>2, <1>4, <1>6 DEF CallTypeOK
  <2> QED
    BY <2>1, <2>2 DEF CallTypeOK
<1>8. LoggerTypeOK' /\ IdInv' /\ FileInv'
  BY <1>1, <1>2, <1>7, SameFiles
     DEF LoggerIInv, LoggerTypeOK, objectVars, fileVars, timeVars
<1>9. CallInv'
  BY <1>1, <1>3, <1>4, <1>6 DEF LoggerIInv, CallInv, At, Active, Logging, IsSetter
<1>10. ASSUME ~overlapped' PROVE UseInv'
  <2>1. /\ ~overlapped /\ UseInv /\ UNCHANGED <<inst, settings, loggers, undefined>>
        /\ \A u \in Callers : ~At(u, "idle") =>
             ~IsSetter(o) /\ ~IsSetter(call[u]) /\ inst # 0
    BY <1>1, <1>10 DEF LoggerIInv, objectVars
  <2>2. \A u \in Callers : Active(u) => o.kind = "log" /\ call[u].kind = "log" /\ inst # 0
    BY <1>3, <2>1 DEF LoggerIInv, CallInv, Active, At, IsSetter, Ops
  <2>3. ExclusionInv'
    BY <1>4, <1>6, <2>1, <2>2 DEF UseInv, ExclusionInv, Active
  <2>4. UsesObjects(t)'
    BY <1>4, <1>6 DEF UsesObjects, At, Logging
  <2>5. ASSUME NEW u \in Callers \ {t} PROVE UsesObjects(u)'
    BY <1>6, <2>1 DEF UseInv, ObjectInv, UsesObjects, At, Logging, Selected
  <2>6. SelectedInv'
    BY <1>1, <1>4, <1>6, <2>1 DEF UseInv, SelectedInv, At, Selected
  <2> QED
    BY <2>1, <2>3, <2>4, <2>5, <2>6 DEF UseInv, ObjectInv
<1> QED
  BY <1>8, <1>9, <1>10 DEF LoggerIInv

(* The end of the program. *)
LEMMA ExitStep ==
    ASSUME LoggerIInv, Exit, ~undefined
    PROVE  LoggerIInv'
<1> DEFINE r == [Idle EXCEPT !.pc = "exited"]
<1>1. /\ inst # 0 /\ call' = [t \in Callers |-> r]
      /\ loggers' = NoLoggers /\ Close
      /\ UNCHANGED <<inst, settings, written, timeVars, historyVars>>
  BY DEF Exit
<1>2. r \in CallRecords(r.value) /\ r.pc = "exited"
  BY DEF Idle, CallRecords, Places
<1> HIDE DEF r
<1>3. CallTypeOK' /\ \A t \in Callers : call'[t].pc = "exited"
  BY <1>1, <1>2 DEF CallTypeOK
<1>4. /\ buffer' = <<>> /\ buffer' \in Seq(Nat)
      /\ files' \in [Paths -> Seq(Nat)] /\ files' = written
  BY <1>1, CloseFiles DEF LoggerIInv
<1>5. loggers' \in [LoggerKinds -> LoggerRecords]
  BY <1>1, LoggerAssumption DEF NoLoggers, Null, LoggerKinds, LoggerRecords
<1>6. LoggerTypeOK'
  BY <1>1, <1>3, <1>4, <1>5 DEF LoggerIInv, LoggerTypeOK, timeVars, historyVars
<1>7. FileInv'
  BY <1>1, <1>4, OpenFile DEF LoggerIInv, LoggerTypeOK
<1>8. IdInv'
  BY <1>1, <1>4 DEF IdInv, NoLoggers, Null
<1>9. CallInv'
  BY <1>3 DEF CallInv, At, Active, Logging
<1>10. ExclusionInv' /\ ObjectInv' /\ SelectedInv'
  BY <1>1, <1>3, LoggerAssumption
     DEF ExclusionInv, ObjectInv, UsesObjects, SelectedInv, At, Active, Logging
<1> QED
  BY <1>1, <1>6, <1>7, <1>8, <1>9, <1>10 DEF LoggerIInv, UseInv, historyVars

(* The three facts that make LoggerIInv an invariant. *)
LEMMA LoggerInitInv == LoggerInit => LoggerIInv
<1> SUFFICES ASSUME LoggerInit PROVE LoggerIInv
  OBVIOUS
<1>1. Idle \in CallRecords(Idle.value) /\ Idle.pc = "idle"
  BY DEF Idle, CallRecords, Places
<1>2. call = [t \in Callers |-> Idle] /\ inst = 0 /\ loggers = NoLoggers /\ buffer = <<>>
      /\ ~undefined
  BY DEF LoggerInit
<1>3. CallTypeOK /\ \A t \in Callers : call[t].pc = "idle"
  BY <1>1, <1>2 DEF CallTypeOK
<1>4. settings \in [choice : Choices, level : Levels, path : Paths]
      /\ loggers \in [LoggerKinds -> LoggerRecords] /\ loggers["FILE"].id = 0
  BY LoggerAssumption
     DEF LoggerInit, Defaults, Choices, NoLoggers, Null, LoggerKinds, LoggerRecords
<1>5. buffer \in Seq(Nat) /\ files \in [Paths -> Seq(Nat)] /\ written \in [Paths -> Seq(Nat)]
      /\ files = written
  BY SMTT(30) DEF LoggerInit
<1>6. LoggerTypeOK
  BY <1>3, <1>4, <1>5 DEF LoggerInit, LoggerTypeOK
<1>7. CallInv /\ ExclusionInv /\ ObjectInv
  BY <1>3 DEF CallInv, ExclusionInv, ObjectInv, UsesObjects, At, Active, Logging
<1>8. SelectedInv /\ IdInv /\ FileInv
  BY <1>2, <1>4, <1>5 DEF SelectedInv, IdInv, FileInv
<1> QED
  BY <1>2, <1>6, <1>7, <1>8 DEF LoggerIInv, UseInv

(* Every step keeps the inductive invariant of Logger. *)
LEMMA LoggerStepInv == LoggerIInv /\ [LoggerNext]_loggerVars => LoggerIInv'
<1> SUFFICES ASSUME LoggerIInv, [LoggerNext]_loggerVars PROVE LoggerIInv'
  OBVIOUS
<1>1. CASE LoggerNext
  <2>1. ~undefined
    BY <1>1 DEF LoggerNext
  <2>2. CASE \E t \in Callers :
               \/ \E o \in Ops : Begin(t, o)
               \/ Instance(t) \/ Reset(t) \/ Set(t) \/ Flush(t)
               \/ Choose(t) \/ Level(t) \/ Localtime(t) \/ Copy(t)
               \/ FormatThrows(t) \/ Output(t)
    BY <2>1, <2>2, BeginStep, InstanceStep, ResetStep, SetStep, FlushStep, ChooseStep,
       LevelStep, LocaltimeStep, CopyStep, FormatThrowsStep, OutputStep
  <2>3. CASE Tick
    BY <2>1, <2>3, TickStep
  <2>4. CASE Exit
    BY <2>1, <2>4, ExitStep
  <2> QED
    BY <1>1, <2>2, <2>3, <2>4 DEF LoggerNext
<1>2. CASE UNCHANGED loggerVars
  <2>1. UNCHANGED <<inst, settings, loggers, buffer, files, written, tm, clock, call,
                    calls, undefined, overlapped>>
    BY <1>2 DEF loggerVars, objectVars, fileVars, timeVars, historyVars
  <2>2. LoggerTypeOK' /\ CallInv' /\ IdInv' /\ FileInv'
    BY <2>1, SameFiles
       DEF LoggerIInv, LoggerTypeOK, CallTypeOK, CallInv, At, Active, Logging
  <2>3. ~overlapped => UseInv'
    BY <2>1 DEF LoggerIInv, UseInv, ExclusionInv, ObjectInv, UsesObjects,
       SelectedInv,
                At, Active, Logging, Selected
  <2> QED
    BY <2>1, <2>2, <2>3 DEF LoggerIInv
<1> QED
  BY <1>1, <1>2

(* The inductive invariant of Logger. *)
LEMMA LoggerInductive == LoggerSpec => []LoggerIInv
<1> QED
  BY LoggerInitInv, LoggerStepInv, PTL DEF LoggerSpec

(* For any threads, levels, paths and calls: if the first use and the      *)
(* setters overlap with no other call, the selected logger of GlobalLogger *)
(* has the level and the path of its settings between setters, those       *)
(* included that were set while another logger, or none, was selected.     *)
THEOREM SelectedCurrent == LoggerSpec => []SelectedIsCurrent
<1>1. LoggerIInv => SelectedIsCurrent
  BY DEF LoggerIInv, UseInv, SelectedInv, SelectedIsCurrent
<1> QED
  BY <1>1, LoggerInductive, PTL

(* Then, too, no call meets a null or dead logger, however the log calls   *)
(* overlap, and replacing loggers and the end of the program neither lose  *)
(* nor reorder the records that output() gave to a file.                   *)
THEOREM RecordsKept == LoggerSpec => []NothingLost
<1>1. LoggerIInv => NothingLost
  BY DEF LoggerIInv, UseInv, FileInv, NothingLost
<1> QED
  BY <1>1, LoggerInductive, PTL

(* A file gets a record only from output() of a log call, at its end, and  *)
(* if setters overlap with nothing, only the file that is selected at that *)
(* moment, and only a record of at least the level set: log() tests the    *)
(* level and chooses the logger several steps before output().             *)
RecordsFollowSettings ==
    \A p \in Paths : written'[p] # written[p] =>
        \E t \in Callers :
            /\ At(t, "output") /\ written'[p] = Append(written[p], call[t].n)
            /\ ~overlapped => /\ settings.choice = "FILE" /\ settings.path = p
                              /\ settings.level <= call[t].value

(* output() gives the record of the call to the selected file. *)
LEMMA OutputFollows ==
    ASSUME LoggerIInv, NEW t \in Callers, Output(t)
    PROVE  RecordsFollowSettings
<1> SUFFICES ASSUME NEW p \in Paths, written'[p] # written[p]
             PROVE  /\ written'[p] = Append(written[p], call[t].n)
                    /\ ~overlapped => /\ settings.choice = "FILE" /\ settings.path = p
                                      /\ settings.level <= call[t].value
  BY DEF RecordsFollowSettings, Output
<1>1. Mine(t) = {"FILE"} /\ ToFile(loggers["FILE"].path, call[t].n)
  BY DEF Output, fileVars
<1>2. written \in [Paths -> Seq(Nat)]
  BY DEF LoggerIInv, LoggerTypeOK
<1>3. p = loggers["FILE"].path /\ written'[p] = Append(written[p], call[t].n)
  BY <1>1, <1>2 DEF ToFile
<1>4. Logging(t) /\ ~At(t, "level")
  BY DEF Output, At, Logging
<1>5. ~overlapped => settings.level <= call[t].value
  BY <1>4 DEF LoggerIInv, UseInv, ObjectInv, UsesObjects
<1>6. ~overlapped => settings.choice = "FILE" /\ settings.path = p
  BY <1>1, <1>3, <1>4, InUse DEF Selected
<1> QED
  BY <1>3, <1>5, <1>6

(* RecordsFollowSettings holds of every step. *)
THEOREM OnlySelectedRecords == LoggerSpec => [][RecordsFollowSettings]_loggerVars
<1>1. LoggerIInv /\ [LoggerNext]_loggerVars => [RecordsFollowSettings]_loggerVars
  <2> SUFFICES ASSUME LoggerIInv, LoggerNext PROVE RecordsFollowSettings
    OBVIOUS
  <2>1. CASE \E t \in Callers : Output(t)
    BY <2>1, OutputFollows
  <2>2. CASE UNCHANGED written
    BY <2>2 DEF RecordsFollowSettings
  <2> QED
    BY <2>1, <2>2 DEF LoggerNext, Begin, Instance, Reset, Set, Flush, Choose, Level,
       Localtime, Copy, FormatThrows, Tick, Exit, fileVars
<1> QED
  BY <1>1, LoggerInductive, PTL DEF LoggerSpec

=============================================================================
