----------------------------- MODULE TextProofs -----------------------------
(***************************************************************************)
(* Proofs about Format and Http, which write and read texts, for any       *)
(* format strings, arguments and messages.  Positions in a text are found  *)
(* by the least element principle, in place of an induction over the text. *)
(*                                                                         *)
(* Format: the inductive invariant FormatIInv says of the parts written so *)
(* far that they are adjacent and reach up to fpos, that each is what      *)
(* vformat makes of its piece of the format string, that the automatic     *)
(* fields among them have used the arguments before arg_index, each once   *)
(* and in order, and that the stream is idle between two fields.           *)
(*                                                                         *)
(* Http: the inductive invariant HttpIInv says of the text on the wire     *)
(* that its lines are the start line and the lines of the headers written  *)
(* so far, in whatever order.  MessageParsed then says what                *)
(* parse_from_string makes of any part of a complete text.                 *)
(***************************************************************************)
EXTENDS Format, Http, SequenceFacts, TLAPS

-----------------------------------------------------------------------------
(* Format.                                                                 *)

(* find_first_of finds the first of the characters from p on. *)
LEMMA FindFirst ==
    ASSUME NEW A, NEW f \in Seq(A), NEW C, NEW p \in Nat \ {0}
    PROVE  LET b == find_first_of(f, C, p)
           IN  /\ b = 0 => \A i \in p .. Len(f) : f[i] \notin C
               /\ b # 0 => /\ b \in p .. Len(f) /\ f[b] \in C
                           /\ \A i \in p .. b - 1 : f[i] \notin C
               /\ b \in Nat
<1> DEFINE S == {i \in p .. Len(f) : f[i] \in C}
           m == CHOOSE i \in S : \A j \in S : i <= j
<1>1. find_first_of(f, C, p) = IF S = {} THEN 0 ELSE m
  BY DEF find_first_of
<1>2. Len(f) \in Nat
  OBVIOUS
<1>3. CASE S = {}
  BY <1>1, <1>3
<1>4. CASE S # {}
  <2>1. \E i \in S : \A j \in S : i <= j
    <3>1. S \in SUBSET Nat
      BY <1>2
    <3> HIDE DEF S
    <3> QED
      BY <1>4, <3>1, Least, Zenon
  <2>2. m \in S /\ \A j \in S : m <= j
    BY <2>1, Zenon
  <2> HIDE DEF m
  <2>3. find_first_of(f, C, p) = m /\ m # 0
    BY <1>1, <1>4, <2>2
  <2>4. \A i \in p .. m - 1 : f[i] \notin C
    BY <1>2, <2>2
  <2> QED
    BY <1>2, <2>2, <2>3, <2>4
<1> QED
  BY <1>3, <1>4

(* The elements of a sequence with one more. *)
LEMMA Appended ==
    ASSUME NEW S, NEW s \in Seq(S), NEW x \in S
    PROVE  LET r == Append(s, x)
           IN  /\ r \in Seq(S) /\ Len(r) = Len(s) + 1
               /\ \A k \in 1 .. Len(s) : r[k] = s[k]
               /\ r[Len(s) + 1] = x
  OBVIOUS

(* A function on 1 .. n is a sequence. *)
LEMMA FunctionSeq ==
    ASSUME NEW S, NEW n \in Nat, NEW g \in [1 .. n -> S]
    PROVE  g \in Seq(S) /\ Len(g) = n
  OBVIOUS

PartKinds == {"text", "automatic", "numbered"}
PartSet == [kind : PartKinds, first : Nat, last : Nat]

(* Parts are records. *)
LEMMA PartFields ==
    ASSUME NEW k \in PartKinds, NEW a \in Nat, NEW b \in Nat
    PROVE  /\ Part(k, a, b) \in PartSet
           /\ Part(k, a, b).kind = k /\ Part(k, a, b).first = a
           /\ Part(k, a, b).last = b
  BY DEF Part, PartSet

(* An output o, with any elements, and the parts p it was made of. *)
Aligned(o, p) ==
    /\ \E S : o \in Seq(S)
    /\ p \in Seq(PartSet)
    /\ Len(p) = Len(o)

(* The parts are adjacent and reach up to pos. *)
StartOf(p, k) == IF k = 1 THEN 1 ELSE p[k - 1].last + 1

ReadTo(o, p, pos) ==
    /\ \A k \in 1 .. Len(o) :
         /\ p[k].first = StartOf(p, k)
         /\ p[k].kind = "text" => IsText(o[k], p[k])
         /\ p[k].kind # "text" => IsField(o[k], p[k])
    /\ pos = StartOf(p, Len(o) + 1)

(* The automatic fields have printed the arguments before a. *)
Used(o, p, a) ==
    /\ \A k \in 1 .. Len(o) : p[k].kind = "automatic" => o[k].arg \in 0 .. a - 1
    /\ \A i \in 0 .. a - 1 :
         \E k \in 1 .. Len(o) : p[k].kind = "automatic" /\ o[k].arg = i
    /\ \A k, l \in 1 .. Len(o) :
         k < l /\ p[k].kind = "automatic" /\ p[l].kind = "automatic"
           => o[k].arg < o[l].arg

FormatTypes ==
    /\ fmt \in Seq(Characters) /\ args \in Seq(Kinds)
    /\ fpos \in 1 .. Len(fmt) + 1
    /\ arg_index \in 0 .. Len(args)

FormatIInv ==
    /\ FormatTypes
    /\ Aligned(oss, parts)
    /\ ReadTo(oss, parts, fpos)
    /\ Used(oss, parts, arg_index)
    /\ stream \in IdleStreams
    /\ outcome = "returned" => fpos = Len(fmt) + 1 /\ arg_index = Len(args)

(* The plain text from a to q. *)
LEMMA TextSeqs ==
    ASSUME NEW a \in Nat \ {0}, NEW q \in Nat, a <= q, q <= Len(fmt) + 1,
           fmt \in Seq(Characters)
    PROVE  /\ Texts(a, q) \in Seq({Text(c) : c \in Characters})
           /\ Len(Texts(a, q)) = q - a
           /\ \A i \in 1 .. q - a : Texts(a, q)[i] = Text(fmt[a + i - 1])
           /\ TextParts(a, q) \in Seq(PartSet)
           /\ Len(TextParts(a, q)) = q - a
           /\ \A i \in 1 .. q - a :
                TextParts(a, q)[i] = Part("text", a + i - 1, a + i - 1)
<1>1. q - a \in Nat /\ \A i \in 1 .. q - a : a + i - 1 \in 1 .. Len(fmt)
  OBVIOUS
<1>2. ASSUME NEW i \in 1 .. q - a
      PROVE  Text(fmt[a + i - 1]) \in {Text(c) : c \in Characters}
  <2>1. fmt[a + i - 1] \in Characters
    BY <1>1
  <2> QED
    BY <2>1, Zenon
<1>3. ASSUME NEW i \in 1 .. q - a
      PROVE  Part("text", a + i - 1, a + i - 1) \in PartSet
  <2>1. a + i - 1 \in Nat
    BY <1>1
  <2>2. "text" \in PartKinds
    BY DEF PartKinds
  <2> QED
    BY <2>1, <2>2, PartFields
<1>4. /\ Texts(a, q) \in [1 .. q - a -> {Text(c) : c \in Characters}]
      /\ \A i \in 1 .. q - a : Texts(a, q)[i] = Text(fmt[a + i - 1])
  BY <1>2 DEF Texts
<1>5. /\ TextParts(a, q) \in [1 .. q - a -> PartSet]
      /\ \A i \in 1 .. q - a : TextParts(a, q)[i] = Part("text", a + i - 1, a + i - 1)
  BY <1>3, Zenon DEF TextParts
<1> QED
  BY <1>1, <1>4, <1>5, FunctionSeq

(* The text from a up to q holds no braces, and is in the format string. *)
PlainText(a, q) ==
    /\ a \in Nat \ {0} /\ q \in Nat /\ a <= q /\ q <= Len(fmt) + 1
    /\ fmt \in Seq(Characters)
    /\ \A i \in a .. q - 1 : fmt[i] \notin Braces

(* o1 and p1 are o and p with that text, from n + 1 to e. *)
WithText(o, p, a, q, n, e, o1, p1) ==
    /\ n = Len(o) /\ e = n + q - a
    /\ n \in Nat /\ e \in Nat /\ n <= e
    /\ Aligned(o1, p1) /\ Len(o1) = e
    /\ \A k \in 1 .. n : o1[k] = o[k] /\ p1[k] = p[k]
    /\ \A k \in n + 1 .. e :
         /\ a + k - n - 1 \in a .. q - 1
         /\ o1[k] = Text(fmt[a + k - n - 1]) /\ p1[k].kind = "text"
         /\ p1[k].first = a + k - n - 1 /\ p1[k].last = a + k - n - 1

(* Both get the elements of the text and stay aligned. *)
LEMMA TextWritten ==
    ASSUME NEW o, NEW p, Aligned(o, p), NEW a, NEW q, PlainText(a, q)
    PROVE  WithText(o, p, a, q, Len(o), Len(o) + q - a,
                    o \o Texts(a, q), p \o TextParts(a, q))
<1> DEFINE n == Len(o)
           e == n + q - a
           o1 == o \o Texts(a, q)
           p1 == p \o TextParts(a, q)
<1> DEFINE t == Texts(a, q)
           u == TextParts(a, q)
<1>1. /\ a \in Nat \ {0} /\ fmt \in Seq(Characters) /\ p \in Seq(PartSet)
      /\ Len(p) = n /\ n \in Nat /\ e \in Nat /\ n <= e
      /\ q \in Nat /\ a <= q /\ q <= Len(fmt) + 1
  BY DEF Aligned, PlainText
<1>0. n = Len(o) /\ e = n + q - a
  BY Zenon
<1>2. /\ t \in Seq({Text(c) : c \in Characters}) /\ Len(t) = q - a
      /\ \A i \in 1 .. q - a : t[i] = Text(fmt[a + i - 1])
      /\ u \in Seq(PartSet) /\ Len(u) = q - a
      /\ \A i \in 1 .. q - a : u[i] = Part("text", a + i - 1, a + i - 1)
  BY <1>1, TextSeqs, Zenon
<1>3. PICK S : o \in Seq(S)
  BY Zenon DEF Aligned
<1> DEFINE T == S \cup {Text(c) : c \in Characters}
<1>4. o1 = o \o t /\ p1 = p \o u
  BY Zenon
<1> HIDE DEF t, u, n, e, o1, p1
<1>5. o \in Seq(T) /\ t \in Seq(T)
  BY <1>2, <1>3
<1> HIDE DEF T
<1>6. /\ o1 \in Seq(T) /\ Len(o1) = e
      /\ \A k \in 1 .. n : o1[k] = o[k]
      /\ \A k \in n + 1 .. e : o1[k] = t[k - n]
  <2>1. Len(o) + Len(t) = e
    BY <1>0, <1>1, <1>2
  <2>2. /\ o1 \in Seq(T) /\ Len(o1) = Len(o) + Len(t)
        /\ \A k \in 1 .. Len(o) : o1[k] = o[k]
        /\ \A k \in Len(o) + 1 .. Len(o) + Len(t) : o1[k] = t[k - Len(o)]
    BY <1>4, <1>5, Concat
  <2> QED
    BY <1>0, <2>1, <2>2, Zenon
<1>7. /\ p1 \in Seq(PartSet) /\ Len(p1) = e
      /\ \A k \in 1 .. n : p1[k] = p[k]
      /\ \A k \in n + 1 .. e : p1[k] = u[k - n]
  <2>1. Len(p) + Len(u) = e
    BY <1>0, <1>1, <1>2
  <2>2. /\ p1 \in Seq(PartSet) /\ Len(p1) = Len(p) + Len(u)
        /\ \A k \in 1 .. Len(p) : p1[k] = p[k]
        /\ \A k \in Len(p) + 1 .. Len(p) + Len(u) : p1[k] = u[k - Len(p)]
    <3>1. p \in Seq(PartSet) /\ u \in Seq(PartSet) /\ p1 = p \o u
      BY <1>1, <1>2, <1>4, Zenon
    <3> QED
      BY <3>1, Concat
  <2> QED
    BY <1>1, <2>1, <2>2, Zenon
<1>8. ASSUME NEW k \in n + 1 .. e
      PROVE  /\ a + k - n - 1 \in a .. q - 1
             /\ o1[k] = Text(fmt[a + k - n - 1]) /\ p1[k].kind = "text"
             /\ p1[k].first = a + k - n - 1 /\ p1[k].last = a + k - n - 1
  <2> DEFINE b == a + k - n - 1
  <2>1. /\ k - n \in 1 .. q - a /\ a + (k - n) - 1 = b
        /\ b \in Nat /\ b \in a .. q - 1
    BY <1>0, <1>1
  <2> HIDE DEF b
  <2>2. t[k - n] = Text(fmt[b]) /\ u[k - n] = Part("text", b, b)
    BY <1>2, <2>1, Zenon
  <2>3. o1[k] = Text(fmt[b]) /\ p1[k] = Part("text", b, b)
    BY <1>6, <1>7, <2>2, Zenon
  <2>4. "text" \in PartKinds
    BY DEF PartKinds
  <2>5. p1[k].kind = "text" /\ p1[k].first = b /\ p1[k].last = b
    BY <2>1, <2>3, <2>4, PartFields
  <2> QED
    BY <2>1, <2>3, <2>5, Zenon DEF b
<1>9. Aligned(o1, p1)
  BY <1>6, <1>7, Zenon DEF Aligned
<1>10. WithText(o, p, a, q, n, e, o1, p1)
  BY <1>0, <1>1, <1>6, <1>7, <1>8, <1>9, Zenon DEF WithText
<1> QED
  BY <1>10, Zenon DEF n, e, o1, p1

(* Plain text continues the parts read so far. *)
LEMMA TextRead ==
    ASSUME NEW o, NEW p, Aligned(o, p), NEW a, NEW q, PlainText(a, q), ReadTo(o, p, a)
    PROVE  ReadTo(o \o Texts(a, q), p \o TextParts(a, q), q)
<1> DEFINE n == Len(o)
           e == n + q - a
           o1 == o \o Texts(a, q)
           p1 == p \o TextParts(a, q)
<1>0. WithText(o, p, a, q, n, e, o1, p1)
  BY TextWritten, Zenon
<1> HIDE DEF n, e, o1, p1
<1>1. /\ n \in Nat /\ e \in Nat /\ n <= e /\ Len(o1) = e /\ n = Len(o)
      /\ \A k \in 1 .. n : o1[k] = o[k] /\ p1[k] = p[k]
      /\ \A k \in n + 1 .. e :
           /\ a + k - n - 1 \in a .. q - 1
           /\ o1[k] = Text(fmt[a + k - n - 1]) /\ p1[k].kind = "text"
           /\ p1[k].first = a + k - n - 1 /\ p1[k].last = a + k - n - 1
  BY <1>0, Zenon DEF WithText
<1>2. a \in Nat /\ q \in Nat /\ a + e - n = q /\ a = StartOf(p, n + 1)
  <2>1. a \in Nat \ {0} /\ q \in Nat /\ a <= q
    BY Zenon DEF PlainText
  <2>2. e = n + q - a /\ n \in Nat
    BY <1>0, Zenon DEF WithText
  <2>3. a + e - n = q
    BY <2>1, <2>2
  <2>4. a = StartOf(p, n + 1)
    BY <1>1, Zenon DEF ReadTo
  <2> QED
    BY <2>1, <2>3, <2>4, Zenon
<1>3. ASSUME NEW k \in 1 .. n
      PROVE  StartOf(p1, k) = StartOf(p, k)
  <2>1. k = 1 \/ k - 1 \in 1 .. n
    BY <1>1
  <2> QED
    BY <1>1, <2>1, Zenon DEF StartOf
<1>4. StartOf(p1, n + 1) = a
  <2>1. n \in Nat /\ (n + 1 = 1 \/ n + 1 - 1 \in 1 .. n)
    BY <1>1
  <2>2. n + 1 = 1 \/ p1[n + 1 - 1] = p[n + 1 - 1]
    BY <1>1, <2>1, Zenon
  <2>3. StartOf(p1, n + 1) = StartOf(p, n + 1)
    BY <2>1, <2>2 DEF StartOf
  <2> QED
    BY <1>2, <2>3, Zenon
<1>5. ASSUME NEW k \in n + 1 .. e + 1
      PROVE  StartOf(p1, k) = a + k - n - 1
  <2>1. CASE k = n + 1
    BY <1>1, <1>2, <1>4, <2>1
  <2>2. CASE k # n + 1
    <3>1. k - 1 \in n + 1 .. e /\ k # 1
      BY <1>1, <2>2
    <3>2. StartOf(p1, k) = a + (k - 1) - n - 1 + 1
      BY <1>1, <3>1, Zenon DEF StartOf
    <3> QED
      BY <1>1, <1>2, <3>2
  <2> QED
    BY <2>1, <2>2
<1>6. ASSUME NEW k \in 1 .. e
      PROVE  /\ p1[k].first = StartOf(p1, k)
             /\ p1[k].kind = "text" => IsText(o1[k], p1[k])
             /\ p1[k].kind # "text" => IsField(o1[k], p1[k])
  <2>1. CASE k \in 1 .. n
    <3>1. o1[k] = o[k] /\ p1[k] = p[k] /\ StartOf(p1, k) = StartOf(p, k)
      BY <1>1, <1>3, <2>1, Zenon
    <3>2. /\ p[k].first = StartOf(p, k)
          /\ p[k].kind = "text" => IsText(o[k], p[k])
          /\ p[k].kind # "text" => IsField(o[k], p[k])
      BY <2>1, Zenon DEF ReadTo, n
    <3> QED
      BY <3>1, <3>2, Zenon
  <2>2. CASE k \in n + 1 .. e
    <3>1. k \in n + 1 .. e + 1
      BY <1>1, <2>2
    <3>2. /\ o1[k] = Text(fmt[a + k - n - 1]) /\ p1[k].kind = "text"
          /\ p1[k].first = a + k - n - 1 /\ p1[k].last = a + k - n - 1
          /\ a + k - n - 1 \in a .. q - 1
          /\ StartOf(p1, k) = a + k - n - 1
      BY <1>1, <1>5, <2>2, <3>1, Zenon
    <3> QED
      BY <3>2, Zenon DEF IsText, PlainText
  <2> QED
    BY <1>1, <2>1, <2>2
<1>7. StartOf(p1, e + 1) = q
  <2>1. e + 1 \in n + 1 .. e + 1 /\ a + (e + 1) - n - 1 = q
    BY <1>1, <1>2
  <2> QED
    BY <1>5, <2>1, Zenon
<1>8. ReadTo(o1, p1, q)
  BY <1>1, <1>6, <1>7, Zenon DEF ReadTo
<1> QED
  BY <1>8, Zenon DEF o1, p1

(* It is made of no automatic field. *)
LEMMA TextUsed ==
    ASSUME NEW o, NEW p, Aligned(o, p), NEW a, NEW q, PlainText(a, q),
           NEW c, Used(o, p, c)
    PROVE  Used(o \o Texts(a, q), p \o TextParts(a, q), c)
<1> DEFINE n == Len(o)
           e == n + q - a
           o1 == o \o Texts(a, q)
           p1 == p \o TextParts(a, q)
<1>0. WithText(o, p, a, q, n, e, o1, p1)
  BY TextWritten, Zenon
<1> HIDE DEF n, e, o1, p1
<1>1. /\ n \in Nat /\ e \in Nat /\ n <= e /\ Len(o1) = e /\ n = Len(o)
      /\ \A k \in 1 .. n : o1[k] = o[k] /\ p1[k] = p[k]
      /\ \A k \in n + 1 .. e : p1[k].kind = "text"
  BY <1>0, Zenon DEF WithText
<1>2. \A k \in 1 .. n : k \in 1 .. e
  BY <1>1
<1>3. ASSUME NEW k \in 1 .. e, p1[k].kind = "automatic"
      PROVE  k \in 1 .. n /\ p[k].kind = "automatic" /\ o1[k] = o[k]
  <2>1. k \in 1 .. n \/ k \in n + 1 .. e
    BY <1>1
  <2>2. k \in 1 .. n
    BY <1>1, <1>3, <2>1, "text" # "automatic", Zenon
  <2> QED
    BY <1>1, <1>3, <2>2, Zenon
<1>4. ASSUME NEW k \in 1 .. n, p[k].kind = "automatic"
      PROVE  k \in 1 .. e /\ p1[k].kind = "automatic" /\ o1[k] = o[k]
  BY <1>1, <1>2, <1>4, Zenon
<1>5. Used(o1, p1, c)
  <2>1. \A k \in 1 .. e : p1[k].kind = "automatic" => o1[k].arg \in 0 .. c - 1
    BY <1>1, <1>3, Zenon DEF Used
  <2>2. ASSUME NEW i \in 0 .. c - 1
        PROVE  \E k \in 1 .. e : p1[k].kind = "automatic" /\ o1[k].arg = i
    <3>1. PICK k \in 1 .. n : p[k].kind = "automatic" /\ o[k].arg = i
      BY <1>1, Zenon DEF Used
    <3> QED
      BY <1>4, <3>1, Zenon
  <2>3. ASSUME NEW k \in 1 .. e, NEW l \in 1 .. e, k < l,
               p1[k].kind = "automatic", p1[l].kind = "automatic"
        PROVE  o1[k].arg < o1[l].arg
    <3>1. /\ k \in 1 .. n /\ p[k].kind = "automatic" /\ o1[k] = o[k]
          /\ l \in 1 .. n /\ p[l].kind = "automatic" /\ o1[l] = o[l]
      BY <1>3, <2>3, Zenon
    <3> QED
      BY <1>1, <2>3, <3>1, Zenon DEF Used
  <2> QED
    BY <1>1, <2>1, <2>2, <2>3, Zenon DEF Used
<1> QED
  BY <1>5, Zenon DEF o1, p1

(* o1 and p1 are o and p with one more element, which is x made of P. *)
WithPart(o, p, x, P, n, o1, p1) ==
    /\ n = Len(o) /\ n \in Nat
    /\ Aligned(o1, p1) /\ Len(o1) = n + 1
    /\ \A k \in 1 .. n : o1[k] = o[k] /\ p1[k] = p[k]
    /\ o1[n + 1] = x /\ p1[n + 1] = P

(* Both get that element and stay aligned. *)
LEMMA PartWritten ==
    ASSUME NEW o, NEW p, Aligned(o, p), NEW x, NEW P \in PartSet
    PROVE  WithPart(o, p, x, P, Len(o), Append(o, x), Append(p, P))
<1>1. PICK S : o \in Seq(S)
  BY Zenon DEF Aligned
<1> DEFINE T == S \cup {x}
<1>2. o \in Seq(T) /\ x \in T
  BY <1>1
<1> HIDE DEF T
<1>3. /\ Append(o, x) \in Seq(T) /\ Len(Append(o, x)) = Len(o) + 1
      /\ \A k \in 1 .. Len(o) : Append(o, x)[k] = o[k]
      /\ Append(o, x)[Len(o) + 1] = x
  BY <1>2, Appended, Zenon
<1>4. p \in Seq(PartSet) /\ Len(p) = Len(o)
  BY Zenon DEF Aligned
<1>5. /\ Append(p, P) \in Seq(PartSet) /\ Len(Append(p, P)) = Len(o) + 1
      /\ \A k \in 1 .. Len(o) : Append(p, P)[k] = p[k]
      /\ Append(p, P)[Len(o) + 1] = P
  <2>1. /\ Append(p, P) \in Seq(PartSet) /\ Len(Append(p, P)) = Len(p) + 1
        /\ \A k \in 1 .. Len(p) : Append(p, P)[k] = p[k]
        /\ Append(p, P)[Len(p) + 1] = P
    BY <1>4, Appended, Zenon
  <2> QED
    BY <1>4, <2>1, Zenon
<1>6. Len(o) \in Nat
  BY <1>2
<1> QED
  BY <1>3, <1>5, <1>6, Zenon DEF WithPart, Aligned

(* A part that begins where the others end continues them. *)
LEMMA PartRead ==
    ASSUME NEW o, NEW p, Aligned(o, p), NEW x, NEW P \in PartSet,
           ReadTo(o, p, P.first),
           P.kind = "text" => IsText(x, P),
           P.kind # "text" => IsField(x, P)
    PROVE  ReadTo(Append(o, x), Append(p, P), P.last + 1)
<1> DEFINE n == Len(o)
           o1 == Append(o, x)
           p1 == Append(p, P)
<1>0. WithPart(o, p, x, P, n, o1, p1)
  BY PartWritten, Zenon
<1> HIDE DEF n, o1, p1
<1>1. /\ n \in Nat /\ n = Len(o) /\ Len(o1) = n + 1
      /\ \A k \in 1 .. n : o1[k] = o[k] /\ p1[k] = p[k]
      /\ o1[n + 1] = x /\ p1[n + 1] = P
  BY <1>0, Zenon DEF WithPart
<1>2. n \in Nat
  BY <1>1, Zenon
<1>3. ASSUME NEW k \in 1 .. n + 1
      PROVE  StartOf(p1, k) = StartOf(p, k)
  <2>1. k \in Nat /\ (k = 1 \/ k - 1 \in 1 .. n)
    BY <1>2
  <2>2. k = 1 \/ p1[k - 1] = p[k - 1]
    BY <1>1, <2>1, Zenon
  <2> QED
    BY <2>1, <2>2 DEF StartOf
<1>4. ASSUME NEW k \in 1 .. n + 1
      PROVE  /\ p1[k].first = StartOf(p1, k)
             /\ p1[k].kind = "text" => IsText(o1[k], p1[k])
             /\ p1[k].kind # "text" => IsField(o1[k], p1[k])
  <2>1. StartOf(p1, k) = StartOf(p, k)
    BY <1>3, Zenon
  <2>2. CASE k \in 1 .. n
    <3>1. o1[k] = o[k] /\ p1[k] = p[k]
      BY <1>1, <2>2, Zenon
    <3>2. /\ p[k].first = StartOf(p, k)
          /\ p[k].kind = "text" => IsText(o[k], p[k])
          /\ p[k].kind # "text" => IsField(o[k], p[k])
      BY <1>1, <2>2, Zenon DEF ReadTo
    <3> QED
      BY <2>1, <3>1, <3>2, Zenon
  <2>3. CASE k = n + 1
    BY <1>1, <2>1, <2>3, Zenon DEF ReadTo
  <2> QED
    BY <1>2, <2>2, <2>3
<1>5. StartOf(p1, n + 1 + 1) = p1[n + 1].last + 1
  BY <1>2 DEF StartOf
<1>6. ReadTo(o1, p1, P.last + 1)
  BY <1>1, <1>4, <1>5, Zenon DEF ReadTo
<1> QED
  BY <1>6, Zenon DEF o1, p1

(* An automatic field uses the next argument, and nothing else does. *)
LEMMA PartUsed ==
    ASSUME NEW o, NEW p, Aligned(o, p), NEW x, NEW P \in PartSet,
           NEW c \in Nat, Used(o, p, c), NEW d \in Nat,
           IF P.kind = "automatic" THEN x.arg = c /\ d = c + 1 ELSE d = c
    PROVE  Used(Append(o, x), Append(p, P), d)
<1> DEFINE n == Len(o)
           o1 == Append(o, x)
           p1 == Append(p, P)
<1>0. WithPart(o, p, x, P, n, o1, p1)
  BY PartWritten, Zenon
<1> HIDE DEF n, o1, p1
<1>1. /\ n \in Nat /\ n = Len(o) /\ Len(o1) = n + 1
      /\ \A k \in 1 .. n : o1[k] = o[k] /\ p1[k] = p[k]
      /\ o1[n + 1] = x /\ p1[n + 1] = P
  BY <1>0, Zenon DEF WithPart
<1>2. n \in Nat
  BY <1>1, Zenon
<1>3. \A k \in 1 .. n + 1 : k \in 1 .. n \/ k = n + 1
  BY <1>2
<1>4. (\A k \in 1 .. n : k \in 1 .. n + 1) /\ n + 1 \in 1 .. n + 1
  BY <1>2
<1>5. ASSUME NEW k \in 1 .. n + 1, p1[k].kind = "automatic"
      PROVE  \/ k \in 1 .. n /\ p[k].kind = "automatic" /\ o1[k] = o[k]
             \/ k = n + 1 /\ P.kind = "automatic" /\ o1[k] = x
  BY <1>1, <1>3, <1>5, Zenon
<1>6. \A i : i \in 0 .. c - 1 => i \in 0 .. d - 1
  OBVIOUS
<1>7. P.kind = "automatic" => /\ x.arg = c /\ c \in 0 .. d - 1
                              /\ \A i \in 0 .. d - 1 : i \in 0 .. c - 1 \/ i = c
  OBVIOUS
<1>8. \A k \in 1 .. n + 1 : p1[k].kind = "automatic" => o1[k].arg \in 0 .. d - 1
  BY <1>1, <1>5, <1>6, <1>7, Zenon DEF Used
<1>9. ASSUME NEW i \in 0 .. d - 1
      PROVE  \E k \in 1 .. n + 1 : p1[k].kind = "automatic" /\ o1[k].arg = i
  <2>1. CASE i \in 0 .. c - 1
    <3>1. PICK k \in 1 .. n : p[k].kind = "automatic" /\ o[k].arg = i
      BY <1>1, <2>1, Zenon DEF Used
    <3> QED
      BY <1>1, <1>4, <3>1, Zenon
  <2>2. CASE i \notin 0 .. c - 1
    <3>1. P.kind = "automatic" /\ i = c
      BY <1>7, <2>2, Zenon
    <3> QED
      BY <1>1, <1>4, <1>7, <3>1, Zenon
  <2> QED
    BY <2>1, <2>2, Zenon
<1>10. ASSUME NEW k \in 1 .. n + 1, NEW l \in 1 .. n + 1, k < l,
              p1[k].kind = "automatic", p1[l].kind = "automatic"
       PROVE  o1[k].arg < o1[l].arg
  <2>1. k \in 1 .. n
    BY <1>2, <1>10
  <2>2. p[k].kind = "automatic" /\ o1[k] = o[k] /\ o[k].arg \in 0 .. c - 1
    BY <1>1, <1>10, <2>1, Zenon DEF Used
  <2>3. CASE l \in 1 .. n
    <3>1. p[l].kind = "automatic" /\ o1[l] = o[l]
      BY <1>1, <1>10, <2>3, Zenon
    <3> QED
      BY <1>1, <1>10, <2>1, <2>2, <2>3, <3>1, Zenon DEF Used
  <2>4. CASE l = n + 1
    <3>1. o1[l].arg = c
      BY <1>1, <1>7, <1>10, <2>4, Zenon
    <3>2. \A i \in 0 .. c - 1 : i < c
      OBVIOUS
    <3> QED
      BY <2>2, <3>1, <3>2, Zenon
  <2> QED
    BY <1>3, <2>3, <2>4, Zenon
<1>11. Used(o1, p1, d)
  BY <1>1, <1>8, <1>9, <1>10, Zenon DEF Used
<1> QED
  BY <1>11, Zenon DEF o1, p1

(* Text and then a part that begins at the brace, as Put writes them. *)
LEMMA PutPart ==
    ASSUME FormatIInv, NEW x, NEW P \in PartSet, P.first = Brace,
           PlainText(fpos, Brace), Put(x, P),
           P.kind = "text" => IsText(x, P),
           P.kind # "text" => IsField(x, P),
           NEW d \in Nat,
           IF P.kind = "automatic" THEN x.arg = arg_index /\ d = arg_index + 1
                                   ELSE d = arg_index
    PROVE  Aligned(oss', parts') /\ ReadTo(oss', parts', P.last + 1) /\ Used(oss', parts', d)
<1> DEFINE o == oss \o Texts(fpos, Brace)
           p == parts \o TextParts(fpos, Brace)
<1>1. /\ Aligned(oss, parts) /\ ReadTo(oss, parts, fpos) /\ Used(oss, parts, arg_index)
      /\ oss' = Append(o, x) /\ parts' = Append(p, P)
  BY Zenon DEF FormatIInv, Put
<1>2. arg_index \in Nat
  BY DEF FormatIInv, FormatTypes
<1>3. Aligned(o, p)
  BY <1>1, TextWritten, Zenon DEF WithText
<1>4. ReadTo(o, p, P.first)
  BY <1>1, TextRead, Zenon
<1>5. Used(o, p, arg_index)
  BY <1>1, TextUsed, Zenon
<1> HIDE DEF o, p
<1>6. Aligned(Append(o, x), Append(p, P))
  BY <1>3, PartWritten, Zenon DEF WithPart
<1>7. ReadTo(Append(o, x), Append(p, P), P.last + 1)
  BY <1>3, <1>4, PartRead, Zenon
<1>8. Used(Append(o, x), Append(p, P), d)
  BY <1>2, <1>3, <1>5, PartUsed, Zenon
<1> QED
  BY <1>1, <1>6, <1>7, <1>8, Zenon

(* ReadTo only looks at the format string and the number of arguments. *)
LEMMA ReadToPrimed ==
    ASSUME UNCHANGED <<fmt, args>>, ReadTo(oss', parts', fpos')
    PROVE  ReadTo(oss, parts, fpos)'
  BY Zenon DEF ReadTo, IsText, IsField

(* The brace that was found. *)
LEMMA BraceFound ==
    ASSUME FormatTypes, Brace # 0
    PROVE  /\ Brace \in fpos .. Len(fmt) /\ Brace \in Nat \ {0}
           /\ fmt[Brace] \in Braces /\ PlainText(fpos, Brace)
           /\ fpos \in Nat \ {0} /\ Len(fmt) \in Nat
<1>1. fmt \in Seq(Characters) /\ fpos \in Nat \ {0} /\ Len(fmt) \in Nat
  BY DEF FormatTypes
<1>2. /\ Brace \in fpos .. Len(fmt) /\ fmt[Brace] \in Braces
      /\ \A i \in fpos .. Brace - 1 : fmt[i] \notin Braces
  BY <1>1, FindFirst, Zenon DEF Brace
<1>3. Brace \in Nat \ {0} /\ fpos <= Brace /\ Brace <= Len(fmt) + 1
  BY <1>1, <1>2
<1> QED
  BY <1>1, <1>2, <1>3, Zenon DEF PlainText

(* A field ends at the first closing brace. *)
LEMMA FieldFound ==
    ASSUME FormatTypes, AtField
    PROVE  /\ FieldEnd \in Brace + 1 .. Len(fmt) /\ FieldEnd \in Nat
           /\ fmt[FieldEnd] = Shut
           /\ \A i \in Brace + 1 .. FieldEnd - 1 : fmt[i] # Shut
<1>1. Brace # 0 /\ FieldEnd # 0
  BY Zenon DEF AtField, AtSingle
<1>2. fmt \in Seq(Characters) /\ Brace + 1 \in Nat \ {0} /\ Len(fmt) \in Nat
  <2>1. Brace \in Nat /\ fmt \in Seq(Characters)
    BY <1>1, BraceFound DEF FormatTypes
  <2> QED
    BY <2>1
<1>3. /\ FieldEnd \in Brace + 1 .. Len(fmt) /\ fmt[FieldEnd] \in {Shut}
      /\ \A i \in Brace + 1 .. FieldEnd - 1 : fmt[i] \notin {Shut}
      /\ FieldEnd \in Nat
  BY <1>1, <1>2, FindFirst, Zenon DEF FieldEnd
<1> QED
  BY <1>3, Zenon

(* Nothing in the field closes it earlier. *)
LEMMA FieldSpecPlain ==
    ASSUME FormatTypes, AtField
    PROVE  \A i \in DOMAIN FieldSpec : FieldSpec[i] # Shut
<1> DEFINE b == Brace
           f == FieldEnd
<1>1. b \in Nat \ {0} /\ fmt \in Seq(Characters) /\ Len(fmt) \in Nat
  BY BraceFound DEF AtField, AtSingle, FormatTypes
<1>2. /\ f \in b + 1 .. Len(fmt) /\ f \in Nat
      /\ \A i \in b + 1 .. f - 1 : fmt[i] # Shut
  BY FieldFound, Zenon
<1>3. FieldSpec = SubSeq(fmt, b + 1, f - 1)
  BY Zenon DEF FieldSpec
<1> HIDE DEF b, f
<1>4. /\ DOMAIN SubSeq(fmt, b + 1, f - 1) = 1 .. f - 1 - b
      /\ \A i \in 1 .. f - 1 - b : SubSeq(fmt, b + 1, f - 1)[i] = fmt[b + i]
  BY <1>1, <1>2
<1>5. \A i \in 1 .. f - 1 - b : b + i \in b + 1 .. f - 1
  BY <1>1, <1>2
<1> QED
  BY <1>2, <1>3, <1>4, <1>5, Zenon

(* What is left of a spec that asks for nothing. *)
LEMMA NoSpec == Field(<<>>).spec = <<>>
<1>1. {i \in 1 .. Len(<<>>) : <<>>[i] \in {":"}} = {}
  OBVIOUS
<1>2. find_first_of(<<>>, {":"}, 1) = 0
  BY <1>1, Zenon DEF find_first_of
<1> QED
  BY <1>2 DEF Field

(* format_impl leaves the stream idle. *)
LEMMA LeftIdle ==
    ASSUME NEW os \in IdleStreams, NEW kind, NEW spec
    PROVE  AfterPrinting(os, kind, spec) \in IdleStreams
<1> DEFINE p == Printing(os, kind, spec)
           q == AfterPrinting(os, kind, spec)
           n == Notation(spec)
           S(c) == StartsIn(spec, {c})
<1>1. n \in {"fixed", "scientific", "default", "unset"}
  BY Zenon DEF Notation
<1>2. StartsIn(spec, {"x", "X"}) <=> S("x") \/ S("X")
  BY Zenon DEF StartsIn
<1>3. ~ (S("x") /\ S("X")) /\ ~ (S("x") /\ S("o")) /\ ~ (S("X") /\ S("o"))
  BY DEF StartsIn
<1>4. "int" # "float"
  OBVIOUS
<1>5. CASE kind = "int" /\ S("x")
  <2>1. p = [os EXCEPT !.base = "hex"]
    BY <1>3, <1>4, <1>5, Zenon DEF Printing
  <2>2. q = [p EXCEPT !.base = "dec", !.letters = "lower"]
    BY <1>2, <1>3, <1>4, <1>5, Zenon DEF AfterPrinting
  <2> HIDE DEF p, q
  <2> QED
    BY <2>1, <2>2, Zenon DEF IdleStreams, q
<1>6. CASE kind = "int" /\ S("X")
  <2>1. p = [os EXCEPT !.base = "hex", !.letters = "upper"]
    BY <1>3, <1>4, <1>6, Zenon DEF Printing
  <2>2. q = [p EXCEPT !.base = "dec", !.letters = "lower"]
    BY <1>2, <1>3, <1>4, <1>6, Zenon DEF AfterPrinting
  <2> HIDE DEF p, q
  <2> QED
    BY <2>1, <2>2, Zenon DEF IdleStreams, q
<1>7. CASE kind = "int" /\ S("o")
  <2>1. p = [os EXCEPT !.base = "oct"]
    BY <1>3, <1>4, <1>7, Zenon DEF Printing
  <2>2. q = [p EXCEPT !.base = "dec"]
    BY <1>2, <1>3, <1>4, <1>7, Zenon DEF AfterPrinting
  <2> HIDE DEF p, q
  <2> QED
    BY <2>1, <2>2, Zenon DEF IdleStreams, q
<1>s. S(".2") => n = "unset"
  BY DEF StartsIn, Notation
<1>8. CASE kind = "float" /\ n # "unset"
  <2> DEFINE l == IF spec \in Uppercase THEN "upper" ELSE os.letters
  <2>1. p = [os EXCEPT !.notation = n, !.letters = l]
    BY <1>4, <1>8, <1>s, Zenon DEF Printing
  <2>2. q = IF n \in {"scientific", "default"} THEN [p EXCEPT !.letters = "lower"] ELSE p
    BY <1>4, <1>8, Zenon DEF AfterPrinting
  <2>3. n = "fixed" => l = os.letters
    BY DEF Notation, Uppercase
  <2> HIDE DEF p, q, n, l
  <2> QED
    BY <1>1, <1>8, <2>1, <2>2, <2>3, Zenon DEF IdleStreams, q
<1>9. CASE kind = "float" /\ S(".2")
  <2>1. p = [os EXCEPT !.notation = "fixed", !.precision = "2"]
    BY <1>4, <1>9, <1>s, Zenon DEF Printing
  <2>2. n \notin {"scientific", "default"}
    BY <1>9, <1>s
  <2>3. q = p
    BY <1>4, <1>9, <2>2, Zenon DEF AfterPrinting
  <2> HIDE DEF p, q
  <2> QED
    BY <2>1, <2>3, Zenon DEF IdleStreams, q
<1>10. CASE /\ kind = "int" => ~S("x") /\ ~S("X") /\ ~S("o")
            /\ kind = "float" => n = "unset" /\ ~S(".2")
  <2>1. p = os
    BY <1>10, Zenon DEF Printing
  <2>2. kind = "float" => n \notin {"scientific", "default"}
    BY <1>10
  <2>3. q = p
    BY <1>2, <1>10, <2>2, Zenon DEF AfterPrinting
  <2> QED
    BY <2>1, <2>3, Zenon
<1> QED
  BY <1>5, <1>6, <1>7, <1>8, <1>9, <1>10, Zenon

(* A step of the loop that writes. *)
LEMMA Written ==
    ASSUME FormatIInv, outcome = "running", UNCHANGED <<fmt, args, outcome>>,
           fpos' \in 1 .. Len(fmt) + 1, arg_index' \in 0 .. Len(args),
           Aligned(oss', parts'), ReadTo(oss', parts', fpos'),
           Used(oss', parts', arg_index'), stream' \in IdleStreams
    PROVE  FormatIInv'
<1>1. FormatTypes' /\ outcome' # "returned"
  BY Zenon DEF FormatIInv, FormatTypes
<1>2. ReadTo(oss, parts, fpos)'
  BY ReadToPrimed, Zenon
<1>3. Aligned(oss, parts)' /\ Used(oss, parts, arg_index)'
  BY Zenon DEF Aligned, Used
<1> QED
  BY <1>1, <1>2, <1>3, Zenon DEF FormatIInv

(* An escaped brace is read. *)
LEMMA EscapedBraceStep ==
    ASSUME FormatIInv, EscapedBrace
    PROVE  FormatIInv'
<1> DEFINE b == Brace
           x == Text(fmt[b])
           P == Part("text", b, b + 1)
<1>1. /\ FormatTypes /\ arg_index \in Nat /\ arg_index \in 0 .. Len(args)
      /\ stream \in IdleStreams
  BY DEF FormatIInv, FormatTypes
<1>2. /\ Looping /\ Brace # 0 /\ Doubled
      /\ Put(Text(fmt[Brace]), Part("text", Brace, AfterEscape(Brace) - 1))
      /\ fpos' = AfterEscape(Brace)
      /\ UNCHANGED <<fmt, args, arg_index, stream, outcome>>
  BY Zenon DEF EscapedBrace
<1>3. /\ b \in Nat \ {0} /\ b < Len(fmt) /\ Len(fmt) \in Nat
      /\ fmt[b] \in Braces /\ fmt[b + 1] = fmt[b] /\ PlainText(fpos, b)
  BY <1>1, <1>2, BraceFound, Zenon DEF Doubled
<1> HIDE DEF b
<1>4. AfterEscape(b) = b + 2 /\ AfterEscape(b) - 1 = b + 1 /\ b + 1 + 1 = b + 2
  BY <1>3 DEF AfterEscape
<1>5. P \in PartSet /\ P.kind = "text" /\ P.first = b /\ P.last = b + 1
  <2>1. "text" \in PartKinds /\ b \in Nat /\ b + 1 \in Nat
    BY <1>3 DEF PartKinds
  <2> QED
    BY <2>1, PartFields
<1> HIDE DEF P, x
<1>6. Put(x, P) /\ fpos' = P.last + 1 /\ P.first = Brace /\ PlainText(fpos, Brace)
  BY <1>2, <1>3, <1>4, <1>5, Zenon DEF x, P, b
<1>7. IsText(x, P)
  BY <1>3, <1>5, Zenon DEF IsText, x
<1>8. "text" # "automatic"
  OBVIOUS
<1>9. /\ Aligned(oss', parts') /\ ReadTo(oss', parts', P.last + 1)
      /\ Used(oss', parts', arg_index)
  BY <1>1, <1>5, <1>6, <1>7, <1>8, PutPart, Zenon
<1>10. fpos' \in 1 .. Len(fmt) + 1
  BY <1>3, <1>5, <1>6
<1> QED
  BY <1>1, <1>2, <1>6, <1>9, <1>10, Written, Zenon DEF Looping

(* What a field prints is what its part says. *)
LEMMA FieldStep ==
    ASSUME FormatIInv, AtField, NEW i, NEW kind \in {"automatic", "numbered"},
           PrintArg(i, Field(FieldSpec).spec, kind),
           i \in 0 .. Len(args) - 1,
           kind = "automatic" <=> FieldSpec = <<>>,
           kind = "numbered" => Field(FieldSpec).valid /\ i = Field(FieldSpec).index,
           arg_index' \in 0 .. Len(args),
           IF kind = "automatic" THEN i = arg_index /\ arg_index' = arg_index + 1
                                 ELSE arg_index' = arg_index
    PROVE  FormatIInv'
<1> DEFINE spec == Field(FieldSpec).spec
           form == Form(stream, args[i + 1], spec)
           x == Printed(i, form)
           P == Part(kind, Brace, FieldEnd)
<1>0. /\ Put(x, P) /\ fpos' = FieldEnd + 1 /\ UNCHANGED <<fmt, args, outcome>>
      /\ stream' = AfterPrinting(stream, args[i + 1], spec)
      /\ stream \in IdleStreams
  BY Zenon DEF PrintArg, FormatIInv
<1>1. FormatTypes /\ outcome = "running" /\ Brace # 0 /\ fmt[Brace] = Open
  BY Zenon DEF FormatIInv, AtField, AtSingle, Looping
<1>2. /\ Brace \in Nat \ {0} /\ Len(fmt) \in Nat /\ PlainText(fpos, Brace)
      /\ FieldEnd \in Brace + 1 .. Len(fmt) /\ FieldEnd \in Nat
      /\ fmt[FieldEnd] = Shut
  BY <1>1, BraceFound, FieldFound, Zenon
<1>3. P \in PartSet /\ P.kind = kind /\ P.first = Brace /\ P.last = FieldEnd
  <2>1. kind \in PartKinds /\ Brace \in Nat
    BY <1>2 DEF PartKinds
  <2> QED
    BY <1>2, <2>1, PartFields
<1>4. x.arg = i /\ x.form = form
  BY DEF Printed
<1>5. Put(x, P) /\ stream' \in IdleStreams
  BY <1>0, LeftIdle, Zenon
<1> HIDE DEF x, P
<1>6. IsField(x, P)
  <2>1. SubSeq(fmt, P.first + 1, P.last - 1) = FieldSpec
    BY <1>3, Zenon DEF FieldSpec
  <2> QED
    BY <1>0, <1>1, <1>2, <1>3, <1>4, <2>1, FieldSpecPlain, Zenon DEF IsField
<1>7. arg_index' \in Nat /\ P.kind # "text"
  <2>1. arg_index' \in Nat
    BY DEF FormatTypes
  <2>2. kind # "text"
    OBVIOUS
  <2> QED
    BY <1>3, <2>1, <2>2, Zenon
<1>8. /\ Aligned(oss', parts') /\ ReadTo(oss', parts', P.last + 1)
      /\ Used(oss', parts', arg_index')
  BY <1>2, <1>3, <1>4, <1>5, <1>6, <1>7, PutPart, Zenon
<1>9. fpos' \in 1 .. Len(fmt) + 1
  BY <1>0, <1>2
<1> QED
  BY <1>0, <1>1, <1>3, <1>5, <1>8, <1>9, Written, Zenon

(* The text after the last brace is read. *)
LEMMA RestOfTextStep ==
    ASSUME FormatIInv, RestOfText
    PROVE  FormatIInv'
<1> DEFINE q == Len(fmt) + 1
<1>1. /\ fmt \in Seq(Characters) /\ fpos \in Nat \ {0} /\ Len(fmt) \in Nat
      /\ fpos <= q /\ q \in Nat /\ q - 1 = Len(fmt)
      /\ arg_index \in 0 .. Len(args) /\ stream \in IdleStreams
  BY DEF FormatIInv, FormatTypes
<1>2. /\ Looping /\ Brace = 0
      /\ oss' = oss \o Texts(fpos, q) /\ parts' = parts \o TextParts(fpos, q)
      /\ fpos' = q /\ UNCHANGED <<fmt, args, arg_index, stream, outcome>>
  BY Zenon DEF RestOfText
<1>3. \A i \in fpos .. Len(fmt) : fmt[i] \notin Braces
  BY <1>1, <1>2, FindFirst, Zenon DEF Brace
<1>4. q <= Len(fmt) + 1 /\ q \in 1 .. Len(fmt) + 1
  BY <1>1
<1> HIDE DEF q
<1>5. PlainText(fpos, q)
  BY <1>1, <1>3, <1>4, Zenon DEF PlainText
<1>6. Aligned(oss', parts') /\ ReadTo(oss', parts', q) /\ Used(oss', parts', arg_index)
  <2>1. Aligned(oss, parts) /\ ReadTo(oss, parts, fpos) /\ Used(oss, parts, arg_index)
    BY Zenon DEF FormatIInv
  <2>2. Aligned(oss \o Texts(fpos, q), parts \o TextParts(fpos, q))
    BY <1>5, <2>1, TextWritten, Zenon DEF WithText
  <2> QED
    BY <1>2, <1>5, <2>1, <2>2, TextRead, TextUsed, Zenon
<1> QED
  BY <1>1, <1>2, <1>4, <1>6, Written, Zenon DEF Looping

(* It holds when vformat begins. *)
LEMMA FormatIInvInit ==
    FormatInit => FormatIInv
<1> SUFFICES ASSUME FormatInit PROVE FormatIInv
  OBVIOUS
<1>1. /\ fmt \in Seq(Characters) /\ args \in Seq(Kinds)
      /\ fpos = 1 /\ arg_index = 0 /\ oss = <<>> /\ parts = <<>> /\ outcome = "running"
  BY FormatAssumption, Zenon DEF FormatInit
<1>2. FormatTypes
  BY <1>1 DEF FormatTypes
<1>3. Aligned(oss, parts)
  <2>1. <<>> \in Seq({}) /\ <<>> \in Seq(PartSet)
    OBVIOUS
  <2> QED
    BY <1>1, <2>1, Zenon DEF Aligned
<1>4. Len(oss) = 0
  BY <1>1
<1>5. ReadTo(oss, parts, fpos)
  BY <1>1, <1>4 DEF ReadTo, StartOf
<1>6. Used(oss, parts, arg_index)
  BY <1>1, <1>4 DEF Used
<1>7. stream \in IdleStreams
  BY DEF FormatInit, NewStream, IdleStreams
<1> QED
  BY <1>1, <1>2, <1>3, <1>5, <1>6, <1>7, "running" # "returned", Zenon DEF FormatIInv

(* Every step of vformat keeps it. *)
LEMMA FormatIInvNext ==
    FormatIInv /\ [FormatNext]_formatVars => FormatIInv'
<1> SUFFICES ASSUME FormatIInv, [FormatNext]_formatVars
             PROVE  FormatIInv'
  OBVIOUS
<1>0. FormatTypes /\ arg_index \in Nat /\ arg_index \in 0 .. Len(args) /\ Len(args) \in Nat
  BY DEF FormatIInv, FormatTypes
<1>1. CASE RestOfText
  BY <1>1, RestOfTextStep
<1>2. CASE EscapedBrace
  BY <1>2, EscapedBraceStep
<1>3. CASE AutomaticField
  <2>1. /\ AtField /\ FieldSpec = <<>> /\ arg_index < Len(args)
        /\ PrintArg(arg_index, Field(FieldSpec).spec, "automatic")
        /\ arg_index' = arg_index + 1
    BY <1>3, NoSpec, Zenon DEF AutomaticField
  <2>2. arg_index \in 0 .. Len(args) - 1 /\ arg_index' \in 0 .. Len(args)
    BY <1>0, <2>1
  <2>3. "automatic" # "numbered"
    OBVIOUS
  <2> QED
    BY <2>1, <2>2, <2>3, FieldStep, Zenon
<1>4. CASE NumberedField
  <2>1. /\ AtField /\ FieldSpec # <<>> /\ Field(FieldSpec).valid
        /\ Field(FieldSpec).index \in 0 .. Len(args) - 1
        /\ PrintArg(Field(FieldSpec).index, Field(FieldSpec).spec, "numbered")
        /\ arg_index' = arg_index
    BY <1>4, Zenon DEF NumberedField
  <2>2. "automatic" # "numbered"
    OBVIOUS
  <2> QED
    BY <1>0, <2>1, <2>2, FieldStep, Zenon
<1>5. ASSUME UNCHANGED <<fmt, args, fpos, arg_index, oss, stream, parts>>,
             outcome' = "returned" => fpos = Len(fmt) + 1 /\ arg_index = Len(args)
      PROVE  FormatIInv'
  <2>1. ReadTo(oss, parts, fpos)'
    <3>1. ReadTo(oss', parts', fpos')
      BY <1>5, Zenon DEF FormatIInv
    <3> QED
      BY <1>5, <3>1, ReadToPrimed, Zenon
  <2>2. Aligned(oss, parts)' /\ Used(oss, parts, arg_index)' /\ FormatTypes'
    BY <1>5, Zenon DEF FormatIInv, FormatTypes, Aligned, Used
  <2> QED
    BY <1>5, <2>1, <2>2, Zenon DEF FormatIInv
<1>6. ASSUME NEW what \in Errors, FormatError(what)
      PROVE  FormatIInv'
  <2>1. outcome' # "returned"
    BY <1>6 DEF FormatError, Errors
  <2> QED
    BY <1>5, <1>6, <2>1, Zenon DEF FormatError
<1>7. CASE ReturnText
  <2>1. fpos = Len(fmt) + 1 /\ arg_index = Len(args)
    BY <1>0, <1>7 DEF ReturnText, AllUsed, FormatTypes
  <2> QED
    BY <1>5, <1>7, <2>1, Zenon DEF ReturnText
<1>8. CASE UNCHANGED formatVars
  BY <1>5, <1>8, Zenon DEF formatVars, FormatIInv
<1> QED
  BY <1>1, <1>2, <1>3, <1>4, <1>6, <1>7, <1>8, Zenon DEF FormatNext

(* ReadOnce for every format string and every list of arguments. *)
THEOREM FormatReadOnce == FormatSpec => []ReadOnce
<1>1. FormatIInv => ReadOnce
  <2> SUFFICES ASSUME FormatIInv PROVE ReadOnce
    OBVIOUS
  <2>1. /\ Len(parts) = Len(oss) /\ Len(oss) \in Nat /\ fpos = StartOf(parts, Len(oss) + 1)
        /\ fmt \in Seq(Characters) /\ \E S : oss \in Seq(S)
    <3>1. Len(parts) \in Nat
      BY DEF FormatIInv, Aligned
    <3> QED
      BY <3>1, Zenon DEF FormatIInv, Aligned, ReadTo, FormatTypes
  <2>2. \A k \in 1 .. Len(oss) :
          /\ parts[k].first = IF k = 1 THEN 1 ELSE parts[k - 1].last + 1
          /\ parts[k].kind = "text" => IsText(oss[k], parts[k])
          /\ parts[k].kind # "text" => IsField(oss[k], parts[k])
    BY Zenon DEF FormatIInv, ReadTo, StartOf
  <2>3. ASSUME outcome = "returned"
        PROVE  IF oss = <<>> THEN fmt = <<>> ELSE parts[Len(oss)].last = Len(fmt)
    <3>1. fpos = Len(fmt) + 1
      BY <2>3, Zenon DEF FormatIInv
    <3>2. CASE oss = <<>>
      <4>1. Len(oss) = 0
        BY <3>2
      <4>2. Len(fmt) = 0
        BY <2>1, <3>1, <4>1 DEF StartOf
      <4> QED
        BY <2>1, <3>2, <4>2
    <3>3. CASE oss # <<>>
      <4>1. Len(oss) # 0
        <5>1. PICK S : oss \in Seq(S)
          BY <2>1
        <5> QED
          BY <3>3, <5>1
      <4>2. parts[Len(oss)].last + 1 = Len(fmt) + 1
        BY <2>1, <3>1, <4>1 DEF StartOf
      <4>3. parts[Len(oss)].last \in Nat
        <5>1. parts \in Seq(PartSet)
          BY Zenon DEF FormatIInv, Aligned
        <5>2. Len(oss) \in 1 .. Len(parts)
          BY <2>1, <4>1
        <5>3. parts[Len(oss)] \in PartSet
          BY <5>1, <5>2
        <5> QED
          BY <5>3 DEF PartSet
      <4> QED
        BY <2>1, <3>3, <4>2, <4>3
    <3> QED
      BY <3>2, <3>3, Zenon
  <2> QED
    BY <2>1, <2>2, <2>3, Zenon DEF ReadOnce
<1> QED
  BY <1>1, FormatIInvInit, FormatIInvNext, PTL DEF FormatSpec

(* ArgumentsUsed for every format string and every list of arguments. *)
THEOREM FormatUsesArguments == FormatSpec => []ArgumentsUsed
<1>1. FormatIInv => ArgumentsUsed
  <2> SUFFICES ASSUME FormatIInv, outcome = "returned"
               PROVE  /\ \A i \in 0 .. Len(args) - 1 :
                           \E k \in 1 .. Len(oss) : IsAutomatic(k) /\ oss[k].arg = i
                      /\ \A k, l \in 1 .. Len(oss) :
                           k < l /\ IsAutomatic(k) /\ IsAutomatic(l)
                             => oss[k].arg < oss[l].arg
    BY Zenon DEF ArgumentsUsed
  <2>1. Used(oss, parts, Len(args))
    BY Zenon DEF FormatIInv
  <2> QED
    BY <2>1, Zenon DEF Used, IsAutomatic
<1> QED
  BY <1>1, FormatIInvInit, FormatIInvNext, PTL DEF FormatSpec

(* Every step of the loop reads on: vformat cannot stay at a position, so  *)
(* its loop ends after at most Len(fmt) steps.                             *)
THEOREM FormatReadsOn == FormatSpec => [][outcome' = "running" => fpos' > fpos]_formatVars
<1>1. FormatIInv /\ [FormatNext]_formatVars => [outcome' = "running" => fpos' > fpos]_formatVars
  <2> SUFFICES ASSUME FormatIInv, FormatNext, outcome' = "running"
               PROVE  fpos' > fpos
    BY Zenon
  <2>1. FormatTypes
    BY Zenon DEF FormatIInv
  <2>2. Len(fmt) \in Nat /\ fpos \in Nat
    BY <2>1 DEF FormatTypes
  <2>3. CASE RestOfText
    BY <2>2, <2>3 DEF RestOfText, Looping
  <2>4. CASE EscapedBrace
    <3>1. Brace # 0 /\ fpos' = AfterEscape(Brace)
      BY <2>4, Zenon DEF EscapedBrace
    <3>2. Brace \in fpos .. Len(fmt)
      BY <2>1, <3>1, BraceFound, Zenon
    <3> QED
      BY <2>2, <3>1, <3>2 DEF AfterEscape
  <2>5. CASE AutomaticField \/ NumberedField
    <3>1. AtField /\ Brace # 0 /\ fpos' = FieldEnd + 1
      BY <2>5, Zenon DEF AutomaticField, NumberedField, PrintArg, AtField, AtSingle
    <3>2. Brace \in fpos .. Len(fmt) /\ FieldEnd \in Brace + 1 .. Len(fmt)
      BY <2>1, <3>1, BraceFound, FieldFound, Zenon
    <3> QED
      BY <2>2, <3>1, <3>2
  <2>6. ~(\E what \in Errors : FormatError(what)) /\ ~ReturnText
    BY DEF FormatError, Errors, ReturnText
  <2> QED
    BY <2>3, <2>4, <2>5, <2>6, Zenon DEF FormatNext
<1> QED
  BY <1>1, FormatIInvInit, FormatIInvNext, PTL DEF FormatSpec

-----------------------------------------------------------------------------
(* Http: sequences.                                                        *)

(* The same with names for the elements of a concatenation and of a part. *)
Joined(r, s, t) ==
    /\ Len(r) = Len(s) + Len(t)
    /\ \A k \in 1 .. Len(s) : r[k] = s[k]
    /\ \A k \in Len(s) + 1 .. Len(s) + Len(t) : r[k] = t[k - Len(s)]

PartOf(x, d, a, b) ==
    /\ Len(x) = b - a + 1
    /\ \A i \in 1 .. b - a + 1 : x[i] = d[a + i - 1]

(* A concatenation joins its sequences. *)
LEMMA ConcatJoins ==
    ASSUME NEW S, NEW s \in Seq(S), NEW t \in Seq(S)
    PROVE  s \o t \in Seq(S) /\ Joined(s \o t, s, t)
  BY Concat DEF Joined

Begins(x, d, b) == Len(x) = b /\ \A i \in 1 .. b : x[i] = d[i]

(* SubSeq from 1 on is how a sequence begins. *)
LEMMA SubSeqBegins ==
    ASSUME NEW S, NEW d \in Seq(S), NEW b \in Nat, b <= Len(d)
    PROVE  SubSeq(d, 1, b) \in Seq(S) /\ Begins(SubSeq(d, 1, b), d, b)
  BY DEF Begins

(* SubSeq is a part. *)
LEMMA SubSeqPart ==
    ASSUME NEW S, NEW d \in Seq(S), NEW a \in Nat \ {0}, NEW b \in Nat,
           a <= b + 1, b <= Len(d)
    PROVE  SubSeq(d, a, b) \in Seq(S) /\ PartOf(SubSeq(d, a, b), d, a, b)
  BY DEF PartOf

(* A part of a sequence that agrees with another sequence is that. *)
LEMMA SubSeqIs ==
    ASSUME NEW S, NEW r \in Seq(S), NEW l \in Seq(S), NEW a \in Nat,
           a + Len(l) <= Len(r), \A i \in 1 .. Len(l) : r[a + i] = l[i]
    PROVE  SubSeq(r, a + 1, a + Len(l)) = l
  OBVIOUS

(* A sequence that begins with l begins with l. *)
LEMMA Prefix ==
    ASSUME NEW S, NEW r \in Seq(S), NEW l \in Seq(S),
           Len(l) <= Len(r), \A i \in 1 .. Len(l) : r[i] = l[i]
    PROVE  SubSeq(r, 1, Len(l)) = l
  OBVIOUS

SamePart(r, t, a, b) == SubSeq(r, a, b) = SubSeq(t, a, b)

(* Sequences that agree have the same parts. *)
LEMMA SubSeqEqual ==
    ASSUME NEW S, NEW r \in Seq(S), NEW t \in Seq(S), NEW a \in Nat \ {0}, NEW b \in Nat,
           b <= Len(r), b <= Len(t), \A i \in 1 .. b : r[i] = t[i]
    PROVE  SamePart(r, t, a, b)
  BY DEF SamePart

Regrouped(a, b, c) == (a \o b) \o c = a \o (b \o c)

(* Concatenation is associative. *)
LEMMA Assoc ==
    ASSUME NEW S, NEW a \in Seq(S), NEW b \in Seq(S), NEW c \in Seq(S)
    PROVE  Regrouped(a, b, c)
  BY DEF Regrouped

(* The elements of a part of a sequence. *)
LEMMA SubSeqElements ==
    ASSUME NEW S, NEW d \in Seq(S), NEW a \in Nat \ {0}, NEW b \in Nat,
           a <= b + 1, b <= Len(d)
    PROVE  /\ SubSeq(d, a, b) \in Seq(S) /\ Len(SubSeq(d, a, b)) = b - a + 1
           /\ \A i \in 1 .. b - a + 1 : SubSeq(d, a, b)[i] = d[a + i - 1]
  OBVIOUS

(* Sequences with the same elements are equal. *)
LEMMA Same ==
    ASSUME NEW S, NEW s \in Seq(S), NEW t \in Seq(S), Len(s) = Len(t),
           \A i \in 1 .. Len(s) : s[i] = t[i]
    PROVE  s = t
  OBVIOUS

-----------------------------------------------------------------------------
(* Http: a message and its text.                                           *)

(* FirstOf finds the least position. *)
LEMMA FirstOfLeast ==
    ASSUME NEW S \in SUBSET Nat, NEW npos
    PROVE  /\ S = {} => FirstOf(S, npos) = npos
           /\ S # {} => /\ FirstOf(S, npos) \in S
                        /\ \A j \in S : FirstOf(S, npos) <= j
<1>1. CASE S = {}
  BY <1>1, Zenon DEF FirstOf
<1>2. CASE S # {}
  <2>1. \E i \in S : \A j \in S : i <= j
    BY <1>2, Least, Zenon
  <2> QED
    BY <1>2, <2>1, Zenon DEF FirstOf
<1> QED
  BY <1>1, <1>2, Zenon

(* A least position is the one that FirstOf finds. *)
LEMMA FirstOfIs ==
    ASSUME NEW S \in SUBSET Nat, NEW npos, NEW i \in S, \A j \in S : i <= j
    PROVE  FirstOf(S, npos) = i
<1>1. FirstOf(S, npos) \in S /\ FirstOf(S, npos) <= i
  BY FirstOfLeast, Zenon
<1>2. i <= FirstOf(S, npos) /\ i \in Nat /\ FirstOf(S, npos) \in Nat
  BY <1>1, Zenon
<1> QED
  BY <1>1, <1>2

(* LastOf finds a position. *)
LEMMA LastOfIn ==
    ASSUME NEW n \in Nat, NEW S \in SUBSET (1 .. n), S # {}
    PROVE  LastOf(S) \in S
<1> DEFINE T == {n - i : i \in S}
<1>0. \A i \in S : i \in 1 .. n
  BY Zenon
<1>1. T \in SUBSET Nat /\ T # {}
  <2>1. \A i \in S : n - i \in Nat
    BY <1>0
  <2> QED
    BY <2>1, Zenon
<1>2. PICK m \in T : \A j \in T : m <= j
  BY <1>1, Least, Zenon
<1>3. PICK i \in S : m = n - i
  BY <1>2, Zenon
<1>4. ASSUME NEW j \in S PROVE j <= i
  <2>1. n - i <= n - j
    BY <1>2, <1>3, Zenon
  <2>2. i \in Nat /\ j \in Nat
    BY <1>0
  <2> QED
    BY <2>1, <2>2
<1> QED
  BY <1>4, Zenon DEF LastOf

(* A pattern is found where its elements are. *)
LEMMA Found ==
    ASSUME NEW S, NEW d \in Seq(S), NEW p \in Seq(S), NEW i \in Nat \ {0},
           i + Len(p) - 1 <= Len(d)
    PROVE  SubSeq(d, i, i + Len(p) - 1) = p <=> \A j \in 1 .. Len(p) : d[i + j - 1] = p[j]
<1> DEFINE n == Len(p)
           s == SubSeq(d, i, i + n - 1)
<1>1. n \in Nat /\ i + n - 1 \in Nat /\ i <= i + n - 1 + 1 /\ i + n - 1 - i + 1 = n
  OBVIOUS
<1>2. s \in Seq(S) /\ Len(s) = n /\ \A j \in 1 .. n : s[j] = d[i + j - 1]
  BY <1>1, SubSeqElements
<1> HIDE DEF s
<1>3. s = p <=> \A j \in 1 .. n : s[j] = p[j]
  BY <1>2, Same
<1> QED
  BY <1>2, <1>3 DEF s

(* The same, of the text that parse_from_string searches. *)
LEMMA FoundLetters ==
    ASSUME NEW d \in Seq(Letters), NEW p \in Seq(Letters), NEW i \in 1 .. Len(d) + 1 - Len(p)
    PROVE  SubSeq(d, i, i + Len(p) - 1) = p <=> \A j \in 1 .. Len(p) : d[i + j - 1] = p[j]
<1>1. i \in Nat \ {0} /\ i + Len(p) - 1 <= Len(d)
  OBVIOUS
<1> QED
  BY <1>1, Found

(* The patterns that parse_from_string looks for. *)
LEMMA Patterns ==
    /\ CRLF \in Seq(Letters) /\ Len(CRLF) = 2 /\ CRLF[1] = "CR" /\ CRLF[2] = "LF"
    /\ CRLF \o CRLF \in Seq(Letters) /\ Len(CRLF \o CRLF) = 4
    /\ (CRLF \o CRLF)[1] = "CR" /\ (CRLF \o CRLF)[2] = "LF"
    /\ (CRLF \o CRLF)[3] = "CR" /\ (CRLF \o CRLF)[4] = "LF"
<1>1. "CR" \in Letters /\ "LF" \in Letters
  BY HttpAssumption, Zenon DEF Space
<1>2. CRLF \in Seq(Letters) /\ Len(CRLF) = 2 /\ CRLF[1] = "CR" /\ CRLF[2] = "LF"
  BY <1>1 DEF CRLF
<1> DEFINE r == CRLF \o CRLF
<1>3. /\ r \in Seq(Letters) /\ Len(r) = 2 + 2
      /\ \A k \in 1 .. 2 : r[k] = CRLF[k]
      /\ \A k \in 2 + 1 .. 2 + 2 : r[k] = CRLF[k - 2]
  <2>1. r \in Seq(Letters) /\ Joined(r, CRLF, CRLF)
    BY <1>2, ConcatJoins, Zenon
  <2> HIDE DEF r
  <2> QED
    BY <1>2, <2>1, Zenon DEF Joined
<1> HIDE DEF r
<1>4. /\ Len(r) = 4 /\ r[1] = CRLF[1] /\ r[2] = CRLF[2]
      /\ r[3] = CRLF[3 - 2] /\ r[4] = CRLF[4 - 2]
  BY <1>3
<1>5. 3 - 2 = 1 /\ 4 - 2 = 2
  OBVIOUS
<1> QED
  BY <1>2, <1>3, <1>4, <1>5, Zenon DEF r

(* The first line ends at i. *)
LEMMA FindLineEnd ==
    ASSUME NEW d \in Seq(Letters), NEW i \in 1 .. Len(d) - 1,
           d[i] = "CR", d[i + 1] = "LF", \A j \in 1 .. i - 1 : d[j] # "CR"
    PROVE  find(d, CRLF) = i
<1> DEFINE n == Len(CRLF)
           S == {j \in 1 .. Len(d) + 1 - n : SubSeq(d, j, j + n - 1) = CRLF}
<1>1. n = 2 /\ CRLF \in Seq(Letters) /\ CRLF[1] = "CR" /\ CRLF[2] = "LF"
  BY Patterns, Zenon
<1>2. find(d, CRLF) = FirstOf(S, 0)
  BY Zenon DEF find
<1>3. \A j \in 1 .. Len(d) + 1 - n : j \in Nat \ {0} /\ j + n - 1 <= Len(d)
  BY <1>1
<1>4. ASSUME NEW j \in 1 .. Len(d) + 1 - n
      PROVE  SubSeq(d, j, j + n - 1) = CRLF <=> \A k \in 1 .. n : d[j + k - 1] = CRLF[k]
  BY <1>1, FoundLetters, Zenon
<1> HIDE DEF n
<1>5. i \in S
  <2>1. i \in 1 .. Len(d) + 1 - n
    BY <1>1
  <2>2. \A k \in 1 .. n : d[i + k - 1] = CRLF[k]
    BY <1>1
  <2> QED
    BY <1>4, <2>1, <2>2, Zenon
<1>6. ASSUME NEW j \in S PROVE i <= j
  <2>1. j \in 1 .. Len(d) + 1 - n /\ j \in Nat
    BY <1>3, Zenon
  <2>2. \A k \in 1 .. n : d[j + k - 1] = CRLF[k]
    BY <1>4, <2>1, Zenon
  <2>3. d[j] = "CR"
    BY <1>1, <2>1, <2>2
  <2> QED
    BY <2>1, <2>3
<1>7. S \in SUBSET Nat
  BY <1>3, Zenon
<1> HIDE DEF S
<1> QED
  BY <1>2, <1>5, <1>6, <1>7, FirstOfIs, Zenon

(* The first empty line is at i, or there is none. *)
LEMMA FindEmptyLine ==
    ASSUME NEW d \in Seq(Letters)
    PROVE  /\ \A i \in 1 .. Len(d) - 3 :
                (/\ d[i] = "CR" /\ d[i + 1] = "LF" /\ d[i + 2] = "CR" /\ d[i + 3] = "LF"
                 /\ \A j \in 1 .. i - 1 : d[j] = "CR" => d[j + 2] # "CR")
                  => find(d, CRLF \o CRLF) = i
           /\ (\A j \in 1 .. Len(d) - 3 : d[j] = "CR" => d[j + 2] # "CR")
                => find(d, CRLF \o CRLF) = 0
<1> DEFINE p == CRLF \o CRLF
           n == Len(p)
           S == {j \in 1 .. Len(d) + 1 - n : SubSeq(d, j, j + n - 1) = p}
<1>1. /\ n = 4 /\ p \in Seq(Letters) /\ p[1] = "CR" /\ p[2] = "LF" /\ p[3] = "CR"
      /\ p[4] = "LF"
  BY Patterns, Zenon
<1>2. find(d, p) = FirstOf(S, 0)
  BY Zenon DEF find
<1>3. \A j \in 1 .. Len(d) + 1 - n : j \in Nat \ {0} /\ j + n - 1 <= Len(d)
  BY <1>1
<1> HIDE DEF p
<1>4. ASSUME NEW j \in 1 .. Len(d) + 1 - n
      PROVE  SubSeq(d, j, j + n - 1) = p <=> \A k \in 1 .. n : d[j + k - 1] = p[k]
  BY <1>1, FoundLetters, Zenon
<1> HIDE DEF n
<1>5. ASSUME NEW j \in S
      PROVE  j \in Nat /\ j \in 1 .. Len(d) - 3 /\ d[j] = "CR" /\ d[j + 2] = "CR"
  <2>1. j \in 1 .. Len(d) + 1 - n /\ j \in Nat
    BY <1>3, Zenon
  <2>2. \A k \in 1 .. n : d[j + k - 1] = p[k]
    BY <1>4, <2>1, Zenon
  <2>3. d[j + 1 - 1] = p[1] /\ d[j + 3 - 1] = p[3] /\ j \in 1 .. Len(d) - 3
    BY <1>1, <2>1, <2>2
  <2> QED
    BY <1>1, <2>1, <2>3
<1>6. S \in SUBSET Nat
  BY <1>3, Zenon
<1>7. ASSUME NEW i \in 1 .. Len(d) - 3,
             d[i] = "CR", d[i + 1] = "LF", d[i + 2] = "CR", d[i + 3] = "LF",
             \A j \in 1 .. i - 1 : d[j] = "CR" => d[j + 2] # "CR"
      PROVE  find(d, p) = i
  <2>1. i \in S
    <3>1. i \in 1 .. Len(d) + 1 - n
      BY <1>1
    <3>2. \A k \in 1 .. n : d[i + k - 1] = p[k]
      BY <1>1, <1>7
    <3> QED
      BY <1>4, <3>1, <3>2, Zenon
  <2>2. ASSUME NEW j \in S PROVE i <= j
    <3>1. j \in Nat /\ j \notin 1 .. i - 1 /\ j \in 1 .. Len(d) - 3
      BY <1>5, <1>7, Zenon
    <3> QED
      BY <3>1
  <2> HIDE DEF S
  <2> QED
    BY <1>2, <1>6, <2>1, <2>2, FirstOfIs, Zenon
<1>8. ASSUME \A j \in 1 .. Len(d) - 3 : d[j] = "CR" => d[j + 2] # "CR"
      PROVE  find(d, p) = 0
  <2>1. S = {}
    BY <1>5, <1>8, Zenon
  <2> QED
    BY <1>2, <1>6, <2>1, FirstOfLeast, Zenon
<1> QED
  BY <1>7, <1>8, Zenon DEF p

-----------------------------------------------------------------------------
(* The text of the header.                                                 *)

(* A text of lines without empty lines, of which the first is s long. *)
HeaderText(t, s) ==
    /\ t \in Seq(Letters) /\ s \in Nat /\ s + 2 <= Len(t)
    /\ \A i \in 1 .. s : t[i] # "CR"
    /\ t[s + 1] = "CR" /\ t[s + 2] = "LF"
    /\ t[Len(t) - 1] = "CR" /\ t[Len(t)] = "LF"
    /\ \A i \in 1 .. Len(t) - 2 : t[i] = "CR" => t[i + 2] # "CR"

IsLine(l) == l \in Seq(Letters) /\ \A i \in 1 .. Len(l) : l[i] \notin {"CR", "LF"}

(* r consists of a text t, a line l and CRLF. *)
LineAfter(t, l, n, m, r) ==
    /\ n \in Nat /\ m \in Nat
    /\ r \in Seq(Letters) /\ Len(r) = n + m + 2
    /\ \A k \in 1 .. n : r[k] = t[k]
    /\ \A k \in n + 1 .. n + m : r[k] = l[k - n]
    /\ r[n + m + 1] = "CR" /\ r[n + m + 2] = "LF"

(* The elements of such a text. *)
LEMMA LineElements ==
    ASSUME NEW t \in Seq(Letters), NEW l \in Seq(Letters)
    PROVE  LineAfter(t, l, Len(t), Len(l), (t \o l) \o CRLF)
<1> DEFINE n == Len(t)
           m == Len(l)
           q == t \o l
           r == q \o CRLF
<1>0. n \in Nat /\ m \in Nat
  OBVIOUS
<1>1. /\ q \in Seq(Letters) /\ Len(q) = n + m
      /\ \A k \in 1 .. n : q[k] = t[k]
      /\ \A k \in n + 1 .. n + m : q[k] = l[k - n]
  BY Concat
<1> HIDE DEF q, n, m
<1>2. CRLF \in Seq(Letters) /\ Len(CRLF) = 2 /\ CRLF[1] = "CR" /\ CRLF[2] = "LF"
  BY Patterns, Zenon
<1>3. /\ r \in Seq(Letters) /\ Len(r) = Len(q) + Len(CRLF)
      /\ \A k \in 1 .. Len(q) : r[k] = q[k]
      /\ \A k \in Len(q) + 1 .. Len(q) + Len(CRLF) : r[k] = CRLF[k - Len(q)]
  <2>1. r \in Seq(Letters) /\ Joined(r, q, CRLF)
    BY <1>1, <1>2, ConcatJoins, Zenon
  <2> HIDE DEF r
  <2> QED
    BY <2>1, Zenon DEF Joined
<1> HIDE DEF r
<1>4. /\ Len(r) = n + m + 2
      /\ \A k \in 1 .. n + m : r[k] = q[k]
      /\ \A k \in n + m + 1 .. n + m + 2 : r[k] = CRLF[k - (n + m)]
  BY <1>1, <1>2, <1>3, Zenon
<1>5. r[n + m + 1] = "CR" /\ r[n + m + 2] = "LF"
  BY <1>0, <1>2, <1>4
<1>6. \A k \in 1 .. n : k \in 1 .. n + m
  BY <1>0
<1>7. \A k \in n + 1 .. n + m : k \in 1 .. n + m
  BY <1>0
<1>8. LineAfter(t, l, n, m, r)
  BY <1>0, <1>1, <1>3, <1>4, <1>5, <1>6, <1>7, Zenon DEF LineAfter
<1> QED
  BY <1>8, Zenon DEF r, q, n, m

(* The text after the start line has been written. *)
LEMMA FirstLine ==
    ASSUME NEW l, IsLine(l)
    PROVE  HeaderText(l \o CRLF, Len(l))
<1> DEFINE n == Len(l)
           r == l \o CRLF
<1>1. n \in Nat /\ l \in Seq(Letters) /\ \A i \in 1 .. n : l[i] # "CR"
  BY DEF IsLine
<1>2. CRLF \in Seq(Letters) /\ Len(CRLF) = 2 /\ CRLF[1] = "CR" /\ CRLF[2] = "LF"
  BY Patterns, Zenon
<1>3. /\ r \in Seq(Letters) /\ Len(r) = n + 2
      /\ \A k \in 1 .. n : r[k] = l[k]
      /\ \A k \in n + 1 .. n + 2 : r[k] = CRLF[k - n]
  BY <1>1, <1>2, Concat
<1> HIDE DEF r, n
<1>4. r[n + 1] = "CR" /\ r[n + 2] = "LF"
  BY <1>1, <1>2, <1>3
<1>5. HeaderText(r, n)
  BY <1>1, <1>3, <1>4 DEF HeaderText
<1> QED
  BY <1>5, Zenon DEF r, n

(* The text after one more line has been written. *)
LEMMA NextLine ==
    ASSUME NEW t, NEW s, HeaderText(t, s), NEW l, IsLine(l), l # <<>>
    PROVE  HeaderText((t \o l) \o CRLF, s)
<1> DEFINE n == Len(t)
           m == Len(l)
           r == (t \o l) \o CRLF
<1>1. /\ t \in Seq(Letters) /\ l \in Seq(Letters) /\ s \in Nat /\ s + 2 <= n
      /\ m \in Nat \ {0} /\ n \in Nat
  BY DEF HeaderText, IsLine
<1>2. /\ r \in Seq(Letters) /\ Len(r) = n + m + 2
      /\ \A k \in 1 .. n : r[k] = t[k]
      /\ \A k \in n + 1 .. n + m : r[k] = l[k - n]
      /\ r[n + m + 1] = "CR" /\ r[n + m + 2] = "LF"
  BY <1>1, LineElements, Zenon DEF LineAfter
<1>3. /\ \A i \in 1 .. s : t[i] # "CR"
      /\ t[s + 1] = "CR" /\ t[s + 2] = "LF"
      /\ t[n] = "LF"
      /\ \A i \in 1 .. n - 2 : t[i] = "CR" => t[i + 2] # "CR"
      /\ \A i \in 1 .. m : l[i] # "CR"
  BY Zenon DEF HeaderText, IsLine
<1> HIDE DEF r, n, m
<1>4. ASSUME NEW i \in 1 .. n + m, r[i] = "CR" PROVE r[i + 2] # "CR"
  <2>1. CASE i \in 1 .. n - 2
    BY <1>1, <1>2, <1>3, <1>4, <2>1
  <2>2. CASE i = n - 1
    <3>1. r[n + 1] = l[1] /\ i + 2 = n + 1
      BY <1>1, <1>2, <2>2
    <3> QED
      BY <1>1, <1>3, <3>1
  <2>3. CASE i = n
    BY <1>1, <1>2, <1>3, <1>4, <2>3
  <2>4. CASE i \in n + 1 .. n + m
    <3>1. r[i] = l[i - n] /\ i - n \in 1 .. m
      BY <1>1, <1>2, <2>4
    <3> QED
      BY <1>3, <1>4, <3>1, Zenon
  <2> QED
    BY <1>1, <2>1, <2>2, <2>3, <2>4
<1>5. \A i \in 1 .. s + 2 : r[i] = t[i]
  BY <1>1, <1>2
<1>6. Len(r) - 1 = n + m + 1 /\ Len(r) - 2 = n + m /\ s + 2 <= Len(r)
      /\ (\A i \in 1 .. s : i \in 1 .. s + 2) /\ s + 1 \in 1 .. s + 2 /\ s + 2 \in 1 .. s + 2
  BY <1>1, <1>2
<1>7. HeaderText(r, s)
  BY <1>1, <1>2, <1>3, <1>4, <1>5, <1>6, Zenon DEF HeaderText
<1> QED
  BY <1>7, Zenon DEF r

-----------------------------------------------------------------------------
(* getline.                                                                *)

(* Where the line at p ends. *)
LEMMA LineEndIs ==
    ASSUME NEW t \in Seq(Letters), NEW p \in Nat \ {0}
    PROVE  /\ \A e \in p .. Len(t) :
                t[e] = "LF" /\ (\A i \in p .. e - 1 : t[i] # "LF") => LineEnd(t, p) = e
           /\ (\A i \in p .. Len(t) : t[i] # "LF") => LineEnd(t, p) = Len(t) + 1
           /\ (\E i \in p .. Len(t) : t[i] = "LF") =>
                /\ LineEnd(t, p) \in p .. Len(t) /\ t[LineEnd(t, p)] = "LF"
                /\ \A i \in p .. LineEnd(t, p) - 1 : t[i] # "LF"
<1> DEFINE S == {i \in p .. Len(t) : t[i] = "LF"}
<1>0. LineEnd(t, p) = FirstOf(S, Len(t) + 1) /\ Len(t) \in Nat
  <2>1. Len(t) \in Nat
    OBVIOUS
  <2> QED
    BY <2>1, Zenon DEF LineEnd
<1>1. S \in SUBSET Nat
  OBVIOUS
<1>2. ASSUME NEW e \in p .. Len(t), t[e] = "LF", \A i \in p .. e - 1 : t[i] # "LF"
      PROVE  LineEnd(t, p) = e
  <2>1. e \in S
    BY <1>2, Zenon
  <2>2. \A j \in S : e <= j
    BY <1>0, <1>2
  <2> HIDE DEF S
  <2> QED
    BY <1>0, <1>1, <2>1, <2>2, FirstOfIs, Zenon
<1>3. ASSUME \A i \in p .. Len(t) : t[i] # "LF"
      PROVE  LineEnd(t, p) = Len(t) + 1
  <2>1. S = {}
    BY <1>3, Zenon
  <2> QED
    BY <1>0, <1>1, <2>1, FirstOfLeast, Zenon
<1>4. ASSUME \E i \in p .. Len(t) : t[i] = "LF"
      PROVE  /\ LineEnd(t, p) \in p .. Len(t) /\ t[LineEnd(t, p)] = "LF"
             /\ \A i \in p .. LineEnd(t, p) - 1 : t[i] # "LF"
  <2> DEFINE e == LineEnd(t, p)
  <2>1. S # {}
    BY <1>4, Zenon
  <2>2. e = FirstOf(S, Len(t) + 1)
    BY <1>0, Zenon
  <2> HIDE DEF e, S
  <2>3. e \in S /\ \A j \in S : e <= j
    BY <1>1, <2>1, <2>2, FirstOfLeast, Zenon
  <2> USE DEF S
  <2>4. \A i \in p .. e - 1 : t[i] # "LF"
    BY <1>0, <2>3
  <2> QED
    BY <2>3, <2>4, Zenon DEF e
<1> QED
  BY <1>2, <1>3, <1>4, Zenon

(* r consists of the text t and the line l, and maybe CRLF. *)
Lengthened(t, l, n, m, r) ==
    /\ t \in Seq(Letters) /\ n = Len(t) /\ n \in Nat
    /\ t = <<>> \/ t[n] = "LF"
    /\ IsLine(l) /\ m = Len(l) /\ m \in Nat \ {0}
    /\ r \in Seq(Letters)
    /\ \A k \in 1 .. n : r[k] = t[k]
    /\ \A k \in n + 1 .. n + m : r[k] = l[k - n]
    /\ \/ Len(r) = n + m
       \/ Len(r) = n + m + 2 /\ r[n + m + 1] = "CR" /\ r[n + m + 2] = "LF"

(* It has one more line. *)
LEMMA NewLineStart ==
    ASSUME NEW t, NEW l, NEW n, NEW m, NEW r, Lengthened(t, l, n, m, r)
    PROVE  LineStarts(r) = LineStarts(t) \cup {n + 1}
<1>1. /\ n \in Nat /\ m \in Nat \ {0} /\ n = Len(t) /\ Len(r) \in Nat
      /\ n + m <= Len(r) /\ Len(r) <= n + m + 2
  BY DEF Lengthened
<1>2. \A k \in 1 .. n : r[k] = t[k]
  BY Zenon DEF Lengthened
<1>3. ASSUME NEW k \in n + 1 .. Len(r), k < Len(r) PROVE r[k] # "LF"
  <2>1. CASE k \in n + 1 .. n + m
    <3>1. k - n \in 1 .. m
      BY <1>1, <2>1
    <3> QED
      BY <2>1, <3>1, Zenon DEF Lengthened, IsLine
  <2>2. CASE k = n + m + 1
    <3>1. Len(r) # n + m
      BY <1>1, <1>3, <2>2
    <3>2. r[k] = "CR"
      BY <2>2, <3>1, Zenon DEF Lengthened
    <3> QED
      BY <3>2
  <2> QED
    BY <1>1, <1>3, <2>1, <2>2
<1>4. n # 0 => t[n] = "LF"
  <2>1. t = <<>> => Len(t) = 0
    OBVIOUS
  <2> QED
    BY <1>1, <2>1, Zenon DEF Lengthened
<1>5. ASSUME NEW p \in LineStarts(r) PROVE p \in LineStarts(t) \cup {n + 1}
  <2>1. p \in 1 .. Len(r) /\ (p = 1 \/ r[p - 1] = "LF")
    BY Zenon DEF LineStarts
  <2>2. CASE p <= n
    <3>1. p \in 1 .. n /\ (p = 1 \/ p - 1 \in 1 .. n)
      BY <1>1, <2>1, <2>2
    <3> QED
      BY <1>1, <1>2, <2>1, <3>1, Zenon DEF LineStarts
  <2>3. CASE p > n + 1
    <3>1. p - 1 \in n + 1 .. Len(r) /\ p - 1 < Len(r) /\ p # 1
      BY <1>1, <2>1, <2>3
    <3> QED
      BY <1>3, <2>1, <3>1, Zenon
  <2> QED
    BY <1>1, <2>1, <2>2, <2>3
<1>6. ASSUME NEW p \in LineStarts(t) PROVE p \in LineStarts(r)
  <2>1. p \in 1 .. n /\ (p = 1 \/ t[p - 1] = "LF")
    BY <1>1, Zenon DEF LineStarts
  <2>2. p \in 1 .. Len(r) /\ (p = 1 \/ p - 1 \in 1 .. n)
    BY <1>1, <2>1
  <2> QED
    BY <1>2, <2>1, <2>2, Zenon DEF LineStarts
<1>7. n + 1 \in LineStarts(r)
  <2>1. n + 1 \in 1 .. Len(r) /\ (n = 0 => n + 1 = 1) /\ n + 1 - 1 = n
        /\ (n # 0 => n \in 1 .. n)
    BY <1>1
  <2> DEFINE p == n + 1
  <2>2. p \in 1 .. Len(r) /\ (p = 1 \/ r[p - 1] = "LF")
    BY <1>2, <1>4, <2>1
  <2> HIDE DEF p
  <2>3. p \in LineStarts(r)
    BY <2>2, Zenon DEF LineStarts
  <2> QED
    BY <2>3, Zenon DEF p
<1> QED
  BY <1>5, <1>6, <1>7, Zenon

(* The lines of t stay what they were ... *)
LEMMA OldLine ==
    ASSUME NEW t, NEW l, NEW n, NEW m, NEW r, Lengthened(t, l, n, m, r),
           NEW p \in LineStarts(t)
    PROVE  Line(r, p) = Line(t, p)
<1>1. /\ n \in Nat /\ m \in Nat \ {0} /\ n = Len(t) /\ Len(r) \in Nat
      /\ n + m <= Len(r) /\ t \in Seq(Letters) /\ r \in Seq(Letters)
  BY DEF Lengthened
<1>2. \A k \in 1 .. n : r[k] = t[k]
  BY Zenon DEF Lengthened
<1>3. p \in 1 .. n /\ p \in Nat \ {0} /\ n \in p .. n
  BY <1>1 DEF LineStarts
<1>4. t[n] = "LF"
  <2>1. t # <<>>
    BY <1>1, <1>3
  <2> QED
    BY <2>1, Zenon DEF Lengthened
<1> DEFINE e == LineEnd(t, p)
<1>5. e \in p .. n /\ t[e] = "LF" /\ \A i \in p .. e - 1 : t[i] # "LF"
  BY <1>1, <1>3, <1>4, LineEndIs, Zenon
<1>6. e = LineEnd(t, p)
  BY Zenon
<1> HIDE DEF e
<1>7. e \in p .. Len(r) /\ e \in 1 .. n /\ (\A i \in p .. e - 1 : i \in 1 .. n)
      /\ (e > p => e - 1 \in 1 .. n)
  BY <1>1, <1>3, <1>5
<1>8. LineEnd(r, p) = e
  <2>1. r[e] = "LF" /\ \A i \in p .. e - 1 : r[i] # "LF"
    BY <1>2, <1>5, <1>7, Zenon
  <2> QED
    BY <1>1, <1>3, <1>7, <2>1, LineEndIs, Zenon
<1>9. \A b \in {e - 1, e - 2} : SubSeq(r, p, b) = SubSeq(t, p, b)
  <2>1. ASSUME NEW b \in {e - 1, e - 2}
        PROVE  SubSeq(r, p, b) = SubSeq(t, p, b)
    <3>1. CASE b \in Nat
      <4>1. b <= Len(r) /\ b <= Len(t) /\ \A i \in 1 .. b : i \in 1 .. n
        BY <1>1, <1>7, <3>1
      <4>2. \A i \in 1 .. b : r[i] = t[i]
        BY <1>2, <4>1, Zenon
      <4> QED
        <5>1. SamePart(r, t, p, b)
          BY <1>1, <1>3, <3>1, <4>1, <4>2, SubSeqEqual, Zenon
        <5> QED
          BY <5>1, Zenon DEF SamePart
    <3>2. CASE b \notin Nat
      <4>1. b < p /\ b \in Int
        BY <1>3, <1>7, <3>2
      <4> QED
        BY <1>1, <1>3, <4>1
    <3> QED
      BY <3>1, <3>2, Zenon
  <2> QED
    BY <2>1, Zenon
<1>10. e > p => r[e - 1] = t[e - 1]
  BY <1>2, <1>7, Zenon
<1> QED
  BY <1>6, <1>8, <1>9, <1>10, Zenon DEF Line

(* ... and the new one is l. *)
LEMMA NewLineIs ==
    ASSUME NEW t, NEW l, NEW n, NEW m, NEW r, Lengthened(t, l, n, m, r)
    PROVE  Line(r, n + 1) = l
<1>1. /\ n \in Nat /\ m \in Nat \ {0} /\ Len(r) \in Nat /\ m = Len(l)
      /\ n + m <= Len(r) /\ l \in Seq(Letters) /\ r \in Seq(Letters)
  BY DEF Lengthened, IsLine
<1>2. /\ \A k \in n + 1 .. n + m : r[k] = l[k - n]
      /\ \A i \in 1 .. m : l[i] \notin {"CR", "LF"}
  BY Zenon DEF Lengthened, IsLine
<1>3. \A k \in n + 1 .. n + m : r[k] # "LF" /\ r[k] # "CR"
  <2>1. \A k \in n + 1 .. n + m : k - n \in 1 .. m
    BY <1>1
  <2> QED
    BY <1>2, <2>1, Zenon
<1>4. SubSeq(r, n + 1, n + m) = l
  <2>1. \A i \in 1 .. m : r[n + i] = l[i]
    BY <1>1, <1>2
  <2> QED
    BY <1>1, <2>1, SubSeqIs
<1>5. n + 1 \in Nat \ {0}
  BY <1>1
<1>6. CASE Len(r) = n + m
  <2>1. LineEnd(r, n + 1) = n + m + 1
    BY <1>1, <1>3, <1>5, <1>6, LineEndIs, Zenon
  <2>2. n + m + 1 - 1 = n + m /\ r[n + m] # "CR"
    BY <1>1, <1>3
  <2> DEFINE e == n + m + 1
  <2>3. e - 1 = n + m
    BY <1>1
  <2>4. LineEnd(r, n + 1) = e
    BY <2>1, Zenon
  <2> HIDE DEF e
  <2> QED
    BY <1>4, <2>2, <2>3, <2>4, Zenon DEF Line
<1>7. CASE Len(r) # n + m
  <2>1. Len(r) = n + m + 2 /\ r[n + m + 1] = "CR" /\ r[n + m + 2] = "LF"
    BY <1>7, Zenon DEF Lengthened
  <2>2. \A k \in n + 1 .. n + m + 2 - 1 : r[k] # "LF"
    <3>1. \A k \in n + 1 .. n + m + 2 - 1 : k \in n + 1 .. n + m \/ k = n + m + 1
      BY <1>1
    <3> QED
      BY <1>3, <2>1, <3>1
  <2> DEFINE e == n + m + 2
  <2>3. /\ e \in n + 1 .. Len(r) /\ r[e] = "LF"
        /\ \A k \in n + 1 .. e - 1 : r[k] # "LF"
        /\ e > n + 1 /\ e - 1 = n + m + 1 /\ e - 2 = n + m
    BY <1>1, <2>1, <2>2
  <2> HIDE DEF e
  <2>4. LineEnd(r, n + 1) = e
    BY <1>1, <1>5, <2>3, LineEndIs, Zenon
  <2> QED
    BY <1>4, <2>1, <2>3, <2>4, Zenon DEF Line
<1> QED
  BY <1>6, <1>7, Zenon

-----------------------------------------------------------------------------
(* A header line is parsed to the header.                                  *)

(* The space and the colon are not line ends. *)
LEMMA SpaceLetters ==
    /\ SP \in Letters /\ ":" \in Letters
    /\ SP # "CR" /\ SP # "LF" /\ SP # ":" /\ ":" # "CR" /\ ":" # "LF"
  BY HttpAssumption, Zenon DEF Space, SP

(* The colon and the space between name and value. *)
NameAndValue(k, v, a, c, l) ==
    /\ a \in Nat /\ c \in Nat
    /\ l \in Seq(Letters) /\ Len(l) = a + c + 2
    /\ \A i \in 1 .. a : l[i] = k[i]
    /\ l[a + 1] = ":" /\ l[a + 2] = SP
    /\ \A i \in a + 3 .. a + c + 2 : l[i] = v[i - (a + 2)]

(* The elements of a header line. *)
LEMMA HeaderElements ==
    ASSUME NEW k \in Seq(Letters), NEW v \in Seq(Letters)
    PROVE  NameAndValue(k, v, Len(k), Len(v), k \o <<":", SP>> \o v)
<1> DEFINE a == Len(k)
           c == Len(v)
           l == k \o <<":", SP>> \o v
           s == <<":", SP>>
           q == k \o s
<1>0. a \in Nat /\ c \in Nat
  OBVIOUS
<1>1. s \in Seq(Letters) /\ Len(s) = 2 /\ s[1] = ":" /\ s[2] = SP
  BY SpaceLetters
<1>2. l = q \o v /\ a = Len(k) /\ c = Len(v)
  BY Zenon
<1> HIDE DEF s, l, a, c
<1>3. /\ q \in Seq(Letters) /\ Len(q) = a + 2
      /\ \A i \in 1 .. a : q[i] = k[i]
      /\ \A i \in a + 1 .. a + 2 : q[i] = s[i - a]
  <2>1. q \in Seq(Letters) /\ Joined(q, k, s)
    BY <1>1, ConcatJoins, Zenon
  <2> QED
    BY <1>1, <1>2, <2>1, Zenon DEF Joined
<1>4. q[a + 1] = ":" /\ q[a + 2] = SP
  BY <1>0, <1>1, <1>3
<1> HIDE DEF q
<1>5. /\ l \in Seq(Letters) /\ Len(l) = Len(q) + c
      /\ \A i \in 1 .. Len(q) : l[i] = q[i]
      /\ \A i \in Len(q) + 1 .. Len(q) + c : l[i] = v[i - Len(q)]
  <2>1. l \in Seq(Letters) /\ Joined(l, q, v)
    BY <1>2, <1>3, ConcatJoins, Zenon
  <2> QED
    BY <1>2, <2>1, Zenon DEF Joined
<1>6. /\ Len(l) = a + c + 2 /\ \A i \in 1 .. a + 2 : l[i] = q[i]
      /\ \A i \in a + 3 .. a + c + 2 : l[i] = v[i - (a + 2)]
  BY <1>0, <1>3, <1>5
<1>7. l[a + 1] = ":" /\ l[a + 2] = SP /\ \A i \in 1 .. a : l[i] = k[i]
  BY <1>0, <1>3, <1>4, <1>6
<1>8. NameAndValue(k, v, a, c, l)
  BY <1>0, <1>5, <1>6, <1>7, Zenon DEF NameAndValue
<1> QED
  BY <1>8, Zenon DEF a, c, l

(* A space before a value makes no difference. *)
LEMMA LeadingSpace ==
    ASSUME NEW v \in Seq(Letters), NEW w \in Seq(Letters), Len(w) = Len(v) + 1,
           w[1] = SP, \A i \in 1 .. Len(v) : w[i + 1] = v[i]
    PROVE  WithoutSpaces(w) = WithoutSpaces(v)
<1> DEFINE c == Len(v)
           S == {i \in 1 .. c : v[i] # SP}
           T == {i \in 1 .. Len(w) : w[i] # SP}
           g == FirstOf(S, c + 1)
<1>1. c \in Nat /\ S \in SUBSET Nat /\ T \in SUBSET Nat
  OBVIOUS
<1>2. FirstOf(T, Len(w) + 1) = g + 1 /\ g \in 1 .. c + 1
  <2>1. CASE S = {}
    <3>1. T = {}
      <4>1. ASSUME NEW i \in T PROVE FALSE
        <5>1. i # 1 /\ i \in 1 .. c + 1 /\ w[i] # SP
          BY Zenon
        <5>2. i - 1 \in 1 .. c /\ i - 1 + 1 = i
          BY <1>1, <5>1
        <5>3. v[i - 1] # SP
          BY <5>1, <5>2, Zenon
        <5> QED
          BY <2>1, <5>2, <5>3, Zenon
      <4> QED
        BY <4>1, Zenon
    <3>2. g = c + 1 /\ FirstOf(T, Len(w) + 1) = c + 1 + 1
      BY <2>1, <3>1, Zenon DEF FirstOf
    <3> QED
      BY <1>1, <3>2
  <2>2. CASE S # {}
    <3> DEFINE h == g
    <3>1. h \in S /\ \A j \in S : h <= j
      <4> HIDE DEF S
      <4> QED
        BY <1>1, <2>2, FirstOfLeast, Zenon
    <3> HIDE DEF h
    <3>2. h \in 1 .. c /\ v[h] # SP
      BY <3>1, Zenon
    <3>3. h + 1 \in T
      <4>1. h + 1 \in 1 .. Len(w)
        BY <1>1, <3>2
      <4> QED
        BY <3>2, <4>1, Zenon
    <3>4. ASSUME NEW i \in T PROVE h + 1 <= i
      <4>1. i # 1 /\ i \in 1 .. c + 1 /\ w[i] # SP
        BY Zenon
      <4>2. i - 1 \in 1 .. c /\ i - 1 + 1 = i
        BY <1>1, <4>1
      <4>3. v[i - 1] # SP
        BY <4>1, <4>2, Zenon
      <4>4. h <= i - 1
        BY <3>1, <4>2, <4>3, Zenon
      <4> QED
        BY <3>2, <4>1, <4>4
    <3>5. FirstOf(T, Len(w) + 1) = h + 1
      <4> HIDE DEF T
      <4> QED
        BY <1>1, <3>3, <3>4, FirstOfIs, Zenon
    <3>6. h \in 1 .. c + 1
      BY <1>1, <3>2
    <3> QED
      BY <3>5, <3>6, Zenon DEF h
  <2> QED
    BY <2>1, <2>2, Zenon
<1>3. WithoutSpaces(w) = From(w, g + 1) /\ WithoutSpaces(v) = From(v, g)
  BY <1>2, Zenon DEF WithoutSpaces
<1> HIDE DEF g
<1>4. From(w, g + 1) = From(v, g)
  <2> DEFINE g1 == g + 1
             c1 == c + 1
             x == SubSeq(w, g1, c1)
             y == SubSeq(v, g, c)
  <2>0. g1 = g + 1 /\ c1 = c + 1
    BY Zenon
  <2> HIDE DEF g1, c1
  <2>1. /\ x \in Seq(Letters) /\ Len(x) = c1 - g1 + 1
        /\ \A i \in 1 .. c1 - g1 + 1 : x[i] = w[g1 + i - 1]
    <3>1. g1 \in Nat \ {0} /\ c1 \in Nat /\ g1 <= c1 + 1 /\ c1 <= Len(w)
      BY <1>1, <1>2, <2>0
    <3>2. x \in Seq(Letters) /\ PartOf(x, w, g1, c1)
      BY <3>1, SubSeqPart, Zenon
    <3> QED
      BY <3>2, Zenon DEF PartOf
  <2>2. /\ y \in Seq(Letters) /\ Len(y) = c - g + 1
        /\ \A i \in 1 .. c - g + 1 : y[i] = v[g + i - 1]
    <3>1. g \in Nat \ {0} /\ c \in Nat /\ g <= c + 1 /\ c <= Len(v)
      BY <1>1, <1>2
    <3>2. y \in Seq(Letters) /\ PartOf(y, v, g, c)
      BY <3>1, SubSeqPart, Zenon
    <3> QED
      BY <3>2, Zenon DEF PartOf
  <2> HIDE DEF x, y
  <2>3. Len(x) = Len(y)
    BY <1>1, <1>2, <2>0, <2>1, <2>2
  <2>4. ASSUME NEW i \in 1 .. Len(x) PROVE x[i] = y[i]
    <3>1. /\ i \in 1 .. c1 - g1 + 1 /\ i \in 1 .. c - g + 1
          /\ g + i - 1 \in 1 .. c /\ g1 + i - 1 = g + i - 1 + 1
      BY <1>1, <1>2, <2>0, <2>1
    <3> QED
      BY <2>1, <2>2, <3>1, Zenon
  <2>5. x = y
    BY <2>1, <2>2, <2>3, <2>4, Same, Zenon
  <2> QED
    BY <2>0, <2>5, Zenon DEF From, x, y
<1> QED
  BY <1>3, <1>4, Zenon

(* The line of a header is a line, and gives the name and the value. *)
LEMMA HeaderParsed ==
    ASSUME NEW k \in Seq(Letters \ {":", "CR", "LF"}), NEW v \in Seq(Letters \ {"CR", "LF"}),
           NEW l, l = k \o <<":", SP>> \o v
    PROVE  /\ IsLine(l) /\ l # <<>>
           /\ Colon(l) # 0 /\ Key(l) = k /\ Value(l) = WithoutSpaces(v)
<1> DEFINE a == Len(k)
           c == Len(v)
<1>0. /\ a = Len(k) /\ c = Len(v) /\ k \in Seq(Letters) /\ v \in Seq(Letters)
      /\ \A i \in 1 .. a : k[i] \notin {":", "CR", "LF"}
      /\ \A i \in 1 .. c : v[i] \notin {"CR", "LF"}
  OBVIOUS
<1> HIDE DEF a, c
<1>1. /\ a \in Nat /\ c \in Nat
      /\ l \in Seq(Letters) /\ Len(l) = a + c + 2
      /\ \A i \in 1 .. a : l[i] = k[i]
      /\ l[a + 1] = ":" /\ l[a + 2] = SP
      /\ \A i \in a + 3 .. a + c + 2 : l[i] = v[i - (a + 2)]
  <2>1. NameAndValue(k, v, a, c, l)
    BY <1>0, HeaderElements, Zenon
  <2> QED
    BY <2>1, Zenon DEF NameAndValue
<1>2. ASSUME NEW i \in 1 .. a + c + 2 PROVE l[i] \notin {"CR", "LF"}
  <2>1. i \in 1 .. a \/ i = a + 1 \/ i = a + 2 \/ i \in a + 3 .. a + c + 2
    BY <1>1
  <2>2. i \in a + 3 .. a + c + 2 => i - (a + 2) \in 1 .. c
    BY <1>1
  <2> QED
    BY <1>0, <1>1, <2>1, <2>2, SpaceLetters, Zenon
<1>3. IsLine(l) /\ l # <<>>
  <2>1. l # <<>>
    BY <1>1
  <2> QED
    BY <1>1, <1>2, <2>1, Zenon DEF IsLine
<1>4. Colon(l) = a + 1
  <2> DEFINE S == {i \in 1 .. Len(l) : l[i] = ":"}
  <2>1. S \in SUBSET Nat
    OBVIOUS
  <2>2. a + 1 \in S
    <3>1. a + 1 \in 1 .. Len(l)
      BY <1>1
    <3> QED
      BY <1>1, <3>1, Zenon
  <2>3. ASSUME NEW i \in S PROVE a + 1 <= i
    <3>1. i \in 1 .. Len(l) /\ l[i] = ":"
      BY Zenon
    <3>2. i \notin 1 .. a
      BY <1>0, <1>1, <3>1, Zenon
    <3> QED
      BY <1>1, <3>1, <3>2
  <2> HIDE DEF S
  <2>4. FirstOf(S, 0) = a + 1
    BY <2>1, <2>2, <2>3, FirstOfIs, Zenon
  <2> QED
    BY <2>4, Zenon DEF Colon, S
<1>5. Key(l) = k
  <2>1. Len(k) <= Len(l) /\ \A i \in 1 .. Len(k) : l[i] = k[i]
    BY <1>0, <1>1
  <2>2. SubSeq(l, 1, Len(k)) = k
    BY <1>0, <1>1, <2>1, Prefix, Zenon
  <2>3. Colon(l) - 1 = Len(k)
    BY <1>0, <1>1, <1>4
  <2> QED
    BY <2>2, <2>3, Zenon DEF Key
<1>6. Value(l) = WithoutSpaces(v)
  <2> DEFINE b == a + 2
             e == a + c + 2
             w == SubSeq(l, b, e)
  <2>0. b = a + 2 /\ e = a + c + 2
    BY Zenon
  <2> HIDE DEF b, e
  <2>1. /\ w \in Seq(Letters) /\ Len(w) = e - b + 1
        /\ \A i \in 1 .. e - b + 1 : w[i] = l[b + i - 1]
    <3>1. b \in Nat \ {0} /\ e \in Nat /\ b <= e + 1 /\ e <= Len(l)
      BY <1>1, <2>0
    <3>2. w \in Seq(Letters) /\ PartOf(w, l, b, e)
      BY <1>1, <3>1, SubSeqPart, Zenon
    <3> QED
      BY <3>2, Zenon DEF PartOf
  <2> HIDE DEF w
  <2>2. Len(w) = c + 1 /\ w[1] = SP
    <3>1. 1 \in 1 .. e - b + 1 /\ b + 1 - 1 = a + 2 /\ e - b + 1 = c + 1
      BY <1>1, <2>0
    <3>2. w[1] = l[b + 1 - 1]
      BY <2>1, <3>1, Zenon
    <3> QED
      BY <1>1, <2>1, <3>1, <3>2, Zenon
  <2>3. ASSUME NEW i \in 1 .. c PROVE w[i + 1] = v[i]
    <3> DEFINE j == i + 1
               h == b + j - 1
    <3>1. j \in 1 .. e - b + 1 /\ h \in a + 3 .. a + c + 2 /\ h - (a + 2) = i
      BY <1>1, <2>0
    <3> HIDE DEF h
    <3>2. w[j] = l[h]
      BY <2>1, <3>1, Zenon DEF h
    <3>3. l[h] = v[i]
      BY <1>1, <3>1, Zenon
    <3> QED
      BY <3>2, <3>3, Zenon
  <2>4. WithoutSpaces(w) = WithoutSpaces(v)
    BY <1>0, <2>1, <2>2, <2>3, LeadingSpace, Zenon
  <2>5. From(l, Colon(l) + 1) = w
    <3>1. Colon(l) + 1 = b /\ Len(l) = e
      BY <1>1, <1>4, <2>0
    <3> QED
      BY <3>1, Zenon DEF From, w
  <2> QED
    BY <2>4, <2>5, Zenon DEF Value
<1>7. Colon(l) # 0
  BY <1>1, <1>4
<1> QED
  BY <1>3, <1>5, <1>6, <1>7, Zenon

-----------------------------------------------------------------------------
(* Header lines in any order are parsed to the headers.                    *)

(* The lines of t are the header lines of the names K. *)
HoldsLines(t, m, K) ==
    /\ \A p \in LineStarts(t) : \E k \in K : Line(t, p) = HeaderLine(m, k)
    /\ \A k \in K : \E p \in LineStarts(t) : Line(t, p) = HeaderLine(m, k)

(* One more header line. *)
LEMMA HoldsAdded ==
    ASSUME NEW t, NEW m, NEW K, HoldsLines(t, m, K), NEW k, NEW n, NEW c, NEW r,
           Lengthened(t, HeaderLine(m, k), n, c, r)
    PROVE  HoldsLines(r, m, K \cup {k})
<1>1. LineStarts(r) = LineStarts(t) \cup {n + 1}
  BY NewLineStart, Zenon
<1>2. ASSUME NEW p \in LineStarts(t) PROVE Line(r, p) = Line(t, p)
  <2> DEFINE l == HeaderLine(m, k)
  <2>1. Lengthened(t, l, n, c, r)
    BY Zenon
  <2> HIDE DEF l
  <2> QED
    BY <2>1, OldLine
<1>3. Line(r, n + 1) = HeaderLine(m, k)
  BY NewLineIs, Zenon
<1> DEFINE e == n + 1
<1> HIDE DEF e
<1>4. /\ \A p \in LineStarts(t) : \E x \in K : Line(t, p) = HeaderLine(m, x)
      /\ \A x \in K : \E p \in LineStarts(t) : Line(t, p) = HeaderLine(m, x)
  BY Zenon DEF HoldsLines
<1>5. LineStarts(r) = LineStarts(t) \cup {e} /\ Line(r, e) = HeaderLine(m, k)
  BY <1>1, <1>3, Zenon DEF e
<1>6. \A p \in LineStarts(r) : \E x \in K \cup {k} : Line(r, p) = HeaderLine(m, x)
  BY <1>2, <1>4, <1>5, Zenon
<1>7. \A x \in K \cup {k} : \E p \in LineStarts(r) : Line(r, p) = HeaderLine(m, x)
  <2>1. \E p \in LineStarts(r) : Line(r, p) = HeaderLine(m, k)
    BY <1>5, Zenon
  <2>2. ASSUME NEW x \in K PROVE \E p \in LineStarts(r) : Line(r, p) = HeaderLine(m, x)
    <3>1. PICK p \in LineStarts(t) : Line(t, p) = HeaderLine(m, x)
      BY <1>4, Zenon
    <3>2. p \in LineStarts(r) /\ Line(r, p) = HeaderLine(m, x)
      BY <1>2, <1>5, <3>1, Zenon
    <3> QED
      BY <3>2, Zenon
  <2> QED
    BY <2>1, <2>2, Zenon
<1> QED
  BY <1>6, <1>7, Zenon DEF HoldsLines

HeaderMap(h) == DOMAIN h \subseteq Names /\ h \in [DOMAIN h -> Values]

(* The line of a header of m is parsed to that header. *)
LEMMA HeaderLineIs ==
    ASSUME NEW m, HeaderMap(m.headers), NEW k \in DOMAIN m.headers
    PROVE  LET l == HeaderLine(m, k)
           IN  /\ IsLine(l) /\ l # <<>>
               /\ Colon(l) # 0 /\ Key(l) = k /\ Value(l) = WithoutSpaces(m.headers[k])
<1> DEFINE v == m.headers[k]
<1>1. k \in Names /\ v \in Values
  BY Zenon DEF HeaderMap
<1>2. k \in Seq(Letters \ {":", "CR", "LF"}) /\ v \in Seq(Letters \ {"CR", "LF"})
  BY <1>1, HttpAssumption, Zenon
<1>3. HeaderLine(m, k) = k \o <<":", SP>> \o v
  BY Zenon DEF HeaderLine
<1> HIDE DEF v
<1>4. /\ IsLine(HeaderLine(m, k)) /\ HeaderLine(m, k) # <<>>
      /\ Colon(HeaderLine(m, k)) # 0 /\ Key(HeaderLine(m, k)) = k
      /\ Value(HeaderLine(m, k)) = WithoutSpaces(v)
  BY <1>2, <1>3, HeaderParsed, Zenon
<1> QED
  BY <1>4, Zenon DEF v

(* Header lines in any order give all headers, and only those. *)
LEMMA HeadersParsed ==
    ASSUME NEW t \in Seq(Letters), NEW m, HeaderMap(m.headers),
           HoldsLines(t, m, DOMAIN m.headers)
    PROVE  HeadersOf(t, NoHeaders)
             = [k \in DOMAIN m.headers |-> WithoutSpaces(m.headers[k])]
<1> DEFINE D == DOMAIN m.headers
           keys == {Key(Line(t, p)) : p \in HeaderLines(t)}
<1>1. \A p \in LineStarts(t) : \E k \in D :
        /\ Colon(Line(t, p)) # 0 /\ Key(Line(t, p)) = k
        /\ Value(Line(t, p)) = WithoutSpaces(m.headers[k])
  <2>1. SUFFICES ASSUME NEW p \in LineStarts(t)
                 PROVE  \E k \in D : /\ Colon(Line(t, p)) # 0 /\ Key(Line(t, p)) = k
                                     /\ Value(Line(t, p)) = WithoutSpaces(m.headers[k])
    BY Zenon
  <2>2. PICK k \in D : Line(t, p) = HeaderLine(m, k)
    BY Zenon DEF HoldsLines
  <2>3. /\ Colon(HeaderLine(m, k)) # 0 /\ Key(HeaderLine(m, k)) = k
        /\ Value(HeaderLine(m, k)) = WithoutSpaces(m.headers[k])
    BY HeaderLineIs, Zenon
  <2> QED
    BY <2>2, <2>3, Zenon
<1>2. HeaderLines(t) = LineStarts(t)
  BY <1>1, Zenon DEF HeaderLines
<1>3. \A k \in D : \E p \in HeaderLines(t) : Key(Line(t, p)) = k
  <2>1. SUFFICES ASSUME NEW k \in D PROVE \E p \in HeaderLines(t) : Key(Line(t, p)) = k
    BY Zenon
  <2>2. PICK p \in LineStarts(t) : Line(t, p) = HeaderLine(m, k)
    BY Zenon DEF HoldsLines
  <2>3. Key(HeaderLine(m, k)) = k
    BY HeaderLineIs, Zenon
  <2> QED
    BY <1>2, <2>2, <2>3, Zenon
<1>4. keys = D
  <2>1. ASSUME NEW k \in keys PROVE k \in D
    BY <1>1, <1>2, Zenon
  <2>2. ASSUME NEW k \in D PROVE k \in keys
    BY <1>3, Zenon
  <2> QED
    BY <2>1, <2>2, Zenon
<1>5. ASSUME NEW k \in D
      PROVE  Value(Line(t, LastOf(LinesOf(t, k)))) = WithoutSpaces(m.headers[k])
  <2> DEFINE S == LinesOf(t, k)
             q == LastOf(S)
  <2>1. S # {} /\ S \in SUBSET (1 .. Len(t)) /\ Len(t) \in Nat
    <3>1. S # {}
      BY <1>3, Zenon DEF LinesOf
    <3>2. S \in SUBSET (1 .. Len(t))
      BY <1>2, Zenon DEF LinesOf, LineStarts
    <3>3. Len(t) \in Nat
      OBVIOUS
    <3> QED
      BY <3>1, <3>2, <3>3, Zenon
  <2>2. q \in S
    <3> HIDE DEF S
    <3> QED
      BY <2>1, LastOfIn, Zenon
  <2> HIDE DEF q
  <2>3. q \in LineStarts(t) /\ Key(Line(t, q)) = k
    BY <1>2, <2>2, Zenon DEF LinesOf
  <2>4. Value(Line(t, q)) = WithoutSpaces(m.headers[k])
    BY <1>1, <2>3, Zenon
  <2> QED
    BY <2>4, Zenon DEF q
<1>6. DOMAIN NoHeaders = {}
  BY Zenon DEF NoHeaders
<1> DEFINE f == [k \in keys \cup DOMAIN NoHeaders |->
                   IF k \in keys THEN Value(Line(t, LastOf(LinesOf(t, k)))) ELSE NoHeaders[k]]
<1>7. HeadersOf(t, NoHeaders) = f
  BY Zenon DEF HeadersOf
<1> HIDE DEF keys
<1>8. keys \cup DOMAIN NoHeaders = D
  BY <1>4, <1>6, Zenon
<1>9. f = [k \in D |-> WithoutSpaces(m.headers[k])]
  BY <1>4, <1>5, <1>8, Zenon
<1> QED
  BY <1>7, <1>9, Zenon

(* Without a colon there are no headers. *)
LEMMA NoColonNoHeaders ==
    ASSUME NEW t \in Seq(Letters), IsColonFree(t)
    PROVE  HeadersOf(t, NoHeaders) = [k \in {} |-> <<>>]
<1>1. ASSUME NEW p \in LineStarts(t) PROVE Colon(Line(t, p)) = 0
  <2> DEFINE e == LineEnd(t, p)
             b == IF e > p /\ t[e - 1] = "CR" THEN e - 2 ELSE e - 1
             l == SubSeq(t, p, b)
  <2>1. p \in Nat \ {0} /\ p <= Len(t) /\ Len(t) \in Nat
    <3>1. p \in 1 .. Len(t) /\ Len(t) \in Nat
      BY DEF LineStarts
    <3> QED
      BY <3>1
  <2>2. e \in p .. Len(t) + 1
    <3>1. CASE \E i \in p .. Len(t) : t[i] = "LF"
      <4>1. e \in p .. Len(t)
        BY <2>1, <3>1, LineEndIs, Zenon
      <4> HIDE DEF e
      <4> QED
        BY <2>1, <4>1
    <3>2. CASE \A i \in p .. Len(t) : t[i] # "LF"
      <4>1. e = Len(t) + 1
        BY <2>1, <3>2, LineEndIs, Zenon
      <4> HIDE DEF e
      <4> QED
        BY <2>1, <4>1
    <3> QED
      BY <3>1, <3>2, Zenon
  <2> HIDE DEF e
  <2>3. b \in Nat /\ p <= b + 1 /\ b <= Len(t)
    BY <2>1, <2>2
  <2>4. Line(t, p) = l
    BY Zenon DEF Line, e
  <2> HIDE DEF b
  <2>5. PartOf(l, t, p, b)
    BY <2>1, <2>3, SubSeqPart, Zenon
  <2> HIDE DEF l
  <2>6. ASSUME NEW i \in 1 .. Len(l) PROVE l[i] # ":"
    <3>1. i \in 1 .. b - p + 1 /\ p + i - 1 \in 1 .. Len(t)
      <4>1. Len(l) = b - p + 1
        BY <2>5, Zenon DEF PartOf
      <4> QED
        BY <2>1, <2>3, <4>1
    <3>2. l[i] = t[p + i - 1]
      BY <2>5, <3>1, Zenon DEF PartOf
    <3> QED
      BY <3>1, <3>2, Zenon DEF IsColonFree
  <2>7. {i \in 1 .. Len(l) : l[i] = ":"} = {}
    BY <2>6, Zenon
  <2> QED
    BY <2>4, <2>7, Zenon DEF Colon, FirstOf
<1>2. HeaderLines(t) = {}
  BY <1>1, Zenon DEF HeaderLines
<1> DEFINE keys == {Key(Line(t, p)) : p \in HeaderLines(t)}
           f == [k \in keys \cup DOMAIN NoHeaders |->
                   IF k \in keys THEN Value(Line(t, LastOf(LinesOf(t, k)))) ELSE NoHeaders[k]]
<1>3. keys = {}
  BY <1>2, Zenon
<1>4. DOMAIN NoHeaders = {}
  BY Zenon DEF NoHeaders
<1>5. HeadersOf(t, NoHeaders) = f
  BY Zenon DEF HeadersOf
<1> HIDE DEF keys
<1>6. keys \cup DOMAIN NoHeaders = {}
  BY <1>3, <1>4, Zenon
<1>7. f = [k \in {} |-> <<>>]
  BY <1>6, Zenon
<1> QED
  BY <1>5, <1>7, Zenon

-----------------------------------------------------------------------------
(* The words of the start line.                                            *)

(* From p on, t has the word w at b .. e - 1. *)
WordAt(t, p, b, e, w) ==
    /\ p \in Nat \ {0} /\ b \in Nat /\ e \in Nat /\ p <= b /\ b < e /\ e <= Len(t) + 1
    /\ \A i \in p .. b - 1 : t[i] \in Space
    /\ \A i \in b .. e - 1 : t[i] \notin Space
    /\ e <= Len(t) => t[e] \in Space
    /\ w \in Seq(Letters) /\ Len(w) = e - b /\ \A i \in b .. e - 1 : t[i] = w[i - b + 1]

(* operator>> reads that word. *)
LEMMA WordIs ==
    ASSUME NEW t \in Seq(Letters), NEW p, NEW b, NEW e, NEW w, WordAt(t, p, b, e, w)
    PROVE  WordEnd(t, p) = e /\ Word(t, p) = w
<1>0. /\ p \in Nat \ {0} /\ b \in Nat /\ e \in Nat /\ p <= b /\ b < e /\ e <= Len(t) + 1
      /\ Len(t) \in Nat
  BY DEF WordAt
<1>1. WordStart(t, p) = b
  <2> DEFINE S == {i \in p .. Len(t) : t[i] \notin Space}
  <2>1. S \in SUBSET Nat
    BY <1>0
  <2>2. b \in S
    <3>1. b \in p .. Len(t) /\ b \in b .. e - 1
      BY <1>0
    <3> QED
      BY <3>1, Zenon DEF WordAt
  <2>3. ASSUME NEW i \in S PROVE b <= i
    <3>1. i \in p .. Len(t) /\ t[i] \notin Space
      BY Zenon
    <3>2. i \notin p .. b - 1
      BY <3>1, Zenon DEF WordAt
    <3> QED
      BY <1>0, <3>1, <3>2
  <2> HIDE DEF S
  <2>4. FirstOf(S, Len(t) + 1) = b
    BY <2>1, <2>2, <2>3, FirstOfIs, Zenon
  <2> QED
    BY <2>4, Zenon DEF WordStart, S
<1>2. WordEnd(t, p) = e
  <2> DEFINE S == {i \in b .. Len(t) : t[i] \in Space}
  <2>1. S \in SUBSET Nat
    BY <1>0
  <2>3. ASSUME NEW i \in S PROVE e <= i
    <3>1. i \in b .. Len(t) /\ t[i] \in Space
      BY Zenon
    <3>2. i \notin b .. e - 1
      BY <3>1, Zenon DEF WordAt
    <3> QED
      BY <1>0, <3>1, <3>2
  <2>4. FirstOf(S, Len(t) + 1) = e
    <3>1. CASE e <= Len(t)
      <4>1. e \in b .. Len(t)
        BY <1>0, <3>1
      <4>2. e \in S
        BY <3>1, <4>1, Zenon DEF WordAt
      <4> HIDE DEF S
      <4> QED
        BY <2>1, <2>3, <4>2, FirstOfIs, Zenon
    <3>2. CASE ~ (e <= Len(t))
      <4>1. e = Len(t) + 1
        BY <1>0, <3>2
      <4>2. S = {}
        <5>1. ASSUME NEW i \in S PROVE FALSE
          <6>1. i \in b .. Len(t) /\ e <= i
            BY <2>3, Zenon
          <6> QED
            BY <1>0, <4>1, <6>1
        <5> QED
          BY <5>1, Zenon
      <4> QED
        BY <4>1, <4>2, Zenon DEF FirstOf
    <3> QED
      BY <3>1, <3>2, Zenon
  <2> HIDE DEF S
  <2>5. WordEnd(t, p) = FirstOf(S, Len(t) + 1)
    BY <1>1, Zenon DEF WordEnd, S
  <2> QED
    BY <2>4, <2>5, Zenon
<1>3. SubSeq(t, b, e - 1) = w
  <2> DEFINE c == e - 1
             x == SubSeq(t, b, c)
  <2>1. /\ c = e - 1 /\ b \in Nat \ {0} /\ c \in Nat /\ b <= c + 1 /\ c <= Len(t)
        /\ Len(w) = c - b + 1
        /\ \A i \in 1 .. c - b + 1 : b + i - 1 \in b .. e - 1 /\ b + i - 1 - b + 1 = i
    BY <1>0 DEF WordAt
  <2>2. w \in Seq(Letters) /\ \A i \in b .. e - 1 : t[i] = w[i - b + 1]
    BY Zenon DEF WordAt
  <2> HIDE DEF c
  <2>3. x \in Seq(Letters) /\ PartOf(x, t, b, c)
    BY <2>1, SubSeqPart, Zenon
  <2> HIDE DEF x
  <2>4. Len(x) = c - b + 1 /\ \A i \in 1 .. c - b + 1 : x[i] = t[b + i - 1]
    BY <2>3, Zenon DEF PartOf
  <2>5. Len(x) = Len(w)
    BY <2>1, <2>4, Zenon
  <2>6. ASSUME NEW i \in 1 .. Len(x) PROVE x[i] = w[i]
    <3> DEFINE j == b + i - 1
    <3>1. i \in 1 .. c - b + 1
      BY <2>4, Zenon
    <3>2. x[i] = t[j]
      BY <2>4, <3>1, Zenon
    <3>3. j \in b .. e - 1 /\ j - b + 1 = i
      BY <2>1, <3>1
    <3> HIDE DEF j
    <3> QED
      BY <2>2, <3>2, <3>3, Zenon
  <2>7. x = w
    BY <2>2, <2>3, <2>5, <2>6, Same, Zenon
  <2> QED
    BY <2>1, <2>7, Zenon DEF x
<1> QED
  BY <1>1, <1>2, <1>3, Zenon DEF Word

(* The elements of the start line. *)
ThreeWords(w, u, v, a, l) ==
    /\ a \in Nat /\ a = Len(u)
    /\ l \in Seq(Letters) /\ Len(l) = a + 4
    /\ l[1] = w /\ l[2] = SP
    /\ \A i \in 3 .. a + 2 : l[i] = u[i - 2]
    /\ l[a + 3] = SP /\ l[a + 4] = v

(* The start line has these elements. *)
LEMMA StartLineElements ==
    ASSUME NEW w \in Letters, NEW u \in Seq(Letters), NEW v \in Letters
    PROVE  ThreeWords(w, u, v, Len(u), <<w>> \o <<SP>> \o u \o <<SP>> \o <<v>>)
<1> DEFINE a == Len(u)
           x == <<w>>
           s == <<SP>>
           y == <<v>>
           q == x \o s
           q2 == q \o u
           q3 == q2 \o s
           l == q3 \o y
<1>1. /\ x \in Seq(Letters) /\ Len(x) = 1 /\ x[1] = w
      /\ s \in Seq(Letters) /\ Len(s) = 1 /\ s[1] = SP
      /\ y \in Seq(Letters) /\ Len(y) = 1 /\ y[1] = v /\ a \in Nat
  BY SpaceLetters
<1>2. l = <<w>> \o <<SP>> \o u \o <<SP>> \o <<v>> /\ a = Len(u)
  BY Zenon
<1> HIDE DEF x, s, y, a
<1>3. q \in Seq(Letters) /\ Joined(q, x, s)
  BY <1>1, ConcatJoins, Zenon
<1> HIDE DEF q
<1>4. q2 \in Seq(Letters) /\ Joined(q2, q, u)
  BY <1>3, ConcatJoins, Zenon
<1> HIDE DEF q2
<1>5. q3 \in Seq(Letters) /\ Joined(q3, q2, s)
  BY <1>1, <1>4, ConcatJoins, Zenon
<1> HIDE DEF q3
<1>6. l \in Seq(Letters) /\ Joined(l, q3, y)
  BY <1>1, <1>5, ConcatJoins, Zenon
<1> HIDE DEF l
<1>7. Len(q) = 2 /\ q[1] = w /\ q[2] = SP
  BY <1>1, <1>3 DEF Joined
<1>8. /\ Len(q2) = a + 2 /\ q2[1] = w /\ q2[2] = SP
      /\ \A i \in 3 .. a + 2 : q2[i] = u[i - 2]
  BY <1>1, <1>2, <1>4, <1>7 DEF Joined
<1>9. /\ Len(q3) = a + 3 /\ q3[1] = w /\ q3[2] = SP
      /\ \A i \in 3 .. a + 2 : q3[i] = u[i - 2]
      /\ q3[a + 3] = SP
  BY <1>1, <1>5, <1>8 DEF Joined
<1>10. /\ Len(l) = a + 4 /\ l[1] = w /\ l[2] = SP
       /\ \A i \in 3 .. a + 2 : l[i] = u[i - 2]
       /\ l[a + 3] = SP /\ l[a + 4] = v
  BY <1>1, <1>6, <1>9 DEF Joined
<1>11. ThreeWords(w, u, v, a, l)
  BY <1>1, <1>2, <1>6, <1>10, Zenon DEF ThreeWords
<1> QED
  BY <1>2, <1>11, Zenon

WordsRead(w, u, v, a, l) ==
    /\ IsLine(l)
    /\ Word(l, 1) = <<w>> /\ WordEnd(l, 1) = 2
    /\ Word(l, 2) = u /\ WordEnd(l, 2) = a + 3
    /\ Word(l, a + 3) = <<v>>

(* Its three words are read one after the other. *)
LEMMA ThreeWordsRead ==
    ASSUME NEW w \in Letters \ Space, NEW u \in Seq(Letters \ Space), u # <<>>,
           NEW v \in Letters \ Space, NEW a, NEW l, ThreeWords(w, u, v, a, l)
    PROVE  WordsRead(w, u, v, a, l)
<1>1. a \in Nat \ {0} /\ a = Len(u) /\ l \in Seq(Letters) /\ Len(l) = a + 4
  BY DEF ThreeWords
<1>2. /\ l[1] = w /\ l[2] = SP /\ \A i \in 3 .. a + 2 : l[i] = u[i - 2]
      /\ l[a + 3] = SP /\ l[a + 4] = v
  BY Zenon DEF ThreeWords
<1>3. SP \in Space /\ "CR" \in Space /\ "LF" \in Space
  BY Zenon DEF Space
<1>4. \A i \in 1 .. a : u[i] \notin Space
  BY <1>1
<1>5. \A i \in 3 .. a + 2 : l[i] \notin Space
  <2>1. \A i \in 3 .. a + 2 : i - 2 \in 1 .. a
    BY <1>1
  <2> QED
    BY <1>2, <1>4, <2>1, Zenon
<1>6. WordAt(l, 1, 1, 2, <<w>>)
  <2>1. /\ 1 \in Nat \ {0} /\ 1 \in Nat /\ 2 \in Nat /\ 1 <= 1 /\ 1 < 2 /\ 2 <= Len(l) + 1
        /\ <<w>> \in Seq(Letters) /\ Len(<<w>>) = 2 - 1
    BY <1>1
  <2>2. (\A i \in 1 .. 1 - 1 : FALSE) /\ (\A i \in 1 .. 2 - 1 : i = 1 /\ i - 1 + 1 = 1)
    OBVIOUS
  <2>3. <<w>>[1] = w /\ w \notin Space
    OBVIOUS
  <2>4. \A i \in 1 .. 2 - 1 : l[i] \notin Space /\ l[i] = <<w>>[i - 1 + 1]
    BY <1>2, <2>2, <2>3
  <2> QED
    BY <1>2, <1>3, <2>1, <2>2, <2>4, Zenon DEF WordAt
<1> DEFINE e3 == a + 3
           e4 == a + 4
           e5 == a + 5
<1>e. e3 = a + 3 /\ e4 = a + 4 /\ e5 = a + 5
  BY Zenon
<1>f. l[e3] = SP /\ l[e4] = v
  BY <1>2, Zenon
<1> HIDE DEF e3, e4, e5
<1>7. WordAt(l, 2, 3, e3, u)
  <2>1. /\ 2 \in Nat \ {0} /\ 3 \in Nat /\ e3 \in Nat /\ 2 <= 3 /\ 3 < e3
        /\ e3 <= Len(l) + 1 /\ Len(u) = e3 - 3 /\ u \in Seq(Letters)
    BY <1>1, <1>e
  <2>2. \A i \in 2 .. 3 - 1 : l[i] \in Space
    <3>1. \A i \in 2 .. 3 - 1 : i = 2
      OBVIOUS
    <3> QED
      BY <1>2, <1>3, <3>1, Zenon
  <2>3. \A i \in 3 .. e3 - 1 : l[i] \notin Space /\ l[i] = u[i - 3 + 1]
    <3>1. \A i \in 3 .. e3 - 1 : i \in 3 .. a + 2 /\ i - 3 + 1 = i - 2
      BY <1>1, <1>e
    <3> QED
      BY <1>2, <1>5, <3>1, Zenon
  <2> QED
    BY <1>3, <1>f, <2>1, <2>2, <2>3, Zenon DEF WordAt
<1>8. WordAt(l, e3, e4, e5, <<v>>)
  <2>1. /\ e3 \in Nat \ {0} /\ e4 \in Nat /\ e5 \in Nat /\ e3 <= e4
        /\ e4 < e5 /\ e5 <= Len(l) + 1 /\ ~ (e5 <= Len(l))
        /\ <<v>> \in Seq(Letters) /\ Len(<<v>>) = e5 - e4
    BY <1>1, <1>e
  <2>2. \A i \in e3 .. e4 - 1 : l[i] \in Space
    <3>1. \A i \in e3 .. e4 - 1 : i = e3
      BY <1>1, <1>e
    <3> QED
      BY <1>3, <1>f, <3>1, Zenon
  <2>3. \A i \in e4 .. e5 - 1 : l[i] \notin Space /\ l[i] = <<v>>[i - e4 + 1]
    <3>1. \A i \in e4 .. e5 - 1 : i = e4 /\ i - e4 + 1 = 1
      BY <1>1, <1>e
    <3>2. <<v>>[1] = v /\ v \notin Space
      OBVIOUS
    <3> QED
      BY <1>f, <3>1, <3>2, Zenon
  <2> QED
    BY <2>1, <2>2, <2>3, Zenon DEF WordAt
<1>9. IsLine(l)
  <2>1. ASSUME NEW i \in 1 .. Len(l) PROVE l[i] \notin {"CR", "LF"}
    <3>1. i = 1 \/ i = 2 \/ i \in 3 .. a + 2 \/ i = a + 3 \/ i = a + 4
      BY <1>1
    <3> QED
      BY <1>2, <1>3, <1>5, <3>1, SpaceLetters, Zenon
  <2> QED
    BY <1>1, <2>1, Zenon DEF IsLine
<1>10. WordEnd(l, 1) = 2 /\ Word(l, 1) = <<w>>
  BY <1>1, <1>6, WordIs, Zenon
<1>11. WordEnd(l, 2) = e3 /\ Word(l, 2) = u
  BY <1>1, <1>7, WordIs, Zenon
<1>12. Word(l, e3) = <<v>>
  BY <1>1, <1>8, WordIs, Zenon
<1> QED
  BY <1>e, <1>9, <1>10, <1>11, <1>12, Zenon DEF WordsRead

LineOfTwo(w, v, l) ==
    /\ IsLine(l)
    /\ Word(l, 1) = <<w>> /\ WordEnd(l, 1) = 2
    /\ Word(l, 2) = <<v>> /\ WordEnd(l, 2) = 5
    /\ Word(l, 5) = <<>>

(* Without a url there are two words, and the third one read is empty. *)
LEMMA TwoWordsRead ==
    ASSUME NEW w \in Letters \ Space, NEW v \in Letters \ Space, NEW l,
           ThreeWords(w, <<>>, v, 0, l)
    PROVE  LineOfTwo(w, v, l)
<1>1. /\ l \in Seq(Letters) /\ Len(l) = 4
      /\ l[1] = w /\ l[2] = SP /\ l[3] = SP /\ l[4] = v
  BY DEF ThreeWords
<1>2. SP \in Space /\ "CR" \in Space /\ "LF" \in Space
  BY Zenon DEF Space
<1>3. /\ <<w>> \in Seq(Letters) /\ Len(<<w>>) = 1 /\ <<w>>[1] = w /\ w \notin Space
      /\ <<v>> \in Seq(Letters) /\ Len(<<v>>) = 1 /\ <<v>>[1] = v /\ v \notin Space
  OBVIOUS
<1>4. WordAt(l, 1, 1, 2, <<w>>)
  <2>1. /\ 1 \in Nat \ {0} /\ 1 \in Nat /\ 2 \in Nat /\ 1 <= 1 /\ 1 < 2 /\ 2 <= Len(l) + 1
        /\ Len(<<w>>) = 2 - 1
    BY <1>1, <1>3
  <2>2. (\A i \in 1 .. 1 - 1 : FALSE) /\ (\A i \in 1 .. 2 - 1 : i = 1 /\ i - 1 + 1 = 1)
    OBVIOUS
  <2> QED
    BY <1>1, <1>2, <1>3, <2>1, <2>2, Zenon DEF WordAt
<1>5. WordAt(l, 2, 4, 5, <<v>>)
  <2>1. /\ 2 \in Nat \ {0} /\ 4 \in Nat /\ 5 \in Nat /\ 2 <= 4 /\ 4 < 5 /\ 5 <= Len(l) + 1
        /\ Len(<<v>>) = 5 - 4 /\ ~ (5 <= Len(l))
    BY <1>1, <1>3
  <2>2. /\ \A i \in 2 .. 4 - 1 : i = 2 \/ i = 3
        /\ \A i \in 4 .. 5 - 1 : i = 4 /\ i - 4 + 1 = 1
    OBVIOUS
  <2> QED
    BY <1>1, <1>2, <1>3, <2>1, <2>2, Zenon DEF WordAt
<1>6. IsLine(l)
  <2>1. \A i \in 1 .. Len(l) : i = 1 \/ i = 2 \/ i = 3 \/ i = 4
    BY <1>1
  <2>2. \A i \in 1 .. Len(l) : l[i] \notin {"CR", "LF"}
    BY <1>1, <1>2, <1>3, <2>1, SpaceLetters, Zenon
  <2> QED
    BY <1>1, <2>2, Zenon DEF IsLine
<1>7. Word(l, 5) = <<>>
  <2>1. {i \in 5 .. Len(l) : l[i] \notin Space} = {} /\ Len(l) + 1 = 5
    BY <1>1
  <2>2. WordStart(l, 5) = 5
    BY <2>1, Zenon DEF WordStart, FirstOf
  <2>3. {i \in 5 .. Len(l) : l[i] \in Space} = {}
    BY <1>1
  <2>4. WordEnd(l, 5) = 5
    BY <2>1, <2>2, <2>3, Zenon DEF WordEnd, FirstOf
  <2>5. SubSeq(l, 5, 5 - 1) = <<>>
    BY <1>1
  <2> QED
    BY <2>2, <2>4, <2>5, Zenon DEF Word
<1> QED
  BY <1>1, <1>4, <1>5, <1>6, <1>7, WordIs, Zenon DEF LineOfTwo

-----------------------------------------------------------------------------
(* What parse_from_string makes of a part of a text.                       *)

HeaderMaps == UNION {[D -> Values] : D \in SUBSET Names}
Messages == [method : Methods, version : Versions, url : Seq(Letters \ Space),
             headers : HeaderMaps, body : Seq(Letters)]

VersionSent(m) == IF m.version = "UNKNOWN" THEN "HTTP/1.1" ELSE m.version

(* The fields of a message. *)
LEMMA MessageFields ==
    ASSUME NEW m \in Messages
    PROVE  /\ m.method \in Methods /\ m.version \in Versions
           /\ m.url \in Seq(Letters \ Space) /\ HeaderMap(m.headers) /\ m.body \in Seq(Letters)
<1>1. /\ m.method \in Methods /\ m.version \in Versions
      /\ m.url \in Seq(Letters \ Space) /\ m.headers \in HeaderMaps /\ m.body \in Seq(Letters)
  BY DEF Messages
<1>2. PICK D \in SUBSET Names : m.headers \in [D -> Values]
  BY <1>1, Zenon DEF HeaderMaps
<1>3. DOMAIN m.headers = D
  BY <1>2, Zenon
<1>4. HeaderMap(m.headers)
  BY <1>2, <1>3, Zenon DEF HeaderMap
<1> QED
  BY <1>1, <1>4, Zenon

(* The start line of a message gives method, url and version. *)
Started(m, l) ==
    /\ IsLine(l)
    /\ parse_method(Word(l, 1)) = m.method
    /\ Word(l, WordEnd(l, 1)) = UrlSeen(m)
    /\ parse_version(Word(l, WordEnd(l, WordEnd(l, 1)))) = VersionSeen(m)

(* What parse_from_string makes of the start line. *)
LEMMA StartLineParsed ==
    ASSUME NEW m \in Messages
    PROVE  Started(m, StartLine(m))
<1> DEFINE w == m.method
           u == m.url
           v == VersionSent(m)
           l == StartLine(m)
           a == Len(u)
<1>1. w \in Methods /\ v \in Versions /\ u \in Seq(Letters \ Space)
  BY MessageFields, HttpAssumption, Zenon DEF VersionSent
<1>2. w \in Letters \ Space /\ v \in Letters \ Space /\ w \in Letters /\ v \in Letters
  BY <1>1, HttpAssumption, Zenon
<1>3. l = <<w>> \o <<SP>> \o u \o <<SP>> \o <<v>>
  BY Zenon DEF StartLine, method_to_str, version_to_str, VersionSent
<1>4. /\ w = m.method /\ l = StartLine(m)
      /\ UrlSeen(m) = IF u = <<>> THEN <<v>> ELSE u
      /\ VersionSeen(m) = IF u = <<>> THEN "UNKNOWN" ELSE v
  <2>1. version_to_str(m.version) = <<v>>
    BY Zenon DEF version_to_str, VersionSent
  <2>2. <<v>>[1] = v
    OBVIOUS
  <2> QED
    BY <2>1, <2>2, Zenon DEF UrlSeen, VersionSeen
<1> HIDE DEF w, u, v, l
<1>5. u \in Seq(Letters)
  BY <1>1
<1>6. ThreeWords(w, u, v, a, l)
  BY <1>2, <1>3, <1>5, StartLineElements, Zenon
<1>7. parse_method(<<w>>) = w /\ parse_version(<<v>>) = v /\ parse_version(<<>>) = "UNKNOWN"
  <2>1. <<w>> \in {<<x>> : x \in Methods} /\ <<v>> \in {<<x>> : x \in Versions}
    BY <1>1, Zenon
  <2>2. <<w>>[1] = w /\ <<v>>[1] = v /\ \A x : <<>> # <<x>>
    OBVIOUS
  <2>3. <<>> \notin {<<x>> : x \in Versions}
    BY <2>2, Zenon
  <2> QED
    BY <2>1, <2>2, <2>3, Zenon DEF parse_method, parse_version
<1>8. CASE u = <<>>
  <2>1. a = 0
    BY <1>8
  <2>2. ThreeWords(w, <<>>, v, 0, l)
    BY <1>6, <1>8, <2>1, Zenon
  <2>3. LineOfTwo(w, v, l)
    BY <1>2, <2>2, TwoWordsRead, Zenon
  <2> QED
    BY <1>4, <1>7, <1>8, <2>3, Zenon DEF LineOfTwo, Started
<1>9. CASE u # <<>>
  <2> HIDE DEF a
  <2>1. WordsRead(w, u, v, a, l)
    BY <1>1, <1>2, <1>6, <1>9, ThreeWordsRead, Zenon
  <2> QED
    BY <1>4, <1>7, <1>9, <2>1, Zenon DEF WordsRead, Started
<1> QED
  BY <1>8, <1>9, Zenon DEF l

(* The first n elements d of the text T, CRLF, b. *)
Arrival(T, L, b, n, d) ==
    /\ L \in Nat /\ L = Len(T) /\ n \in Nat /\ n <= L + 2 + Len(b)
    /\ T \in Seq(Letters) /\ b \in Seq(Letters)
    /\ d \in Seq(Letters) /\ Len(d) = n
    /\ \A i \in 1 .. n : i <= L => d[i] = T[i]
    /\ n >= L + 1 => d[L + 1] = "CR"
    /\ n >= L + 2 => d[L + 2] = "LF"
    /\ \A i \in L + 3 .. n : d[i] = b[i - (L + 2)]

(* The elements of the part that has arrived. *)
LEMMA ArrivalOf ==
    ASSUME NEW T \in Seq(Letters), NEW b \in Seq(Letters),
           NEW n \in 0 .. Len((T \o CRLF) \o b)
    PROVE  /\ Len((T \o CRLF) \o b) = Len(T) + 2 + Len(b)
           /\ Arrival(T, Len(T), b, n, SubSeq((T \o CRLF) \o b, 1, n))
<1> DEFINE L == Len(T)
           q == T \o CRLF
           w == q \o b
           d == SubSeq(w, 1, n)
<1>1. L \in Nat /\ Len(b) \in Nat
  OBVIOUS
<1>2. CRLF \in Seq(Letters) /\ Len(CRLF) = 2 /\ CRLF[1] = "CR" /\ CRLF[2] = "LF"
  BY Patterns, Zenon
<1>3. q \in Seq(Letters) /\ Joined(q, T, CRLF)
  BY <1>2, ConcatJoins, Zenon
<1>L. L = Len(T) /\ n \in 0 .. Len(w)
  BY Zenon
<1> HIDE DEF q, L
<1>4. w \in Seq(Letters) /\ Joined(w, q, b)
  BY <1>3, ConcatJoins, Zenon
<1> HIDE DEF w
<1>5. /\ Len(q) = L + 2 /\ \A i \in 1 .. L : q[i] = T[i]
      /\ q[L + 1] = "CR" /\ q[L + 2] = "LF"
  <2>1. /\ Len(q) = L + 2 /\ \A i \in 1 .. L : q[i] = T[i]
        /\ \A i \in L + 1 .. L + 2 : q[i] = CRLF[i - L]
    <3>1. /\ Len(q) = Len(T) + Len(CRLF) /\ \A i \in 1 .. Len(T) : q[i] = T[i]
          /\ \A i \in Len(T) + 1 .. Len(T) + Len(CRLF) : q[i] = CRLF[i - Len(T)]
      BY <1>3, Zenon DEF Joined
    <3>2. Len(T) = L /\ Len(CRLF) = 2
      BY <1>2, <1>L, Zenon
    <3> QED
      BY <3>1, <3>2
  <2>3. q[L + 1] = "CR"
    <3> DEFINE x == L + 1
    <3>1. x \in L + 1 .. L + 2 /\ x - L = 1
      BY <1>1
    <3> HIDE DEF x
    <3>2. q[x] = "CR"
      BY <1>2, <2>1, <3>1, Zenon
    <3> QED
      BY <3>2, Zenon DEF x
  <2>4. q[L + 2] = "LF"
    <3> DEFINE x == L + 2
    <3>1. x \in L + 1 .. L + 2 /\ x - L = 2
      BY <1>1
    <3> HIDE DEF x
    <3>2. q[x] = "LF"
      BY <1>2, <2>1, <3>1, Zenon
    <3> QED
      BY <3>2, Zenon DEF x
  <2> QED
    BY <2>1, <2>3, <2>4, Zenon
<1>6. /\ Len(w) = L + 2 + Len(b) /\ \A i \in 1 .. L : w[i] = T[i]
      /\ w[L + 1] = "CR" /\ w[L + 2] = "LF"
      /\ \A i \in L + 3 .. L + 2 + Len(b) : w[i] = b[i - (L + 2)]
  <2>1. /\ Len(w) = L + 2 + Len(b) /\ \A i \in 1 .. L + 2 : w[i] = q[i]
        /\ \A i \in L + 2 + 1 .. L + 2 + Len(b) : w[i] = b[i - (L + 2)]
    BY <1>4, <1>5, Zenon DEF Joined
  <2>2. L + 2 + 1 = L + 3 /\ L + 1 \in 1 .. L + 2 /\ L + 2 \in 1 .. L + 2
        /\ \A i \in 1 .. L : i \in 1 .. L + 2
    BY <1>1
  <2>3. \A i \in L + 3 .. L + 2 + Len(b) : w[i] = b[i - (L + 2)]
    BY <2>1, <2>2
  <2> QED
    BY <1>5, <2>1, <2>2, <2>3, Zenon
<1>7. n \in Nat /\ n <= Len(w)
  BY <1>1, <1>6, <1>L
<1>8. d \in Seq(Letters) /\ Len(d) = n /\ \A i \in 1 .. n : d[i] = w[i]
  BY <1>4, <1>7
<1> HIDE DEF d
<1>9. \A i \in 1 .. n : i <= L => d[i] = T[i]
  <2>1. \A i \in 1 .. n : i <= L => i \in 1 .. L
    BY <1>1, <1>7
  <2> QED
    BY <1>6, <1>8, <2>1, Zenon
<1>10. (n >= L + 1 => d[L + 1] = "CR") /\ (n >= L + 2 => d[L + 2] = "LF")
  <2>1. (n >= L + 1 => L + 1 \in 1 .. n) /\ (n >= L + 2 => L + 2 \in 1 .. n)
    BY <1>1, <1>7
  <2> QED
    BY <1>6, <1>8, <2>1, Zenon
<1>11. \A i \in L + 3 .. n : d[i] = b[i - (L + 2)]
  <2>1. \A i \in L + 3 .. n : i \in 1 .. n /\ i \in L + 3 .. L + 2 + Len(b)
    BY <1>1, <1>6, <1>7
  <2> QED
    BY <1>6, <1>8, <2>1, Zenon
<1>12. Arrival(T, L, b, n, d)
  <2>1. n <= L + 2 + Len(b)
    BY <1>6, <1>7, Zenon
  <2> QED
    BY <1>1, <1>7, <1>8, <1>9, <1>10, <1>11, <1>L, <2>1, Zenon DEF Arrival
<1> QED
  BY <1>6, <1>12, <1>L, Zenon DEF d, w, q

(* The header has not arrived. *)
LEMMA HeaderIncomplete ==
    ASSUME NEW T, NEW s, HeaderText(T, s), NEW L, NEW b, NEW n, NEW d, Arrival(T, L, b, n, d),
           n < L + 2
    PROVE  find(d, CRLF \o CRLF) = 0
<1>1. L \in Nat /\ L = Len(T) /\ n \in Nat /\ d \in Seq(Letters) /\ Len(d) = n
  BY Zenon DEF Arrival
<1>2. ASSUME NEW j \in 1 .. Len(d) - 3, d[j] = "CR" PROVE d[j + 2] # "CR"
  <2>1. /\ j \in 1 .. n /\ j <= L /\ j + 2 \in 1 .. n /\ j + 2 <= L
        /\ j \in 1 .. Len(T) - 2
    BY <1>1
  <2>2. d[j] = T[j] /\ d[j + 2] = T[j + 2]
    BY <2>1, Zenon DEF Arrival
  <2> QED
    BY <1>2, <2>1, <2>2, Zenon DEF HeaderText
<1> QED
  BY <1>1, <1>2, FindEmptyLine, Zenon

(* The header has arrived: where the start line and the header end. *)
LEMMA HeaderComplete ==
    ASSUME NEW T, NEW s, HeaderText(T, s), NEW L, NEW b, NEW n, NEW d, Arrival(T, L, b, n, d),
           n >= L + 2
    PROVE  find(d, CRLF) = s + 1 /\ find(d, CRLF \o CRLF) = L - 1
<1>1. /\ L \in Nat /\ L = Len(T) /\ n \in Nat /\ d \in Seq(Letters) /\ Len(d) = n
      /\ s \in Nat /\ s + 2 <= Len(T)
  BY Zenon DEF Arrival, HeaderText
<1>2. \A i \in 1 .. n : i <= L => d[i] = T[i]
  BY Zenon DEF Arrival
<1>3. find(d, CRLF) = s + 1
  <2> DEFINE i == s + 1
  <2>1. /\ i \in 1 .. Len(d) - 1 /\ i \in 1 .. n /\ i <= L /\ i + 1 \in 1 .. n /\ i + 1 <= L
        /\ i + 1 = s + 2
    BY <1>1
  <2>2. d[i] = "CR" /\ d[s + 2] = "LF"
    BY <1>2, <2>1, Zenon DEF HeaderText
  <2>3. ASSUME NEW j \in 1 .. i - 1 PROVE d[j] # "CR"
    <3>1. j \in 1 .. s /\ j \in 1 .. n /\ j <= L
      BY <1>1
    <3> QED
      BY <1>2, <3>1, Zenon DEF HeaderText
  <2> HIDE DEF i
  <2>4. d[i + 1] = "LF"
    BY <2>1, <2>2, Zenon
  <2>5. find(d, CRLF) = i
    BY <1>1, <2>1, <2>2, <2>3, <2>4, FindLineEnd, Zenon
  <2> QED
    BY <2>5, Zenon DEF i
<1>4. find(d, CRLF \o CRLF) = L - 1
  <2> DEFINE i == L - 1
  <2>1. /\ i \in 1 .. Len(d) - 3 /\ i \in 1 .. n /\ i <= L /\ L \in 1 .. n /\ L <= L
        /\ i + 1 = L /\ i + 2 = L + 1 /\ i + 3 = L + 2 /\ n >= L + 1
        /\ i = Len(T) - 1
    BY <1>1
  <2>2. d[i] = "CR" /\ d[L] = "LF"
    BY <1>1, <1>2, <2>1, Zenon DEF HeaderText
  <2>3. d[L + 1] = "CR" /\ d[L + 2] = "LF"
    BY <2>1, Zenon DEF Arrival
  <2>4. ASSUME NEW j \in 1 .. i - 1, d[j] = "CR" PROVE d[j + 2] # "CR"
    <3>1. /\ j \in 1 .. n /\ j <= L /\ j + 2 \in 1 .. n /\ j + 2 <= L
          /\ j \in 1 .. Len(T) - 2
      BY <1>1
    <3>2. d[j] = T[j] /\ d[j + 2] = T[j + 2]
      BY <1>2, <3>1, Zenon
    <3> QED
      BY <2>4, <3>1, <3>2, Zenon DEF HeaderText
  <2> HIDE DEF i
  <2>5. d[i + 1] = "LF" /\ d[i + 2] = "CR" /\ d[i + 3] = "LF"
    BY <2>1, <2>2, <2>3, Zenon
  <2>6. find(d, CRLF \o CRLF) = i
    BY <1>1, <2>1, <2>2, <2>4, <2>5, FindEmptyLine, Zenon
  <2> QED
    BY <2>6, Zenon DEF i
<1> QED
  BY <1>3, <1>4, Zenon

(* The whole text. *)
LEMMA WholeArrival ==
    ASSUME NEW T \in Seq(Letters), NEW b \in Seq(Letters)
    PROVE  LET w == (T \o CRLF) \o b
           IN  /\ w \in Seq(Letters) /\ Len(w) = Len(T) + 2 + Len(b)
               /\ Arrival(T, Len(T), b, Len(w), w)
<1> DEFINE w == (T \o CRLF) \o b
<1>1. w \in Seq(Letters)
  <2>1. CRLF \in Seq(Letters)
    BY Patterns, Zenon
  <2>2. T \o CRLF \in Seq(Letters)
    BY <2>1, ConcatJoins, Zenon
  <2> QED
    BY <2>2, ConcatJoins, Zenon
<1> DEFINE n == Len(w)
<1>2. n \in 0 .. Len(w) /\ SubSeq(w, 1, n) = w
  <2> HIDE DEF w
  <2> QED
    BY <1>1
<1>3. /\ Len(w) = Len(T) + 2 + Len(b)
      /\ Arrival(T, Len(T), b, n, SubSeq(w, 1, n))
  <2> HIDE DEF n
  <2> QED
    BY <1>2, ArrivalOf, Zenon
<1> QED
  BY <1>1, <1>2, <1>3, Zenon

(* T is the start line l, CRLF and B; d are the first n elements of T,     *)
(* CRLF and b, the header among them.                                      *)
Header(l, s, B, T, L, b, n, d) ==
    /\ s \in Nat /\ L \in Nat /\ n \in Nat /\ Len(B) \in Nat /\ Len(b) \in Nat
    /\ L = s + 2 + Len(B) /\ n >= L + 2 /\ n <= L + 2 + Len(b)
    /\ Len(l) = s /\ Len(T) = L /\ Len(d) = n
    /\ l \in Seq(Letters) /\ B \in Seq(Letters) /\ T \in Seq(Letters)
    /\ b \in Seq(Letters) /\ d \in Seq(Letters)
    /\ \A i \in 1 .. s : d[i] = l[i]
    /\ \A i \in s + 3 .. L : d[i] = B[i - (s + 2)]
    /\ d[L + 1] = "CR" /\ d[L + 2] = "LF"
    /\ \A i \in L + 3 .. n : d[i] = b[i - (L + 2)]

(* The elements of the start line, of the headers and of the body. *)
LEMMA HeaderIs ==
    ASSUME NEW l, NEW s, NEW B, NEW T, NEW L, NEW b, NEW n, NEW d,
           Arrival(l, s, B, L, T), Arrival(T, L, b, n, d), n >= L + 2, L = s + 2 + Len(B)
    PROVE  Header(l, s, B, T, L, b, n, d)
<1>1. /\ s \in Nat /\ L \in Nat /\ n \in Nat
      /\ L = s + 2 + Len(B) /\ n >= L + 2 /\ n <= L + 2 + Len(b)
      /\ Len(l) = s /\ Len(T) = L /\ Len(d) = n
      /\ l \in Seq(Letters) /\ B \in Seq(Letters) /\ T \in Seq(Letters)
      /\ b \in Seq(Letters) /\ d \in Seq(Letters)
  BY Zenon DEF Arrival
<1>0. Len(B) \in Nat /\ Len(b) \in Nat
  BY <1>1
<1>2. /\ \A i \in 1 .. n : i <= L => d[i] = T[i]
      /\ (n >= L + 1 => d[L + 1] = "CR") /\ (n >= L + 2 => d[L + 2] = "LF")
      /\ \A i \in L + 3 .. n : d[i] = b[i - (L + 2)]
  BY Zenon DEF Arrival
<1>8. /\ \A i \in 1 .. L : i <= s => T[i] = l[i]
      /\ \A i \in s + 3 .. L : T[i] = B[i - (s + 2)]
  BY Zenon DEF Arrival
<1>3. n >= L + 1
  BY <1>1
<1>4. \A i \in 1 .. s : i \in 1 .. n /\ i <= L /\ i \in 1 .. L /\ i <= s
  BY <1>0, <1>1
<1>5. \A i \in s + 3 .. L : i \in 1 .. n /\ i <= L
  BY <1>0, <1>1
<1>6. \A i \in 1 .. s : d[i] = l[i]
  BY <1>2, <1>4, <1>8, Zenon
<1>7. \A i \in s + 3 .. L : d[i] = B[i - (s + 2)]
  BY <1>2, <1>5, <1>8, Zenon
<1> QED
  BY <1>0, <1>1, <1>2, <1>3, <1>6, <1>7, Zenon DEF Header

(* The start line, the body, and the headers in between. *)
BodyIs(d, L, b, n) == From(d, L + 3) = SubSeq(b, 1, n - (L + 2))
BlockIs(d, s, L, B) == HeaderBlock(d, s + 3, L - 1) = SubSeq(B, 1, Len(B) - 2)

(* The start line is what precedes the first CRLF. *)
LEMMA StartLineFound ==
    ASSUME NEW l, NEW s, NEW B, NEW T, NEW L, NEW b, NEW n, NEW d, Header(l, s, B, T, L, b, n, d)
    PROVE  SubSeq(d, 1, s) = l
<1>1. /\ s \in Nat /\ Len(l) = s /\ l \in Seq(Letters) /\ d \in Seq(Letters)
      /\ L \in Nat /\ Len(B) \in Nat /\ n \in Nat
      /\ L = s + 2 + Len(B) /\ n >= L + 2 /\ Len(d) = n
  BY Zenon DEF Header
<1>2. Len(l) <= Len(d)
  BY <1>1
<1>3. \A i \in 1 .. Len(l) : d[i] = l[i]
  BY <1>1, Zenon DEF Header
<1>4. SubSeq(d, 1, Len(l)) = l
  BY <1>1, <1>2, <1>3, Prefix, Zenon
<1> QED
  BY <1>1, <1>4, Zenon

(* The body is what follows the empty line. *)
LEMMA BodyFound ==
    ASSUME NEW l, NEW s, NEW B, NEW T, NEW L, NEW b, NEW n, NEW d, Header(l, s, B, T, L, b, n, d)
    PROVE  BodyIs(d, L, b, n)
<1> DEFINE p == L + 3
           c == n - (L + 2)
           x == SubSeq(d, p, n)
           y == SubSeq(b, 1, c)
<1>1. /\ L \in Nat /\ n \in Nat /\ Len(b) \in Nat /\ n >= L + 2 /\ n <= L + 2 + Len(b)
      /\ Len(d) = n /\ b \in Seq(Letters) /\ d \in Seq(Letters)
  BY Zenon DEF Header
<1>2. \A i \in L + 3 .. n : d[i] = b[i - (L + 2)]
  BY Zenon DEF Header
<1>3. /\ p \in Nat \ {0} /\ p <= n + 1 /\ n <= Len(d)
      /\ c \in Nat /\ c <= Len(b)
      /\ n - p + 1 = c
  BY <1>1
<1> HIDE DEF p, c
<1>5. x \in Seq(Letters) /\ PartOf(x, d, p, n)
  BY <1>1, <1>3, SubSeqPart, Zenon
<1>6. y \in Seq(Letters) /\ Begins(y, b, c)
  BY <1>1, <1>3, SubSeqBegins, Zenon
<1> HIDE DEF x, y
<1>7. Len(x) = c /\ Len(y) = c
  BY <1>3, <1>5, <1>6, Zenon DEF PartOf, Begins
<1>8. ASSUME NEW i \in 1 .. Len(x) PROVE x[i] = y[i]
  <2>1. i \in 1 .. c
    BY <1>7, Zenon
  <2>2. x[i] = d[p + i - 1]
    <3>1. i \in 1 .. n - p + 1
      BY <1>3, <2>1, Zenon
    <3> QED
      BY <1>5, <3>1, Zenon DEF PartOf
  <2>3. y[i] = b[i]
    BY <1>6, <2>1, Zenon DEF Begins
  <2> DEFINE j == p + i - 1
  <2>4. j \in L + 3 .. n /\ j - (L + 2) = i
    BY <1>1, <2>1 DEF p, c
  <2> HIDE DEF j
  <2>5. d[j] = b[i]
    BY <1>2, <2>4, Zenon
  <2> QED
    BY <2>2, <2>3, <2>4, <2>5, Zenon DEF j
<1>9. x = y
  BY <1>5, <1>6, <1>7, <1>8, Same, Zenon
<1> QED
  BY <1>1, <1>9, Zenon DEF BodyIs, From, x, y, p, c

(* The headers are the lines in between, without the last CRLF. *)
LEMMA BlockFound ==
    ASSUME NEW l, NEW s, NEW B, NEW T, NEW L, NEW b, NEW n, NEW d, Header(l, s, B, T, L, b, n, d),
           Len(B) >= 2
    PROVE  BlockIs(d, s, L, B)
<1> DEFINE p == s + 3
           e == L - 1
           q == e - 1
           c == Len(B) - 2
           x == SubSeq(d, p, q)
           y == SubSeq(B, 1, c)
<1>1. /\ s \in Nat /\ L \in Nat /\ n \in Nat /\ Len(B) \in Nat /\ n >= L + 2
      /\ L = s + 2 + Len(B) /\ Len(d) = n /\ B \in Seq(Letters) /\ d \in Seq(Letters)
  BY Zenon DEF Header
<1>2. \A i \in s + 3 .. L : d[i] = B[i - (s + 2)]
  BY Zenon DEF Header
<1>3. /\ p \in Nat \ {0} /\ q \in Nat /\ p <= q + 1 /\ q <= Len(d) /\ e >= p
      /\ c \in Nat /\ c <= Len(B)
      /\ q - p + 1 = c
  BY <1>1
<1>5. HeaderBlock(d, s + 3, L - 1) = x
  <2>1. HeaderBlock(d, p, e) = SubSeq(d, p, e - 1)
    <3> HIDE DEF p, e, q, c
    <3> QED
      BY <1>3, Zenon DEF HeaderBlock
  <2> QED
    BY <2>1, Zenon
<1> HIDE DEF p, c, q
<1>6. x \in Seq(Letters) /\ PartOf(x, d, p, q)
  BY <1>1, <1>3, SubSeqPart, Zenon
<1>7. y \in Seq(Letters) /\ Begins(y, B, c)
  BY <1>1, <1>3, SubSeqBegins, Zenon
<1> HIDE DEF x, y
<1>8. Len(x) = c /\ Len(y) = c
  BY <1>3, <1>6, <1>7, Zenon DEF PartOf, Begins
<1>9. ASSUME NEW i \in 1 .. Len(x) PROVE x[i] = y[i]
  <2>1. i \in 1 .. c
    BY <1>8, Zenon
  <2>2. x[i] = d[p + i - 1]
    <3>1. i \in 1 .. q - p + 1
      BY <1>3, <2>1, Zenon
    <3> QED
      BY <1>6, <3>1, Zenon DEF PartOf
  <2>3. y[i] = B[i]
    BY <1>7, <2>1, Zenon DEF Begins
  <2> DEFINE j == p + i - 1
  <2>4. j \in s + 3 .. L /\ j - (s + 2) = i
    BY <1>1, <2>1 DEF p, c
  <2> HIDE DEF j
  <2>5. d[j] = B[i]
    BY <1>2, <2>4, Zenon
  <2> QED
    BY <2>2, <2>3, <2>4, <2>5, Zenon DEF j
<1>10. x = y
  BY <1>6, <1>7, <1>8, <1>9, Same, Zenon
<1> QED
  BY <1>5, <1>10, Zenon DEF BlockIs, y, c

(* Without headers it is the empty line and the body. *)
HasNoColon(x) == x \in Seq(Letters) /\ IsColonFree(x)

(* There is no colon in it if there is none in the body. *)
LEMMA BlockWithoutHeaders ==
    ASSUME NEW l, NEW s, NEW B, NEW T, NEW L, NEW b, NEW n, NEW d, Header(l, s, B, T, L, b, n, d),
           B = <<>>, IsColonFree(b)
    PROVE  HasNoColon(HeaderBlock(d, s + 3, L - 1))
<1> DEFINE p == s + 3
           x == SubSeq(d, p, n)
<1>1. /\ s \in Nat /\ L \in Nat /\ n \in Nat /\ n >= L + 2 /\ n <= L + 2 + Len(b)
      /\ L = s + 2 + Len(B) /\ Len(d) = n /\ d \in Seq(Letters) /\ Len(b) \in Nat
  BY Zenon DEF Header
<1>2. d[L + 1] = "CR" /\ d[L + 2] = "LF" /\ \A i \in L + 3 .. n : d[i] = b[i - (L + 2)]
  BY Zenon DEF Header
<1>3. L = s + 2
  BY <1>1
<1>4. HeaderBlock(d, s + 3, L - 1) = x
  <2>1. ~ (L - 1 >= p) /\ Len(d) = n
    BY <1>1, <1>3
  <2> QED
    BY <2>1, Zenon DEF HeaderBlock, From
<1>5. p \in Nat \ {0} /\ p <= n + 1 /\ n <= Len(d) /\ p = L + 1
  BY <1>1, <1>3
<1> HIDE DEF p
<1>6. x \in Seq(Letters) /\ PartOf(x, d, p, n)
  BY <1>1, <1>5, SubSeqPart, Zenon
<1> HIDE DEF x
<1>7. ASSUME NEW i \in 1 .. Len(x) PROVE x[i] # ":"
  <2> DEFINE j == p + i - 1
  <2>1. i \in 1 .. n - p + 1
    BY <1>6, Zenon DEF PartOf
  <2>2. x[i] = d[j]
    BY <1>6, <2>1, Zenon DEF PartOf
  <2>3. \/ j = L + 1 \/ j = L + 2
        \/ j \in L + 3 .. n /\ j - (L + 2) \in 1 .. Len(b)
    BY <1>1, <1>5, <2>1
  <2> HIDE DEF j
  <2>4. ":" # "CR" /\ ":" # "LF"
    BY SpaceLetters, Zenon
  <2> QED
    BY <1>2, <2>2, <2>3, <2>4, Zenon DEF IsColonFree
<1> QED
  BY <1>4, <1>6, <1>7, Zenon DEF HasNoColon, IsColonFree

-----------------------------------------------------------------------------
(* The text of a message while it is written.                              *)

(* B consists of the header lines of the names K. *)
HeadLines(m, B, K) ==
    \/ K = {} /\ B = <<>>
    \/ /\ K # {} /\ Len(B) >= 2 /\ B[Len(B)] = "LF"
       /\ HoldsLines(B, m, K) /\ HoldsLines(SubSeq(B, 1, Len(B) - 2), m, K)

HeadText(m, T, B, K) ==
    /\ B \in Seq(Letters) /\ T = (StartLine(m) \o CRLF) \o B
    /\ HeaderText(T, Len(StartLine(m)))
    /\ HeadLines(m, B, K)

(* After the start line no header has been written. *)
LEMMA HeadBegun ==
    ASSUME NEW m, IsLine(StartLine(m))
    PROVE  HeadText(m, StartLine(m) \o CRLF, <<>>, {})
<1> DEFINE l == StartLine(m)
           T == l \o CRLF
<1>1. HeaderText(T, Len(l))
  BY FirstLine, Zenon
<1>2. T \in Seq(Letters)
  BY <1>1, Zenon DEF HeaderText
<1>3. T = T \o <<>> /\ <<>> \in Seq(Letters)
  <2> HIDE DEF T
  <2> QED
    BY <1>2
<1> QED
  BY <1>1, <1>3, Zenon DEF HeadText, HeadLines

(* One more header line after the others. *)
LEMMA HeadLinesAdded ==
    ASSUME NEW m, NEW B \in Seq(Letters), NEW K, HeadLines(m, B, K),
           NEW k, IsLine(HeaderLine(m, k)), HeaderLine(m, k) # <<>>
    PROVE  HeadLines(m, (B \o HeaderLine(m, k)) \o CRLF, K \cup {k})
<1> DEFINE l == HeaderLine(m, k)
           n == Len(B)
           c == Len(l)
           r == (B \o l) \o CRLF
           x == SubSeq(r, 1, n + c)
<1>1. l = HeaderLine(m, k) /\ IsLine(l) /\ l # <<>> /\ l \in Seq(Letters)
  BY Zenon DEF IsLine
<1> HIDE DEF l
<1>2. n = Len(B) /\ n \in Nat /\ c = Len(l) /\ c \in Nat \ {0}
  BY <1>1
<1>3. LineAfter(B, l, n, c, r)
  BY <1>1, LineElements, Zenon
<1> HIDE DEF n, c, r
<1>4. /\ r \in Seq(Letters) /\ Len(r) = n + c + 2
      /\ \A i \in 1 .. n : r[i] = B[i]
      /\ \A i \in n + 1 .. n + c : r[i] = l[i - n]
      /\ r[n + c + 1] = "CR" /\ r[n + c + 2] = "LF"
  BY <1>3, Zenon DEF LineAfter
<1>5. B = <<>> \/ B[n] = "LF"
  BY <1>2, Zenon DEF HeadLines
<1>6. HoldsLines(B, m, K)
  <2>1. CASE K = {} /\ B = <<>>
    <3>1. LineStarts(B) = {}
      <4>1. 1 .. Len(B) = {}
        BY <2>1
      <4> QED
        BY <4>1, Zenon DEF LineStarts
    <3> QED
      BY <2>1, <3>1, Zenon DEF HoldsLines
  <2> QED
    BY <2>1, Zenon DEF HeadLines
<1>7. Lengthened(B, l, n, c, r)
  BY <1>1, <1>2, <1>4, <1>5, Zenon DEF Lengthened
<1>8. x \in Seq(Letters) /\ Len(x) = n + c /\ \A i \in 1 .. n + c : x[i] = r[i]
  <2> DEFINE e == n + c
  <2>1. e \in Nat /\ e <= Len(r)
    BY <1>2, <1>4
  <2> HIDE DEF e
  <2>2. SubSeq(r, 1, e) \in Seq(Letters) /\ Begins(SubSeq(r, 1, e), r, e)
    BY <1>4, <2>1, SubSeqBegins, Zenon
  <2> QED
    BY <2>2, Zenon DEF Begins, e
<1>9. Lengthened(B, l, n, c, x)
  <2> HIDE DEF x
  <2>1. /\ \A i \in 1 .. n : i \in 1 .. n + c
        /\ \A i \in n + 1 .. n + c : i \in 1 .. n + c
    BY <1>2
  <2>2. \A i \in 1 .. n : x[i] = B[i]
    BY <1>4, <1>8, <2>1, Zenon
  <2>3. \A i \in n + 1 .. n + c : x[i] = l[i - n]
    BY <1>4, <1>8, <2>1, Zenon
  <2> QED
    BY <1>1, <1>2, <1>5, <1>8, <2>2, <2>3, Zenon DEF Lengthened
<1>10. HoldsLines(r, m, K \cup {k})
  BY <1>1, <1>6, <1>7, HoldsAdded, Zenon
<1>11. HoldsLines(x, m, K \cup {k})
  <2> HIDE DEF x
  <2> QED
    BY <1>1, <1>6, <1>9, HoldsAdded, Zenon
<1>12. Len(r) >= 2 /\ Len(r) - 2 = n + c /\ r[Len(r)] = "LF"
  BY <1>2, <1>4
<1>13. SubSeq(r, 1, Len(r) - 2) = x
  BY <1>12, Zenon
<1> HIDE DEF x
<1>14. HeadLines(m, r, K \cup {k})
  BY <1>10, <1>11, <1>12, <1>13, Zenon DEF HeadLines
<1> QED
  BY <1>14, Zenon DEF r, l

(* The text with one more header line. *)
LEMMA HeadAdded ==
    ASSUME NEW m, IsLine(StartLine(m)), NEW T, NEW B, NEW K, HeadText(m, T, B, K),
           NEW k, IsLine(HeaderLine(m, k)), HeaderLine(m, k) # <<>>
    PROVE  HeadText(m, (T \o HeaderLine(m, k)) \o CRLF, (B \o HeaderLine(m, k)) \o CRLF,
                    K \cup {k})
<1> DEFINE l == HeaderLine(m, k)
           P == StartLine(m) \o CRLF
           r == (B \o l) \o CRLF
<1>1. l \in Seq(Letters) /\ StartLine(m) \in Seq(Letters) /\ CRLF \in Seq(Letters)
  BY Patterns, Zenon DEF IsLine
<1>2. B \in Seq(Letters) /\ T = P \o B
  BY Zenon DEF HeadText
<1>3. P \in Seq(Letters)
  BY <1>1, ConcatJoins, Zenon
<1>4. B \o l \in Seq(Letters)
  BY <1>1, <1>2, ConcatJoins, Zenon
<1>5. r \in Seq(Letters)
  BY <1>1, <1>4, ConcatJoins, Zenon
<1>6. (T \o l) \o CRLF = P \o r
  <2> HIDE DEF P, l
  <2>1. (P \o B) \o l = P \o (B \o l)
    <3>1. Regrouped(P, B, l)
      BY <1>1, <1>2, <1>3, Assoc, Zenon
    <3> QED
      BY <3>1, Zenon DEF Regrouped
  <2>2. (P \o (B \o l)) \o CRLF = P \o ((B \o l) \o CRLF)
    <3> DEFINE z == B \o l
    <3>1. z \in Seq(Letters)
      BY <1>4, Zenon
    <3> HIDE DEF z
    <3>2. (P \o z) \o CRLF = P \o (z \o CRLF)
      <4>1. Regrouped(P, z, CRLF)
        BY <1>1, <1>3, <3>1, Assoc, Zenon
      <4> QED
        BY <4>1, Zenon DEF Regrouped
    <3> QED
      BY <3>2, Zenon DEF z
  <2> QED
    BY <1>2, <2>1, <2>2, Zenon
<1>7. HeaderText((T \o l) \o CRLF, Len(StartLine(m)))
  <2>1. HeaderText(T, Len(StartLine(m))) /\ IsLine(l) /\ l # <<>>
    BY Zenon DEF HeadText
  <2> HIDE DEF l
  <2> QED
    BY <2>1, NextLine, Zenon
<1>8. HeadLines(m, r, K \cup {k})
  BY <1>2, HeadLinesAdded, Zenon DEF HeadText
<1> QED
  BY <1>5, <1>6, <1>7, <1>8, Zenon DEF HeadText

-----------------------------------------------------------------------------
(* parse_from_string of a part of it.                                      *)

(* Without an empty line parse_from_string returns false. *)
LEMMA ParseFails ==
    ASSUME NEW o, NEW d, find(d, CRLF \o CRLF) = 0
    PROVE  Parse(o, d).ok = "false"
  BY Zenon DEF Parse

ParsedFrom(m, d, pos, e, r) ==
    /\ r.ok = "true"
    /\ r.m = Message(m.method, VersionSeen(m), UrlSeen(m),
                     HeadersOf(HeaderBlock(d, pos + 2, e), NoHeaders), From(d, e + 4))

(* With both line ends it returns true and reads each part. *)
LEMMA ParseSucceeds ==
    ASSUME NEW o, NEW d, NEW pos, find(d, CRLF) = pos, pos # 0,
           NEW e, find(d, CRLF \o CRLF) = e, e # 0,
           NEW m, NEW l, SubSeq(d, 1, pos - 1) = l, Started(m, l)
    PROVE  ParsedFrom(m, d, pos, e, Parse(o, d))
  BY Zenon DEF ParsedFrom, Parse, Started, Cleared

HeadersSeen(m) == [k \in DOMAIN m.headers |-> WithoutSpaces(m.headers[k])]

HeadersAre(m, d, s, L) ==
    HeadersOf(HeaderBlock(d, s + 3, L - 1), NoHeaders) = HeadersSeen(m)

(* The block of headers gives the headers of the message. *)
LEMMA HeadersFound ==
    ASSUME NEW m, HeaderMap(m.headers), Plain(m),
           NEW l, NEW s, NEW B, NEW T, NEW L, NEW n, NEW d,
           Header(l, s, B, T, L, m.body, n, d), HeadLines(m, B, DOMAIN m.headers)
    PROVE  HeadersAre(m, d, s, L)
<1> DEFINE x == HeaderBlock(d, s + 3, L - 1)
<1>1. CASE DOMAIN m.headers = {} /\ B = <<>>
  <2>1. IsColonFree(m.body)
    BY <1>1, Zenon DEF Plain
  <2>2. x \in Seq(Letters) /\ IsColonFree(x)
    <3>1. HasNoColon(x)
      BY <1>1, <2>1, BlockWithoutHeaders, Zenon
    <3> QED
      BY <3>1, Zenon DEF HasNoColon
  <2> HIDE DEF x
  <2>3. HeadersOf(x, NoHeaders) = [k \in {} |-> <<>>]
    BY <2>2, NoColonNoHeaders, Zenon
  <2>4. HeadersSeen(m) = [k \in {} |-> <<>>]
    BY <1>1, Zenon DEF HeadersSeen
  <2> QED
    BY <2>3, <2>4, Zenon DEF x, HeadersAre
<1>2. CASE /\ Len(B) >= 2
           /\ HoldsLines(SubSeq(B, 1, Len(B) - 2), m, DOMAIN m.headers)
  <2>1. x = SubSeq(B, 1, Len(B) - 2)
    <3>1. BlockIs(d, s, L, B)
      BY <1>2, BlockFound, Zenon
    <3> QED
      BY <3>1, Zenon DEF BlockIs
  <2>2. SubSeq(B, 1, Len(B) - 2) \in Seq(Letters)
    <3>1. B \in Seq(Letters)
      BY Zenon DEF Header
    <3>2. Len(B) - 2 \in Nat /\ Len(B) - 2 <= Len(B)
      BY <1>2, <3>1
    <3> QED
      BY <3>1, <3>2, SubSeqBegins, Zenon
  <2> HIDE DEF x
  <2>3. HeadersOf(x, NoHeaders) = HeadersSeen(m)
    BY <1>2, <2>1, <2>2, HeadersParsed, Zenon DEF HeadersSeen
  <2> QED
    BY <2>3, Zenon DEF x, HeadersAre
<1> QED
  BY <1>1, <1>2, Zenon DEF HeadLines

(* parse_from_string of the first n elements, whatever the object held. *)
ParsedTo(m, H, n, r) ==
    /\ r.ok = (IF n >= H THEN "true" ELSE "false")
    /\ n >= H /\ Plain(m) =>
         r.m = Message(m.method, VersionSeen(m), UrlSeen(m), HeadersSeen(m),
                       SubSeq(m.body, 1, n - H))

(* The text of a message, cut off anywhere, is parsed to that. *)
LEMMA MessageParsed ==
    ASSUME NEW m \in Messages, NEW T, NEW B,
           HeadText(m, T, B, DOMAIN m.headers), NEW o,
           NEW n \in 0 .. Len((T \o CRLF) \o m.body)
    PROVE  /\ T \in Seq(Letters) /\ m.body \in Seq(Letters)
           /\ Len((T \o CRLF) \o m.body) = Len(T) + 2 + Len(m.body)
           /\ ParsedTo(m, Len(T) + 2, n, Parse(o, SubSeq((T \o CRLF) \o m.body, 1, n)))
<1> DEFINE l == StartLine(m)
           s == Len(l)
           L == Len(T)
           b == m.body
           w == (T \o CRLF) \o b
           d == SubSeq(w, 1, n)
<1>1. Started(m, l)
  BY StartLineParsed, Zenon
<1>2. HeaderMap(m.headers) /\ b \in Seq(Letters)
  BY MessageFields, Zenon
<1>3. /\ B \in Seq(Letters) /\ T = (l \o CRLF) \o B /\ HeaderText(T, s)
      /\ HeadLines(m, B, DOMAIN m.headers)
  BY Zenon DEF HeadText
<1>4. l \in Seq(Letters)
  BY <1>1, Zenon DEF Started, IsLine
<1>5. T \in Seq(Letters) /\ L = s + 2 + Len(B) /\ Arrival(l, s, B, L, T)
  BY <1>3, <1>4, WholeArrival, Zenon
<1>6. Len(w) = L + 2 + Len(b) /\ Arrival(T, L, b, n, d)
  BY <1>2, <1>5, ArrivalOf, Zenon
<1>7. s \in Nat /\ L \in Nat /\ n \in Nat /\ s + 2 <= L
  BY <1>3, <1>6, Zenon DEF HeaderText, Arrival
<1> HIDE DEF l, s, L, w, d
<1>8. CASE n >= L + 2
  <2>1. find(d, CRLF) = s + 1 /\ find(d, CRLF \o CRLF) = L - 1
    BY <1>3, <1>6, <1>8, HeaderComplete, Zenon
  <2>2. Header(l, s, B, T, L, b, n, d)
    BY <1>5, <1>6, <1>8, HeaderIs, Zenon
  <2> DEFINE pos == s + 1
             e == L - 1
  <2>3. pos # 0 /\ e # 0 /\ pos - 1 = s /\ pos + 2 = s + 3 /\ e + 4 = L + 3 /\ e = L - 1
    BY <1>7
  <2>4. SubSeq(d, 1, s) = l
    BY <2>2, StartLineFound, Zenon
  <2>5. find(d, CRLF) = pos /\ find(d, CRLF \o CRLF) = e /\ SubSeq(d, 1, pos - 1) = l
    BY <2>1, <2>3, <2>4
  <2>6. From(d, L + 3) = SubSeq(b, 1, n - (L + 2))
    <3>1. BodyIs(d, L, b, n)
      BY <2>2, BodyFound, Zenon
    <3> QED
      BY <3>1, Zenon DEF BodyIs
  <2>7. Plain(m) => HeadersAre(m, d, s, L)
    BY <1>2, <1>3, <2>2, HeadersFound, Zenon
  <2> HIDE DEF pos, e
  <2>8. Plain(m) => HeadersOf(HeaderBlock(d, pos + 2, e), NoHeaders) = HeadersSeen(m)
    BY <2>3, <2>7, Zenon DEF HeadersAre
  <2>9. /\ Parse(o, d).ok = "true"
        /\ Parse(o, d).m = Message(m.method, VersionSeen(m), UrlSeen(m),
                                   HeadersOf(HeaderBlock(d, pos + 2, e), NoHeaders),
                                   From(d, e + 4))
    <3>1. ParsedFrom(m, d, pos, e, Parse(o, d))
      BY <1>1, <2>3, <2>5, ParseSucceeds, Zenon
    <3> QED
      BY <3>1, Zenon DEF ParsedFrom
  <2>10. From(d, e + 4) = SubSeq(b, 1, n - (L + 2))
    BY <2>3, <2>6, Zenon
  <2>11. ParsedTo(m, L + 2, n, Parse(o, d))
    BY <1>8, <2>8, <2>9, <2>10, Zenon DEF ParsedTo
  <2> QED
    BY <1>2, <1>5, <1>6, <2>11, Zenon DEF L, w, d
<1>9. CASE ~ (n >= L + 2)
  <2>1. n < L + 2
    BY <1>7, <1>9
  <2>2. find(d, CRLF \o CRLF) = 0
    BY <1>3, <1>6, <2>1, HeaderIncomplete, Zenon
  <2>3. Parse(o, d).ok = "false"
    BY <2>2, ParseFails, Zenon
  <2>4. ParsedTo(m, L + 2, n, Parse(o, d))
    BY <1>9, <2>3, Zenon DEF ParsedTo
  <2> QED
    BY <1>2, <1>5, <1>6, <2>4, Zenon DEF L, w, d
<1> QED
  BY <1>8, <1>9, Zenon

-----------------------------------------------------------------------------
(* The inductive invariant.                                                *)

Sent(T, B) ==
    /\ wire = (T \o CRLF) \o message.body
    /\ HeadText(message, T, B, DOMAIN message.headers)

HttpIInv ==
    /\ message \in Messages /\ stage \in {"set", "headers", "sent"} /\ arrived \in Nat
    /\ stage = "set" => result = "none" /\ arrived = 0
    /\ stage = "headers" =>
         /\ result = "none" /\ arrived = 0
         /\ todo \subseteq DOMAIN message.headers
         /\ \E B : HeadText(message, wire, B, DOMAIN message.headers \ todo)
    /\ stage = "sent" => ParsedMessage /\ \E T, B : Sent(T, B)

(* No headers are headers. *)
LEMMA NoHeadersIn == NoHeaders \in HeaderMaps
<1>1. NoHeaders \in [{} -> Values]
  BY Zenon DEF NoHeaders
<1>2. {} \in SUBSET Names
  BY Zenon
<1> QED
  BY <1>1, <1>2, Zenon DEF HeaderMaps

(* Headers with one more, or another value for one. *)
LEMMA WithHeaderIn ==
    ASSUME NEW h, HeaderMap(h), NEW k \in Names, NEW v \in Values
    PROVE  WithHeader(h, k, v) \in HeaderMaps
<1> DEFINE D == DOMAIN h \cup {k}
<1>1. D \in SUBSET Names
  BY Zenon DEF HeaderMap
<1>2. \A x \in D : (IF x = k THEN v ELSE h[x]) \in Values
  BY Zenon DEF HeaderMap
<1>3. WithHeader(h, k, v) \in [D -> Values]
  BY <1>2, Zenon DEF WithHeader
<1> HIDE DEF D
<1> QED
  BY <1>1, <1>3, Zenon DEF HeaderMaps

(* It holds before the first message is built. *)
LEMMA HttpIInvInit ==
    ASSUME HttpInit
    PROVE  HttpIInv
<1>1. PICK m \in Methods, v \in Versions : message = Message(m, v, <<>>, NoHeaders, <<>>)
  BY Zenon DEF HttpInit
<1>2. <<>> \in Seq(Letters \ Space) /\ <<>> \in Seq(Letters)
  OBVIOUS
<1>3. message \in Messages
  BY <1>1, <1>2, NoHeadersIn DEF Messages, Message
<1>4. stage = "set" /\ result = "none" /\ arrived = 0 /\ 0 \in Nat
  BY DEF HttpInit
<1>5. "set" # "headers" /\ "set" # "sent"
  OBVIOUS
<1> QED
  BY <1>3, <1>4, <1>5, Zenon DEF HttpIInv

(* The setters keep it. *)
LEMMA SetFieldStep ==
    ASSUME HttpIInv, SetField
    PROVE  HttpIInv'
<1>1. message \in Messages
  BY Zenon DEF HttpIInv
<1>2. message' \in Messages
  <2>1. ASSUME NEW m \in Methods, message' = [message EXCEPT !.method = m]
        PROVE  message' \in Messages
    BY <1>1, <2>1 DEF Messages
  <2>2. ASSUME NEW v \in Versions, message' = [message EXCEPT !.version = v]
        PROVE  message' \in Messages
    BY <1>1, <2>2 DEF Messages
  <2>3. ASSUME NEW u \in Urls, message' = [message EXCEPT !.url = u]
        PROVE  message' \in Messages
    <3>1. u \in Seq(Letters \ Space)
      BY HttpAssumption, Zenon
    <3> QED
      BY <1>1, <2>3, <3>1 DEF Messages
  <2>4. ASSUME NEW h \in HeaderMaps, message' = [message EXCEPT !.headers = h]
        PROVE  message' \in Messages
    BY <1>1, <2>4 DEF Messages
  <2>5. ASSUME NEW k \in Names, NEW v \in Values,
               message' = [message EXCEPT !.headers = WithHeader(message.headers, k, v)]
        PROVE  message' \in Messages
    <3> DEFINE h == WithHeader(message.headers, k, v)
    <3>1. HeaderMap(message.headers)
      BY <1>1, MessageFields, Zenon
    <3>2. h \in HeaderMaps
      BY <3>1, WithHeaderIn, Zenon
    <3>3. message' = [message EXCEPT !.headers = h]
      BY <2>5, Zenon
    <3> HIDE DEF h
    <3> QED
      BY <2>4, <3>2, <3>3, Zenon
  <2>6. ASSUME NEW b \in Bodies, message' = [message EXCEPT !.body = b]
        PROVE  message' \in Messages
    <3>1. b \in Seq(Letters)
      BY HttpAssumption, Zenon
    <3> QED
      BY <1>1, <2>6, <3>1 DEF Messages
  <2> QED
    BY <2>1, <2>2, <2>3, <2>4, <2>5, <2>6, NoHeadersIn, Zenon DEF SetField
<1>3. stage' = "set" /\ result' = "none" /\ arrived' = 0 /\ 0 \in Nat
  BY DEF SetField
<1>4. "set" # "headers" /\ "set" # "sent"
  OBVIOUS
<1> QED
  BY <1>2, <1>3, <1>4, Zenon DEF HttpIInv

(* The start line is written. *)
LEMMA SerializeStep ==
    ASSUME HttpIInv, Serialize
    PROVE  HttpIInv'
<1>1. /\ message \in Messages /\ message' = message
      /\ result' = result /\ arrived' = arrived /\ result = "none" /\ arrived = 0
      /\ arrived \in Nat
      /\ stage' = "headers" /\ wire' = StartLine(message) \o CRLF
      /\ todo' = DOMAIN message.headers
  BY Zenon DEF HttpIInv, Serialize
<1>2. IsLine(StartLine(message))
  BY <1>1, StartLineParsed, Zenon DEF Started
<1>3. HeadText(message, wire', <<>>, {})
  BY <1>1, <1>2, HeadBegun, Zenon
<1>4. DOMAIN message.headers \ todo' = {}
  BY <1>1, Zenon
<1>5. \E B : HeadText(message, wire', B, DOMAIN message.headers \ todo')
  BY <1>3, <1>4, Zenon
<1>6. (\E B : HeadText(message, wire, B, DOMAIN message.headers \ todo))'
  BY <1>1, <1>5, Zenon
<1>7. "headers" # "set" /\ "headers" # "sent"
  OBVIOUS
<1> QED
  BY <1>1, <1>6, <1>7, Zenon DEF HttpIInv

(* A header is written, whichever comes next in the table. *)
LEMMA WriteHeaderStep ==
    ASSUME HttpIInv, NEW k \in todo, WriteHeader(k)
    PROVE  HttpIInv'
<1>1. /\ message \in Messages /\ message' = message
      /\ result' = result /\ arrived' = arrived /\ result = "none" /\ arrived = 0
      /\ arrived \in Nat /\ stage' = "headers"
      /\ wire' = (wire \o HeaderLine(message, k)) \o CRLF /\ todo' = todo \ {k}
      /\ todo \subseteq DOMAIN message.headers
  BY Zenon DEF HttpIInv, WriteHeader
<1>2. PICK B : HeadText(message, wire, B, DOMAIN message.headers \ todo)
  BY Zenon DEF HttpIInv, WriteHeader
<1>3. IsLine(StartLine(message))
  BY <1>1, StartLineParsed, Zenon DEF Started
<1>4. IsLine(HeaderLine(message, k)) /\ HeaderLine(message, k) # <<>>
  <2>1. HeaderMap(message.headers) /\ k \in DOMAIN message.headers
    BY <1>1, MessageFields, Zenon
  <2> QED
    BY <2>1, HeaderLineIs, Zenon
<1> DEFINE K == DOMAIN message.headers \ todo
           C == (B \o HeaderLine(message, k)) \o CRLF
<1>5. HeadText(message, wire', C, K \cup {k})
  <2> HIDE DEF K
  <2>1. HeadText(message, wire, B, K)
    BY <1>2, Zenon DEF K
  <2> QED
    BY <1>1, <1>3, <1>4, <2>1, HeadAdded, Zenon
<1>6. K \cup {k} = DOMAIN message.headers \ todo'
  BY <1>1, Zenon
<1>7. (\E D : HeadText(message, wire, D, DOMAIN message.headers \ todo))'
  <2> HIDE DEF C
  <2> QED
    BY <1>1, <1>5, <1>6, Zenon
<1>8. "headers" # "set" /\ "headers" # "sent"
  OBVIOUS
<1>9. todo' \subseteq DOMAIN message.headers
  BY <1>1, Zenon
<1> QED
  BY <1>1, <1>7, <1>8, <1>9, Zenon DEF HttpIInv

(* The empty line and the body are written. *)
LEMMA WriteBodyStep ==
    ASSUME HttpIInv, WriteBody
    PROVE  HttpIInv'
<1>1. /\ message \in Messages /\ message' = message
      /\ result' = result /\ arrived' = arrived /\ result = "none" /\ arrived = 0
      /\ arrived \in Nat /\ stage' = "sent"
      /\ wire' = (wire \o CRLF) \o message.body /\ todo = {}
  BY Zenon DEF HttpIInv, WriteBody
<1>2. PICK B : HeadText(message, wire, B, DOMAIN message.headers \ todo)
  BY Zenon DEF HttpIInv, WriteBody
<1>3. DOMAIN message.headers \ todo = DOMAIN message.headers
  BY <1>1, Zenon
<1>4. \E T, D : /\ wire' = (T \o CRLF) \o message.body
                /\ HeadText(message, T, D, DOMAIN message.headers)
  BY <1>1, <1>2, <1>3, Zenon
<1>5. (\E T, D : Sent(T, D))'
  BY <1>1, <1>4, Zenon DEF Sent
<1>6. ParsedMessage'
  BY <1>1, Zenon DEF ParsedMessage
<1>7. "sent" # "set" /\ "sent" # "headers"
  OBVIOUS
<1> QED
  BY <1>1, <1>5, <1>6, <1>7, Zenon DEF HttpIInv

(* More of the text arrives and is parsed. *)
LEMMA ReceiveStep ==
    ASSUME HttpIInv, NEW n, Receive(n)
    PROVE  HttpIInv' /\ result' \in {"true", "false"}
<1>1. /\ message \in Messages /\ message' = message
      /\ arrived \in Nat /\ n \in arrived + 1 .. Len(wire) /\ arrived' = n
      /\ stage' = "sent" /\ wire' = wire
      /\ in' = Parse(in, SubSeq(wire, 1, n)).m /\ result' = Parse(in, SubSeq(wire, 1, n)).ok
  BY Zenon DEF HttpIInv, Receive
<1>2. PICK T, B : /\ wire = (T \o CRLF) \o message.body
                  /\ HeadText(message, T, B, DOMAIN message.headers)
  BY Zenon DEF HttpIInv, Receive, Sent
<1> DEFINE b == message.body
           H == Len(T) + 2
           r == Parse(in, SubSeq(wire, 1, n))
<1>w. wire = (T \o CRLF) \o b
  BY <1>2, Zenon
<1>3. Len(wire) \in Nat
  <2>1. T \in Seq(Letters) /\ b \in Seq(Letters)
    BY <1>1, <1>2, MessageFields, Zenon DEF HeadText, HeaderText
  <2>2. wire \in Seq(Letters)
    BY <1>w, <2>1, WholeArrival, Zenon
  <2> QED
    BY <2>2
<1>4. n \in 0 .. Len(wire) /\ n \in Nat
  BY <1>1, <1>3
<1>5. /\ T \in Seq(Letters) /\ b \in Seq(Letters)
      /\ Len(wire) = Len(T) + 2 + Len(b) /\ ParsedTo(message, H, n, r)
  BY <1>1, <1>2, <1>4, MessageParsed, Zenon
<1>6. Len(wire) - Len(b) = H
  BY <1>5
<1> HIDE DEF H, r
<1>7. HeaderLength(message)' = H
  BY <1>1, <1>6, Zenon DEF HeaderLength
<1>8. result' = r.ok /\ in' = r.m
  BY <1>1, Zenon DEF r
<1>9. "true" # "false"
  OBVIOUS
<1>10. result' = "true" <=> n >= H
  BY <1>5, <1>8, <1>9, Zenon DEF ParsedTo
<1>11. ASSUME result' = "true", Plain(message)
       PROVE  in' = Seen(message, n)'
  <2>1. in' = Message(message.method, VersionSeen(message), UrlSeen(message), HeadersSeen(message),
                      SubSeq(b, 1, n - H))
    BY <1>5, <1>8, <1>10, <1>11, Zenon DEF ParsedTo
  <2>2. Seen(message, n)' = Message(message.method, VersionSeen(message), UrlSeen(message),
                                    HeadersSeen(message), SubSeq(b, 1, n - H))
    BY <1>1, <1>7, Zenon DEF Seen, UrlSeen, VersionSeen, HeadersSeen
  <2> QED
    BY <2>1, <2>2, Zenon
<1>12. ParsedMessage'
  BY <1>1, <1>7, <1>10, <1>11, Zenon DEF ParsedMessage
<1>13. (\E U, D : Sent(U, D))'
  BY <1>1, <1>2, Zenon DEF Sent
<1>14. "sent" # "set" /\ "sent" # "headers"
  OBVIOUS
<1>15. result' \in {"true", "false"}
  BY <1>5, <1>8, Zenon DEF ParsedTo
<1> QED
  BY <1>1, <1>4, <1>12, <1>13, <1>14, <1>15, Zenon DEF HttpIInv

(* Every step keeps it. *)
LEMMA HttpIInvNext == HttpIInv /\ [HttpNext]_httpVars => HttpIInv'
<1>1. ASSUME HttpIInv, UNCHANGED httpVars PROVE HttpIInv'
  BY <1>1, Zenon DEF httpVars, HttpIInv, ParsedMessage, HeaderLength, Seen, Sent
<1> QED
  BY <1>1, SetFieldStep, SerializeStep, WriteHeaderStep, WriteBodyStep, ReceiveStep, Zenon
     DEF HttpNext

(* It always holds. *)
LEMMA HttpIInvAlways == HttpSpec => []HttpIInv
  BY HttpIInvInit, HttpIInvNext, PTL DEF HttpSpec

(* ParsedMessage for every message, any order of the headers, any cut of   *)
(* the text and any earlier content of the receiver's object.              *)
THEOREM HttpParsesMessage == HttpSpec => []ParsedMessage
<1>1. HttpIInv => ParsedMessage
  BY Zenon DEF HttpIInv, ParsedMessage
<1> QED
  BY <1>1, HttpIInvAlways, PTL

WithBody(x, y, c) == y = [x EXCEPT !.body = c]

(* A message with another body. *)
LEMMA OtherBody ==
    ASSUME NEW m, NEW v, NEW u, NEW h, NEW b, NEW c
    PROVE  WithBody(Message(m, v, u, h, b), Message(m, v, u, h, c), c)
  BY SMTT(30) DEF Message, WithBody

(* What parsing more of the same text does once the header has arrived. *)
OnlyBodyGrows ==
    stage = "sent" /\ stage' = "sent" /\ result = "true" =>
        /\ result' = "true"
        /\ Plain(message) =>
             in' = [in EXCEPT !.body = SubSeq(message.body, 1, arrived' - HeaderLength(message))]

(* Once the header has arrived, every later call of parse_from_string on   *)
(* the same text returns true again and changes only the body, which is    *)
(* read to where the text has arrived.                                     *)
THEOREM HttpKeepsHeader == HttpSpec => [][OnlyBodyGrows]_httpVars
<1>1. ASSUME HttpIInv, HttpIInv', HttpNext PROVE OnlyBodyGrows
  <2>1. SUFFICES ASSUME stage = "sent", stage' = "sent", result = "true"
                 PROVE  /\ result' = "true"
                        /\ Plain(message) =>
                             in' = [in EXCEPT !.body = SubSeq(message.body, 1,
                                                arrived' - HeaderLength(message))]
    BY Zenon DEF OnlyBodyGrows
  <2>2. /\ "sent" # "set" /\ "sent" # "headers" /\ "true" # "none" /\ "false" # "none"
        /\ "true" # "false"
    OBVIOUS
  <2>3. PICK n : Receive(n)
    BY <1>1, <2>1, <2>2, Zenon DEF HttpNext, SetField, Serialize, WriteHeader, WriteBody
  <2>4. /\ message' = message /\ wire' = wire /\ arrived' = n
        /\ n \in arrived + 1 .. Len(wire)
    BY <2>3, Zenon DEF Receive
  <2>5. result' \in {"true", "false"}
    BY <1>1, <2>3, ReceiveStep, Zenon
  <2>6. /\ arrived \in Nat /\ arrived >= HeaderLength(message)
        /\ Plain(message) => in = Seen(message, arrived)
    BY <1>1, <2>1, <2>2, Zenon DEF HttpIInv, ParsedMessage
  <2>7. HeaderLength(message)' = HeaderLength(message)
    BY <2>4, Zenon DEF HeaderLength
  <2>8. /\ result' = "true" <=> n >= HeaderLength(message)
        /\ result' = "true" /\ Plain(message) => in' = Seen(message, n)'
    BY <1>1, <2>1, <2>2, <2>4, <2>5, <2>7, Zenon DEF HttpIInv, ParsedMessage
  <2> DEFINE H == HeaderLength(message)
             a == Message(message.method, VersionSeen(message), UrlSeen(message),
                          HeadersSeen(message), SubSeq(message.body, 1, arrived - H))
             c == Message(message.method, VersionSeen(message), UrlSeen(message),
                          HeadersSeen(message), SubSeq(message.body, 1, n - H))
  <2>9. H \in Int /\ Len(wire) \in Int
    <3>1. PICK T, B : Sent(T, B)
      BY <1>1, <2>1, Zenon DEF HttpIInv
    <3>2. T \in Seq(Letters) /\ message.body \in Seq(Letters)
      BY <1>1, <3>1, MessageFields, Zenon DEF HttpIInv, Sent, HeadText, HeaderText
    <3>3. wire \in Seq(Letters)
      BY <3>1, <3>2, WholeArrival, Zenon DEF Sent
    <3> QED
      BY <3>2, <3>3 DEF HeaderLength
  <2> HIDE DEF H
  <2>10. n >= H
    <3>1. arrived >= H
      BY <2>6, Zenon DEF H
    <3> QED
      BY <2>4, <2>6, <2>9, <3>1
  <2>11. result' = "true"
    BY <2>8, <2>10, Zenon DEF H
  <2>12. Plain(message) => in = a /\ in' = c
    <3>1. Seen(message, arrived) = a
      BY Zenon DEF Seen, UrlSeen, VersionSeen, HeadersSeen, H
    <3>2. Seen(message, n)' = c
      BY <2>4, <2>7, Zenon DEF Seen, UrlSeen, VersionSeen, HeadersSeen, H
    <3> QED
      BY <2>6, <2>8, <2>11, <3>1, <3>2, Zenon
  <2>13. c = [a EXCEPT !.body = SubSeq(message.body, 1, n - H)]
    <3>1. WithBody(a, c, SubSeq(message.body, 1, n - H))
      BY OtherBody, Zenon
    <3> QED
      BY <3>1, Zenon DEF WithBody
  <2> HIDE DEF a, c
  <2> QED
    BY <2>4, <2>11, <2>12, <2>13, Zenon DEF H
<1>2. UNCHANGED httpVars => [OnlyBodyGrows]_httpVars
  BY Zenon
<1>3. HttpIInv /\ HttpIInv' /\ [HttpNext]_httpVars => [OnlyBodyGrows]_httpVars
  BY <1>1, <1>2, Zenon
<1> QED
  BY <1>3, HttpIInvAlways, PTL DEF HttpSpec

=============================================================================
