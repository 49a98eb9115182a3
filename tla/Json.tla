-------------------------------- MODULE Json --------------------------------
(***************************************************************************)
(* JSON documents (include/protocol/Json.hpp): the tree of values, the     *)
(* proxies JsonValue that point into it, the printer and the parser, used  *)
(* by one thread as in main.cpp.                                           *)
(*                                                                         *)
(* A text is a sequence of lexical elements: one element per character,    *)
(* except that a numeral, true, false and null are one element each and    *)
(* " " is any white space.  NL and BS are the characters that the escapes  *)
(* \n and \b stand for (\r and \t behave as \n, and \f as \b).  So how a    *)
(* numeral is written, line ends inside a string and \u are left out.      *)
(***************************************************************************)
EXTENDS Naturals, Sequences, FiniteSets, TLC

CONSTANTS
    Proxies,   \* variables of type JsonValue, besides the root
    Root,      \* the proxy that owns the document
    Keys,      \* the keys that the program uses, sequences of characters
    Indices,   \* the array indices that the program uses
    Scalars,   \* the values that the program assigns and pushes
    Numbers,   \* the numbers in Scalars and in texts
    Alphabet,  \* the elements of the texts that are parsed
    Starts,    \* how these texts begin
    MaxText,   \* bound: elements after the beginning of a text
    MaxOps     \* bound: operations on the document

VARIABLES
    doc,    \* the document
    refs,   \* the slot that each proxy points to
    text,   \* the text to be parsed next
    ops     \* operations on the document so far

jsonVars == <<doc, refs, text, ops>>

-----------------------------------------------------------------------------
(* Values.                                                                 *)

Q == "\""
JsonNull == [type |-> "Null"]
JsonString(s) == [type |-> "String", s |-> s]
JsonNumber(n) == [type |-> "Number", n |-> n]
JsonBoolean(b) == [type |-> "Boolean", b |-> b]
JsonObject(ms) == [type |-> "Object", members |-> ms]
JsonArray(es) == [type |-> "Array", elements |-> es]
Empty == [type |-> "empty"]        \* a unique_ptr that holds nothing

Member(k, v) == [key |-> k, val |-> v]

(* The slots of a value, and the value with other contents in slot i. *)
Slots(v) ==
    CASE v.type = "Object" -> [i \in DOMAIN v.members |-> v.members[i].val]
      [] v.type = "Array" -> v.elements
      [] OTHER -> <<>>
WithSlot(v, i, w) ==
    IF v.type = "Object" THEN [v EXCEPT !.members[i].val = w]
                         ELSE [v EXCEPT !.elements[i] = w]

RECURSIVE ValueAt(_, _)
ValueAt(v, path) ==
    IF path = <<>> THEN v ELSE ValueAt(Slots(v)[Head(path)], Tail(path))

RECURSIVE WithValueAt(_, _, _)
WithValueAt(v, path, w) ==
    IF path = <<>> THEN w
    ELSE WithSlot(v, Head(path),
                  WithValueAt(Slots(v)[Head(path)], Tail(path), w))

-----------------------------------------------------------------------------
(* The printer: toString, and dump, whose line breaks and indentation are  *)
(* the white space sp.                                                     *)

(* operator<< prints six significant digits. *)
SixDigits(n) ==
    LET p == CHOOSE p \in {10 ^ k : k \in 0 .. 9} :
               n \div p < 1000000 /\ (p > 1 => n \div (p \div 10) >= 1000000)
    IN  ((n + p \div 2) \div p) * p
Numeral(n) == ToString(SixDigits(n))

(* Mutant of Escaped: a backslash is printed as it is. *)
EscapedQuotesOnly(s) ==
    LET esc(c) == IF c = Q THEN <<"\\", c>> ELSE <<c>>
        f[i \in 0 .. Len(s)] == IF i = 0 THEN <<>> ELSE f[i - 1] \o esc(s[i])
    IN  f[Len(s)]

Escaped(s) ==
    LET esc(c) == CASE c \in {Q, "\\"} -> <<"\\", c>>
                    [] c = "NL" -> <<"\\", "n">>
                    [] OTHER -> <<c>>
        f[i \in 0 .. Len(s)] == IF i = 0 THEN <<>> ELSE f[i - 1] \o esc(s[i])
    IN  f[Len(s)]

(* The items, with a comma between them. *)
Listed(items, sp) ==
    LET f[i \in 0 .. Len(items)] ==
          IF i = 0 THEN <<>>
          ELSE f[i - 1] \o (IF i > 1 THEN <<",">> \o sp ELSE <<>>) \o items[i]
    IN  f[Len(items)]

RECURSIVE toString(_, _)
toString(v, sp) ==
    CASE v.type = "String" -> <<Q>> \o Escaped(v.s) \o <<Q>>
      [] v.type = "Number" -> <<Numeral(v.n)>>
      [] v.type = "Boolean" -> <<IF v.b THEN "true" ELSE "false">>
      [] v.type \in {"Null", "empty"} -> <<"null">>
      [] v.type = "Object" ->
           LET item(m) == <<Q>> \o m.key \o <<Q, ":">> \o sp \o toString(m.val, sp)
               items == [i \in DOMAIN v.members |-> item(v.members[i])]
           IN  <<"{">> \o sp \o Listed(items, sp) \o sp \o <<"}">>
      [] v.type = "Array" ->
           LET items == [i \in DOMAIN v.elements |-> toString(v.elements[i], sp)]
           IN  <<"[">> \o sp \o Listed(items, sp) \o sp \o <<"]">>

-----------------------------------------------------------------------------
(* The parser.  A function of the parser gives the value and the position  *)
(* after it, or Throw.                                                     *)

Throw == [ok |-> FALSE]
Parsed(v, p) == [ok |-> TRUE, v |-> v, pos |-> p]
At(t, p) == IF p <= Len(t) THEN t[p] ELSE "end"

(* std::stod on what parseNumber has scanned. *)
Numerals == {ToString(n) : n \in Numbers} \cup {Numeral(n) : n \in Numbers}
stod(c) ==
    CHOOSE n \in Numbers \cup {SixDigits(k) : k \in Numbers} : ToString(n) = c

RECURSIVE skipSpaces(_, _)
skipSpaces(t, p) == IF At(t, p) = " " THEN skipSpaces(t, p + 1) ELSE p

(* Mutant of Unescaped: \n gives the letter. *)
UnescapedLetter(c) == c

Unescaped(c) == CASE c = "n" -> "NL" [] c = "b" -> "BS" [] OTHER -> c

(* parseString, after the quote: a text that ends ends the string. *)
RECURSIVE parseString(_, _, _)
parseString(t, p, out) ==
    CASE p > Len(t) -> Parsed(JsonString(out), p)
      [] At(t, p) = Q -> Parsed(JsonString(out), p + 1)
      [] At(t, p) = "\\" /\ p = Len(t) -> Throw
      [] At(t, p) = "\\" /\ p < Len(t) ->
           parseString(t, p + 2, Append(out, Unescaped(t[p + 1])))
      [] OTHER -> parseString(t, p + 1, Append(out, t[p]))

RECURSIVE parseValue(_, _), parseObject(_, _, _), parseArray(_, _, _)

(* The loop of parseObject. *)
parseObject(t, p, members) ==
    LET k == parseString(t, skipSpaces(t, p) + 1, <<>>)
        colon == skipSpaces(t, k.pos)
        r == parseValue(t, colon + 1)
        end == skipSpaces(t, r.pos)
        grown == Append(members, Member(k.v.s, r.v))
    IN  IF \/ At(t, skipSpaces(t, p)) # Q \/ ~k.ok
           \/ At(t, colon) # ":" \/ ~r.ok
           \/ At(t, end) \notin {",", "}"}
        THEN Throw
        ELSE IF At(t, end) = "}" THEN Parsed(JsonObject(grown), end + 1)
                                 ELSE parseObject(t, end + 1, grown)

(* The loop of parseArray. *)
parseArray(t, p, elements) ==
    LET r == parseValue(t, p)
        end == skipSpaces(t, r.pos)
        grown == Append(elements, r.v)
    IN  IF ~r.ok \/ At(t, end) \notin {",", "]"}
        THEN Throw
        ELSE IF At(t, end) = "]" THEN Parsed(JsonArray(grown), end + 1)
                                 ELSE parseArray(t, end + 1, grown)

parseValue(t, start) ==
    LET p == skipSpaces(t, start)
        q == skipSpaces(t, p + 1)
        c == At(t, p)
    IN  CASE c = "{" -> IF At(t, q) = "}" THEN Parsed(JsonObject(<<>>), q + 1)
                                          ELSE parseObject(t, q, <<>>)
          [] c = "[" -> IF At(t, q) = "]" THEN Parsed(JsonArray(<<>>), q + 1)
                                          ELSE parseArray(t, q, <<>>)
          [] c = Q -> parseString(t, p + 1, <<>>)
          [] c \in {"true", "false"} -> Parsed(JsonBoolean(c = "true"), p + 1)
          [] c = "null" -> Parsed(JsonNull, p + 1)
          [] c \in Numerals -> Parsed(JsonNumber(stod(c)), p + 1)
          [] OTHER -> Throw

(* Mutant of parse: what follows the value is not looked at. *)
parsePrefix(t) == parseValue(t, 1)

parse(t) ==
    LET r == parseValue(t, 1)
    IN  IF r.ok /\ skipSpaces(t, r.pos) = Len(t) + 1 THEN r ELSE Throw

-----------------------------------------------------------------------------
(* The proxies.  A proxy is a pointer to a unique_ptr in the vector of the *)
(* parent: refs keeps where that is, how the program got there, and        *)
(* whether the pointer is still good.  A vector that grows may move its    *)
(* slots, so that pointers to them are lost; the nodes in the slots stay   *)
(* where they are.  The program uses only pointers that are still good.    *)

Ref(path, chain) == [path |-> path, chain |-> chain, valid |-> TRUE]
NoRef == [path |-> <<>>, chain |-> <<>>, valid |-> FALSE]
ByKey(k) == [key |-> k]
ByIndex(i) == [idx |-> i]

Below(path, q) ==
    Len(q) > Len(path) /\ SubSeq(q, 1, Len(path)) = path

JsonInit ==
    /\ doc = JsonObject(<<>>)
    /\ refs = [p \in Proxies |-> NoRef] @@ (Root :> Ref(<<>>, <<>>))
    /\ text \in Starts
    /\ ops = 0

(* The pointers that are lost when the value at path is replaced, and when *)
(* its vector grows.                                                       *)
Lost(r, path, replaced, grown) ==
    /\ Below(path, r.path)
    /\ replaced \/ (grown /\ Len(r.path) = Len(path) + 1)

(* The document gets the value v where proxy p points. *)
Store(p, v, replaced, grown) ==
    /\ doc' = WithValueAt(doc, refs[p].path, v)
    /\ refs' = [r \in DOMAIN refs |->
                  [refs[r] EXCEPT !.valid =
                     @ /\ ~Lost(refs[r], refs[p].path, replaced, grown)]]

(* The same, and proxy q then points to slot i of v. *)
StoreAndPoint(p, q, v, i, step, replaced, grown) ==
    /\ doc' = WithValueAt(doc, refs[p].path, v)
    /\ refs' = [r \in DOMAIN refs |->
         IF r = q
         THEN Ref(Append(refs[p].path, i), Append(refs[p].chain, step))
         ELSE [refs[r] EXCEPT !.valid =
                 @ /\ ~Lost(refs[r], refs[p].path, replaced, grown)]]

Here(p) == ValueAt(doc, refs[p].path)

(* ensureExistsAs, ensureArray and the first lines of both operator[]: a   *)
(* value of another type is replaced by an empty container.                *)
Ensured(v, type) ==
    CASE v.type = type -> v
      [] v.type # type /\ type = "Object" -> JsonObject(<<>>)
      [] v.type # type /\ type = "Array" -> JsonArray(<<>>)

(* Mutant of SlotOfKey: the key is always added. *)
SlotOfKeyNew(o, k) == Len(o.members) + 1

(* The first member with the key, or a new one: getRefForKeyCreate. *)
SlotOfKey(o, k) ==
    LET found == {i \in DOMAIN o.members : o.members[i].key = k}
    IN  IF found = {} THEN Len(o.members) + 1
        ELSE CHOOSE i \in found : \A j \in found : i <= j

(* q = p[k] *)
IndexKey(p, q, k) ==
    LET o == Ensured(Here(p), "Object")
        i == SlotOfKey(o, k)
        new == i > Len(o.members)
    IN  StoreAndPoint(p, q,
            IF new THEN JsonObject(Append(o.members, Member(k, JsonNull))) ELSE o, i,
            ByKey(k), Here(p).type # "Object", new)

(* The elements after getElementRefCreate(i), with i counted from 0. *)
Expanded(es, i) ==
    LET null(v) == IF v = Empty THEN JsonNull ELSE v
    IN  IF i >= Len(es)
        THEN [j \in 1 .. i + 1 |-> IF j <= Len(es) THEN null(es[j]) ELSE JsonNull]
        ELSE [es EXCEPT ![i + 1] = null(@)]

(* q = p[i] *)
IndexArray(p, q, i) ==
    LET a == Ensured(Here(p), "Array")
    IN  StoreAndPoint(p, q, JsonArray(Expanded(a.elements, i)), i + 1, ByIndex(i),
            Here(p).type # "Array", i >= Len(a.elements))

(* *p = v, for the assignments of JsonValue; a null pointer becomes null. *)
Assign(p, v) == Store(p, IF v = Empty THEN JsonNull ELSE v, TRUE, FALSE)

(* p.push(v) *)
Push(p, v) ==
    Store(p, JsonArray(Append(Ensured(Here(p), "Array").elements, v)),
          Here(p).type # "Array", TRUE)

(* p.asObject(), and p.asArray(), which turn the value into a container *)
As(p, type) == Store(p, Ensured(Here(p), type), Here(p).type # type, FALSE)

(* p.asObject().insert(k, v), which does not look for the key. *)
Insert(p, k, v) ==
    Store(p, JsonObject(Append(Ensured(Here(p), "Object").members, Member(k, v))),
          Here(p).type # "Object", TRUE)

Operation(p) ==
    /\ refs[p].valid
    /\ \/ \E q \in Proxies : \/ \E k \in Keys : IndexKey(p, q, k)
                            \/ \E i \in Indices : IndexArray(p, q, i)
       \/ \E v \in Scalars : Assign(p, v) \/ Push(p, v)
       \/ \E type \in {"Object", "Array"} : As(p, type)
       \/ \E k \in Keys, v \in Scalars : v # Empty /\ Insert(p, k, v)

(* root = JsonParser::parse(text), which may throw. *)
ParseText ==
    /\ IF parse(text).ok THEN Store(Root, parse(text).v, TRUE, FALSE)
                         ELSE UNCHANGED <<doc, refs>>
    /\ text' = <<>>

(* The element c may follow the text t: two numerals side by side are one, *)
(* and of a word after a backslash only the first letter is escaped.       *)
Words == {"true", "false", "null"}
MayFollow(t, c) ==
    t # <<>> => /\ t[Len(t)] \in Numerals => c \notin Numerals
                /\ t[Len(t)] = "\\" => c \notin Words

(* The text that the program is going to parse, element by element; the    *)
(* operations on the document come when there is none.                     *)
Extend(c) ==
    /\ ops = 0 /\ MayFollow(text, c)
    /\ \E s \in Starts : /\ Len(text) \in Len(s) .. Len(s) + MaxText - 1
                        /\ SubSeq(text, 1, Len(s)) = s
    /\ text' = Append(text, c)
    /\ UNCHANGED <<doc, refs, ops>>

JsonNext ==
    \/ \E c \in Alphabet : Extend(c)
    \/ /\ ops < MaxOps
       /\ ops' = ops + 1
       /\ \/ ParseText
          \/ /\ text = <<>> /\ UNCHANGED text
             /\ \E p \in DOMAIN refs : Operation(p)

JsonSpec == JsonInit /\ [][JsonNext]_jsonVars

-----------------------------------------------------------------------------
(* Properties.                                                             *)

(* What the printer keeps of a value: six digits of a number, and null for *)
(* a slot that holds nothing.                                              *)
RECURSIVE Kept(_)
Kept(v) ==
    CASE v.type = "Number" -> JsonNumber(SixDigits(v.n))
      [] v.type = "empty" -> JsonNull
      [] v.type = "Object" ->
           JsonObject([i \in DOMAIN v.members |->
                     Member(v.members[i].key, Kept(v.members[i].val))])
      [] v.type = "Array" ->
           JsonArray([i \in DOMAIN v.elements |-> Kept(v.elements[i])])
      [] OTHER -> v

RECURSIVE PlainKeys(_)
PlainKeys(v) ==
    /\ v.type = "Object" => \A i \in DOMAIN v.members :
         \A j \in DOMAIN v.members[i].key : v.members[i].key[j] \notin {Q, "\\"}
    /\ \A i \in DOMAIN Slots(v) : PlainKeys(Slots(v)[i])

(* A document that the program has built or parsed, printed with toString  *)
(* or dump, is parsed back to the same document, up to the digits of       *)
(* numbers; keys with a quote or a backslash are printed as they are, and  *)
(* such documents are excepted.                                            *)
RoundTrip ==
    PlainKeys(doc) => \A sp \in {<<>>, <<" ">>} :
        parse(toString(doc, sp)).ok /\ parse(toString(doc, sp)).v = Kept(doc)

(* Where the keys and indices of a chain lead: a key to the first member   *)
(* that has it.                                                            *)
RECURSIVE Lookup(_, _)
Lookup(v, chain) ==
    IF chain = <<>> THEN <<>>
    ELSE LET step == Head(chain)
             i == IF "idx" \in DOMAIN step THEN step.idx + 1
                  ELSE CHOOSE j \in DOMAIN v.members :
                         /\ v.members[j].key = step.key
                         /\ \A h \in 1 .. j - 1 : v.members[h].key # step.key
         IN  <<i>> \o Lookup(Slots(v)[i], Tail(chain))

(* A proxy that the program may still use points to the slot that its keys *)
(* and indices denote in the document as it is now, so that what is        *)
(* assigned through it is found by the next look-up; members added later   *)
(* and duplicate keys do not change this.                                  *)
ProxyDenotes ==
    \A p \in DOMAIN refs : refs[p].valid => Lookup(doc, refs[p].chain) = refs[p].path

(* A grammar over texts: JSON, if in strings only the characters esc =     *)
(* JsonEscapes may follow a backslash.                                     *)
Trim(t) ==
    LET solid == {i \in DOMAIN t : t[i] # " "}
        lo == CHOOSE i \in solid : \A j \in solid : i <= j
        hi == CHOOSE i \in solid : \A j \in solid : i >= j
    IN  IF solid = {} THEN <<>> ELSE SubSeq(t, lo, hi)

JsonEscapes == {Q, "\\", "/", "n", "b"}

(* The positions of t that a backslash escapes. *)
EscapedIn(t) ==
    LET run(i) == CHOOSE n \in 0 .. i - 1 :
                    /\ \A j \in i - n .. i - 1 : t[j] = "\\"
                    /\ i - n - 1 >= 1 => t[i - n - 1] # "\\"
    IN  {i \in DOMAIN t : run(i) % 2 = 1}
IsString(t, esc) ==
    /\ Len(t) >= 2
    /\ {i \in DOMAIN t \ EscapedIn(t) : t[i] = Q} = {1, Len(t)}
    /\ \A i \in EscapedIn(t) : t[i] \in esc

RECURSIVE IsValue(_, _), IsElements(_, _), IsMembers(_, _)
Inner(t) == SubSeq(t, 2, Len(t) - 1)
Before(t, i) == Trim(SubSeq(t, 1, i - 1))
After(t, i) == Trim(SubSeq(t, i + 1, Len(t)))
IsMember(t, esc) ==
    \E i \in DOMAIN t :
        t[i] = ":" /\ IsString(Before(t, i), esc) /\ IsValue(After(t, i), esc)
IsMembers(t, esc) ==
    \/ IsMember(t, esc)
    \/ \E i \in DOMAIN t :
         t[i] = "," /\ IsMember(Before(t, i), esc) /\ IsMembers(After(t, i), esc)
IsElements(t, esc) ==
    \/ IsValue(t, esc)
    \/ \E i \in DOMAIN t :
         t[i] = "," /\ IsValue(Before(t, i), esc) /\ IsElements(After(t, i), esc)
IsValue(t, esc) ==
    \/ Len(t) = 1 /\ t[1] \in Numerals \cup Words
    \/ IsString(t, esc)
    \/ /\ Len(t) >= 2 /\ t[1] = "{" /\ t[Len(t)] = "}"
       /\ Trim(Inner(t)) = <<>> \/ IsMembers(Trim(Inner(t)), esc)
    \/ /\ Len(t) >= 2 /\ t[1] = "[" /\ t[Len(t)] = "]"
       /\ Trim(Inner(t)) = <<>> \/ IsElements(Trim(Inner(t)), esc)

IsJson(t) == IsValue(Trim(t), JsonEscapes)

(* JSON but for an escape that JSON does not have. *)
HasUnknownEscape(t) ==
    /\ \E i \in DOMAIN t : i > 1 /\ t[i - 1] = "\\" /\ t[i] \notin JsonEscapes
    /\ IsValue(Trim(t), Alphabet)

(* A string without its closing quote, not ending in half an escape. *)
IsOpenString(t) ==
    LET x == Trim(Append(t, "x"))      \* only the white space before it goes
    IN  IsString(Append(SubSeq(x, 1, Len(x) - 1), Q), Alphabet)

(* The parser accepts every JSON text, and besides only two kinds of text: *)
(* JSON but for backslashes before characters that JSON does not escape    *)
(* (parseString keeps the character), and one string that lacks its        *)
(* closing quote (parseString ends with the text).                         *)
ParserAccepts ==
    parse(text).ok <=> IsJson(text) \/ HasUnknownEscape(text) \/ IsOpenString(text)

=============================================================================
