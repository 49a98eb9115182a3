-------------------------------- MODULE Http --------------------------------
(***************************************************************************)
(* HttpMessage (include/protocol/Http.hpp): a message is built with the    *)
(* setters and serialized; on the other side its text arrives in pieces,   *)
(* and parse_from_string is called on what has arrived, on a message       *)
(* object that may have been used before.                                  *)
(*                                                                         *)
(* A text is a sequence of characters, except that a method or a version   *)
(* is one element.  Strings are such sequences.  The loop over the headers *)
(* of serialize_to_string takes one step for each.                         *)
(***************************************************************************)
EXTENDS Naturals, Sequences

CONSTANTS
    Letters,                   \* the elements of texts
    Methods, Versions,         \* enumerators, UNKNOWN among them
    Urls, Names, Values, Bodies, \* what the program passes to the setters
    MaxMessages                \* bound: messages sent in one behaviour

SP == " "
Space == {SP, "CR", "LF"}

(* The text of a message can only be parsed if its url has no spaces, the  *)
(* headers no line ends and their names no colon.                          *)
ASSUME HttpAssumption ==
    /\ Space \cup {":"} \subseteq Letters
    /\ Methods \cup Versions \subseteq Letters \ Space
    /\ "HTTP/1.1" \in Versions
    /\ Urls \subseteq Seq(Letters \ Space)
    /\ Names \subseteq Seq(Letters \ {":", "CR", "LF"})
    /\ Values \subseteq Seq(Letters \ {"CR", "LF"})
    /\ Bodies \subseteq Seq(Letters)

VARIABLES
    message,   \* the message object of the sender
    sent,      \* number of texts serialized
    stage,     \* the sender sets fields, writes the headers, or has sent
    todo,      \* the headers still to be written
    wire,      \* the latest text
    arrived,   \* how much of it has arrived
    in,        \* the message object of the receiver
    result     \* what the latest parse_from_string returned

httpVars == <<message, sent, stage, todo, wire, arrived, in, result>>

CRLF == <<"CR", "LF">>
NoHeaders == [k \in {} |-> <<>>]
Message(m, v, u, h, b) ==
    [method |-> m, version |-> v, url |-> u, headers |-> h, body |-> b]

(* headers_[k] = v *)
WithHeader(h, k, v) == [x \in DOMAIN h \cup {k} |-> IF x = k THEN v ELSE h[x]]

-----------------------------------------------------------------------------
(* Serialization.                                                          *)

method_to_str(m) == <<m>>
version_to_str(v) == IF v = "UNKNOWN" THEN <<"HTTP/1.1">> ELSE <<v>>

StartLine(m) ==
    method_to_str(m.method) \o <<SP>> \o m.url \o <<SP>> \o version_to_str(m.version)
HeaderLine(m, k) == k \o <<":", SP>> \o m.headers[k]

-----------------------------------------------------------------------------
(* Parsing.                                                                *)

(* The first of the positions S, or npos. *)
FirstOf(S, npos) == IF S = {} THEN npos ELSE CHOOSE i \in S : \A j \in S : i <= j
LastOf(S) == CHOOSE i \in S : \A j \in S : j <= i

(* Where pattern p begins in t for the first time, counting from 1; 0 if   *)
(* nowhere.                                                                *)
find(t, p) ==
    FirstOf({i \in 1 .. Len(t) + 1 - Len(p) : SubSeq(t, i, i + Len(p) - 1) = p}, 0)

From(t, i) == SubSeq(t, i, Len(t))

(* operator>>: the next word from position p on, and where it ends. *)
WordStart(t, p) == FirstOf({i \in p .. Len(t) : t[i] \notin Space}, Len(t) + 1)
WordEnd(t, p) == FirstOf({i \in WordStart(t, p) .. Len(t) : t[i] \in Space}, Len(t) + 1)
Word(t, p) == SubSeq(t, WordStart(t, p), WordEnd(t, p) - 1)

parse_method(w) == IF w \in {<<m>> : m \in Methods} THEN w[1] ELSE "UNKNOWN"
parse_version(w) == IF w \in {<<v>> : v \in Versions} THEN w[1] ELSE "UNKNOWN"

(* getline: where the lines of t begin, and the line at p without its LF   *)
(* and without a CR at the end.                                            *)
LineStarts(t) == {p \in 1 .. Len(t) : p = 1 \/ t[p - 1] = "LF"}
LineEnd(t, p) == FirstOf({i \in p .. Len(t) : t[i] = "LF"}, Len(t) + 1)
Line(t, p) ==
    LET e == LineEnd(t, p)
    IN  SubSeq(t, p, IF e > p /\ t[e - 1] = "CR" THEN e - 2 ELSE e - 1)

Colon(line) == FirstOf({i \in 1 .. Len(line) : line[i] = ":"}, 0)
WithoutSpaces(v) == From(v, FirstOf({i \in 1 .. Len(v) : v[i] # SP}, Len(v) + 1))
Key(line) == SubSeq(line, 1, Colon(line) - 1)
Value(line) == WithoutSpaces(From(line, Colon(line) + 1))

(* The loop over the lines: each with a colon sets headers_[key] = value,  *)
(* so that of several with the same key the last one counts.               *)
HeaderLines(t) == {p \in LineStarts(t) : Colon(Line(t, p)) # 0}
LinesOf(t, k) == {p \in HeaderLines(t) : Key(Line(t, p)) = k}
HeadersOf(t, h) ==
    LET keys == {Key(Line(t, p)) : p \in HeaderLines(t)}
    IN  [k \in keys \cup DOMAIN h |->
            IF k \in keys THEN Value(Line(t, LastOf(LinesOf(t, k)))) ELSE h[k]]

(* data.substr(header_start, header_end - header_start): without headers   *)
(* the empty line begins at the end of the start line, the unsigned        *)
(* difference wraps around, and the block is all that follows.             *)
HeaderBlock(data, start, end) ==
    IF end >= start THEN SubSeq(data, start, end - 1) ELSE From(data, start)

(* Mutant of Cleared: headers_.clear() is missing. *)
ClearedNothing(h) == h

(* headers_.clear() *)
Cleared(h) == NoHeaders

(* parse_from_string: what it returns, and the message object after it. *)
Parse(m, data) ==
    LET pos == find(data, CRLF)
        line == SubSeq(data, 1, pos - 1)
        after_method == WordEnd(line, 1)
        after_url == WordEnd(line, after_method)
        started(h, b) ==
            Message(parse_method(Word(line, 1)), parse_version(Word(line, after_url)),
                    Word(line, after_method), h, b)
        header_end == find(data, CRLF \o CRLF)
    IN  IF pos = 0 THEN [ok |-> "false", m |-> m]
        ELSE IF header_end = 0 THEN [ok |-> "false", m |-> started(m.headers, m.body)]
        ELSE [ok |-> "true",
              m |-> started(HeadersOf(HeaderBlock(data, pos + 2, header_end), Cleared(m.headers)),
                            From(data, header_end + 4))]

-----------------------------------------------------------------------------

(* method_ and version_ are not initialized. *)
HttpInit ==
    /\ \E m \in Methods, v \in Versions : message = Message(m, v, <<>>, NoHeaders, <<>>)
    /\ \E m \in Methods, v \in Versions : in = Message(m, v, <<>>, NoHeaders, <<>>)
    /\ sent = 0 /\ stage = "set" /\ todo = {} /\ wire = <<>> /\ arrived = 0
    /\ result = "none"

(* set_method, set_version, set_url, add_header, set_headers, set_body *)
SetField ==
    /\ \/ \E m \in Methods : message' = [message EXCEPT !.method = m]
       \/ \E v \in Versions : message' = [message EXCEPT !.version = v]
       \/ \E u \in Urls : message' = [message EXCEPT !.url = u]
       \/ \E k \in Names, v \in Values :
            message' = [message EXCEPT !.headers = WithHeader(message.headers, k, v)]
       \/ message' = [message EXCEPT !.headers = NoHeaders]
       \/ \E b \in Bodies : message' = [message EXCEPT !.body = b]
    /\ sent < MaxMessages /\ stage \in {"set", "sent"} /\ arrived = Len(wire)
    /\ stage' = "set" /\ wire' = <<>> /\ arrived' = 0 /\ result' = "none"
    /\ UNCHANGED <<sent, todo, in>>

(* serialize_to_string begins with the start line ... *)
Serialize ==
    /\ stage = "set" /\ sent < MaxMessages
    /\ stage' = "headers" /\ sent' = sent + 1
    /\ wire' = StartLine(message) \o CRLF
    /\ todo' = DOMAIN message.headers
    /\ UNCHANGED <<message, arrived, in, result>>

(* ... writes the headers in the order of the hash table, which is any ... *)
WriteHeader(k) ==
    /\ stage = "headers" /\ k \in todo
    /\ wire' = wire \o HeaderLine(message, k) \o CRLF
    /\ todo' = todo \ {k}
    /\ UNCHANGED <<message, sent, stage, arrived, in, result>>

(* ... and ends with the empty line and the body.  The text is sent. *)
WriteBody ==
    /\ stage = "headers" /\ todo = {}
    /\ wire' = wire \o CRLF \o message.body
    /\ stage' = "sent"
    /\ UNCHANGED <<message, sent, todo, arrived, in, result>>

(* More of the text has arrived: the receiver tries to parse it. *)
Receive(n) ==
    /\ stage = "sent" /\ n \in arrived + 1 .. Len(wire)
    /\ arrived' = n
    /\ in' = Parse(in, SubSeq(wire, 1, n)).m
    /\ result' = Parse(in, SubSeq(wire, 1, n)).ok
    /\ UNCHANGED <<message, sent, stage, todo, wire>>

HttpNext ==
    \/ SetField \/ Serialize \/ WriteBody
    \/ \E k \in todo : WriteHeader(k)
    \/ \E n \in 1 .. Len(wire) : Receive(n)

HttpSpec == HttpInit /\ [][HttpNext]_httpVars

-----------------------------------------------------------------------------
(* Properties.                                                             *)

IsColonFree(s) == \A i \in 1 .. Len(s) : s[i] # ":"
Plain(m) == DOMAIN m.headers # {} \/ IsColonFree(m.body)
HeaderLength(m) == Len(wire) - Len(m.body)

(* What the receiver gets of the message m when n elements have arrived.   *)
(* Without a url the start line has two words only: the version is taken   *)
(* for the url, and an unknown version is set.                             *)
UrlSeen(m) == IF m.url = <<>> THEN version_to_str(m.version) ELSE m.url
VersionSeen(m) == IF m.url = <<>> THEN "UNKNOWN" ELSE version_to_str(m.version)[1]
Seen(m, n) ==
    Message(m.method, VersionSeen(m), UrlSeen(m),
            [k \in DOMAIN m.headers |-> WithoutSpaces(m.headers[k])],
            SubSeq(m.body, 1, n - HeaderLength(m)))

(* parse_from_string returns true exactly when the header has arrived, and *)
(* then the receiver's object is the message with as much of the body as   *)
(* there is, whatever the object held before and in whatever order the     *)
(* headers are sent.  If the url is empty, as it is before set_url, the    *)
(* receiver finds the version in its place.  A message without headers     *)
(* whose body has a colon is excepted: lines of its body are taken for     *)
(* headers.                                                                *)
ParsedMessage ==
    result # "none" =>
        /\ result = "true" <=> arrived >= HeaderLength(message)
        /\ result = "true" /\ Plain(message) => in = Seen(message, arrived)

=============================================================================
