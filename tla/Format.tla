------------------------------- MODULE Format -------------------------------
(***************************************************************************)
(* format and vformat (include/log/format.hpp).                            *)
(*                                                                         *)
(* A format string is a sequence of characters, except that a precision    *)
(* such as .2 is one element.  An argument is represented by its kind.     *)
(* The output is a sequence of characters and of printed arguments, each   *)
(* with the index of the argument and the form in which it appears, which  *)
(* depends on the flags that the stream has when it is printed.            *)
(*                                                                         *)
(* A behaviour is one call; a step is one iteration of its loop.           *)
(***************************************************************************)
EXTENDS Naturals, Sequences

CONSTANTS
    Characters,   \* of the format strings, braces and digits among them
    Formats,      \* the format strings
    Arguments     \* the lists of arguments: sequences of kinds

Kinds == {"int", "float", "bool", "string", "pointer"}

ASSUME FormatAssumption ==
    Formats \subseteq Seq(Characters) /\ Arguments \subseteq Seq(Kinds)

VARIABLES
    fmt,        \* the format string
    args,       \* the kinds of the arguments
    fpos,       \* pos, counted from 1
    arg_index,
    oss,        \* what has been written to oss
    stream,     \* its flags
    outcome,    \* running, returned, or the error that was thrown
    parts       \* history: where in fmt each element of oss comes from

formatVars == <<fmt, args, fpos, arg_index, oss, stream, outcome, parts>>

Digit == [c \in {"0", "1"} |-> IF c = "0" THEN 0 ELSE 1]

Text(c) == [text |-> c]
Printed(i, form) == [arg |-> i, form |-> form]

-----------------------------------------------------------------------------
(* format_impl.  It sets flags of the stream for its value, and after      *)
(* printing it resets some of them.  boolalpha, which is not reset, changes *)
(* nothing that is printed otherwise.                                      *)

NewStream ==
    [base |-> "dec", letters |-> "lower", notation |-> "default", precision |-> "6"]

StartsIn(spec, C) == spec # <<>> /\ Head(spec) \in C
Uppercase == {<<"E">>, <<"G">>}
Notation(spec) ==
    CASE spec \in {<<"f">>, <<"F">>} -> "fixed"
      [] spec \in {<<"e">>, <<"E">>} -> "scientific"
      [] spec \in {<<"g">>, <<"G">>} -> "default"
      [] OTHER -> "unset"

(* The flags with which a value of the kind is printed. *)
Printing(os, kind, spec) ==
    CASE kind = "int" /\ StartsIn(spec, {"x"}) -> [os EXCEPT !.base = "hex"]
      [] kind = "int" /\ StartsIn(spec, {"X"}) ->
           [os EXCEPT !.base = "hex", !.letters = "upper"]
      [] kind = "int" /\ StartsIn(spec, {"o"}) -> [os EXCEPT !.base = "oct"]
      [] kind = "float" /\ Notation(spec) # "unset" ->
           [os EXCEPT !.notation = Notation(spec),
                      !.letters = IF spec \in Uppercase THEN "upper" ELSE @]
      [] kind = "float" /\ StartsIn(spec, {".2"}) ->
           [os EXCEPT !.notation = "fixed", !.precision = "2"]
      [] OTHER -> os

(* The flags that are left after it. *)
AfterPrinting(os, kind, spec) ==
    LET p == Printing(os, kind, spec)
    IN  CASE kind = "int" /\ StartsIn(spec, {"x", "X"}) ->
               [p EXCEPT !.base = "dec", !.letters = "lower"]
          [] kind = "int" /\ StartsIn(spec, {"o"}) -> [p EXCEPT !.base = "dec"]
          [] kind = "float" /\ Notation(spec) \in {"scientific", "default"} ->
               [p EXCEPT !.letters = "lower"]
          [] OTHER -> p

(* The form in which it appears. *)
Form(os, kind, spec) ==
    LET p == Printing(os, kind, spec)
    IN  CASE kind = "float" -> <<p.notation, p.precision, p.letters>>
          [] kind = "int" /\ StartsIn(spec, {"b"}) -> <<"0b">>
          [] kind = "int" /\ ~StartsIn(spec, {"b"}) -> <<p.base, p.letters>>
          [] kind = "bool" /\ spec = <<"d">> -> <<"0/1">>
          [] OTHER -> <<"plain">>

-----------------------------------------------------------------------------
(* Operators of vformat.                                                   *)

Open == "{"
Shut == "}"
Braces == {Open, Shut}

(* The first position from p on at which one of the characters C is; 0 if  *)
(* there is none.                                                          *)
find_first_of(f, C, p) ==
    LET S == {i \in p .. Len(f) : f[i] \in C}
    IN  IF S = {} THEN 0 ELSE CHOOSE i \in S : \A j \in S : i <= j

(* std::stoul: the number at the beginning; what follows is ignored. *)
stoul(s) ==
    LET D == {k \in 0 .. Len(s) : \A i \in 1 .. k : s[i] \in DOMAIN Digit}
        n == CHOOSE k \in D : \A j \in D : j <= k
        value[k \in 0 .. n] == IF k = 0 THEN 0 ELSE 10 * value[k - 1] + Digit[s[k]]
    IN  value[n]

(* A numbered field: its index, counted from 0, and its spec. *)
Field(spec) ==
    LET colon == find_first_of(spec, {":"}, 1)
        index == IF colon = 0 THEN spec ELSE SubSeq(spec, 1, colon - 1)
    IN  [valid |-> index # <<>> /\ index[1] \in DOMAIN Digit,
         index |-> stoul(index),
         spec |-> IF colon = 0 THEN <<>> ELSE SubSeq(spec, colon + 1, Len(spec))]

(* The element k of the output comes from fmt[first], ..., fmt[last]. *)
Part(kind, first, last) == [kind |-> kind, first |-> first, last |-> last]

(* next_brace, and for an opening brace format_end and format_spec *)
Brace == find_first_of(fmt, Braces, fpos)
FieldEnd == find_first_of(fmt, {Shut}, Brace + 1)
FieldSpec == SubSeq(fmt, Brace + 1, FieldEnd - 1)
Doubled == Brace < Len(fmt) /\ fmt[Brace + 1] = fmt[Brace]

(* oss << fmt.substr(pos, q - pos) *)
Texts(p, q) == [i \in 1 .. q - p |-> Text(fmt[p + i - 1])]
TextParts(p, q) == [i \in 1 .. q - p |-> Part("text", p + i - 1, p + i - 1)]

(* Mutant of AfterEscape: one brace of the two is skipped. *)
AfterEscapeOne(b) == b + 1

(* pos = next_brace + 2 *)
AfterEscape(b) == b + 2

(* Mutant of AllUsed: the check is missing. *)
AllUsedUnchecked == TRUE

(* The check at the end: automatic fields have used all arguments. *)
AllUsed == arg_index >= Len(args)

-----------------------------------------------------------------------------
(* vformat.                                                                *)

FormatInit ==
    /\ fmt \in Formats /\ args \in Arguments
    /\ fpos = 1 /\ arg_index = 0
    /\ oss = <<>> /\ stream = NewStream /\ parts = <<>>
    /\ outcome = "running"

(* while (pos < len) *)
Looping == outcome = "running" /\ fpos <= Len(fmt)

(* The text before the brace and then x, made of the part p, are written. *)
Put(x, p) ==
    /\ oss' = Append(oss \o Texts(fpos, Brace), x)
    /\ parts' = Append(parts \o TextParts(fpos, Brace), p)

(* No more braces: the rest is written, and the loop ends. *)
RestOfText ==
    /\ Looping /\ Brace = 0
    /\ oss' = oss \o Texts(fpos, Len(fmt) + 1)
    /\ parts' = parts \o TextParts(fpos, Len(fmt) + 1)
    /\ fpos' = Len(fmt) + 1
    /\ UNCHANGED <<fmt, args, arg_index, stream, outcome>>

EscapedBrace ==
    /\ Looping /\ Brace # 0 /\ Doubled
    /\ Put(Text(fmt[Brace]), Part("text", Brace, AfterEscape(Brace) - 1))
    /\ fpos' = AfterEscape(Brace)
    /\ UNCHANGED <<fmt, args, arg_index, stream, outcome>>

(* A single brace, and a field. *)
AtSingle == Looping /\ Brace # 0 /\ ~Doubled
AtField == AtSingle /\ fmt[Brace] = Open /\ FieldEnd # 0

(* ctx.get_arg(i)->format(oss, spec) and pos = format_end + 1 *)
PrintArg(i, spec, kind) ==
    /\ Put(Printed(i, Form(stream, args[i + 1], spec)), Part(kind, Brace, FieldEnd))
    /\ stream' = AfterPrinting(stream, args[i + 1], spec)
    /\ fpos' = FieldEnd + 1
    /\ UNCHANGED <<fmt, args, outcome>>

(* {} *)
AutomaticField ==
    /\ AtField /\ FieldSpec = <<>> /\ arg_index < Len(args)
    /\ PrintArg(arg_index, <<>>, "automatic")
    /\ arg_index' = arg_index + 1

(* {0} or {0:x} *)
NumberedField ==
    /\ AtField /\ FieldSpec # <<>>
    /\ Field(FieldSpec).valid /\ Field(FieldSpec).index \in 0 .. Len(args) - 1
    /\ PrintArg(Field(FieldSpec).index, Field(FieldSpec).spec, "numbered")
    /\ UNCHANGED arg_index

(* format_error is thrown, and oss destroyed. *)
FormatError(what) ==
    /\ \/ /\ AtSingle /\ (fmt[Brace] = Shut \/ FieldEnd = 0)
          /\ what = "Unmatched"
       \/ /\ AtField /\ FieldSpec = <<>> /\ arg_index >= Len(args)
          /\ what = "TooFew"
       \/ /\ AtField /\ FieldSpec # <<>> /\ ~Field(FieldSpec).valid
          /\ what = "InvalidIndex"
       \/ /\ AtField /\ FieldSpec # <<>> /\ Field(FieldSpec).valid
          /\ Field(FieldSpec).index \notin 0 .. Len(args) - 1
          /\ what = "OutOfRange"
       \/ /\ outcome = "running" /\ fpos > Len(fmt) /\ ~AllUsed
          /\ what = "TooMany"
    /\ outcome' = what
    /\ UNCHANGED <<fmt, args, fpos, arg_index, oss, stream, parts>>

Errors == {"Unmatched", "TooFew", "InvalidIndex", "OutOfRange", "TooMany"}

(* return oss.str() *)
ReturnText ==
    /\ outcome = "running" /\ fpos > Len(fmt) /\ AllUsed
    /\ outcome' = "returned"
    /\ UNCHANGED <<fmt, args, fpos, arg_index, oss, stream, parts>>

FormatNext ==
    \/ RestOfText \/ EscapedBrace \/ AutomaticField \/ NumberedField
    \/ \E what \in Errors : FormatError(what)
    \/ ReturnText

FormatSpec == FormatInit /\ [][FormatNext]_formatVars

-----------------------------------------------------------------------------
(* Properties.                                                             *)

(* Streams on which earlier fields have left no more than the notation and *)
(* the precision of floating-point numbers.                                *)
IdleStreams ==
    [base : {"dec"}, letters : {"lower"},
     notation : {"fixed", "scientific", "default"}, precision : {"6", "2"}]

(* What the part p of the format string stands for. *)
IsText(x, p) ==
    /\ x = Text(fmt[p.first])
    /\ IF fmt[p.first] \in Braces
       THEN p.last = p.first + 1 /\ fmt[p.last] = fmt[p.first]
       ELSE p.last = p.first

IsField(x, p) ==
    LET spec == SubSeq(fmt, p.first + 1, p.last - 1)
    IN  /\ fmt[p.first] = Open /\ fmt[p.last] = Shut
        /\ \A i \in DOMAIN spec : spec[i] # Shut
        /\ p.kind = "automatic" <=> spec = <<>>
        /\ p.kind = "numbered" => Field(spec).valid /\ x.arg = Field(spec).index
        /\ x.arg \in 0 .. Len(args) - 1
        /\ \E os \in IdleStreams :
             x.form = Form(os, args[x.arg + 1], Field(spec).spec)

(* The format string is read once, from left to right, and nothing of it   *)
(* is skipped: the elements of the output come one after the other from    *)
(* adjacent parts of it, a character from itself, a brace from two, and an *)
(* argument from a pair of braces that encloses its index; and when        *)
(* vformat returns, the parts reach to the end.  An argument appears as    *)
(* its own field asks: of the flags that earlier fields have set, only the *)
(* notation and the precision of floating-point numbers can change it.     *)
ReadOnce ==
    /\ Len(parts) = Len(oss)
    /\ \A k \in 1 .. Len(oss) :
         /\ parts[k].first = IF k = 1 THEN 1 ELSE parts[k - 1].last + 1
         /\ parts[k].kind = "text" => IsText(oss[k], parts[k])
         /\ parts[k].kind # "text" => IsField(oss[k], parts[k])
    /\ outcome = "returned" =>
         IF oss = <<>> THEN fmt = <<>> ELSE parts[Len(oss)].last = Len(fmt)

IsAutomatic(k) == parts[k].kind = "automatic"

(* All arguments are used when vformat returns (comment at its end): the   *)
(* automatic fields print each of them, once and in order; numbered fields *)
(* do not count.                                                           *)
ArgumentsUsed ==
    outcome = "returned" =>
        /\ \A i \in 0 .. Len(args) - 1 :
             \E k \in 1 .. Len(oss) : IsAutomatic(k) /\ oss[k].arg = i
        /\ \A k, l \in 1 .. Len(oss) :
             k < l /\ IsAutomatic(k) /\ IsAutomatic(l) => oss[k].arg < oss[l].arg

=============================================================================
