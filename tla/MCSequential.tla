---------------------------- MODULE MCSequential ----------------------------
(***************************************************************************)
(* The parts of the library that one thread uses by itself, side by side:  *)
(* Buffer, Generator, HttpMessage, the JSON documents and format.  They do *)
(* not interact: the initial state chooses the part that moves.            *)
(***************************************************************************)
EXTENDS Buffer, Generator, Http, Json, Format

VARIABLE part  \* the part that moves

allVars == <<part, bufferVars, generatorVars, httpVars, jsonVars, formatVars>>

(* A message object of a part that does not move. *)
Unset == Message("GET", "UNKNOWN", <<>>, NoHeaders, <<>>)

SequentialInit ==
    /\ part \in {"buffer", "generator", "http", "json", "format"}
    /\ BufferInit /\ GeneratorInit
    /\ JsonInit /\ (part # "json" => text = <<>>)
    /\ HttpInit /\ (part # "http" => message = Unset /\ in = Unset)
    /\ FormatInit /\ (part # "format" => fmt = <<>> /\ args = <<>>)

SequentialNext ==
    /\ UNCHANGED part
    /\ \/ part = "buffer" /\ BufferNext
          /\ UNCHANGED <<generatorVars, httpVars, jsonVars, formatVars>>
       \/ part = "generator" /\ GeneratorNext
          /\ UNCHANGED <<bufferVars, httpVars, jsonVars, formatVars>>
       \/ part = "http" /\ HttpNext
          /\ UNCHANGED <<bufferVars, generatorVars, jsonVars, formatVars>>
       \/ part = "json" /\ JsonNext
          /\ UNCHANGED <<bufferVars, generatorVars, httpVars, formatVars>>
       \/ part = "format" /\ FormatNext
          /\ UNCHANGED <<bufferVars, generatorVars, httpVars, jsonVars>>

SequentialSpec == SequentialInit /\ [][SequentialNext]_allVars

-----------------------------------------------------------------------------
(* Values for the constants.                                               *)

Symmetry ==
    Permutations(Frames) \cup Permutations(Generators) \cup Permutations(Iterators)
      \cup Permutations(Proxies)

MCLetters == {" ", "CR", "LF", ":", "u", "k", "h", "v", "GET", "UNKNOWN", "HTTP/1.1"}
MCUrls == {<<"u">>}
MCNames == {<<"k">>, <<"h">>}
MCValues == {<<>>, <<" ", "v">>}
MCBodies == {<<>>, <<"k", ":", "CR", "LF", "CR", "LF">>}

MCKeys == {<<"a">>, <<"a", Q>>}
MCScalars ==
    {JsonNumber(1234567), JsonString(<<"\\", "NL">>), JsonBoolean(FALSE), Empty}
MCAlphabet == {"{", "}", "[", "]", ":", ",", Q, "\\", " ", "n", "true", "7"}
MCStarts == {<<>>, <<"{", Q, Q, ":">>, <<"[", "7", ",">>}

(* Short strings of all kinds, and pairs of numbered fields. *)
MCShort == {"{", "}", ":", "0", "1", "f", "x"}
MCSpecs == {"x", "X", "o", "b", "f", "E", "G", ".2", "d"}
MCCharacters == MCShort \cup MCSpecs
MCFields ==
    {<<"{", i, "}">> : i \in {"0", "1"}}
      \cup {<<"{", i, ":", s, "}">> : i \in {"0", "1"}, s \in MCSpecs}
MCFormats ==
    UNION {[1 .. n -> MCShort] : n \in 0 .. 5}
      \cup {f \o g \o <<"{", "}">> : f, g \in MCFields}
MCArguments == {<<>>, <<"float">>, <<"int", "float">>, <<"bool", "int">>}

=============================================================================
