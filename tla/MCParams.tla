------------------------------ MODULE MCParams ------------------------------
(***************************************************************************)
(* Queries and arguments for QueryParams: strings, quoted names and        *)
(* comments with a placeholder or half a quote within, and values with     *)
(* every character that has a meaning in a literal.                        *)
(***************************************************************************)
EXTENDS QueryParams, Integers, Sequences, SequencesExt

LOCAL Decoy == <<"{", "b", ":", "UInt8", "}">>
MCPieces ==
  {<<"a", " ">>, <<"{">>, <<"}", ")">>, <<"{", "a", ":", "1", "}">>, <<"{", "a", " ", "UInt8", "}">>}
  \cup {<<q>> \o Decoy \o <<q>> : q \in {"quote", "double", "tick"}}
  \cup {<<"quote", "\\", "quote">> \o Decoy \o <<"quote">>,
        <<"double", "double", "double">> \o Decoy \o <<"\\", "\\", "double">>,
        <<"-", "-", "quote">> \o Decoy \o <<"newline">>, <<"-", "/", " ">>,
        <<"/", "*", "tick", "*">> \o Decoy \o <<"*", "/">>}

LOCAL Of(word, args) == <<word, "(">> \o args \o <<")">>
LOCAL Status == Of("Enum8", <<"quote", "a", "}", "\\", "quote", "quote", "=", "1", ",", "quote", "(", "quote", "=", "2">>)
MCParamTypes ==
  {<<T>> : T \in {"Identifier", "UInt8", "Int64", "Int128", "Float64", "Bool", "Date", "UUID", "IPv6"}}
  \cup {Status, Of("Decimal", <<"7", ",", " ", "1">>), Of("DateTime64", <<"2">>), Of("FixedString", <<"2">>)}
  \cup {Of("Nullable", <<"String">>), Of("LowCardinality", <<"String">>), Of("Array", Of("Nullable", <<"String">>))}
  \cup {Of("Array", Status), Of("Array", Of("Array", <<"UInt8">>))}
  \cup {Of("Map", <<"String", ",">> \o Of("Array", <<"UUID">>)), Of("Tuple", <<"String", ",", "IPv6">>)}
  \cup {Of("Tuple", <<"a", " ", "UInt8", ",", "tick", "b", "tick", " ">> \o Of("Nullable", <<"String">>))}
  \cup {Of("Variant", <<"String", ",", "Int64", ",">> \o Of("Array", <<"UInt8">>))}
MCPlaceholders ==
  {<<<<"a">>, text, <<>>>> : text \in MCParamTypes}
    \cup {<<<<"b", "1">>, <<"String">>, <<" ">>>>, <<<<"a">>, <<"String">>, <<"newline">>>>}
MCLetters == {"a", "b", "Identifier", "UInt8", "Int64", "Int128", "Float64", "Bool", "Date", "UUID", "IPv6", "Enum8",
              "Decimal", "DateTime64", "FixedString", "String", "Nullable", "LowCardinality", "Array", "Map", "Tuple",
              "Variant"}

\* An enumeration's names as characters, for the codecs.
LOCAL CodeOf(c) == CASE c = "a" -> 97 [] c = "}" -> 125 [] c = "quote" -> 39 [] c = "(" -> 40
LOCAL NamedByCodes(pairs) == [i \in DOMAIN pairs |-> <<Text("name", [k \in DOMAIN pairs[i][1] |-> CodeOf(pairs[i][1][k])]),
                                                        pairs[i][2]>>]
LOCAL Coded(T) ==
  CASE T[1] = "Enum8" -> <<"Enum8", NamedByCodes(T[2])>>
    [] T[1] = "Array" /\ T[2][1] = "Enum8" -> <<"Array", <<"Enum8", NamedByCodes(T[2][2])>>>>
    [] T[1] = "Tuple" /\ T[2] # <<>> -> <<"Tuple", <<"a", "b">>, T[3]>>
    [] OTHER -> T
MCTypeNamed(text) == Coded(CodecOf(text))

LOCAL Str(codes) == Text("plain", codes)
\* Strings: nothing, \N, NULL, a quote and a backslash, controls, brackets.
LOCAL Strings8 == {Str(<<>>), Str(<<92, 78>>), Str(<<78, 85, 76, 76>>), Str(<<97, 39, 92>>), Str(<<9, 10, 13, 92, 110>>),
                   Str(<<39, 44, 32, 93, 58>>)}
LOCAL List(values) == <<"array", values>>
LOCAL Uuid == Text("uuid", <<1, 0, 1, 1>>)
MCArguments(T) ==
  CASE T[1] = "UInt8" -> {Null, Number(1), Number(2), <<"bool", TRUE>>, Text("number", 1)}
    [] T[1] \in {"Int64", "Int128"} -> {BigInt(-90), Number(7), <<"fraction", 1>>, Undefined}
    [] T[1] = "Float64" -> {<<"fraction", -2>>, Number(3), Text("decimal", <<5, 1>>)}
    [] T[1] = "Bool" -> {<<"bool", FALSE>>, Number(7), Text("bool", TRUE), Text("number", 0)}
    [] T[1] = "Date" -> {<<"date", 7>>, Number(5), Text("date", 6), <<"date", -1>>, Null}
    [] T[1] = "UUID" -> {Uuid, Null, Str(<<97>>)}
    [] T[1] = "IPv6" -> {Text("ipv6", <<<<1>>, <<2>>>>), Null}
    [] T[1] = "Enum8" -> {n[1] : n \in ToSet(T[2])} \cup {Number(2), BigInt(1), Number(3), Null, Text("name", <<97>>)}
    [] T[1] = "Decimal" -> {BigInt(-3), Text("decimal", <<5, 1>>), Number(9), <<"fraction", 1>>, Null}
    [] T[1] = "DateTime64" -> {<<"dt64", -1, 2>>, <<"dt64", 5, 2>>, <<"dt64", -8, 2>>, <<"date", 3>>, Text("date", 4), Null}
    [] T[1] = "FixedString" -> {Str(<<39>>), <<"bytes", <<92, 0>>>>, <<"bytes", <<0, 97>>>>, Null, Str(<<1, 2, 3>>)}
    [] T[1] \in {"String", "LowCardinality"} -> Strings8 \cup {Null, Number(5), <<"bool", TRUE>>}
    [] T[1] = "Nullable" -> Strings8 \cup {Null, Undefined}
    [] T[1] = "Array" /\ T[2][1] = "Nullable" -> {List(<<s, Null, s>>) : s \in Strings8} \cup {List(<<>>), Null}
    [] T[1] = "Array" /\ T[2][1] = "Enum8" -> {List(<<T[2][2][1][1], Number(2), Null>>), List(<<Number(3)>>)}
    [] T[1] = "Array" /\ T[2][1] = "Array" -> {List(<<List(<<>>), List(<<Number(1), Number(0)>>)>>), List(<<Null>>),
                                              List(<<Number(1)>>), <<"map", <<>>>>}
    [] T[1] = "Map" -> {<<"map", <<<<s, List(<<Uuid, Null>>)>>, <<Str(<<97>>), Null>>>>>> : s \in Strings8}
                       \cup {List(<<List(<<Str(<<97>>), List(<<>>)>>)>>), Null}
    [] T[1] = "Tuple" /\ T[2] = <<>> -> {List(<<s>>) : s \in Strings8} \cup {Null, Number(1)}
    [] T[1] = "Tuple" /\ T[2] # <<>> -> {<<"object", <<<<"b", s>>, <<"a", Number(1)>>>>>> : s \in Strings8}
                                        \cup {Null, <<"object", <<>>>>}
    [] T[1] = "Variant" -> Strings8 \cup {Null, BigInt(5), List(<<Number(1), Number(0)>>), <<"bool", TRUE>>}
    [] OTHER -> {}
=============================================================================
