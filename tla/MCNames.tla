------------------------------- MODULE MCNames -------------------------------
(***************************************************************************)
(* Types for TypeNames: those whose text is hard to read, and names with   *)
(* every character that has a meaning in the text of a type.               *)
(***************************************************************************)
EXTENDS TypeNames, Integers

MCWords == {"a", "b", "SKIP", "UInt8", "JSON"}
MCPlainTypes == {"UInt8", "Int64", "Int128", "Float64", "Bool", "String", "Date", "UUID", "IPv6"}

LOCAL Zone == <<"quote", "UTC", "quote">>
LOCAL Enum8(pairs) == <<"Enum8", pairs>>
MCLeafTypes ==
  {<<"UInt8">>, <<"String">>, <<"Dynamic">>, <<"Point">>, <<"Polygon">>, <<"Interval">>, <<"FixedString", 16>>}
  \cup {<<"DateTime">>, <<"DateTime", Zone>>, <<"DateTime64">>, <<"DateTime64", 6>>, <<"DateTime64", 0, Zone>>}
  \cup {<<"Decimal", 38, 10>>, <<"Decimal", 9, 0>>, <<"Decimal128", 20>>}
  \cup {Enum8(<<<<<<"a">>, -128>>, <<<<"b">>, 127>>>>), Enum8(<<<<<<"a">>, 128>>>>), Enum8(<<>>),
        Enum8(<<<<<<"a">>, 1>>, <<<<"a">>, 2>>>>), Enum8(<<<<<<"a">>, 1>>, <<<<"b">>, 1>>>>),
        Enum8(<<<<<<>>, 0>>, <<<<"a", ",", "b">>, -10>>, <<<<"(", "=", ")">>, 7>>>>),
        Enum8(<<<<<<"a", "quote", ",", "quote">>, 1>>, <<<<"\\">>, 2>>, <<<<"a", "\\", "%", "newline">>, 3>>>>),
        Enum8(<<<<<<")", "b", "tick">>, 1>>, <<<<"\\", "quote">>, 2>>>>),
        <<"Enum16", <<<<<<"a">>, -32768>>, <<<<"b">>, 128>>>>>>, <<"Enum16", <<<<<<"a">>, 32768>>>>>>}

LOCAL A == <<"a">>
MCNamePairs == {<<A, <<"tick", "b", "\\">>>>, <<<<"a", ",", "(">>, <<"b", "newline", " ", "tick">>>>}
MCPathPairs ==
  {<<<<"a", ".", "b">>, <<"SKIP">>>>, <<<<"a", " ", ".", "\\">>, <<"SKIP", ".", "b">>>>, <<<<")", "quote">>, A>>}
LOCAL Limit == <<"max_dynamic_paths", "=", "8">>
MCJsonParams == {<<>>, <<<<"SKIP", " ", "a", ".", "b">>, Limit>>}
=============================================================================
