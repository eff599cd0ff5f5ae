------------------------------ MODULE MCNative ------------------------------
(***************************************************************************)
(* Instances of the Native format for TLC: the bytes of NativeIo, the      *)
(* cache of CodecCache, the batches and blocks of RecordBatches, the names *)
(* of TypeNames, the parameters of QueryParams, the packets of TcpPackets  *)
(* and the requests of HttpRequest, each on its own.  A byte has one bit   *)
(* and ten is two, so that the widest integer has 16 bits and every limit  *)
(* is near.                                                                *)
(***************************************************************************)
EXTENDS RecordBatches, CodecCache, NativeIo, MCNames, MCParams, MCPackets, MCRequests, Integers, Sequences, SequencesExt

VARIABLE part              \* which of the runs

Some(n) == Number(n)
Plain(content) == Text("plain", content)
List(values) == <<"array", values>>
Object(pairs) == <<"object", pairs>>

Int8 == <<"Int8">>
UInt8 == <<"UInt8">>
Int64 == <<"Int64">>
String == <<"String">>
Enum == <<"Enum8", <<<<Text("name", "a"), -1>>, <<Text("name", "b"), 0>>>>>>
Lc(T) == <<"LowCardinality", T>>
Array(T) == <<"Array", T>>
Nullable(T) == <<"Nullable", T>>
Tuple(names, types) == <<"Tuple", names, types>>
Variant == <<"Variant", <<String, Int64, Array(UInt8)>>>>
Dynamic == <<"Dynamic">>
Json == <<"JSON", <<<<"c", UInt8>>, <<"b", Lc(String)>>>>>>

MCDecimalDigits == <<3, 7, 15>>
MCDictMax == <<1, 3>>
MCIndexMax == <<2, 4>>
MCByteOrder == <<"Array", "Bool", "Int64", "String", "UInt8", "a", "b", "c", "d">>

\* Values of a type: some it keeps, some it must change, some it refuses.
RECURSIVE MCSamples(_)
MCSamples(T) ==
  CASE T[1] \in {"UInt8", "Int8"} -> {Null, Some(1), Some(2), Text("number", 0), <<"fraction", 0>>}
    [] T[1] \in {"Int16", "UInt16", "Int32", "UInt32"} -> {Some(-2), Some(1), BigInt(3), Some(16), <<"bool", TRUE>>}
    [] T[1] \in {"Int64", "UInt64"} -> {Some(-100), BigInt(127), BigInt(255), Text("number", 5), <<"fraction", 1>>}
    [] T[1] \in {"Int128", "UInt128"} -> {Some(-90), BigInt(300), BigInt(-32768), BigInt(40000), Null}
    [] T[1] \in {"Float32", "Float64"} -> {Some(3), <<"fraction", -2>>, Text("decimal", <<5, 1>>), Plain(<<>>)}
    [] T[1] = "Bool" -> {<<"bool", TRUE>>, Text("bool", FALSE), Some(7), Plain(<<1>>)}
    [] T[1] = "String" -> {Plain(<<1>>), Null, Some(7), <<"bool", TRUE>>}
    [] T[1] = "FixedString" -> {Plain(<<1>>), <<"bytes", <<1, 0>>>>, <<"bytes", <<1>>>>, Null}
    [] T[1] \in {"Date", "Date32", "DateTime"} -> {<<"date", -1>>, <<"date", 7>>, Text("date", 5), Some(30), BigInt(1)}
    [] T[1] = "DateTime64" -> {<<"date", -3>>, <<"dt64", 5, T[2]>>, <<"dt64", 5, 3>>, <<"fraction", 6>>, BigInt(200)}
    [] T[1] = "Enum8" -> {Text("name", "a"), Some(0), Some(1), Undefined}
    [] T[1] = "UUID" -> {Text("uuid", <<1, 0, 1, 1>>), Text("uuid", <<0, 1, 0, 0>>), Null, Some(1)}
    [] T[1] = "IPv4" -> {Text("ipv4", <<1, 0, 1, 1>>), Null, Plain(<<1>>)}
    [] T[1] = "IPv6" -> {Text("ipv6", <<<<1>>, <<2>>>>), Text("ipv6", <<<<3, 2, 1>>>>), Text("ipv6", <<<<1, 2>>, <<3>>>>), Null}
    [] T[1] = "Decimal" -> {Text("decimal", <<5, 2>>), BigInt(-3), Text("number", 1), Text("decimal", <<4, 3>>), Some(9)}
    [] T[1] = "Nullable" -> {Null} \cup MCSamples(T[2])
    [] T = Array(Lc(String)) -> {List(<<>>), List(<<Plain(<<1>>), Plain(<<>>), Plain(<<1>>)>>), Null,
                            List([i \in 1 .. 4 |-> Plain(<<1, i>>)])}
    [] T = Array(Nullable(Int8)) -> {List(<<Null, Some(-1)>>), <<"bytes", <<0>>>>, List(<<>>), Some(1)}
    [] T = Array(Array(UInt8)) -> {List(<<List(<<>>), List(<<Some(1), Some(0)>>)>>), List(<<Null>>), List(<<Some(1)>>)}
    [] T[1] = "LowCardinality" /\ T[2][1] = "Nullable" -> {Null, Plain(<<>>), Plain(<<1>>), Plain(<<2>>)}
    [] T = Lc(<<"Date32">>) -> {<<"date", 5>>, <<"date", 6>>, <<"date", -1>>, Null}
    [] T[1] = "LowCardinality" /\ T[2][1] \notin {"Nullable", "Date32"} -> MCSamples(T[2])
    [] T[1] = "Map" -> {<<"map", <<<<Plain(<<1>>), Some(1)>>, <<Plain(<<1>>), Some(0)>>>>>>, Null, Some(3),
                        Object(<<<<"a", Some(1)>>>>), <<"bytes", <<1, 0>>>>, List(<<List(<<Plain(<<2>>), Null>>)>>)}
    [] T[1] = "Tuple" -> {List(<<Some(1), Plain(<<1>>)>>), Object(<<<<"a", Plain(<<2>>)>>>>), Null,
                          Object(<<<<"a", Plain(<<2>>)>>, <<"b", BigInt(3)>>>>)}
    [] T[1] = "Variant" -> {Null, Plain(<<1>>), BigInt(5), List(<<Some(1)>>), <<"variant", 2, Plain(<<2>>)>>, <<"bool", TRUE>>}
    [] T[1] = "Dynamic" -> {Null, Plain(<<1>>), Some(5), List(<<Some(1)>>), <<"dynamic", Lc(String), Plain(<<2>>)>>,
                            <<"bool", TRUE>>}
    [] T[1] = "JSON" -> {Object(<<<<"d", Some(1)>>, <<"c", Some(1)>>, <<"a", Plain(<<1>>)>>>>), Object(<<>>),
                         Object(<<<<"b", Plain(<<2>>)>>, <<"a", Null>>>>), List(<<>>)}
    [] OTHER -> {}

One(T) == <<<<"a", T>>>>
MCTypes ==
  {<<name>> : name \in {"Int8", "UInt8", "Int16", "UInt16", "Int32", "UInt32", "Int64", "UInt64", "Int128",
                        "UInt128", "Float32", "Float64", "Bool", "String", "Date", "Date32", "DateTime",
                        "UUID", "IPv4", "IPv6"}}
  \cup {<<"FixedString", 2>>, <<"DateTime64", 0>>, <<"DateTime64", 2>>, Enum}
  \cup {<<"Decimal", 3, 2>>, <<"Decimal", 7, 1>>, <<"Decimal", 15, 2>>}
  \cup {Nullable(UInt8), Nullable(String), Array(Nullable(Int8)), Array(Array(UInt8))}
  \cup {Lc(String), Lc(Nullable(String)), Lc(<<"Date32">>), Lc(<<"FixedString", 2>>), Array(Lc(String))}
  \cup {<<"Map", String, UInt8>>, Tuple(<<>>, <<UInt8, String>>), Tuple(<<"a", "b">>, <<Lc(String), Variant>>)}
  \cup {Variant, Dynamic, Json}

MCRowSchemas == {<<<<"a", UInt8>>, <<"b", String>>, <<"c", <<"IPv4">>>>>>, <<<<"a", Enum>>, <<"b", Int64>>>>}
MCSchemas == MCRowSchemas \cup {One(T) : T \in MCTypes}

Column8(values) == FromValues(UInt8, values)
MCColumnSets ==
  {<<<<"a", Column8(<<Some(1), Some(0)>>)>>, <<"b", FromValues(Lc(String), <<Plain(<<1>>), Null>>)>>>>,
   <<<<"a", Column8(<<Some(1)>>)>>, <<"b", Column8(<<Some(1), Some(0)>>)>>>>,
   <<<<"a", FromValues(Tuple(<<>>, <<UInt8, String>>), <<List(<<Some(1), Null>>)>>)>>>>}
MCPathSets ==
  {<<<<"d", <<Some(1), Null>>>>, <<"c", <<Some(0), Some(1)>>>>, <<"b", <<Plain(<<1>>), Null>>>>>>,
   <<<<"c", <<Some(0)>>>>, <<"b", <<Plain(<<1>>)>>>>, <<"a", <<Some(0), Null>>>>>>,
   <<<<"c", <<Some(0)>>>>, <<"a", <<Some(0)>>>>>>}

-----------------------------------------------------------------------------
(* Blocks of a server, token by token. *)

Info == <<VarIntToken(1), U8(0), VarIntToken(2), <<4, 0>>, VarIntToken(0)>>
Shape(columns, rows) == <<VarIntToken(columns), VarIntToken(rows)>>
Def(name, T) == <<NameToken("name", name), NameToken("type", T)>>
Bytes(values) == [i \in DOMAIN values |-> U8(values[i])]
Str(content) == <<0, Plain(content)>>
End(n) == VarIntToken(EndFlag + n)
Gap(n) == VarIntToken(n)
Block(version, tokens, rows) == [revision |-> version, tokens |-> tokens, rows |-> rows]

\* Numbers with one value between defaults; a tuple of which one element is sparse;
\* strings with a value in the last row, or none at all.
Pair8 == Tuple(<<"a", "b">>, <<UInt8, String>>)
SparseNumbers ==
  Block(KindsRevision, Info \o Shape(2, 3)
             \o Def("a", UInt8) \o <<U8(1), U8(1), Gap(1), End(1), U8(1)>>
             \o Def("b", Pair8) \o <<U8(1), U8(0), U8(1), U8(0), Gap(0), Gap(1), End(0), U8(1), U8(1)>>
             \o <<Str(<<1>>), Str(<<>>), Str(<<2>>)>>,
        <<<<Some(0), Object(<<<<"a", Some(1)>>, <<"b", Plain(<<1>>)>>>>)>>,
          <<Some(1), Object(<<<<"a", Some(0)>>, <<"b", Plain(<<>>)>>>>)>>,
          <<Some(0), Object(<<<<"a", Some(1)>>, <<"b", Plain(<<2>>)>>>>)>>>>)
SparseStrings ==
  Block(KindsRevision, Info \o Shape(3, 2)
             \o Def("a", String) \o <<U8(1), U8(1), Gap(1), End(0), Str(<<1>>)>>
             \o Def("b", String) \o <<U8(1), U8(1), End(2)>>
             \o Def("c", Int64) \o <<U8(0), <<8, 255>>, <<8, 3>>>>,
        <<<<Plain(<<>>), Plain(<<>>), BigInt(-1)>>, <<Plain(<<1>>), Plain(<<>>), BigInt(3)>>>>)

\* Dictionaries with a default first, unused entries and indices of other widths.
Dictionaries ==
  Block(1, Info \o Shape(2, 2)
             \o Def("a", Lc(String)) \o <<LcVersion, U64(2 ^ 10 + AdditionalKeys + 3), U64(3)>>
             \o <<Str(<<>>), Str(<<1>>), Str(<<2>>), U64(2), <<8, 2>>, <<8, 0>>>>
             \o Def("b", Array(Lc(Nullable(String)))) \o <<LcVersion, U64(1), U64(3)>>
             \o <<U64(AdditionalKeys), U64(2), Str(<<>>), Str(<<1>>), U64(3), U8(1), U8(0), U8(1)>>,
        <<<<Plain(<<2>>), List(<<Plain(<<1>>)>>)>>, <<Plain(<<>>), List(<<Null, Plain(<<1>>)>>)>>>>)

\* Arms in the order of their bytes, however they were declared; types of a Dynamic,
\* one of them without rows; typed paths, then others; maps.
Arms3 ==
  Block(0, Shape(2, 3)
             \o Def("a", Variant) \o <<Basic, U8(2), U8(NullArm), U8(1), <<8, 7>>, Str(<<1>>)>>
             \o Def("b", Dynamic) \o <<V3, VarIntToken(3)>> \o [i \in 1 .. 3 |-> NameToken("type", <<Int64, String, UInt8>>[i])]
             \o <<<<2, 2>>, <<2, 0>>, <<2, 3>>, <<8, 9>>, U8(1)>>,
        <<<<<<"variant", 2, Plain(<<1>>)>>, Some(1)>>, <<Null, BigInt(9)>>, <<<<"variant", 1, BigInt(7)>>, Null>>>>)
Paths ==
  Block(KindsRevision, Info \o Shape(2, 2)
             \o Def("a", Json) \o <<U8(0), V3, VarIntToken(1), NameToken("path", "a"), LcVersion, V3, VarIntToken(1)>>
             \o <<NameToken("type", Array(UInt8))>>
             \o <<U64(AdditionalKeys), U64(2), Str(<<>>), Str(<<2>>), U64(2), U8(1), U8(0)>> \o Bytes(<<1, 0>>)
             \o <<U8(1), U8(0), U64(2), U8(1), U8(0)>>
             \o Def("b", <<"Map", String, UInt8>>) \o <<U8(0), U64(0), U64(2), Str(<<1>>), Str(<<2>>), U8(0), U8(1)>>,
        <<<<Object(<<<<"b", Plain(<<2>>)>>, <<"c", Some(1)>>>>), <<"map", <<>>>>>>,
          <<Object(<<<<"b", Plain(<<>>)>>, <<"c", Some(0)>>, <<"a", List(<<Some(1), Some(0)>>)>>>>),
            <<"map", <<<<Plain(<<1>>), Some(0)>>, <<Plain(<<2>>), Some(1)>>>>>>>>>>)
\* One row of scalars in the server's layout.
Scalars ==
  Block(1, Info \o Shape(8, 1)
             \o Def("a", <<"UUID">>) \o Bytes(<<0, 1, 1, 0>>)
             \o Def("b", <<"IPv4">>) \o <<<<4, 11>>>>
             \o Def("c", <<"IPv6">>) \o Bytes(<<0, 1, 1, 0, 1, 1>>)
             \o Def("d", <<"Int128">>) \o <<<<8, 254>>, <<8, 255>>>>
             \o Def("a", Enum) \o <<U8(1)>>
             \o Def("b", <<"Decimal", 15, 2>>) \o <<<<8, 5>>, <<8, 1>>>>
             \o Def("c", <<"Date32">>) \o <<<<4, 15>>>>
             \o Def("d", <<"DateTime64", 2>>) \o <<<<8, 251>>>>,
        <<<<Text("uuid", <<1, 0, 0, 1>>), Text("ipv4", <<1, 0, 1, 1>>), Text("ipv6", <<<<1, 2, 3>>>>), BigInt(-2),
            Text("name", "a"), Text("decimal", <<261, 2>>), <<"date", -4>>, <<"dt64", -5, 2>>>>>>)
\* Columns of one name, and one with the name of a row's method.
Named ==
  Block(0, Shape(3, 1) \o Def("toObject", UInt8) \o <<U8(1)>>
             \o Def("a", Int64) \o <<<<8, 3>>>> \o Def("a", Int64) \o <<<<8, 255>>>>,
        <<<<Some(1), BigInt(3), BigInt(-1)>>>>)
HeaderOnly == Block(KindsRevision, Info \o Shape(1, 0) \o Def("a", Array(UInt8)) \o <<U8(0)>>, <<>>)

MCServerBlocks == {SparseNumbers, SparseStrings, Dictionaries, Arms3, Paths, Scalars, Named, HeaderOnly}

-----------------------------------------------------------------------------
(* Names for the cache: an array of arrays, a map, a tuple with an unknown part. *)

MCCacheTypes == {"s", "u", "as", "aas", "m", "t", "x"}
MCCacheArgs == [type \in MCCacheTypes |->
  CASE type = "as" -> <<"s">> [] type = "aas" -> <<"as">> [] type = "m" -> <<"s", "u">>
    [] type = "t" -> <<"u", "x", "s">> [] OTHER -> <<>>]
MCCacheDepth == [type \in MCCacheTypes |->
  CASE type = "aas" -> 2 [] type \in {"as", "m", "t"} -> 1 [] OTHER -> 0]
MCStrings == {<<>>, <<<<1>>>>, <<<<1>>, <<2>>, <<3>>>>, <<<<5, 6>>>>, <<<<1>>, <<5, 6, 7>>>>, <<<<5, 6, 7>>, <<1>>>>}
MCChunks == {<<>>, <<1, 7, 2>>}

-----------------------------------------------------------------------------

\* Each part begins as it may, the others as they are first.
Init ==
  /\ part \in {"bytes", "cache", "table", "names", "params", "packets", "requests"}
  /\ IoInit /\ CacheInit /\ TableInit /\ NameInit /\ ParamInit /\ PacketInit /\ RequestInit
  /\ part # "bytes" => writer = Fresh(DefaultWriter)
  /\ part # "table" => schema = One(UInt8)
  /\ part # "packets" => method = <<>>
  /\ part # "names" => tree = UInt8 /\ style = "server"

Next ==
  \/ part = "bytes" /\ IoNext /\ UNCHANGED <<part, requestVars, packetVars, tableVars, cacheVars, nameVars, paramVars>>
  \/ part = "cache" /\ CacheNext /\ UNCHANGED <<part, requestVars, packetVars, tableVars, ioVars, nameVars, paramVars>>
  \/ part = "table" /\ TableNext /\ UNCHANGED <<part, requestVars, packetVars, ioVars, cacheVars, nameVars, paramVars>>
  \/ part = "names" /\ Grow /\ UNCHANGED <<part, requestVars, packetVars, ioVars, cacheVars, tableVars, paramVars>>
  \/ part = "params" /\ ParamNext /\ UNCHANGED <<part, requestVars, packetVars, ioVars, cacheVars, tableVars, nameVars>>
  \/ part = "packets" /\ PacketNext /\ UNCHANGED <<part, requestVars, ioVars, cacheVars, tableVars, nameVars, paramVars>>
  \/ part = "requests" /\ Choose /\ UNCHANGED <<part, packetVars, ioVars, cacheVars, tableVars, nameVars, paramVars>>

Spec == Init /\ [][Next]_<<part, ioVars, cacheVars, tableVars, nameVars, paramVars, packetVars, requestVars>>
=============================================================================
