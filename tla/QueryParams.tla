----------------------------- MODULE QueryParams -----------------------------
(***************************************************************************)
(* Query parameters, src/params.ts and its two callers: the placeholders   *)
(* of a query, the literal of each value, and how the literal travels in   *)
(* an HTTP request or in a Query packet.  A query is built piece by piece; *)
(* its text is a sequence of tokens, strings as in TypeNames.              *)
(***************************************************************************)
EXTENDS Literals, RecordBatches, TypeNames
LOCAL INSTANCE Integers
LOCAL INSTANCE Sequences
LOCAL INSTANCE SequencesExt

CONSTANTS Pieces,          \* texts without a placeholder outside of quotes and comments
          Placeholders,    \* a name, the text of a type, and the blanks around them
          Letters,         \* tokens a name or a type may begin with
          MaxPieces,       \* of one query
          TypeNamed(_),    \* the type that the text of a type names, for the codecs
          Arguments(_)     \* values for a parameter of a type

VARIABLES query,           \* the text
          declared,        \* the placeholders in it, first ones of a name
          pieces,          \* how many it is made of
          argument         \* a parameter and its value
paramVars == <<query, declared, pieces, argument>>

NoArgument == <<>>

-----------------------------------------------------------------------------
(* extractParamTypes.  Each operator has the text from where it begins to  *)
(* read, and returns what is left of it.                                   *)

LOCAL Left(text, n) == SubSeq(text, n + 1, Len(text))
LOCAL Starts(text, tokens) == IsPrefix(tokens, text)

RECURSIVE SkipQuotedString(_, _)
SkipQuotedString(text, quote) ==
  CASE text = <<>> -> <<>>
    [] Starts(text, <<"\\">>) \/ Starts(text, <<quote, quote>>) -> SkipQuotedString(Left(text, 2), quote)
    [] Starts(text, <<quote>>) /\ ~Starts(text, <<quote, quote>>) -> Left(text, 1)
    [] OTHER -> SkipQuotedString(Left(text, 1), quote)

\* What follows the next of some ends, or nothing.
SkipPast(text, end) ==
  LET ends == {i \in DOMAIN text : Starts(Left(text, i - 1), end)}
  IN IF ends = {} THEN <<>> ELSE Left(text, Min(ends) + Len(end) - 1)

SkipWhitespace(text) == SkipAll(text, Blanks)

\* A type, up to a brace or a parenthesis that is not its own.
RECURSIVE ParseType(_, _, _)
LOCAL WithQuoted(text, rest, depth, read) == ParseType(rest, depth, read \o SubSeq(text, 1, Len(text) - Len(rest)))
ParseType(text, depth, read) ==
  CASE text = <<>> \/ (depth = 0 /\ (Starts(text, <<")">>) \/ Starts(text, <<"}">>))) ->
         [type |-> Trimmed(read), rest |-> text]
    [] Starts(text, <<"quote">>) \/ Starts(text, <<"double">>) ->
         WithQuoted(text, SkipQuotedString(Left(text, 1), text[1]), depth, read)
    [] OTHER -> ParseType(Left(text, 1), depth + Nesting(text[1]), Append(read, text[1]))

\* {name: Type}, after its brace; or nothing.
NotParam == [name |-> <<>>, type |-> <<>>, rest |-> <<>>]
LOCAL Param(name, parsed) ==
  IF parsed.type = <<>> THEN NotParam
  ELSE IF parsed.type[1] \notin Letters THEN NotParam
  ELSE [name |-> name, type |-> parsed.type, rest |-> SkipPast(parsed.rest, <<"}">>)]
LOCAL AfterName(name, rest) ==
  IF name = <<>> \/ ~Starts(rest, <<":">>) THEN NotParam
  ELSE Param(name, ParseType(SkipWhitespace(Left(rest, 1)), 0, <<>>))
LOCAL NameAndRest(text, after) == AfterName(SubSeq(text, 1, Len(text) - Len(after)), SkipWhitespace(after))
LOCAL ParamFrom(text) == NameAndRest(text, SkipAll(text, Letters \cup DOMAIN DigitOf))
ParseParam(text) == ParamFrom(SkipWhitespace(text))

\* The names and their types, in the order of the query; the first of a name counts.
RECURSIVE Params(_, _)
LOCAL Declare(types, name, type) ==
  IF \E i \in DOMAIN types : types[i][1] = name THEN types ELSE Append(types, <<name, type>>)
LOCAL OrSkip(text, param, types) ==
  IF param = NotParam THEN Params(Left(text, 1), types) ELSE Params(param.rest, Declare(types, param.name, param.type))
Params(text, types) ==
  CASE text = <<>> -> types
    [] text # <<>> /\ text[1] \in {"quote", "double", "tick"} -> Params(SkipQuotedString(Left(text, 1), text[1]), types)
    [] Starts(text, <<"-", "-">>) -> Params(SkipPast(Left(text, 2), <<"newline">>), types)
    [] Starts(text, <<"/", "*">>) -> Params(SkipPast(Left(text, 2), <<"*", "/">>), types)
    [] Starts(text, <<"{">>) -> OrSkip(text, ParseParam(Left(text, 1)), types)
    [] OTHER -> Params(Left(text, 1), types)
ExtractParamTypes(text) == Params(text, <<>>)

-----------------------------------------------------------------------------
(* serializeParams, and the two ways of what it returns. *)

Identifier == <<"Identifier">>
SerializeParam(type, v) ==
  IF type = Identifier THEN Lit(Spelt(CoerceToString(v, MsPrecision), FALSE)) ELSE ToLiteral(TypeNamed(type), v, FALSE)
TypeOf(types, name) == types[CHOOSE i \in DOMAIN types : types[i][1] = name][2]
\* The values whose names the query declares, and no others.
LOCAL Known(types, values) == SelectSeq(values, LAMBDA value : \E i \in DOMAIN types : types[i][1] = value[1])
LOCAL EachParam(types, known) ==
  [k \in DOMAIN known |-> <<known[k][1], SerializeParam(TypeOf(types, known[k][1]), known[k][2])>>]
LOCAL ParamsOf(types, values) == EachParam(types, Known(types, values))
SerializeParams(text, values) == ParamsOf(ExtractParamTypes(text), values)

\* mergeQueryParams: the value of param_<name>
HttpParam(literal) == IF literal = SqlNull THEN NullEscape ELSE literal[2]
\* (A mutation: only the quotes.)
DumpedQuotes(token) == IF token = <<Quote>> THEN Chars(<<Backslash, Quote>>) ELSE <<token>>
\* Every backslash and quote has a backslash before it.
Dumped(token) ==
  IF token \in ToSet(Chars(<<Backslash, Quote>>)) THEN Chars(<<Backslash>>) \o <<token>> ELSE <<token>>
\* encodeQuery: a dumped string in quotes
TcpParam(literal) ==
  IF literal = SqlNull THEN Chars(<<Quote, Backslash, Backslash, 78, Quote>>)
  ELSE WrapQuoted(FlattenSeq([i \in DOMAIN literal[2] |-> Dumped(literal[2][i])]), TRUE)

\* The server takes the quotes off first.
Dequoted(tokens) == ReadChars(Tail(tokens), TRUE, <<>>).text

-----------------------------------------------------------------------------

ParamInit == query = <<>> /\ declared = <<>> /\ pieces = 0 /\ argument = NoArgument

AddText ==
  /\ pieces < MaxPieces /\ argument = NoArgument
  /\ \E piece \in Pieces : query' = query \o piece
  /\ pieces' = pieces + 1
  /\ UNCHANGED <<declared, argument>>
LOCAL PlaceholderText(name, type, blank) ==
  <<"{">> \o blank \o name \o blank \o <<":">> \o blank \o type \o blank \o <<"}">>
AddPlaceholder ==
  /\ pieces < MaxPieces /\ argument = NoArgument
  /\ \E p \in Placeholders :
       /\ query' = query \o PlaceholderText(p[1], p[2], p[3])
       /\ declared' = IF p[1] \in {declared[i][1] : i \in DOMAIN declared} THEN declared
                        ELSE Append(declared, SubSeq(p, 1, 2))
  /\ pieces' = pieces + 1
  /\ UNCHANGED argument
Give ==
  /\ argument = NoArgument
  /\ \E i \in DOMAIN declared :
       declared[i][2] # Identifier /\ \E v \in Arguments(TypeNamed(declared[i][2])) : argument' = <<declared[i][1], v>>
  /\ UNCHANGED <<query, declared, pieces>>

ParamNext == AddText \/ AddPlaceholder \/ Give

-----------------------------------------------------------------------------

LOCAL Sent(tokens, T) == Kept(T, ReadLiteral(T, tokens, FALSE).value)
LOCAL Arrives(serialized, T, v) ==
  /\ Len(serialized) = 1
  /\ Sent(HttpParam(serialized[1][2]), T) = Kept(T, v)
  /\ Sent(Dequoted(TcpParam(serialized[1][2])), T) = Kept(T, v)

\* The parameters found in a query are those that are in it, and no text within a
\* string, a quoted name or a comment is taken for one; and a value given for one
\* reaches the server, by HTTP and by TCP, as what an insert of the same value into
\* a column of that type stores: no character is lost, doubled or taken for a quote
\* or for NULL on the way (serializeParams, toLiteral, mergeQueryParams, encodeQuery).
ParamsRead ==
  /\ ExtractParamTypes(query) = declared
  /\ argument # NoArgument =>
       \E T \in {TypeNamed(TypeOf(declared, argument[1]))} :
         Unkept(Kept(T, argument[2])) \/ Arrives(SerializeParams(query, <<argument, <<<<"x">>, Null>>>>), T, argument[2])
=============================================================================
