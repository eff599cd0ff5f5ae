------------------------------ MODULE RowViews ------------------------------
(***************************************************************************)
(* How the rows of a batch are read, src/native/table.ts and               *)
(* src/native/rows.ts: by place, as plain objects, and through the lazy    *)
(* row that createRowProxy makes.  names are the columns' names, which     *)
(* need not differ, and cells what each column has in one row.             *)
(***************************************************************************)
EXTENDS NativeValues
LOCAL INSTANCE Sequences
LOCAL INSTANCE SequencesExt
LOCAL INSTANCE FiniteSetsExt

\* maybeStringify: bigints, but not those within other values
MaybeStringify(v, bigIntAsString) ==
  IF bigIntAsString /\ v[1] = "bigint" THEN Text("number", v[2]) ELSE v

\* nameToIndex is a Map: of columns with one name, the last is found.
NameToIndex(names) ==
  [name \in {names[j] : j \in DOMAIN names} |-> Max({j \in DOMAIN names : names[j] = name})]

\* Row.toArray
RowArray(cells, bigIntAsString) == [j \in DOMAIN cells |-> MaybeStringify(cells[j], bigIntAsString)]

\* obj[name] = value: a key keeps the place where it was set first.
LOCAL Assign(object, name, value) ==
  IF \E k \in DOMAIN object : object[k][1] = name
  THEN [k \in DOMAIN object |-> IF object[k][1] = name THEN <<name, value>> ELSE object[k]]
  ELSE Append(object, <<name, value>>)

\* Row.toObject and toJSON, and with them RecordBatch.toArray and collectRows
RowObject(names, cells, bigIntAsString) ==
  FoldLeft(LAMBDA object, j : Assign(object, names[j], MaybeStringify(cells[j], bigIntAsString)),
           <<>>, [j \in DOMAIN names |-> j])

\* The get trap: three names are methods, whatever the columns are called.
RowMethods == {"toObject", "toJSON", "toArray"}
ProxyGet(names, cells, bigIntAsString, prop) ==
  CASE prop \in RowMethods -> <<"method", prop>>
    [] prop \notin RowMethods /\ prop \in DOMAIN NameToIndex(names) ->
         MaybeStringify(cells[NameToIndex(names)[prop]], bigIntAsString)
    [] OTHER -> Undefined

\* The descriptor's value does not look for methods.
DescribedValue(names, cells, bigIntAsString, prop) ==
  IF prop \in DOMAIN NameToIndex(names)
  THEN MaybeStringify(cells[NameToIndex(names)[prop]], bigIntAsString) ELSE Undefined

\* The ownKeys trap gives the columns' names; the runtime refuses names that repeat.
OwnKeys(names) == IF \A i, j \in DOMAIN names : names[i] = names[j] => i = j THEN names ELSE Error

\* {...row}: every own key that has a descriptor, with what the get trap says.
Spread(names, cells, bigIntAsString) ==
  IF OwnKeys(names) = Error THEN Error
  ELSE [k \in DOMAIN names |-> <<names[k], ProxyGet(names, cells, bigIntAsString, names[k])>>]

\* Read in whatever way, with or without bigints as strings, a row has the values
\* it should: by place each, by name that of the last column of the name, and
\* objects have each name once; no name at all is enumerated if one repeats, and a
\* column called like a method is found in objects but hides behind the method.
ReadsAs(names, cells, values) ==
  \A asString \in BOOLEAN :
    LET shown == [j \in DOMAIN values |-> MaybeStringify(values[j], asString)]
        lasts == {j \in DOMAIN names : \A k \in DOMAIN names : k > j => names[k] # names[j]}
        object == RowObject(names, cells, asString)
    IN /\ RowArray(cells, asString) = shown
       /\ Len(object) = Cardinality(lasts)
       /\ \A j \in lasts :
            /\ Contains(object, <<names[j], shown[j]>>)
            /\ DescribedValue(names, cells, asString, names[j]) = shown[j]
            /\ ProxyGet(names, cells, asString, names[j])
                 = IF names[j] \in RowMethods THEN <<"method", names[j]>> ELSE shown[j]
       /\ IF lasts # DOMAIN names THEN Spread(names, cells, asString) = Error
          ELSE \A k \in DOMAIN names :
                 names[k] \notin RowMethods => Spread(names, cells, asString)[k] = object[k]
=============================================================================
