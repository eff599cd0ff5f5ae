----------------------------- MODULE CodecCache -----------------------------
(***************************************************************************)
(* The cache of codecs, src/native/codecs/registry.ts: a Map iterates in   *)
(* the order of insertion, so a hit takes its type out and puts it in      *)
(* again, and the first key is the one used longest ago.  A miss builds    *)
(* the codec, which looks up the types it is made of in the same cache     *)
(* before it is inserted itself.                                           *)
(*                                                                         *)
(* Each call of getCodec is taken apart into the steps between which       *)
(* another one begins or ends; the stack is a variable.                    *)
(***************************************************************************)
EXTENDS Naturals, Sequences

CONSTANTS CacheTypes,      \* types a schema or a server may name
          CacheArgs,       \* the types each is made of, in the order of their lookup
          CacheDepth,      \* how deep it is: no type is a part of itself
          UnknownTypes,    \* names no codec is for
          CacheLimit       \* CODEC_CACHE_LIMIT (8192)

ASSUME CacheAssumption ==
  /\ CacheLimit \in Nat \ {0}
  /\ CacheArgs \in [CacheTypes -> Seq(CacheTypes)]
  /\ CacheDepth \in [CacheTypes -> Nat]
  /\ \A type \in CacheTypes : \A i \in 1 .. Len(CacheArgs[type]) :
       CacheDepth[CacheArgs[type][i]] < CacheDepth[type]

VARIABLES cache,           \* CODEC_CACHE's keys, in the order of insertion
          recency,         \* every type ever inserted, by its last use (for the property)
          building         \* the codecs being built, the outermost first, each with the
                           \* types it has yet to look up

cacheVars == <<cache, recency, building>>

Holds(keys, type) == \E i \in DOMAIN keys : keys[i] = type
PlaceOf(keys, type) == CHOOSE i \in DOMAIN keys : keys[i] = type

\* delete
Without(keys, type) ==
  IF Holds(keys, type)
  THEN SubSeq(keys, 1, PlaceOf(keys, type) - 1) \o SubSeq(keys, PlaceOf(keys, type) + 1, Len(keys))
  ELSE keys

\* delete, and set
Reinserted(keys, type) == Append(Without(keys, type), type)

\* The cache after a set: one too many, and the first key goes.
Evicted(keys) == IF Len(keys) > CacheLimit THEN Tail(keys) ELSE keys

\* Mutant: a hit leaves its type where it is.
HitInPlace(type) == UNCHANGED cache /\ recency' = Reinserted(recency, type)

Hit(type) == cache' = Reinserted(cache, type) /\ recency' = Reinserted(recency, type)

\* set, which leaves a key that is there in its place, and the eviction behind it
Inserted(type) ==
  /\ cache' = Evicted(IF Holds(cache, type) THEN cache ELSE Append(cache, type))
  /\ recency' = Reinserted(recency, type)

\* getCodec(type) up to its return, or to the first lookup of a part.  callers are
\* the codecs being built around it.  An unknown type throws, through all of them.
Lookup(type, callers) ==
  \/ Holds(cache, type) /\ Hit(type) /\ building' = callers
  \/ /\ ~Holds(cache, type) /\ type \in UnknownTypes
     /\ building' = <<>> /\ UNCHANGED <<cache, recency>>
  \/ /\ ~Holds(cache, type) /\ type \notin UnknownTypes
     /\ building' = Append(callers, [type |-> type, left |-> CacheArgs[type]])
     /\ UNCHANGED <<cache, recency>>

Outermost == SubSeq(building, 1, Len(building) - 1)
Innermost == building[Len(building)]

CacheInit == cache = <<>> /\ recency = <<>> /\ building = <<>>

\* A call from outside.
GetCodec == building = <<>> /\ \E type \in CacheTypes : Lookup(type, <<>>)

\* createCodec asks for the next part.
GetPart ==
  /\ building # <<>> /\ Innermost.left # <<>>
  /\ Lookup(Head(Innermost.left), [building EXCEPT ![Len(building)].left = Tail(@)])

\* All parts are there: the codec is made, inserted and returned.
CodecBuilt ==
  /\ building # <<>> /\ Innermost.left = <<>>
  /\ Inserted(Innermost.type) /\ building' = Outermost

CacheNext == GetCodec \/ GetPart \/ CodecBuilt
CacheSpec == CacheInit /\ [][CacheNext]_cacheVars

\* However lookups nest, and wherever one fails, the cache holds each codec once,
\* never more of them than its limit, and exactly those that were used last: an
\* eviction in the middle of building a codec takes neither the parts just looked
\* up nor the codec itself before older ones (registry.ts getCodec).
CacheSound ==
  cache = SubSeq(recency, 1 + (IF Len(recency) > CacheLimit THEN Len(recency) - CacheLimit ELSE 0),
                 Len(recency))
=============================================================================
