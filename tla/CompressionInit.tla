-------------------------- MODULE CompressionInit --------------------------
(***************************************************************************)
(* init() of src/compression.ts: the compression libraries are loaded once *)
(* for all callers.  The callers share one promise, which the caller that  *)
(* started the loading clears when it has failed, so that a later call may *)
(* try again.                                                              *)
(***************************************************************************)
EXTENDS Naturals

CONSTANTS
  Callers,   \* calls of init()
  Zstd,      \* BUILD_WITH_ZSTD
  MaxLoads   \* bound: how often loading is started

ASSUME LoadsAssumption == Callers # {} /\ Zstd \in BOOLEAN /\ MaxLoads \in Nat

VARIABLES
  initialized,
  initPromise,  \* "none", "pending", "resolved", "rejected"
  loads,        \* loads started
  todo,         \* what the running load has still to load
  loaded,       \* the compression functions that have been set
  caller        \* where each call of init() is

initVars == <<initialized, initPromise, loads, todo, loaded, caller>>

Libraries == IF Zstd THEN {"lz4", "zstd"} ELSE {"lz4"}

InitInit ==
  /\ initialized = FALSE /\ initPromise = "none" /\ loads = 0
  /\ todo = {} /\ loaded = {} /\ caller = [c \in Callers |-> "idle"]

Becomes(c, state) == caller' = [caller EXCEPT ![c] = state]

\* init(), up to its await.  The first call of all starts the loading; a call
\* after a failure that has not been cleared yet shares the failure.
CallInit(c) ==
  /\ caller[c] \in {"idle", "failed"}
  /\ IF initialized THEN Becomes(c, "ready") /\ UNCHANGED <<initPromise, loads, todo>>
     ELSE IF initPromise # "none"
     THEN /\ Becomes(c, IF initPromise = "rejected" THEN "rejected" ELSE "waiting")
          /\ UNCHANGED <<initPromise, loads, todo>>
     ELSE /\ loads < MaxLoads /\ loads' = loads + 1
          /\ initPromise' = "pending" /\ todo' = Libraries /\ Becomes(c, "owner")
  /\ UNCHANGED <<initialized, loaded>>

\* initLz4(), then initZstd(): the native library, or else its WASM build.
Load(library) ==
  /\ initPromise = "pending" /\ library \in todo /\ (library = "zstd" => "lz4" \notin todo)
  /\ loaded' = loaded \union {library} /\ todo' = todo \ {library}
  /\ initialized' = (todo' = {})
  /\ initPromise' = IF todo' = {} THEN "resolved" ELSE "pending"
  /\ UNCHANGED <<loads, caller>>

\* Neither the native library nor the WASM build could be loaded.  What has been
\* loaded stays, and whoever waits for this load will see it fail.
LoadFails ==
  /\ initPromise = "pending" /\ initPromise' = "rejected" /\ todo' = {}
  /\ caller' = [c \in Callers |-> IF caller[c] = "waiting" THEN "rejected" ELSE caller[c]]
  /\ UNCHANGED <<initialized, loads, loaded>>

\* The await of a load that has succeeded returns.
InitReturns(c) ==
  /\ caller[c] \in {"owner", "waiting"} /\ initPromise = "resolved"
  /\ Becomes(c, "ready")
  /\ UNCHANGED <<initialized, initPromise, loads, todo, loaded>>

\* The catch block: the call that started the loading clears the promise.
OwnerFails(c) ==
  /\ caller[c] = "owner" /\ initPromise = "rejected"
  /\ Becomes(c, "failed") /\ initPromise' = "none"
  /\ UNCHANGED <<initialized, loads, todo, loaded>>

\* Mutant: every call whose await fails clears the promise.
WaiterFailsClearing(c) ==
  /\ caller[c] = "rejected"
  /\ Becomes(c, "failed") /\ initPromise' = "none"
  /\ UNCHANGED <<initialized, loads, todo, loaded>>

\* The others have returned the promise itself.
WaiterFails(c) ==
  /\ caller[c] = "rejected"
  /\ Becomes(c, "failed")
  /\ UNCHANGED <<initialized, initPromise, loads, todo, loaded>>

InitStep ==
  \/ \E library \in Libraries : Load(library)
  \/ LoadFails
  \/ \E c \in Callers : InitReturns(c) \/ OwnerFails(c) \/ WaiterFails(c)

\* The memo works: there is never more than one load, it has one owner, who is
\* there to clear it should it fail, and a call that has returned finds every
\* compression function in place.
InitMemo ==
  /\ initPromise \in {"pending", "rejected"} <=> \E c \in Callers : caller[c] = "owner" /\ ~initialized
  /\ \A c, d \in Callers : caller[c] = "owner" /\ caller[d] = "owner" => c = d
  /\ \A c \in Callers : caller[c] = "ready" => loaded = Libraries
=============================================================================
