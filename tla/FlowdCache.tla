----------------------------- MODULE FlowdCache -----------------------------
(***************************************************************************)
(* flowd's compiled-engine cache (cmd/flowd/server/lru.go) between the      *)
(* requests that run flows (engineFor, engineForV2) and those that write    *)
(* them (POST, PUT, DELETE /flows).  An engine is known by the version of   *)
(* the flow it was compiled from; the cache is the order list of entries,   *)
(* most recently used first.  Get, Set and Delete hold the mutex and are    *)
(* one step each; the store accesses between them are steps of their own.   *)
(***************************************************************************)
EXTENDS Naturals, Sequences, SequencesExt, FiniteSets

CONSTANTS
  Flows,        \* flow ids
  Runners,      \* clients that run flows, one request at a time
  Writers,      \* clients that write flows
  Cap,          \* EngineCacheSize; 0 = unbounded
  MaxVersion    \* bound: flow versions written in a behaviour

ASSUME CacheAssumption ==
  /\ Flows # {} /\ Cap \in Nat /\ MaxVersion \in Nat
  /\ Runners \cap Writers = {}

VARIABLES
  stored,    \* stored[f]: version in the flows table; 0 = no row
  versions,  \* versions written so far
  cache,     \* order list, front first: [id, ver]
  pc, flow,  \* where each client's request is, and its flow id
  loaded,    \* version a runner's request has read or compiled
  raced      \* flows written while a run held an older version; history only

vars == <<stored, versions, cache, pc, flow, loaded, raced>>

Clients == Runners \cup Writers
At(c, p) == pc[c] = p
Goto(c, p) == pc' = [pc EXCEPT ![c] = p]

Init ==
  /\ stored = [f \in Flows |-> 0] /\ versions = 0
  /\ cache = << >>
  /\ pc = [c \in Clients |-> "idle"]
  /\ flow = [c \in Clients |-> CHOOSE f \in Flows : TRUE]
  /\ loaded = [r \in Runners |-> 0] /\ raced = {}

(***************************************************************************)
(* engineCache.                                                            *)
(***************************************************************************)
Entry(f, v) == [id |-> f, ver |-> v]
Cached(f) == \E i \in 1..Len(cache) : cache[i].id = f
(* items[f]: the place of f's entry in the order list.                     *)
PlaceOf(f) == CHOOSE i \in 1..Len(cache) : cache[i].id = f
VersionOf(f) == cache[PlaceOf(f)].ver
Without(f) == IF Cached(f) THEN RemoveAt(cache, PlaceOf(f)) ELSE cache

(* Fault: a full cache takes one more entry.                               *)
OverFullByOne(s) == Cap > 0 /\ Len(s) > Cap + 1
OverFull(s) == Cap > 0 /\ Len(s) > Cap

Get(f) == cache' = <<Entry(f, VersionOf(f))>> \o Without(f)
Set(f, v) ==
  LET s == <<Entry(f, v)>> \o Without(f) IN
  cache' = IF OverFull(s) THEN Front(s) ELSE s
Delete(f) == cache' = Without(f)

(***************************************************************************)
(* engineFor.                                                              *)
(***************************************************************************)
EngineFor(r, f) ==
  /\ At(r, "idle")
  /\ flow' = [flow EXCEPT ![r] = f]
  /\ \/ /\ Cached(f) /\ Get(f)                       \* hit
        /\ Goto(r, "run") /\ loaded' = [loaded EXCEPT ![r] = VersionOf(f)]
     \/ ~Cached(f) /\ Goto(r, "load") /\ UNCHANGED <<cache, loaded>>
  /\ UNCHANGED <<stored, versions, raced>>

(* GetFlow, then LoadCompile, which may fail.                              *)
Load(r) ==
  /\ At(r, "load")
  /\ \/ /\ stored[flow[r]] # 0
        /\ Goto(r, "compiled") /\ loaded' = [loaded EXCEPT ![r] = stored[flow[r]]]
     \/ Goto(r, "idle") /\ UNCHANGED loaded           \* no such flow, or an error
  /\ UNCHANGED <<stored, versions, cache, flow, raced>>

StoreEngine(r) ==
  /\ At(r, "compiled")
  /\ Set(flow[r], loaded[r]) /\ Goto(r, "run")
  /\ UNCHANGED <<stored, versions, flow, loaded, raced>>

(* The engine runs; runWithStore and runResumableV2 do not come back to the *)
(* cache.                                                                  *)
RunEnds(r) ==
  /\ At(r, "run") /\ Goto(r, "idle")
  /\ UNCHANGED <<stored, versions, cache, flow, loaded, raced>>

(***************************************************************************)
(* The writers.  POST creates only what is absent and leaves the cache      *)
(* alone; PUT and DELETE write and then evict.                             *)
(***************************************************************************)
Write(w, f, v) ==
  /\ flow' = [flow EXCEPT ![w] = f]
  /\ stored' = [stored EXCEPT ![f] = v]
  /\ raced' = IF \E r \in Runners : At(r, "compiled") /\ flow[r] = f
              THEN raced \cup {f} ELSE raced
  /\ UNCHANGED <<cache, loaded>>

CreateFlow(w, f) ==
  /\ At(w, "idle") /\ versions < MaxVersion
  /\ stored[f] = 0
  /\ versions' = versions + 1 /\ Write(w, f, versions')
  /\ UNCHANGED pc

(* Fault: the handler returns without evicting.                            *)
PutReturns == "idle"
AfterPut == "evict"

PutFlow(w, f) ==
  /\ At(w, "idle") /\ versions < MaxVersion
  /\ versions' = versions + 1 /\ Write(w, f, versions')
  /\ Goto(w, AfterPut)

DeleteFlow(w, f) ==
  /\ At(w, "idle") /\ stored[f] # 0
  /\ Write(w, f, 0) /\ Goto(w, "evict")
  /\ UNCHANGED versions

EngineEvict(w) ==
  /\ At(w, "evict")
  /\ Delete(flow[w]) /\ Goto(w, "idle")
  /\ raced' = IF \E r \in Runners : At(r, "compiled") /\ flow[r] = flow[w]
              THEN raced ELSE raced \ {flow[w]}
  /\ UNCHANGED <<stored, versions, flow, loaded>>

RunnerStep(r) ==
  (\E f \in Flows : EngineFor(r, f)) \/ Load(r) \/ StoreEngine(r) \/ RunEnds(r)
WriterStep(w) ==
  \/ \E f \in Flows : CreateFlow(w, f) \/ PutFlow(w, f) \/ DeleteFlow(w, f)
  \/ EngineEvict(w)

Next == (\E r \in Runners : RunnerStep(r)) \/ (\E w \in Writers : WriterStep(w))
Spec == Init /\ [][Next]_vars

(***************************************************************************)
(* Properties.                                                             *)
(***************************************************************************)
(* The requests stay in their states; the cache never holds more than       *)
(* EngineCacheSize engines, nor two for one flow.                          *)
TypeOK ==
  /\ stored \in [Flows -> 0..MaxVersion] /\ versions \in 0..MaxVersion
  /\ cache \in Seq([id : Flows, ver : 1..MaxVersion])
  /\ Cap > 0 => Len(cache) <= Cap
  /\ \A i, j \in 1..Len(cache) : cache[i].id = cache[j].id => i = j
  /\ pc \in [Clients -> {"idle", "load", "compiled", "run", "evict"}]
  /\ flow \in [Clients -> Flows] /\ loaded \in [Runners -> 0..MaxVersion]
  /\ raced \subseteq Flows

(* A writer has written f and not evicted yet.                             *)
Evicting(f) == \E w \in Writers : At(w, "evict") /\ flow[w] = f
Stale(f) == Cached(f) /\ VersionOf(f) # stored[f] /\ ~Evicting(f)

(* "PUT and DELETE handlers still call engineEvict for immediate            *)
(* invalidation" (cmd/flowd/server/server.go), which they do but for one    *)
(* interleaving: a run had already read the old version when the flow was   *)
(* written, and stores its engine after the eviction; it then stays cached. *)
(* POST, which does not evict, never leaves one, nor does any interleaving  *)
(* of two writers.                                                         *)
StaleOnlyByRace == \A f \in Flows : Stale(f) => f \in raced
=============================================================================
