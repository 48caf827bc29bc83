-------------------------- MODULE FlowdCacheProofs --------------------------
(***************************************************************************)
(* The engine cache of flowd, for any number of flows, clients and          *)
(* versions and any EngineCacheSize.                                       *)
(***************************************************************************)
EXTENDS FlowdCache, SequenceTheorems, TLAPS

EntryRecord == [id : Flows, ver : 1..MaxVersion]

(* An order list holds at most one entry for a flow.                        *)
OnePerFlow(s) == \A i, j \in 1..Len(s) : s[i].id = s[j].id => i = j

(***************************************************************************)
(* The order list.                                                         *)
(***************************************************************************)
LEMMA RemoveAtShape ==
  ASSUME NEW S, NEW s \in Seq(S), NEW i \in 1..Len(s)
  PROVE  /\ RemoveAt(s, i) \in Seq(S) /\ Len(RemoveAt(s, i)) = Len(s) - 1
         /\ \A j \in 1..(Len(s) - 1) : RemoveAt(s, i)[j] = IF j < i THEN s[j] ELSE s[j + 1]
<1> DEFINE a == SubSeq(s, 1, i - 1)
           b == SubSeq(s, i + 1, Len(s))
<1>1. Len(s) \in Nat /\ i \in Nat /\ 1 <= i /\ i <= Len(s)
  OBVIOUS
<1>2. a \in Seq(S) /\ Len(a) = i - 1 /\ \A j \in 1..(i - 1) : a[j] = s[j]
  BY <1>1
<1>3. b \in Seq(S) /\ Len(b) = Len(s) - i /\ \A j \in 1..(Len(s) - i) : b[j] = s[j + i]
  BY <1>1
<1>4. RemoveAt(s, i) = a \o b
  BY DEF RemoveAt
<1> HIDE DEF a, b
<1>5. a \o b \in Seq(S) /\ Len(a \o b) = Len(s) - 1
  <2>1. a \o b \in Seq(S) /\ Len(a \o b) = Len(a) + Len(b)
    BY <1>2, <1>3, ConcatProperties
  <2>2. QED
    BY <1>1, <1>2, <1>3, <2>1
<1>6. \A j \in 1..(Len(s) - 1) : (a \o b)[j] = IF j < i THEN s[j] ELSE s[j + 1]
  <2> SUFFICES ASSUME NEW j \in 1..(Len(s) - 1)
               PROVE  (a \o b)[j] = IF j < i THEN s[j] ELSE s[j + 1]
    OBVIOUS
  <2>1. CASE j < i
    BY <1>1, <1>2, <1>3, <2>1
  <2>2. CASE j >= i
    <3>1. (a \o b)[j] = b[j - (i - 1)] /\ j - (i - 1) \in 1..(Len(s) - i)
      BY <1>1, <1>2, <1>3, <2>2
    <3>2. QED
      BY <1>1, <1>3, <2>2, <3>1
  <2>3. j < i \/ j >= i
    BY <1>1
  <2>4. QED
    BY <2>1, <2>2, <2>3
<1>7. QED
  BY <1>4, <1>5, <1>6

LEMMA PushFrontShape ==
  ASSUME NEW S, NEW s \in Seq(S), NEW e \in S
  PROVE  /\ <<e>> \o s \in Seq(S) /\ Len(<<e>> \o s) = Len(s) + 1
         /\ (<<e>> \o s)[1] = e
         /\ \A j \in 2..(Len(s) + 1) : (<<e>> \o s)[j] = s[j - 1]
<1>1. <<e>> \in Seq(S) /\ Len(<<e>>) = 1 /\ <<e>>[1] = e
  OBVIOUS
<1>2. /\ <<e>> \o s \in Seq(S) /\ Len(<<e>> \o s) = Len(<<e>>) + Len(s)
      /\ \A i \in 1..(Len(<<e>>) + Len(s)) :
           (<<e>> \o s)[i] = IF i <= Len(<<e>>) THEN <<e>>[i] ELSE s[i - Len(<<e>>)]
  BY <1>1, ConcatProperties
<1>3. Len(s) \in Nat
  OBVIOUS
<1>4. QED
  BY <1>1, <1>2, <1>3

LEMMA FrontShape ==
  ASSUME NEW S, NEW s \in Seq(S), Len(s) > 0
  PROVE  /\ Front(s) \in Seq(S) /\ Len(Front(s)) = Len(s) - 1
         /\ \A j \in 1..(Len(s) - 1) : Front(s)[j] = s[j]
<1> DEFINE n == Len(s) - 1
<1>1. n \in Nat /\ \A i \in 1..n : s[i] \in S
  OBVIOUS
<1>2. Front(s) = SubSeq(s, 1, n)
  BY DEF Front
<1> HIDE DEF n
<1>3. 1 \in Int /\ n \in Int
  BY <1>1
<1>4. /\ SubSeq(s, 1, n) \in Seq(S)
      /\ Len(SubSeq(s, 1, n)) = IF 1 <= n THEN n - 1 + 1 ELSE 0
      /\ \A i \in 1..(n - 1 + 1) : SubSeq(s, 1, n)[i] = s[1 + i - 1]
  BY <1>1, <1>3, SubSeqProperties
<1>5. Len(SubSeq(s, 1, n)) = n /\ \A i \in 1..n : SubSeq(s, 1, n)[i] = s[i]
  BY <1>1, <1>4
<1>6. QED
  BY <1>2, <1>4, <1>5 DEF n

(* Without(f) keeps every other entry and drops f's.                       *)
LEMMA WithoutShape ==
  ASSUME NEW f \in Flows, cache \in Seq(EntryRecord), OnePerFlow(cache)
  PROVE  /\ Without(f) \in Seq(EntryRecord) /\ OnePerFlow(Without(f))
         /\ Len(Without(f)) = (IF Cached(f) THEN Len(cache) - 1 ELSE Len(cache))
         /\ \A i \in 1..Len(Without(f)) :
              /\ Without(f)[i].id # f
              /\ \E k \in 1..Len(cache) : cache[k] = Without(f)[i]
<1>1. Len(cache) \in Nat
  OBVIOUS
<1>2. CASE ~Cached(f)
  BY <1>2 DEF Without, Cached
<1>3. CASE Cached(f)
  <2> DEFINE p == PlaceOf(f)
             t == RemoveAt(cache, p)
  <2>1. p \in 1..Len(cache) /\ cache[p].id = f
    BY <1>3 DEF Cached, PlaceOf
  <2>2. Without(f) = t
    BY <1>3 DEF Without
  <2>3. /\ t \in Seq(EntryRecord) /\ Len(t) = Len(cache) - 1
        /\ \A j \in 1..(Len(cache) - 1) : t[j] = IF j < p THEN cache[j] ELSE cache[j + 1]
    BY <2>1, RemoveAtShape
  <2> HIDE DEF p, t
  <2> DEFINE from(j) == IF j < p THEN j ELSE j + 1
  <2>4. \A j \in 1..Len(t) : from(j) \in 1..Len(cache) /\ from(j) # p /\ t[j] = cache[from(j)]
    BY <1>1, <2>1, <2>3
  <2>5. \A i, j \in 1..Len(t) : from(i) = from(j) => i = j
    BY <1>1, <2>1, <2>3
  <2> HIDE DEF from
  <2>6. OnePerFlow(t)
    BY <2>4, <2>5 DEF OnePerFlow
  <2>7. \A j \in 1..Len(t) : t[j].id # f /\ \E k \in 1..Len(cache) : cache[k] = t[j]
    BY <2>1, <2>4 DEF OnePerFlow
  <2>8. QED
    BY <1>3, <2>2, <2>3, <2>6, <2>7
<1>4. QED
  BY <1>2, <1>3

(* The order list Get and Set build: one entry for f first, the others with *)
(* their versions.                                                         *)
Pushed(f, v) == <<Entry(f, v)>> \o Without(f)

LEMMA PushShape ==
  ASSUME NEW f \in Flows, NEW v \in 1..MaxVersion, cache \in Seq(EntryRecord), OnePerFlow(cache)
  PROVE  /\ Pushed(f, v) \in Seq(EntryRecord) /\ OnePerFlow(Pushed(f, v))
         /\ Len(Pushed(f, v)) = (IF Cached(f) THEN Len(cache) ELSE Len(cache) + 1)
         /\ \A i \in 1..Len(Pushed(f, v)) :
              \/ Pushed(f, v)[i] = Entry(f, v)
              \/ \E k \in 1..Len(cache) : cache[k] = Pushed(f, v)[i]
<1> DEFINE s == Pushed(f, v)
<1> DEFINE t == Without(f)
<1>1. /\ t \in Seq(EntryRecord) /\ OnePerFlow(t)
      /\ Len(t) = (IF Cached(f) THEN Len(cache) - 1 ELSE Len(cache))
      /\ \A i \in 1..Len(t) : t[i].id # f /\ \E k \in 1..Len(cache) : cache[k] = t[i]
  BY WithoutShape
<1>2. Entry(f, v) \in EntryRecord /\ Entry(f, v).id = f
  BY DEF Entry, EntryRecord
<1> HIDE DEF t, s
<1>3. /\ s \in Seq(EntryRecord) /\ Len(s) = Len(t) + 1 /\ s[1] = Entry(f, v)
      /\ \A j \in 2..(Len(t) + 1) : s[j] = t[j - 1]
  BY <1>1, <1>2, PushFrontShape DEF t, s, Pushed
<1>4. Len(t) \in Nat /\ Len(cache) \in Nat
  BY <1>1
<1>5. \A i \in 1..Len(s) : i = 1 \/ (i - 1 \in 1..Len(t) /\ s[i] = t[i - 1])
  BY <1>3, <1>4
<1>6. OnePerFlow(s)
  <2> SUFFICES ASSUME NEW i \in 1..Len(s), NEW j \in 1..Len(s), s[i].id = s[j].id PROVE i = j
    BY DEF OnePerFlow
  <2>1. CASE i = 1 \/ j = 1
    <3>1. \A k \in 1..Len(s) : k # 1 => s[k].id # s[1].id
      BY <1>1, <1>2, <1>3, <1>5
    <3>2. QED
      BY <2>1, <3>1
  <2>2. CASE i # 1 /\ j # 1
    <3>1. i - 1 \in 1..Len(t) /\ j - 1 \in 1..Len(t) /\ t[i - 1].id = t[j - 1].id
      BY <1>5, <2>2
    <3>2. i - 1 = j - 1
      BY <1>1, <3>1 DEF OnePerFlow
    <3>3. QED
      BY <1>3, <1>4, <3>2
  <2>3. QED
    BY <2>1, <2>2
<1>7. \A i \in 1..Len(s) : s[i] = Entry(f, v) \/ \E k \in 1..Len(cache) : cache[k] = s[i]
  BY <1>1, <1>3, <1>5
<1>8. QED
  BY <1>1, <1>3, <1>4, <1>6, <1>7 DEF s

(***************************************************************************)
(* The inductive invariant.  Held: a run that has compiled a version which  *)
(* is not stored any more marks its flow as raced, until the engine is in   *)
(* the cache and evicted again.  Fresh: an entry of another version than    *)
(* the stored one is about to be evicted or was put there by such a run.    *)
(***************************************************************************)
Held ==
  \A r \in Runners : At(r, "compiled") =>
    loaded[r] # 0 /\ (loaded[r] # stored[flow[r]] => flow[r] \in raced)
Fresh ==
  \A i \in 1..Len(cache) : cache[i].ver # stored[cache[i].id] =>
    Evicting(cache[i].id) \/ cache[i].id \in raced

CacheInv == TypeOK /\ Held /\ Fresh

LEMMA CacheTyped ==
  ASSUME TypeOK
  PROVE  /\ cache \in Seq(EntryRecord) /\ OnePerFlow(cache) /\ Len(cache) \in Nat
         /\ \A i \in 1..Len(cache) : cache[i].id \in Flows /\ cache[i].ver \in 1..MaxVersion
<1>1. cache \in Seq(EntryRecord)
  BY DEF TypeOK, EntryRecord
<1>2. OnePerFlow(cache)
  BY DEF TypeOK, OnePerFlow
<1>3. \A i \in 1..Len(cache) : cache[i] \in EntryRecord
  BY <1>1
<1>4. QED
  BY <1>1, <1>2, <1>3 DEF EntryRecord

LEMMA InitCache == Init => CacheInv
<1> SUFFICES ASSUME Init PROVE CacheInv
  OBVIOUS
<1>1. (CHOOSE f \in Flows : TRUE) \in Flows
  BY CacheAssumption
<1>2. Len(cache) = 0
  BY DEF Init
<1>3. TypeOK
  BY <1>1, <1>2, CacheAssumption DEF Init, TypeOK
<1>4. Held
  BY DEF Init, Held, At, Clients
<1>5. Fresh
  BY <1>2 DEF Fresh
<1>6. QED
  BY <1>3, <1>4, <1>5 DEF CacheInv

(* What a lookup that hits leaves: the same entries, f's first.            *)
LEMMA GetShape ==
  ASSUME TypeOK, NEW f \in Flows, Cached(f), Get(f)
  PROVE  /\ VersionOf(f) \in 1..MaxVersion
         /\ cache' \in Seq(EntryRecord) /\ OnePerFlow(cache') /\ Len(cache') = Len(cache)
         /\ \A i \in 1..Len(cache') : \E k \in 1..Len(cache) : cache[k] = cache'[i]
<1> DEFINE p == PlaceOf(f)
<1>1. p \in 1..Len(cache) /\ cache[p].id = f
  BY DEF Cached, PlaceOf
<1>2. VersionOf(f) \in 1..MaxVersion /\ cache[p] = Entry(f, VersionOf(f))
  <2>1. cache[p] \in EntryRecord
    BY <1>1, CacheTyped
  <2>2. VersionOf(f) = cache[p].ver
    BY DEF VersionOf
  <2>3. QED
    BY <1>1, <2>1, <2>2 DEF Entry, EntryRecord
<1> HIDE DEF p
<1>3. /\ cache' \in Seq(EntryRecord) /\ OnePerFlow(cache') /\ Len(cache') = Len(cache)
      /\ \A i \in 1..Len(cache') :
           cache'[i] = Entry(f, VersionOf(f)) \/ \E k \in 1..Len(cache) : cache[k] = cache'[i]
  <2>1. cache' = Pushed(f, VersionOf(f))
    BY DEF Get, Pushed
  <2>2. cache \in Seq(EntryRecord) /\ OnePerFlow(cache)
    BY CacheTyped
  <2>3. QED
    BY <1>2, <2>1, <2>2, PushShape
<1>4. QED
  BY <1>1, <1>2, <1>3

(* What Set leaves: f's new entry first, others dropped only at the limit.  *)
LEMMA SetShape ==
  ASSUME TypeOK, NEW f \in Flows, NEW v \in 1..MaxVersion, Set(f, v)
  PROVE  /\ cache' \in Seq(EntryRecord) /\ OnePerFlow(cache') /\ (Cap > 0 => Len(cache') <= Cap)
         /\ \A i \in 1..Len(cache') :
              cache'[i] = Entry(f, v) \/ \E k \in 1..Len(cache) : cache[k] = cache'[i]
<1> DEFINE s == Pushed(f, v)
<1>1. /\ s \in Seq(EntryRecord) /\ OnePerFlow(s)
      /\ Len(s) = (IF Cached(f) THEN Len(cache) ELSE Len(cache) + 1)
      /\ \A i \in 1..Len(s) : s[i] = Entry(f, v) \/ \E k \in 1..Len(cache) : cache[k] = s[i]
  BY CacheTyped, PushShape
<1>2. cache' = IF OverFull(s) THEN Front(s) ELSE s
  BY DEF Set, Pushed
<1> HIDE DEF s
<1>3. Len(s) \in Nat /\ Cap \in Nat /\ (Cap > 0 => Len(s) <= Cap + 1)
  BY <1>1, CacheTyped, CacheAssumption DEF TypeOK
<1>4. CASE ~OverFull(s)
  <2>1. cache' = s
    BY <1>2, <1>4
  <2>2. Cap > 0 => Len(s) <= Cap
    BY <1>3, <1>4 DEF OverFull
  <2>3. QED
    BY <1>1, <2>1, <2>2
<1>5. CASE OverFull(s)
  <2>1. Len(s) > 0 /\ Len(s) = Cap + 1
    BY <1>3, <1>5 DEF OverFull
  <2>2. /\ Front(s) \in Seq(EntryRecord) /\ Len(Front(s)) = Len(s) - 1
        /\ \A j \in 1..(Len(s) - 1) : Front(s)[j] = s[j]
    BY <1>1, <2>1, FrontShape
  <2>3. \A j \in 1..Len(Front(s)) : j \in 1..Len(s) /\ Front(s)[j] = s[j]
    BY <1>3, <2>2
  <2>4. OnePerFlow(Front(s))
    BY <1>1, <2>3 DEF OnePerFlow
  <2>5. \A i \in 1..Len(Front(s)) :
          Front(s)[i] = Entry(f, v) \/ \E k \in 1..Len(cache) : cache[k] = Front(s)[i]
    BY <1>1, <2>3
  <2>6. cache' = Front(s)
    BY <1>2, <1>5
  <2>7. Len(Front(s)) <= Cap
    BY <1>3, <2>1, <2>2
  <2>8. QED
    BY <2>2, <2>4, <2>5, <2>6, <2>7
<1>6. QED
  BY <1>4, <1>5

(* A runner's step leaves the writers, the table and the marks alone.      *)
LEMMA RunnerShape ==
  ASSUME TypeOK, NEW r \in Runners, RunnerStep(r)
  PROVE  /\ UNCHANGED <<stored, versions, raced>>
         /\ pc' \in [Clients -> {"idle", "load", "compiled", "run", "evict"}]
         /\ flow' \in [Clients -> Flows]
         /\ \A c \in Clients : c # r => pc'[c] = pc[c] /\ flow'[c] = flow[c]
         /\ \A q \in Runners : q # r => loaded'[q] = loaded[q]
         /\ \A f : Evicting(f) => Evicting(f)'
<1>1. UNCHANGED <<stored, versions, raced>>
  BY DEF RunnerStep, EngineFor, Load, StoreEngine, RunEnds
<1>2. /\ pc' \in [Clients -> {"idle", "load", "compiled", "run", "evict"}]
      /\ flow' \in [Clients -> Flows]
  BY DEF RunnerStep, EngineFor, Load, StoreEngine, RunEnds, Goto, TypeOK
<1>3. \A c \in Clients : c # r => pc'[c] = pc[c] /\ flow'[c] = flow[c]
  BY DEF RunnerStep, EngineFor, Load, StoreEngine, RunEnds, Goto, TypeOK
<1>4. \A q \in Runners : q # r => loaded'[q] = loaded[q]
  BY DEF RunnerStep, EngineFor, Load, StoreEngine, RunEnds, TypeOK
<1>5. \A f : Evicting(f) => Evicting(f)'
  BY <1>3, CacheAssumption DEF Evicting, At, Clients
<1>6. QED
  BY <1>1, <1>2, <1>3, <1>4, <1>5

LEMMA RunnerCache == ASSUME CacheInv, NEW r \in Runners, RunnerStep(r) PROVE CacheInv'
<1> USE DEF CacheInv
<1> r \in Clients
  BY DEF Clients
<1>1. /\ UNCHANGED <<stored, versions, raced>>
      /\ pc' \in [Clients -> {"idle", "load", "compiled", "run", "evict"}]
      /\ flow' \in [Clients -> Flows]
      /\ \A c \in Clients : c # r => pc'[c] = pc[c] /\ flow'[c] = flow[c]
      /\ \A q \in Runners : q # r => loaded'[q] = loaded[q]
      /\ \A f : Evicting(f) => Evicting(f)'
  BY RunnerShape
<1>2. /\ cache' \in Seq(EntryRecord) /\ OnePerFlow(cache') /\ (Cap > 0 => Len(cache') <= Cap)
      /\ loaded' \in [Runners -> 0..MaxVersion]
      /\ \A i \in 1..Len(cache') :
           \/ \E k \in 1..Len(cache) : cache[k] = cache'[i]
           \/ cache'[i].ver # stored[cache'[i].id] => cache'[i].id \in raced
      /\ pc'[r] = "compiled" => loaded'[r] # 0 /\ loaded'[r] = stored[flow'[r]]
  <2>1. CASE \E f \in Flows : EngineFor(r, f)
    <3>1. PICK f \in Flows : EngineFor(r, f)
      BY <2>1
    <3>2. pc'[r] \in {"run", "load"}
      BY <3>1 DEF EngineFor, Goto, TypeOK
    <3>3. CASE Cached(f) /\ Get(f) /\ loaded' = [loaded EXCEPT ![r] = VersionOf(f)]
      <4>1. VersionOf(f) \in 1..MaxVersion
        BY <3>3, GetShape
      <4>2. loaded' \in [Runners -> 0..MaxVersion]
        BY <3>3, <4>1 DEF TypeOK
      <4>3. QED
        BY <3>2, <3>3, <4>2, GetShape DEF TypeOK
    <3>4. CASE UNCHANGED <<cache, loaded>>
      BY <3>2, <3>4, CacheTyped DEF TypeOK
    <3>5. QED
      BY <3>1, <3>3, <3>4 DEF EngineFor
  <2>2. CASE Load(r)
    <3>1. cache' = cache /\ flow' = flow
      BY <2>2 DEF Load
    <3>2. /\ loaded' \in [Runners -> 0..MaxVersion]
          /\ pc'[r] = "compiled" => loaded'[r] # 0 /\ loaded'[r] = stored[flow[r]]
      BY <2>2 DEF Load, Goto, TypeOK
    <3>3. QED
      BY <3>1, <3>2, CacheTyped DEF TypeOK
  <2>3. CASE StoreEngine(r)
    <3>1. /\ pc'[r] = "run" /\ loaded' = loaded /\ Set(flow[r], loaded[r]) /\ At(r, "compiled")
      BY <2>3 DEF StoreEngine, Goto, TypeOK
    <3>2. flow[r] \in Flows /\ loaded[r] \in 1..MaxVersion
      BY <3>1 DEF Held, TypeOK
    <3>3. Entry(flow[r], loaded[r]).ver # stored[flow[r]] => flow[r] \in raced
      BY <3>1 DEF Held, Entry
    <3>4. Entry(flow[r], loaded[r]).id = flow[r]
      BY DEF Entry
    <3>5. QED
      BY <3>1, <3>2, <3>3, <3>4, SetShape DEF TypeOK
  <2>4. CASE RunEnds(r)
    <3>1. pc'[r] = "idle" /\ cache' = cache /\ loaded' = loaded
      BY <2>4 DEF RunEnds, Goto, TypeOK
    <3>2. QED
      BY <3>1, CacheTyped DEF TypeOK
  <2>5. QED
    BY <2>1, <2>2, <2>3, <2>4 DEF RunnerStep
<1>3. TypeOK'
  BY <1>1, <1>2 DEF TypeOK, EntryRecord, OnePerFlow
<1>4. Held'
  <2> SUFFICES ASSUME NEW q \in Runners, pc'[q] = "compiled"
               PROVE  loaded'[q] # 0 /\ (loaded'[q] # stored'[flow'[q]] => flow'[q] \in raced')
    BY DEF Held, At
  <2>1. CASE q = r
    BY <1>1, <1>2, <2>1
  <2>2. CASE q # r
    <3>1. q \in Clients
      BY DEF Clients
    <3>2. QED
      BY <1>1, <2>2, <3>1 DEF Held, At
  <2>3. QED
    BY <2>1, <2>2
<1>5. Fresh'
  BY <1>1, <1>2 DEF Fresh
<1>6. QED
  BY <1>3, <1>4, <1>5

LEMMA WriterCache == ASSUME CacheInv, NEW w \in Writers, WriterStep(w) PROVE CacheInv'
<1> USE DEF CacheInv
<1> w \in Clients /\ w \notin Runners
  BY CacheAssumption DEF Clients
<1>1. /\ loaded' = loaded /\ flow' \in [Clients -> Flows]
      /\ pc' \in [Clients -> {"idle", "load", "compiled", "run", "evict"}]
      /\ \A c \in Clients : c # w => pc'[c] = pc[c] /\ flow'[c] = flow[c]
      /\ pc'[w] # "compiled"
  <2>1. CASE EngineEvict(w)
    BY <2>1 DEF EngineEvict, Goto, TypeOK
  <2>2. CASE \E f \in Flows : CreateFlow(w, f) \/ PutFlow(w, f) \/ DeleteFlow(w, f)
    <3>1. PICK f \in Flows : CreateFlow(w, f) \/ PutFlow(w, f) \/ DeleteFlow(w, f)
      BY <2>2
    <3>2. loaded' = loaded /\ flow' = [flow EXCEPT ![w] = f] /\ At(w, "idle")
      BY <3>1 DEF CreateFlow, PutFlow, DeleteFlow, Write
    <3>3. pc' = pc \/ pc' = [pc EXCEPT ![w] = "evict"]
      BY <3>1 DEF CreateFlow, PutFlow, AfterPut, DeleteFlow, Goto
    <3>4. QED
      BY <3>2, <3>3 DEF At, TypeOK
  <2>3. QED
    BY <2>1, <2>2 DEF WriterStep
<1>2. \A r \in Runners : r \in Clients /\ pc'[r] = pc[r] /\ flow'[r] = flow[r]
  BY <1>1 DEF Clients
<1>3. CASE EngineEvict(w)
  <2> DEFINE f == flow[w]
  <2>1. /\ cache' = Without(f) /\ f \in Flows /\ stored' = stored /\ versions' = versions
        /\ raced' = IF \E r \in Runners : At(r, "compiled") /\ flow[r] = f
                    THEN raced ELSE raced \ {f}
    BY <1>3 DEF EngineEvict, Delete, TypeOK
  <2> HIDE DEF f
  <2>2. /\ cache' \in Seq(EntryRecord) /\ OnePerFlow(cache') /\ Len(cache') <= Len(cache)
        /\ Len(cache') \in Nat
        /\ \A i \in 1..Len(cache') :
             cache'[i].id # f /\ \E k \in 1..Len(cache) : cache[k] = cache'[i]
    BY <2>1, CacheTyped, WithoutShape
  <2>3. TypeOK'
    BY <1>1, <2>1, <2>2, CacheTyped, CacheAssumption DEF TypeOK, EntryRecord, OnePerFlow
  <2>4. Held'
    BY <1>1, <1>2, <2>1 DEF Held, At
  <2>5. \A g : g # f /\ Evicting(g) => Evicting(g)'
    BY <1>1 DEF Evicting, At, Clients, f
  <2>6. Fresh'
    BY <2>1, <2>2, <2>5 DEF Fresh
  <2>7. QED
    BY <2>3, <2>4, <2>6
<1>4. ASSUME NEW f \in Flows, CreateFlow(w, f) \/ PutFlow(w, f) \/ DeleteFlow(w, f)
      PROVE  CacheInv'
  <2>1. /\ At(w, "idle") /\ cache' = cache /\ flow'[w] = f /\ raced \subseteq raced'
        /\ raced' \subseteq raced \cup {f}
        /\ \A r \in Runners : At(r, "compiled") /\ flow[r] = f => f \in raced'
    BY <1>4 DEF CreateFlow, PutFlow, DeleteFlow, Write, TypeOK
  <2>2. /\ stored' \in [Flows -> 0..MaxVersion] /\ versions' \in 0..MaxVersion
        /\ \A g \in Flows : g # f => stored'[g] = stored[g]
    <3>1. PICK v \in 0..MaxVersion : stored' = [stored EXCEPT ![f] = v] /\ versions' \in {versions, v}
      <4>1. CASE CreateFlow(w, f) \/ PutFlow(w, f)
        <5>1. versions' = versions + 1 /\ versions < MaxVersion /\ stored' = [stored EXCEPT ![f] = versions']
          BY <4>1 DEF CreateFlow, PutFlow, Write
        <5>2. versions' \in 0..MaxVersion
          BY <5>1, CacheAssumption DEF TypeOK
        <5>3. QED
          BY <5>1, <5>2
      <4>2. CASE DeleteFlow(w, f)
        <5>1. 0 \in 0..MaxVersion
          BY CacheAssumption
        <5>2. stored' = [stored EXCEPT ![f] = 0] /\ versions' = versions
          BY <4>2 DEF DeleteFlow, Write
        <5>3. QED
          BY <5>1, <5>2
      <4>3. QED
        BY <1>4, <4>1, <4>2
    <3>2. QED
      BY <3>1 DEF TypeOK
  <2>3. TypeOK'
    BY <1>1, <2>1, <2>2 DEF TypeOK
  <2>4. Held'
    BY <1>1, <1>2, <2>1, <2>2 DEF Held, At, TypeOK
  <2>5. \A g : Evicting(g) => Evicting(g)'
    BY <1>1, <2>1 DEF Evicting, At, Clients
  <2>6. Evicting(f)' \/ (\A i \in 1..Len(cache) : cache[i].id = f => Evicting(f) \/ f \in raced)
    <3>1. CASE CreateFlow(w, f)
      \* nothing is stored, so an entry of f was not the stored version before either
      BY <3>1, CacheTyped DEF CreateFlow, Fresh
    <3>2. CASE PutFlow(w, f) \/ DeleteFlow(w, f)
      BY <2>1, <3>2 DEF PutFlow, AfterPut, DeleteFlow, Goto, Evicting, At, TypeOK
    <3>3. QED
      BY <1>4, <3>1, <3>2
  <2>7. Fresh'
    BY <2>1, <2>2, <2>5, <2>6, CacheTyped DEF Fresh
  <2>8. QED
    BY <2>3, <2>4, <2>7
<1>5. QED
  BY <1>3, <1>4 DEF WriterStep

LEMMA CacheInvariant == Spec => []CacheInv
<1>1. CacheInv /\ UNCHANGED vars => CacheInv'
  BY DEF CacheInv, vars, TypeOK, Held, Fresh, Evicting, At
<1>2. CacheInv /\ [Next]_vars => CacheInv'
  BY <1>1, RunnerCache, WriterCache DEF Next
<1>3. QED
  BY <1>2, InitCache, PTL DEF Spec

(* The cache never holds more engines than EngineCacheSize, nor two for one *)
(* flow, whatever requests overlap.                                        *)
THEOREM CacheBounded == Spec => []TypeOK
<1>1. CacheInv => TypeOK
  BY DEF CacheInv
<1>2. QED
  BY <1>1, CacheInvariant, PTL

(* An engine of another version than the stored one outlives the evictions  *)
(* only if a run had loaded it before the write: neither POST, which does   *)
(* not evict, nor two writers, nor the capacity limit can leave one.        *)
THEOREM StaleOnlyAfterRace == Spec => []StaleOnlyByRace
<1>1. CacheInv => StaleOnlyByRace
  <2> SUFFICES ASSUME CacheInv, NEW f \in Flows, Stale(f) PROVE f \in raced
    BY DEF StaleOnlyByRace
  <2>1. PlaceOf(f) \in 1..Len(cache) /\ cache[PlaceOf(f)].id = f
    BY DEF Stale, Cached, PlaceOf
  <2>2. QED
    BY <2>1 DEF Stale, VersionOf, CacheInv, Fresh
<1>2. QED
  BY <1>1, CacheInvariant, PTL
=============================================================================
