-------------------------- MODULE StreamExecProofs --------------------------
(***************************************************************************)
(* The safety theorems of StreamExec about the hand-over of streams, for    *)
(* every set of acyclic graphs with distinct keys, every registry and every *)
(* number of frames and failures: each open stream has one owner, and no    *)
(* node runs on a value that was cut short.                                *)
(***************************************************************************)
EXTENDS StreamExec, FiniteSetTheorems, SequenceTheorems, WellFoundedInduction, TLAPS

(***************************************************************************)
(* Streams, and the values walkers carry.                                  *)
(***************************************************************************)
AllNodes == UNION {NodesOf(x) : x \in Graphs}
ReaderIds == {<<k>> : k \in Keys}
ChatIds == {<<w, n>> : w \in Walkers, n \in AllNodes}
StreamIds == ReaderIds \cup ChatIds

Steps == {"in"} \cup AllNodes
Uncut(v) == \A p \in v : p \in Seq(Steps) /\ Len(p) > 0 /\ p[1] = "in"

Items == {"frame", "eof", "err", "cut"}
Counters == {"idle", "invoke", "fanin", "join", "collect", "walk", "fold", "next", "reg",
             "sink", "spawn", "tail", "end", "err"}
RootOnly == {"invoke", "fanin", "join", "collect", "tail"}
Carrying == {"walk", "fold", "next", "reg", "sink", "tail"}

IsCarrier(c) ==
  c = [val |-> c.val, st |-> c.st, elem |-> c.elem, fold |-> c.fold] /\ c.st \in StreamIds \cup {None}

ExecType ==
  /\ g \in Graphs
  /\ pc \in [Walkers -> Counters] /\ at \in [Walkers -> NodesOf(g)]
  /\ car = [w \in Walkers |-> car[w]] /\ \A w \in Walkers : IsCarrier(car[w])
  /\ live \subseteq StreamIds /\ open \subseteq ChatIds /\ closing \subseteq StreamIds
  /\ rclosed \subseteq Keys
  /\ bpc \in [Copies -> {"idle", "pull", "wait", "send", "done"}]
  /\ src = [c \in Copies |-> src[c]] /\ \A c \in Copies : IsCarrier(src[c])
  /\ hand \in [Copies -> Items] /\ DOMAIN todo = Fans
  /\ buf \in [Keys -> {<<>>} \cup {<<i>> : i \in Items}]
  /\ cancelled \in BOOLEAN

(***************************************************************************)
(* Who is where.  A reader is handed out once the goroutine that teed its   *)
(* Copy has started the walks of its targets.                              *)
(***************************************************************************)
TeedKeys == UNION {KeysOf(c) : c \in Teed}
Merges == OfKind(g, "merge")
Handed(k) == \E c \in Teed : k \in KeysOf(c) /\ \A w \in Walkers : pc[w] = "spawn" => at[w] # c

Planned ==
  /\ plan = "graph" => OfKind(g, "copy") = {} \/ Merges = {}
  /\ Teed # {} => plan = "graph" /\ Teed \subseteq OfKind(g, "copy")
  /\ pc[0] = "invoke" => plan = "box"
  /\ pc[0] \in {"fanin", "join", "collect"} => plan = "graph" /\ Merges # {}
  /\ pc[0] = "fanin" => \A k \in Keys : pc[k] = "idle"
  /\ pc[0] \in {"join", "collect"} => at[0] \in Merges /\ todo[at[0]] \subseteq Keys
  /\ pc[0] = "collect" => \A k \in todo[at[0]] : Ended(k)
  /\ \A k \in Keys : pc[k] # "idle" => plan = "graph" /\ (Merges # {} \/ Handed(k))
  /\ \A k \in Keys : pc[k] \notin RootOnly

Consumer ==
  /\ cons \in {"call", "reader", "got"} => closing = {}
  /\ cons \in {"reader", "got"} => pc[0] = "tail"
  /\ cons # "call" => pc[0] \in {"tail", "err"}
  /\ closing # {} => cancelled \/ plan # "graph"

(***************************************************************************)
(* Names.  A walk never comes back to a ChatModel whose stream it opened,   *)
(* because it has gone beyond it.                                          *)
(***************************************************************************)
Beyond(x, n, m) == \E T \in SUBSET NodesOf(x) : Downwards(x, T) /\ m \in T /\ n \notin T

Named(w) ==
  LET s == car[w].st IN
    /\ s \in ReaderIds => Handed(s[1])
    /\ s \in ChatIds => s[1] = w
    /\ s \in ChatIds /\ pc[w] = "walk" => Beyond(g, s[2], at[w])
    /\ pc[w] = "reg" => s = <<w, at[w]>>
    /\ pc[w] = "next" => s \in ReaderIds
    /\ pc[w] = "fold" => s # None
    /\ pc[w] \in {"sink", "tail", "end"} => s \notin ReaderIds
    /\ pc[w] \in {"idle", "invoke", "fanin", "join", "collect"} => s = None
    /\ pc[w] = "spawn" => at[w] \in Teed /\ s = src[at[w]].st

TeeNamed(c) ==
  LET s == src[c].st IN
    /\ s \in ReaderIds => Handed(s[1])
    /\ s \in ChatIds => pc[s[1]] # "idle" /\ Beyond(g, s[2], at[s[1]])

Names ==
  /\ \A w \in Walkers : Named(w)
  /\ \A c \in Teed : TeeNamed(c)
  /\ \A w, x \in Walkers : pc[w] = "spawn" /\ pc[x] = "spawn" /\ w # x => at[w] # at[x]
  /\ \A s \in (live \cup closing) \cap ReaderIds : s[1] \in TeedKeys
  /\ rclosed \subseteq TeedKeys

(***************************************************************************)
(* Exclusion.                                                              *)
(***************************************************************************)
Exclusive ==
  /\ \A w, x \in Walkers :
       w # x /\ pc[w] \in Carrying /\ pc[x] \in Carrying /\ car[w].st = car[x].st => car[w].st = None
  /\ \A w \in Walkers, c \in Teed : pc[w] \in Carrying /\ car[w].st = src[c].st => car[w].st = None
  /\ \A c, d \in Teed : c # d /\ src[c].st = src[d].st => src[c].st = None
  /\ \A w \in Walkers : pc[w] \in {"fold", "next"} => car[w].st \notin live
  /\ \A c \in Teed : src[c].st \notin live

(***************************************************************************)
(* Ownership.                                                              *)
(***************************************************************************)
Waiting(w) ==
  /\ pc[w] \in {"walk", "sink"} /\ car[w].st \in OpenStreams => car[w].st \in live \cup closing
  /\ pc[w] = "spawn" => \A k \in KeysOf(at[w]) \ rclosed : <<k>> \in live \cup closing

Ownership ==
  /\ \A w \in Walkers : Waiting(w)
  /\ \A c \in Teed : bpc[c] = "done" => src[c].st \notin OpenStreams
  /\ \A s \in OpenStreams : Owned(s) \/ s \in Unfoldable

(***************************************************************************)
(* Until the root context is cancelled nothing that will be read is closed. *)
(***************************************************************************)
StillOpen(s) == s \in OpenStreams \/ s = None

Alive ==
  /\ \A w \in Walkers : pc[w] \in {"walk", "fold", "next", "reg", "sink"} => StillOpen(car[w].st)
  /\ pc[0] \in {"join", "collect"} =>
       \A w \in todo[at[0]] : pc[w] = "end" => StillOpen(car[w].st)
  /\ \A c \in Teed : bpc[c] # "done" => StillOpen(src[c].st)
  /\ \A w \in Walkers : pc[w] = "spawn" => KeysOf(at[w]) \cap rclosed = {}

Whole ==
  /\ \A w \in Walkers : pc[w] # "tail" => Uncut(car[w].val)
  /\ \A c \in Copies : Uncut(src[c].val) /\ hand[c] # "cut"
  /\ \A k \in Keys : buf[k] # <<"cut">>

HandOver == ExecType /\ Planned /\ Consumer /\ Names /\ Exclusive
ExecInv == HandOver /\ Ownership /\ (~cancelled => Alive /\ Whole) /\ WholeInputs

(***************************************************************************)
(* Graphs.                                                                 *)
(***************************************************************************)
LEMMA GraphPlan ==
  ASSUME NEW x, NEW pred, NEW reg, Compile(x, pred, reg) = "graph"
  PROVE  OfKind(x, "copy") = {} \/ OfKind(x, "merge") = {}
<1>1. GraphShape(x, pred)
  BY DEF Compile
<1>2. QED
  BY <1>1 DEF GraphShape

LEMMA EdgeTypes ==
  ASSUME NEW x \in Graphs, NEW e \in EdgesOf(x)
  PROVE  /\ e.from \in NodesOf(x) /\ e.to \in NodesOf(x)
         /\ e.port \in Walkers /\ e.toPort \in Walkers
<1>1. x.edges \in Seq(EdgeRecord(x))
  BY GraphsAssumption
<1>2. PICK i \in DOMAIN x.edges : e = x.edges[i]
  BY DEF EdgesOf
<1>3. x.edges[i] \in EdgeRecord(x)
  BY <1>1, <1>2, ElementOfSeq
<1>4. QED
  BY <1>2, <1>3 DEF EdgeRecord

LEMMA WalkersAre == Walkers \subseteq Nat /\ Keys = Walkers \ {0} /\ 0 \in Walkers /\ Keys \subseteq Walkers
BY StreamAssumption DEF Walkers, Keys

LEMMA MinIs ==
  ASSUME NEW S \in SUBSET Nat, S # {}
  PROVE  Min(S) \in S /\ \A y \in S : Min(S) <= y
<1>1. PICK x \in S : \A y \in S : ~(<<y, x>> \in OpToRel(<, Nat))
  BY WFMin, NatLessThanWellFounded, Zenon
<1>2. \A y \in S : x <= y
  <2> SUFFICES ASSUME NEW y \in S, ~(x <= y) PROVE FALSE
    OBVIOUS
  <2>1. y < x /\ y \in Nat /\ x \in Nat
    OBVIOUS
  <2>2. <<y, x>> \in OpToRel(<, Nat)
    BY <2>1, Zenon DEF OpToRel
  <2>3. QED
    BY <1>1, <2>2, Zenon
<1>3. QED
  BY <1>2 DEF Min

LEMMA MaxIs ==
  ASSUME NEW n \in Nat, NEW S \in SUBSET (1..n), S # {}
  PROVE  Max(S) \in S
<1> DEFINE D == {d \in Nat : n - d \in S}
<1>1. D \in SUBSET Nat /\ D # {}
  <2>1. PICK x \in S : TRUE
    OBVIOUS
  <2>2. n - x \in D
    BY <2>1
  <2>3. QED
    BY <2>2
<1>2. Min(D) \in D /\ \A y \in D : Min(D) <= y
  BY <1>1, MinIs, Zenon
<1>3. PICK d \in Nat : n - d \in S /\ \A y \in D : d <= y
  BY <1>2
<1>4. \A y \in S : n - d >= y
  <2> SUFFICES ASSUME NEW y \in S PROVE n - d >= y
    OBVIOUS
  <2>1. n - y \in D
    OBVIOUS
  <2>2. QED
    BY <1>3, <2>1
<1>5. QED
  BY <1>3, <1>4 DEF Max

LEMMA TargetIs ==
  ASSUME NEW x \in Graphs, NEW n, NEW p \in PortsOf(x, n)
  PROVE  \E e \in EdgesOf(x) : e.from = n /\ e.port = p /\ e.to = Target(x, n, p)
<1> DEFINE S == {i \in DOMAIN x.edges : x.edges[i].from = n /\ x.edges[i].port = p}
<1>1. PICK l \in Nat : DOMAIN x.edges = 1..l
  <2>1. x.edges \in Seq(EdgeRecord(x))
    BY GraphsAssumption
  <2>2. QED
    BY <2>1, LenProperties
<1>2. S # {} /\ S \in SUBSET (1..l)
  BY <1>1 DEF PortsOf, EdgesOf
<1>3. Max(S) \in S
  BY <1>2, MaxIs, Zenon
<1>4. QED
  BY <1>3 DEF Target, EdgesOf

LEMMA TargetNode ==
  ASSUME NEW x \in Graphs, NEW n, NEW p \in PortsOf(x, n)
  PROVE  Target(x, n, p) \in NodesOf(x)
BY TargetIs, EdgeTypes

LEMMA SourceNode ==
  ASSUME NEW x \in Graphs, NEW m, NEW k \in KeysInto(x, m)
  PROVE  SourceAt(x, m, k) \in NodesOf(x)
<1>1. \E e \in EdgesOf(x) : e.to = m /\ e.toPort = k
  BY DEF KeysInto
<1>2. (CHOOSE e \in EdgesOf(x) : e.to = m /\ e.toPort = k) \in EdgesOf(x)
  BY <1>1
<1>3. QED
  BY <1>2, EdgeTypes DEF SourceAt

LEMMA IntoKeys ==
  ASSUME NEW x \in Graphs, NEW m
  PROVE  KeysInto(x, m) \ {Default} \subseteq Keys
BY EdgeTypes, WalkersAre DEF KeysInto, Default

LEMMA CopyKeys ==
  ASSUME NEW x \in Graphs, NEW c \in OfKind(x, "copy")
  PROVE  PortsOf(x, c) \subseteq Keys
<1>1. Default \notin PortsOf(x, c)
  BY GraphsAssumption
<1>2. QED
  BY <1>1, EdgeTypes, WalkersAre DEF PortsOf, Default

LEMMA KeyUnique ==
  ASSUME NEW x \in Graphs, NEW c \in OfKind(x, "copy"), NEW d, NEW k \in PortsOf(x, c), k \in PortsOf(x, d)
  PROVE  c = d
<1>1. k # Default
  BY CopyKeys, WalkersAre DEF Default
<1>2. PICK e \in EdgesOf(x) : e.from = c /\ e.port = k
  BY DEF PortsOf
<1>3. PICK f \in EdgesOf(x) : f.from = d /\ f.port = k
  BY DEF PortsOf
<1>4. e = f
  BY <1>1, <1>2, <1>3, GraphsAssumption
<1>5. QED
  BY <1>2, <1>3, <1>4

LEMMA BeyondSelf == ASSUME NEW x, NEW n PROVE ~Beyond(x, n, n)
BY DEF Beyond

LEMMA BeyondTarget ==
  ASSUME NEW x \in Graphs, NEW m, NEW p \in PortsOf(x, m)
  PROVE  /\ Beyond(x, m, Target(x, m, p))
         /\ \A n : Beyond(x, n, m) => Beyond(x, n, Target(x, m, p))
<1>1. PICK e \in EdgesOf(x) : e.from = m /\ e.port = p /\ e.to = Target(x, m, p)
  BY TargetIs
<1>2. PICK T \in SUBSET NodesOf(x) : Downwards(x, T) /\ e.to \in T /\ e.from \notin T
  BY GraphsAssumption DEF Acyclic
<1>3. Beyond(x, m, Target(x, m, p))
  BY <1>1, <1>2 DEF Beyond
<1>4. ASSUME NEW n, Beyond(x, n, m) PROVE Beyond(x, n, Target(x, m, p))
  <2>1. PICK U \in SUBSET NodesOf(x) : Downwards(x, U) /\ m \in U /\ n \notin U
    BY <1>4 DEF Beyond
  <2>2. Target(x, m, p) \in U
    BY <1>1, <2>1 DEF Downwards
  <2>3. QED
    BY <2>1, <2>2 DEF Beyond
<1>5. QED
  BY <1>3, <1>4

LEMMA Node == ASSUME NEW x \in Graphs, NEW n \in NodesOf(x) PROVE n \in AllNodes
BY DEF AllNodes

(***************************************************************************)
(* Names of streams.                                                       *)
(***************************************************************************)
LEMMA ReaderForm ==
  ASSUME NEW s \in ReaderIds
  PROVE  s # None /\ s \notin ChatIds /\ IsReader(s) /\ s[1] \in Keys /\ s = <<s[1]>>
<1>1. PICK k \in Keys : s = <<k>>
  BY DEF ReaderIds
<1>2. Len(s) = 1 /\ s[1] = k
  BY <1>1
<1>3. s # None
  BY <1>2 DEF None
<1>4. s \notin ChatIds
  <2> SUFFICES ASSUME NEW w, NEW n, s = <<w, n>> PROVE FALSE
    BY DEF ChatIds
  <2>1. Len(s) = 2
    OBVIOUS
  <2>2. QED
    BY <1>2, <2>1
<1>5. QED
  BY <1>1, <1>2, <1>3, <1>4 DEF IsReader

LEMMA ChatForm ==
  ASSUME NEW s \in ChatIds
  PROVE  s # None /\ s \notin ReaderIds /\ ~IsReader(s) /\ s[1] \in Walkers /\ s[2] \in AllNodes /\ s = <<s[1], s[2]>>
<1>1. PICK w \in Walkers, n \in AllNodes : s = <<w, n>>
  BY DEF ChatIds
<1>2. Len(s) = 2 /\ s[1] = w /\ s[2] = n
  BY <1>1
<1>3. s # None
  BY <1>2 DEF None
<1>4. s \notin ReaderIds
  BY <1>2, ReaderForm DEF IsReader
<1>5. QED
  BY <1>1, <1>2, <1>3, <1>4 DEF IsReader

LEMMA NoneForm == None \notin StreamIds /\ ~IsReader(None)
<1>1. Len(None) = 0
  BY DEF None
<1>2. QED
  BY <1>1, ReaderForm, ChatForm DEF StreamIds, IsReader

LEMMA ReaderId == ASSUME NEW k \in Keys PROVE <<k>> \in ReaderIds /\ <<k>>[1] = k
BY DEF ReaderIds

LEMMA ChatId ==
  ASSUME NEW w \in Walkers, NEW n \in AllNodes
  PROVE  <<w, n>> \in ChatIds /\ <<w, n>>[1] = w /\ <<w, n>>[2] = n
BY DEF ChatIds

LEMMA CarrierForm ==
  ASSUME NEW v
  PROVE  IsCarrier(Carrier(v)) /\ Carrier(v).st = None /\ Carrier(v).val = v
BY DEF Carrier, IsCarrier

(***************************************************************************)
(* Values that were not cut.                                               *)
(***************************************************************************)
LEMMA UncutIs == ASSUME NEW v, Uncut(v) PROVE ~IsCut(v)
BY DEF Uncut, IsCut

LEMMA UncutInput == Uncut(Input) /\ Uncut({})
<1>1. <<"in">> \in Seq(Steps) /\ Len(<<"in">>) = 1 /\ <<"in">>[1] = "in"
  BY DEF Steps
<1>2. QED
  BY <1>1 DEF Uncut, Input

LEMMA UncutUnion == ASSUME NEW u, NEW v, Uncut(u), Uncut(v) PROVE Uncut(u \cup v)
BY DEF Uncut

LEMMA UncutApply ==
  ASSUME NEW x \in Graphs, NEW n \in NodesOf(x), NEW v, Uncut(v)
  PROVE  Uncut(Apply(x, n, v))
<1>1. ASSUME NEW p \in v PROVE /\ Append(p, n) \in Seq(Steps)
                               /\ Len(Append(p, n)) > 0 /\ Append(p, n)[1] = "in"
  <2>1. p \in Seq(Steps) /\ Len(p) > 0 /\ p[1] = "in"
    BY DEF Uncut
  <2>2. n \in Steps
    BY Node DEF Steps
  <2>3. QED
    BY <2>1, <2>2, AppendProperties
<1>2. QED
  BY <1>1 DEF Apply, Uncut

(***************************************************************************)
(* A step of one walker, w, that neither tees nor starts a walk: it goes to *)
(* counter p at node n with carrier c, and the streams of S are closed.     *)
(***************************************************************************)
Mobile == {"walk", "fold", "next", "reg", "sink", "join", "collect", "invoke"}
BoundaryAt(n) == plan = "graph" /\ g.kind[n] \in {"copy", "merge"}
Onward(w, n) == \E q \in PortsOf(g, at[w]) : n = Target(g, at[w], q)

Moves(w, p, n, c) ==
  /\ UNCHANGED <<shape, bpc, src, hand, closing>>
  /\ pc' = [pc EXCEPT ![w] = p] /\ at' = [at EXCEPT ![w] = n] /\ car' = [car EXCEPT ![w] = c]
  /\ pc[w] \in Mobile /\ p \in {"collect", "walk", "fold", "next", "reg", "sink", "tail", "end", "err"}
  /\ n \in NodesOf(g) /\ IsCarrier(c)
  /\ n = at[w] \/ Teed = {} \/ Onward(w, n)
  /\ p = "reg" => pc[w] = "walk" /\ n = at[w] /\ c.st = <<w, n>>
  /\ p # "reg" => c.st \in {None, car[w].st}
  /\ p = "walk" /\ c.st # None => pc[w] = "reg" /\ Onward(w, n)
  /\ p = "next" => c.st \in ReaderIds
  /\ p = "fold" => c.st # None
  /\ p \in {"sink", "tail", "end"} => c.st \notin ReaderIds
  /\ p = "collect" => w = 0 /\ c.st = None /\ n = at[w] /\ pc[w] \in {"join", "collect"}
                        /\ todo'[n] \subseteq todo[n] /\ \A k \in todo[n] : Ended(k)
  /\ p = "tail" => w = 0
  /\ w # 0 => todo' = todo /\ cons' = cons
  /\ DOMAIN todo' = Fans
  /\ cons' = cons \/ (cons' = "reader" /\ p = "tail")
  /\ cancelled' \in BOOLEAN /\ (cancelled => cancelled')
  /\ buf' \in [Keys -> {<<>>} \cup {<<i>> : i \in Items}]

Closes(w, p, n, c, S) ==
  /\ open' \subseteq ChatIds
  /\ rclosed' \subseteq rclosed \cup {k \in Keys : <<k>> = car[w].st}
  /\ OpenStreams' = (OpenStreams \ S) \cup (IF p = "reg" THEN {c.st} ELSE {})
  /\ live' \subseteq live \/ (pc[w] = "reg" /\ live' = live \cup {car[w].st})
  /\ live \ live' \subseteq S \cup {car[w].st}
  /\ p \in {"fold", "next"} => c.st \notin live'
  /\ p \in {"walk", "sink"} /\ c.st \in OpenStreams' => c.st \in live' \cup closing
  /\ car[w].st \in OpenStreams' =>
       \/ car[w].st \in live' \cup closing
       \/ c.st = car[w].st /\ p \notin {"end", "err"}
       \/ c.st = car[w].st /\ p = "err" /\ ~BoundaryAt(n) /\ ~c.fold

LEMMA HandedKept ==
  ASSUME Teed' = Teed, g' = g, NEW k, Handed(k),
         \A x \in Walkers : pc'[x] = "spawn" => pc[x] = "spawn" /\ at'[x] = at[x]
  PROVE  Handed(k)'
BY DEF Handed, KeysOf

LEMMA TeedKept == ASSUME UNCHANGED <<bpc, g>> PROVE Teed' = Teed /\ TeedKeys' = TeedKeys /\ \A c : KeysOf(c)' = KeysOf(c)
BY DEF Teed, TeedKeys, KeysOf

LEMMA MoveFrame ==
  ASSUME ExecType, NEW w \in Walkers, NEW p, NEW n, NEW c, Moves(w, p, n, c)
  PROVE  /\ Teed' = Teed /\ TeedKeys' = TeedKeys /\ Merges' = Merges /\ UNCHANGED <<g, plan, bpc, src, closing>>
         /\ pc'[w] = p /\ at'[w] = n /\ car'[w] = c
         /\ \A x \in Walkers \ {w} : pc'[x] = pc[x] /\ at'[x] = at[x] /\ car'[x] = car[x]
         /\ \A k : Handed(k) => Handed(k)'
         /\ \A d : KeysOf(d)' = KeysOf(d)
<1>1. Teed' = Teed /\ TeedKeys' = TeedKeys /\ \A d : KeysOf(d)' = KeysOf(d)
  BY TeedKept DEF Moves, shape
<1>2. pc'[w] = p /\ at'[w] = n /\ car'[w] = c
  BY DEF ExecType, Moves
<1>3. \A x \in Walkers \ {w} : pc'[x] = pc[x] /\ at'[x] = at[x] /\ car'[x] = car[x]
  BY DEF ExecType, Moves
<1>4. \A x \in Walkers : pc'[x] = "spawn" => pc[x] = "spawn" /\ at'[x] = at[x]
  BY <1>2, <1>3 DEF Moves
<1>5. g' = g
  BY DEF Moves, shape
<1>6. \A k : Handed(k) => Handed(k)'
  BY <1>1, <1>4, <1>5, HandedKept
<1>7. QED
  BY <1>1, <1>2, <1>3, <1>5, <1>6 DEF Moves, shape, Merges

LEMMA MoveType ==
  ASSUME ExecType, Names, NEW w \in Walkers, NEW p, NEW n, NEW c, NEW S,
         Moves(w, p, n, c), Closes(w, p, n, c, S)
  PROVE  ExecType'
<1>1. pc' \in [Walkers -> Counters] /\ at' \in [Walkers -> NodesOf(g')] /\ g' \in Graphs
  BY DEF ExecType, Moves, Counters, shape
<1>2. car' = [x \in Walkers |-> car'[x]] /\ \A x \in Walkers : IsCarrier(car'[x])
  <2>1. car' = [x \in Walkers |-> car'[x]]
    BY DEF ExecType, Moves
  <2>2. QED
    BY <2>1, MoveFrame DEF ExecType, Moves
<1>3. live' \subseteq StreamIds
  <2>1. CASE live' \subseteq live
    BY <2>1 DEF ExecType
  <2>2. CASE pc[w] = "reg" /\ live' = live \cup {car[w].st}
    <3>1. car[w].st = <<w, at[w]>> /\ at[w] \in AllNodes
      BY <2>2, Node DEF ExecType, Names, Named
    <3>2. car[w].st \in StreamIds
      BY <3>1, ChatId DEF StreamIds
    <3>3. QED
      BY <2>2, <3>2 DEF ExecType
  <2>3. QED
    BY <2>1, <2>2 DEF Closes
<1>4. QED
  BY <1>1, <1>2, <1>3 DEF ExecType, Moves, Closes, IsCarrier

LEMMA MovePlanned ==
  ASSUME HandOver, NEW w \in Walkers, NEW p, NEW n, NEW c, Moves(w, p, n, c)
  PROVE  Planned'
<1> USE DEF HandOver
<1>f. /\ Teed' = Teed /\ Merges' = Merges /\ UNCHANGED <<g, plan>>
      /\ pc'[w] = p /\ at'[w] = n
      /\ \A x \in Walkers \ {w} : pc'[x] = pc[x] /\ at'[x] = at[x]
      /\ \A k : Handed(k) => Handed(k)'
  BY MoveFrame
<1>w. 0 \in Walkers /\ Keys = Walkers \ {0}
  BY WalkersAre
<1>m. pc[w] \in Mobile /\ p \in {"collect", "walk", "fold", "next", "reg", "sink", "tail", "end", "err"}
  BY DEF Moves
<1>1. (plan = "graph" => OfKind(g, "copy") = {} \/ Merges = {})'
  BY <1>f DEF Planned, Merges
<1>2. (Teed # {} => plan = "graph" /\ Teed \subseteq OfKind(g, "copy"))'
  BY <1>f DEF Planned
<1>3. (pc[0] = "invoke" => plan = "box")'
  BY <1>f, <1>w, <1>m DEF Planned
<1>4. (pc[0] \in {"fanin", "join", "collect"} => plan = "graph" /\ Merges # {})'
  BY <1>f, <1>w, <1>m DEF Planned, Moves
<1>5. (pc[0] = "fanin" => \A k \in Keys : pc[k] = "idle")'
  BY <1>f, <1>w, <1>m DEF Planned, Mobile
<1>6. (pc[0] \in {"join", "collect"} => at[0] \in Merges /\ todo[at[0]] \subseteq Keys)'
  BY <1>f, <1>w, <1>m DEF Planned, Moves
<1>7. (pc[0] = "collect" => \A k \in todo[at[0]] : Ended(k))'
  <2> SUFFICES ASSUME pc'[0] = "collect" PROVE \A k \in todo'[at'[0]] : pc'[k] \in {"idle", "end", "err"}
    BY DEF Ended
  <2>1. CASE w = 0
    <3>1. todo'[at'[0]] \subseteq todo[at[0]] /\ \A k \in todo[at[0]] : k \in Keys /\ pc[k] \in {"idle", "end", "err"}
      BY <2>1, <1>f, <1>w DEF Moves, Planned, Ended
    <3>2. QED
      BY <2>1, <3>1, <1>f, <1>w
  <2>2. CASE w # 0
    <3>1. todo' = todo /\ at'[0] = at[0] /\ pc[0] = "collect"
      BY <2>2, <1>f, <1>w DEF Moves
    <3>2. \A k \in todo[at[0]] : k \in Keys /\ pc[k] \in {"idle", "end", "err"}
      BY <3>1 DEF Planned, Ended
    <3>3. w \notin todo[at[0]]
      BY <3>2, <1>m DEF Mobile
    <3>4. QED
      BY <3>1, <3>2, <3>3, <1>f, <1>w
  <2>3. QED
    BY <2>1, <2>2
<1>8. (\A k \in Keys : pc[k] # "idle" => plan = "graph" /\ (Merges # {} \/ Handed(k)))'
  BY <1>f, <1>w, <1>m DEF Planned, Mobile
<1>9. (\A k \in Keys : pc[k] \notin RootOnly)'
  BY <1>f, <1>w, <1>m DEF Planned, Moves, RootOnly
<1>10. QED
  BY <1>1, <1>2, <1>3, <1>4, <1>5, <1>6, <1>7, <1>8, <1>9 DEF Planned

LEMMA MoveConsumer ==
  ASSUME HandOver, NEW w \in Walkers, NEW p, NEW n, NEW c, Moves(w, p, n, c)
  PROVE  Consumer'
<1>f. UNCHANGED <<plan, closing>> /\ pc'[w] = p /\ \A x \in Walkers \ {w} : pc'[x] = pc[x]
  BY MoveFrame DEF HandOver
<1>w. 0 \in Walkers
  BY WalkersAre
<1>1. CASE w = 0
  <2>1. cons = "call"
    BY <1>1 DEF HandOver, Consumer, Moves, Mobile
  <2>2. QED
    BY <1>1, <2>1, <1>f DEF HandOver, Consumer, Moves
<1>2. CASE w # 0
  BY <1>2, <1>f, <1>w DEF HandOver, Consumer, Moves
<1>3. QED
  BY <1>1, <1>2

(* Where a walker is beyond a node, its next node is beyond it too. *)
LEMMA OnwardBeyond ==
  ASSUME ExecType, NEW w \in Walkers, NEW n, Onward(w, n)
  PROVE  /\ Beyond(g, at[w], n)
         /\ \A m : Beyond(g, m, at[w]) => Beyond(g, m, n)
<1>1. PICK q \in PortsOf(g, at[w]) : n = Target(g, at[w], q)
  BY DEF Onward
<1>2. g \in Graphs
  BY DEF ExecType
<1>3. QED
  BY <1>1, <1>2, BeyondTarget

LEMMA MoveNames ==
  ASSUME HandOver, NEW w \in Walkers, NEW p, NEW n, NEW c, NEW S,
         Moves(w, p, n, c), Closes(w, p, n, c, S)
  PROVE  Names'
<1> USE DEF HandOver
<1>f. /\ Teed' = Teed /\ TeedKeys' = TeedKeys /\ UNCHANGED <<g, plan, src, closing>>
      /\ pc'[w] = p /\ at'[w] = n /\ car'[w] = c
      /\ \A x \in Walkers \ {w} : pc'[x] = pc[x] /\ at'[x] = at[x] /\ car'[x] = car[x]
      /\ \A k : Handed(k) => Handed(k)'
  BY MoveFrame
<1>m. pc[w] \in Mobile /\ p \in {"collect", "walk", "fold", "next", "reg", "sink", "tail", "end", "err"}
  BY DEF Moves
<1>n. Named(w) /\ at[w] \in AllNodes
  BY Node DEF Names, ExecType
<1>1. ASSUME NEW x \in Walkers PROVE Named(x)'
  <2>1. CASE x # w
    BY <2>1, <1>f, <1>m DEF Names, Named, Mobile
  <2>2. CASE x = w
    <3>1. c.st \in ReaderIds => Handed(c.st[1])'
      <4>1. CASE p = "reg"
        <5>1. c.st = <<w, at[w]>>
          BY <4>1 DEF Moves
        <5>2. QED
          BY <5>1, <1>n, ChatId, ChatForm
      <4>2. CASE p # "reg"
        BY <4>2, <1>n, <1>f, NoneForm DEF Moves, Named, StreamIds
      <4>3. QED
        BY <4>1, <4>2
    <3>2. c.st \in ChatIds => c.st[1] = w
      <4>1. CASE p = "reg"
        BY <4>1, <1>n, ChatId DEF Moves
      <4>2. CASE p # "reg"
        BY <4>2, <1>n, NoneForm DEF Moves, Named, StreamIds
      <4>3. QED
        BY <4>1, <4>2
    <3>3. c.st \in ChatIds /\ p = "walk" => Beyond(g, c.st[2], n)
      <4> SUFFICES ASSUME c.st \in ChatIds, p = "walk" PROVE Beyond(g, c.st[2], n)
        OBVIOUS
      <4>1. c.st # None
        BY ChatForm
      <4>2. pc[w] = "reg" /\ Onward(w, n) /\ c.st = car[w].st
        BY <4>1 DEF Moves
      <4>3. c.st[2] = at[w]
        BY <4>2, <1>n, ChatId DEF Named
      <4>4. QED
        BY <4>2, <4>3, OnwardBeyond
    <3>4. /\ p = "reg" => c.st = <<w, n>>
          /\ p = "next" => c.st \in ReaderIds
          /\ p = "fold" => c.st # None
          /\ p \in {"sink", "tail", "end"} => c.st \notin ReaderIds
          /\ p \in {"idle", "invoke", "fanin", "join", "collect"} => c.st = None
          /\ p # "spawn"
      BY <1>m DEF Moves
    <3>5. QED
      BY <2>2, <3>1, <3>2, <3>3, <3>4, <1>f DEF Named
  <2>3. QED
    BY <2>1, <2>2
<1>2. ASSUME NEW d \in Teed' PROVE TeeNamed(d)'
  <2>1. TeeNamed(d)
    BY <1>f DEF Names
  <2>2. PICK s : s = src[d].st
    OBVIOUS
  <2>3. s \in ReaderIds => Handed(s[1])'
    BY <2>1, <2>2, <1>f DEF TeeNamed
  <2>4. s \in ChatIds => pc'[s[1]] # "idle" /\ Beyond(g, s[2], at'[s[1]])
    <3> SUFFICES ASSUME s \in ChatIds PROVE pc'[s[1]] # "idle" /\ Beyond(g, s[2], at'[s[1]])
      OBVIOUS
    <3>1. s[1] \in Walkers /\ pc[s[1]] # "idle" /\ Beyond(g, s[2], at[s[1]])
      BY <2>1, <2>2, ChatForm DEF TeeNamed
    <3>2. CASE s[1] # w
      BY <3>1, <3>2, <1>f
    <3>3. CASE s[1] = w
      <4>1. n = at[w] \/ Onward(w, n)
        BY <1>f DEF Moves
      <4>2. Beyond(g, s[2], n)
        BY <3>1, <3>3, <4>1, OnwardBeyond
      <4>3. QED
        BY <3>3, <4>2, <1>f, <1>m
    <3>4. QED
      BY <3>2, <3>3
  <2>5. QED
    BY <2>2, <2>3, <2>4, <1>f DEF TeeNamed
<1>3. (\A y, x \in Walkers : pc[y] = "spawn" /\ pc[x] = "spawn" /\ y # x => at[y] # at[x])'
  BY <1>f, <1>m DEF Names
<1>4. (\A s \in (live \cup closing) \cap ReaderIds : s[1] \in TeedKeys)'
  <2>1. CASE live' \subseteq live
    BY <2>1, <1>f DEF Names
  <2>2. CASE pc[w] = "reg" /\ live' = live \cup {car[w].st}
    <3>1. car[w].st \notin ReaderIds
      <4>1. car[w].st = <<w, at[w]>>
        BY <2>2, <1>n DEF Named
      <4>2. QED
        BY <4>1, <1>n, ChatId, ChatForm
    <3>2. QED
      BY <2>2, <3>1, <1>f DEF Names
  <2>3. QED
    BY <2>1, <2>2 DEF Closes
<1>5. (rclosed \subseteq TeedKeys)'
  <2> SUFFICES ASSUME NEW k \in rclosed', k \notin rclosed PROVE k \in TeedKeys
    BY <1>f DEF Names
  <2>1. k \in Keys /\ <<k>> = car[w].st
    BY DEF Closes
  <2>2. Handed(k)
    BY <2>1, <1>n, ReaderId DEF Named
  <2>3. QED
    BY <2>2 DEF Handed, TeedKeys
<1>6. QED
  BY <1>1, <1>2, <1>3, <1>4, <1>5 DEF Names

LEMMA MoveExclusive ==
  ASSUME HandOver, NEW w \in Walkers, NEW p, NEW n, NEW c, NEW S,
         Moves(w, p, n, c), Closes(w, p, n, c, S)
  PROVE  Exclusive'
<1> USE DEF HandOver
<1>f. /\ Teed' = Teed /\ UNCHANGED src
      /\ pc'[w] = p /\ car'[w] = c
      /\ \A x \in Walkers \ {w} : pc'[x] = pc[x] /\ car'[x] = car[x]
  BY MoveFrame
<1>m. pc[w] \in Mobile /\ p \in {"collect", "walk", "fold", "next", "reg", "sink", "tail", "end", "err"}
  BY DEF Moves
<1>n. Named(w) /\ at[w] \in AllNodes /\ \A x \in Walkers : Named(x)
  BY Node DEF Names, ExecType
<1>1. CASE p = "reg"
  <2>1. c.st = <<w, at[w]>> /\ c.st \in ChatIds /\ c.st[1] = w /\ c.st[2] = at[w]
    <3>1. c.st = <<w, at[w]>>
      BY <1>1 DEF Moves
    <3>2. QED
      BY <3>1, <1>n, ChatId
  <2>2. live' \subseteq live
    BY <1>1 DEF Moves, Closes
  <2>3. \A x \in Walkers \ {w} : car[x].st # c.st
    BY <2>1, <1>n DEF Named
  <2>4. \A d \in Teed : src[d].st # c.st
    <3> SUFFICES ASSUME NEW d \in Teed, src[d].st = c.st PROVE FALSE
      OBVIOUS
    <3>1. Beyond(g, at[w], at[w])
      BY <2>1 DEF Names, TeeNamed
    <3>2. QED
      BY <3>1, BeyondSelf
  <2>5. QED
    BY <1>1, <2>2, <2>3, <2>4, <1>f, <1>m DEF Exclusive
<1>2. CASE p # "reg"
  <2>1. c.st \in {None, car[w].st} /\ (car[w].st # None => pc[w] \in Carrying)
    BY <1>2, <1>n, <1>m DEF Moves, Named, Mobile, Carrying
  <2>2. (\A y, x \in Walkers :
           y # x /\ pc[y] \in Carrying /\ pc[x] \in Carrying /\ car[y].st = car[x].st => car[y].st = None)'
    BY <2>1, <1>f DEF Exclusive
  <2>3. (\A y \in Walkers, d \in Teed : pc[y] \in Carrying /\ car[y].st = src[d].st => car[y].st = None)'
    BY <2>1, <1>f DEF Exclusive
  <2>4. (\A d, e \in Teed : d # e /\ src[d].st = src[e].st => src[d].st = None)'
    BY <1>f DEF Exclusive
  <2>5. CASE live' \subseteq live
    BY <2>2, <2>3, <2>4, <2>5, <1>f DEF Exclusive, Closes
  <2>6. CASE pc[w] = "reg" /\ live' = live \cup {car[w].st}
    <3>1. car[w].st # None
      <4>1. car[w].st = <<w, at[w]>>
        BY <2>6, <1>n DEF Named
      <4>2. QED
        BY <4>1, <1>n, ChatId, ChatForm
    <3>2. \A x \in Walkers : pc'[x] \in {"fold", "next"} => car'[x].st \notin live'
      <4>1. \A x \in Walkers \ {w} : pc[x] \in {"fold", "next"} => car[x].st \notin live'
        BY <2>6, <3>1 DEF Exclusive, Carrying
      <4>2. QED
        BY <4>1, <1>f DEF Closes
    <3>3. \A d \in Teed : src[d].st \notin live'
      BY <2>6, <3>1 DEF Exclusive, Carrying
    <3>4. QED
      BY <2>2, <2>3, <2>4, <3>2, <3>3, <1>f DEF Exclusive
  <2>7. QED
    BY <2>5, <2>6 DEF Closes
<1>3. QED
  BY <1>1, <1>2

LEMMA MoveHandOver ==
  ASSUME HandOver, NEW w \in Walkers, NEW p, NEW n, NEW c, NEW S,
         Moves(w, p, n, c), Closes(w, p, n, c, S)
  PROVE  HandOver'
<1>1. ExecType'
  BY MoveType DEF HandOver
<1>2. QED
  BY <1>1, MovePlanned, MoveConsumer, MoveNames, MoveExclusive DEF HandOver

(* A key of a Copy whose targets are still to be started is in no carrier. *)
LEMMA NotHanded ==
  ASSUME HandOver, NEW x \in Walkers, pc[x] = "spawn", NEW k \in KeysOf(at[x])
  PROVE  ~Handed(k) /\ at[x] \in Teed /\ k \in Keys /\ k \in TeedKeys
<1>1. at[x] \in Teed /\ at[x] \in OfKind(g, "copy") /\ g \in Graphs
  BY DEF HandOver, Names, Named, Planned, ExecType
<1>2. k \in Keys /\ k \in TeedKeys
  BY <1>1, CopyKeys DEF KeysOf, TeedKeys
<1>3. ASSUME NEW d \in Teed, k \in KeysOf(d), at[x] # d PROVE FALSE
  BY <1>1, <1>3, KeyUnique DEF KeysOf
<1>4. QED
  BY <1>1, <1>2, <1>3 DEF Handed

LEMMA SpawnReaders ==
  ASSUME HandOver, NEW x \in Walkers, pc[x] = "spawn", NEW k \in KeysOf(at[x])
  PROVE  /\ \A w \in Walkers : car[w].st # <<k>>
         /\ \A d \in Teed : src[d].st # <<k>>
<1>1. ~Handed(k) /\ <<k>> \in ReaderIds /\ <<k>>[1] = k
  BY NotHanded, ReaderId
<1>2. QED
  BY <1>1 DEF HandOver, Names, Named, TeeNamed

LEMMA OpenReader ==
  ASSUME HandOver, NEW x \in Walkers, pc[x] = "spawn", NEW k \in KeysOf(at[x])
  PROVE  <<k>> \in OpenStreams <=> k \notin rclosed
<1>1. k \in TeedKeys /\ <<k>> \in ReaderIds
  BY NotHanded, ReaderId
<1>2. <<k>> \notin open
  BY <1>1, ReaderForm DEF HandOver, ExecType
<1>3. \A j : <<j>> = <<k>> => j = k
  OBVIOUS
<1>4. QED
  BY <1>1, <1>2, <1>3 DEF OpenStreams, TeedKeys

LEMMA OpenAre == ASSUME ExecType, Planned PROVE OpenStreams \subseteq StreamIds /\ None \notin OpenStreams
<1>1. ASSUME NEW k \in UNION {KeysOf(c) : c \in Teed} PROVE <<k>> \in ReaderIds
  <2>1. PICK c \in Teed : k \in KeysOf(c)
    OBVIOUS
  <2>2. k \in Keys
    BY <2>1, CopyKeys DEF ExecType, Planned, KeysOf
  <2>3. QED
    BY <2>2, ReaderId
<1>2. OpenStreams \subseteq StreamIds
  BY <1>1 DEF OpenStreams, StreamIds, ExecType
<1>3. QED
  BY <1>2, NoneForm

LEMMA MoveOwned ==
  ASSUME HandOver, Ownership, NEW w \in Walkers, NEW p, NEW n, NEW c, NEW S,
         Moves(w, p, n, c), Closes(w, p, n, c, S)
  PROVE  Ownership'
<1> USE DEF HandOver
<1>f. /\ Teed' = Teed /\ UNCHANGED <<g, plan, bpc, src, closing>>
      /\ pc'[w] = p /\ at'[w] = n /\ car'[w] = c
      /\ \A x \in Walkers \ {w} : pc'[x] = pc[x] /\ at'[x] = at[x] /\ car'[x] = car[x]
      /\ \A d : KeysOf(d)' = KeysOf(d)
  BY MoveFrame
<1>m. pc[w] \in Mobile /\ p \in {"collect", "walk", "fold", "next", "reg", "sink", "tail", "end", "err"}
  BY DEF Moves
<1>n. \A x \in Walkers : Named(x)
  BY DEF Names
<1>s. car[w].st # None => pc[w] \in Carrying
  BY <1>n, <1>m DEF Named, Mobile, Carrying
<1>o. None \notin OpenStreams /\ OpenStreams' = (OpenStreams \ S) \cup (IF p = "reg" THEN {c.st} ELSE {})
  BY OpenAre DEF Closes
<1>r. p = "reg" => /\ c.st \in ChatIds /\ c.st[1] = w /\ \A d \in Teed : src[d].st # c.st
                   /\ \A x \in Walkers \ {w} : car[x].st # c.st
  <2> SUFFICES ASSUME p = "reg"
               PROVE  /\ c.st \in ChatIds /\ c.st[1] = w /\ \A d \in Teed : src[d].st # c.st
                      /\ \A x \in Walkers \ {w} : car[x].st # c.st
    OBVIOUS
  <2>1. c.st = <<w, at[w]>> /\ at[w] \in AllNodes
    BY Node DEF Moves, ExecType
  <2>2. c.st \in ChatIds /\ c.st[1] = w /\ c.st[2] = at[w]
    BY <2>1, ChatId
  <2>3. \A d \in Teed : src[d].st # c.st
    BY <2>2, BeyondSelf DEF Names, TeeNamed
  <2>4. QED
    BY <2>2, <2>3, <1>n DEF Named
<1>l. \A s \in (live \cup closing) : s \in live' \cup closing' \/ s \in S \/ s = car[w].st
  BY <1>f DEF Closes
<1>1. ASSUME NEW x \in Walkers PROVE Waiting(x)'
  <2>1. CASE x = w
    BY <2>1, <1>f, <1>m DEF Waiting, Closes
  <2>2. CASE x # w
    <3>1. ASSUME pc[x] \in {"walk", "sink"}, car[x].st \in OpenStreams' PROVE car[x].st \in live' \cup closing'
      <4>1. car[x].st \in OpenStreams /\ car[x].st \notin S
        BY <3>1, <2>2, <1>o, <1>r
      <4>2. car[x].st \in live \cup closing
        BY <3>1, <4>1 DEF Ownership, Waiting
      <4>3. car[x].st # car[w].st
        BY <2>2, <3>1, <4>1, <1>s, <1>o DEF Exclusive, Carrying
      <4>4. QED
        BY <4>1, <4>2, <4>3, <1>l
    <3>2. ASSUME pc[x] = "spawn", NEW k \in KeysOf(at[x]) \ rclosed' PROVE <<k>> \in live' \cup closing'
      <4>1. <<k>> \in OpenStreams' /\ <<k>> \in ReaderIds
        <5>1. k \in TeedKeys /\ k \in Keys
          BY <3>2, NotHanded
        <5>2. k \in TeedKeys'
          BY <5>1, MoveFrame
        <5>3. QED
          BY <5>1, <5>2, ReaderId DEF OpenStreams, TeedKeys
      <4>2. <<k>> \in OpenStreams /\ <<k>> \notin S
        BY <4>1, <1>o, <1>r, ChatForm
      <4>3. k \notin rclosed
        BY <4>2, <3>2, OpenReader
      <4>4. <<k>> \in live \cup closing
        BY <4>3, <3>2 DEF Ownership, Waiting
      <4>5. <<k>> # car[w].st
        BY <3>2, SpawnReaders
      <4>6. QED
        BY <4>2, <4>4, <4>5, <1>l
    <3>3. QED
      BY <2>2, <3>1, <3>2, <1>f DEF Waiting
  <2>3. QED
    BY <2>1, <2>2
<1>2. (\A d \in Teed : bpc[d] = "done" => src[d].st \notin OpenStreams)'
  BY <1>f, <1>o, <1>r DEF Ownership
<1>3. ASSUME NEW s \in OpenStreams' PROVE Owned(s)' \/ s \in Unfoldable'
  <2>1. CASE s = c.st /\ p \notin {"end", "err"}
    <3>1. w \in Holding(s)'
      BY <2>1, <1>f, <1>m DEF Holding, Ended
    <3>2. QED
      BY <3>1 DEF Owned
  <2>2. CASE s \in OpenStreams /\ s \notin S /\ s = car[w].st /\ ~(s = c.st /\ p \notin {"end", "err"})
    <3>1. CASE s \in live' \cup closing
      BY <3>1, <1>f DEF Owned
    <3>2. CASE c.st = car[w].st /\ p = "err" /\ ~BoundaryAt(n) /\ ~c.fold
      <4>1. pc'[w] = "err" /\ ~Boundary(w)' /\ ~car'[w].fold /\ car'[w].st = s
        BY <3>2, <2>2, <1>f DEF Boundary, BoundaryAt, Here
      <4>2. s \in Unfoldable'
        BY <4>1 DEF Unfoldable
      <4>3. QED
        BY <4>2
    <3>3. QED
      BY <2>2, <3>1, <3>2 DEF Closes
  <2>3. CASE s \in OpenStreams /\ s \notin S /\ s # car[w].st
    <3>1. CASE s \in live \cup closing
      BY <3>1, <2>3, <1>l DEF Owned
    <3>2. CASE Teeing(s) # {}
      BY <3>2, <1>f DEF Owned, Teeing
    <3>3. CASE Holding(s) # {}
      <4>1. PICK x \in Walkers : car[x].st = s /\ ~Ended(x)
        BY <3>3 DEF Holding
      <4>2. x \in Holding(s)'
        BY <4>1, <2>3, <1>f DEF Holding, Ended
      <4>3. QED
        BY <4>2 DEF Owned
    <3>4. CASE s \in Unfoldable
      <4>1. PICK x \in Walkers : car[x].st = s /\ pc[x] = "err" /\ ~Boundary(x) /\ ~car[x].fold
        BY <3>4 DEF Unfoldable
      <4>2. x # w
        BY <4>1, <1>m DEF Mobile
      <4>3. pc'[x] = "err" /\ ~Boundary(x)' /\ ~car'[x].fold /\ car'[x].st = s
        BY <4>1, <4>2, <1>f DEF Boundary, Here
      <4>4. s \in Unfoldable'
        BY <4>3 DEF Unfoldable
      <4>5. QED
        BY <4>4
    <3>5. QED
      BY <2>3, <3>1, <3>2, <3>3, <3>4 DEF Ownership, Owned
  <2>4. QED
    BY <2>1, <2>2, <2>3, <1>o
<1>4. QED
  BY <1>1, <1>2, <1>3 DEF Ownership

(* What such a step must respect while the context is not cancelled. *)
Spares(w, p, c, S) ==
  /\ \/ S \subseteq {car[w].st}
     \/ /\ w = 0 /\ pc[0] = "collect"
        /\ \E k \in todo[at[0]] : pc[k] = "end" /\ S \subseteq {car[k].st} /\ k \notin todo'[at[0]]
  /\ \A k \in Keys : buf'[k] \in {buf[k], <<>>}
  /\ ~cancelled' =>
       /\ p \in {"walk", "fold", "next", "reg", "sink"} => c.st \in OpenStreams' \cup {None}
       /\ p = "end" => c.st \in OpenStreams' \cup {None} \/ pc[0] \notin {"join", "collect"}
       /\ p # "tail" => Uncut(c.val)

LEMMA MergeHasNoTee ==
  ASSUME HandOver, pc[0] \in {"fanin", "join", "collect"}
  PROVE  Teed = {} /\ plan = "graph" /\ Merges # {}
BY DEF HandOver, Planned

LEMMA EmptyIsNot == ASSUME NEW i PROVE <<>> # <<i>> /\ Head(<<i>>) = i
<1>1. Len(<<>>) = 0 /\ Len(<<i>>) = 1
  OBVIOUS
<1>2. QED
  BY <1>1

LEMMA MoveAlive ==
  ASSUME HandOver, ~cancelled => Alive /\ Whole, ~cancelled', NEW w \in Walkers, NEW p, NEW n, NEW c, NEW S,
         Moves(w, p, n, c), Closes(w, p, n, c, S), Spares(w, p, c, S)
  PROVE  Alive' /\ Whole'
<1> USE DEF HandOver
<1>a. Alive /\ Whole
  BY DEF Moves
<1>f. /\ Teed' = Teed /\ UNCHANGED <<g, plan, bpc, src, closing>>
      /\ pc'[w] = p /\ at'[w] = n /\ car'[w] = c
      /\ \A x \in Walkers \ {w} : pc'[x] = pc[x] /\ at'[x] = at[x] /\ car'[x] = car[x]
      /\ \A d : KeysOf(d)' = KeysOf(d)
  BY MoveFrame
<1>w. 0 \in Walkers /\ Keys = Walkers \ {0}
  BY WalkersAre
<1>m. pc[w] \in Mobile /\ p \in {"collect", "walk", "fold", "next", "reg", "sink", "tail", "end", "err"}
  BY DEF Moves
<1>n. \A x \in Walkers : Named(x)
  BY DEF Names
<1>s. car[w].st # None => pc[w] \in Carrying
  BY <1>n, <1>m DEF Named, Mobile, Carrying
<1>o. OpenStreams \ S \subseteq OpenStreams' /\ None \notin OpenStreams /\ OpenStreams \subseteq ReaderIds \cup ChatIds
  BY OpenAre DEF Closes, StreamIds
<1>k. ASSUME NEW k \in Keys, pc[k] = "end" PROVE car[k].st \in ChatIds \cup {None} /\ (car[k].st \in ChatIds => car[k].st[1] = k)
  BY <1>k, <1>n, <1>w DEF Named, ExecType, IsCarrier, StreamIds
<1>h. Whole'
  <2>1. \A x \in Walkers : pc'[x] # "tail" => Uncut(car'[x].val)
    BY <1>a, <1>f DEF Whole, Spares
  <2>2. hand' = hand
    BY DEF Moves
  <2>3. \A k \in Keys : buf'[k] # <<"cut">>
    BY <1>a, EmptyIsNot DEF Whole, Spares
  <2>4. QED
    BY <2>1, <2>2, <2>3, <1>a, <1>f DEF Whole
<1>p. CASE \E k \in todo[at[0]] : /\ w = 0 /\ pc[0] = "collect"
                                  /\ pc[k] = "end" /\ S \subseteq {car[k].st} /\ k \notin todo'[at[0]]
  <2>1. PICK k \in todo[at[0]] : w = 0 /\ pc[0] = "collect" /\ pc[k] = "end" /\ S \subseteq {car[k].st} /\ k \notin todo'[at[0]]
    BY <1>p
  <2>2. Teed = {} /\ k \in Keys
    BY <2>1, MergeHasNoTee DEF Planned
  <2>3. \A x \in Walkers \ {k} : StillOpen(car[x].st) => car[x].st \in OpenStreams' \cup {None}
    BY <2>1, <2>2, <1>k, <1>n, <1>o, <1>w, ChatForm, ReaderForm DEF StillOpen, Named
  <2>4. QED
    <3>1. ASSUME NEW x \in Walkers, pc'[x] \in {"walk", "fold", "next", "reg", "sink"} PROVE StillOpen(car[x].st)'
      <4>1. CASE x = w
        BY <3>1, <4>1, <1>f DEF Spares, StillOpen
      <4>2. CASE x # w
        BY <3>1, <4>2, <2>1, <2>3, <1>a, <1>f DEF Alive, StillOpen
      <4>3. QED
        BY <4>1, <4>2
    <3>2. ASSUME pc'[0] \in {"join", "collect"}, NEW x \in todo'[at'[0]], pc'[x] = "end" PROVE StillOpen(car[x].st)'
      <4>1. p = "collect" /\ n = at[0] /\ todo'[at[0]] \subseteq todo[at[0]] /\ at'[0] = at[0]
        BY <3>2, <2>1, <1>f, <1>m DEF Moves
      <4>2. x \in todo[at[0]] /\ x # k /\ x \in Keys
        BY <3>2, <4>1, <2>1 DEF Planned
      <4>3. pc[x] = "end" /\ car'[x] = car[x]
        BY <3>2, <4>2, <2>1, <1>f, <1>w
      <4>4. QED
        BY <4>2, <4>3, <2>1, <2>3, <1>a, <1>w DEF Alive, StillOpen
    <3>3. \A x \in Walkers : pc'[x] # "spawn"
      <4>1. \A x \in Walkers : pc[x] # "spawn"
        BY <2>2 DEF Names, Named
      <4>2. QED
        BY <4>1, <1>f, <1>m
    <3>4. Alive'
      BY <3>1, <3>2, <3>3, <2>2, <1>f DEF Alive
    <3>5. QED
      BY <3>4, <1>h
<1>q. CASE S \subseteq {car[w].st}
  <2>1. \A x \in Walkers \ {w} : pc[x] \in Carrying /\ StillOpen(car[x].st) => car[x].st \in OpenStreams' \cup {None}
    BY <1>q, <1>s, <1>o DEF StillOpen, Exclusive
  <2>2. \A d \in Teed : StillOpen(src[d].st) => src[d].st \in OpenStreams' \cup {None}
    BY <1>q, <1>s, <1>o DEF StillOpen, Exclusive
  <2>3. ASSUME NEW x \in Walkers, pc'[x] \in {"walk", "fold", "next", "reg", "sink"} PROVE StillOpen(car[x].st)'
    <3>1. CASE x = w
      BY <2>3, <3>1, <1>f DEF Spares, StillOpen
    <3>2. CASE x # w
      BY <2>3, <3>2, <2>1, <1>a, <1>f DEF Alive, StillOpen, Carrying
    <3>3. QED
      BY <3>1, <3>2
  <2>4. ASSUME pc'[0] \in {"join", "collect"}, NEW x \in todo'[at'[0]], pc'[x] = "end" PROVE StillOpen(car[x].st)'
    <3>1. pc[0] \in {"join", "collect"} /\ at'[0] = at[0] /\ x \in todo[at[0]] /\ x \in Keys
      <4>1. CASE w = 0
        BY <2>4, <4>1, <1>f, <1>m DEF Moves, Planned
      <4>2. CASE w # 0
        BY <2>4, <4>2, <1>f, <1>w DEF Moves, Planned
      <4>3. QED
        BY <4>1, <4>2
    <3>2. CASE x = w
      BY <3>1, <3>2, <2>4, <1>f DEF Spares, StillOpen
    <3>3. CASE x # w
      <4>1. pc[x] = "end" /\ car'[x] = car[x] /\ StillOpen(car[x].st)
        BY <3>1, <3>3, <2>4, <1>f, <1>w, <1>a DEF Alive
      <4>2. car[x].st = None \/ car[x].st # car[w].st
        BY <4>1, <3>1, <3>3, <1>k, <1>n DEF Named
      <4>3. QED
        BY <4>1, <4>2, <1>q, <1>o DEF StillOpen
    <3>4. QED
      BY <3>2, <3>3
  <2>5. ASSUME NEW x \in Walkers, pc'[x] = "spawn" PROVE (KeysOf(at[x]) \cap rclosed = {})'
    <3>1. pc[x] = "spawn" /\ at'[x] = at[x]
      BY <2>5, <1>f, <1>m
    <3>2. KeysOf(at[x]) \cap rclosed = {}
      BY <3>1, <1>a DEF Alive
    <3>3. \A k \in KeysOf(at[x]) : <<k>> # car[w].st
      BY <3>1, SpawnReaders
    <3>4. QED
      BY <3>1, <3>2, <3>3, <1>f DEF Closes
  <2>t. (\A d \in Teed : bpc[d] # "done" => StillOpen(src[d].st))'
    BY <2>2, <1>a, <1>f DEF Alive, StillOpen
  <2>u. (\A x \in Walkers : pc[x] \in {"walk", "fold", "next", "reg", "sink"} => StillOpen(car[x].st))'
    BY <2>3
  <2>v. (\A x \in Walkers : pc[x] = "spawn" => KeysOf(at[x]) \cap rclosed = {})'
    BY <2>5
  <2>x. (pc[0] \in {"join", "collect"} => \A x \in todo[at[0]] : pc[x] = "end" => StillOpen(car[x].st))'
    BY <2>4
  <2>6. Alive'
    BY <2>t, <2>u, <2>v, <2>x DEF Alive
  <2>8. QED
    BY <2>6, <1>h
<1>1. QED
  BY <1>p, <1>q DEF Spares

LEMMA MoveInv ==
  ASSUME ExecInv, NEW w \in Walkers, NEW p, NEW n, NEW c, NEW S,
         Moves(w, p, n, c), Closes(w, p, n, c, S), Spares(w, p, c, S), cutRuns' = cutRuns
  PROVE  ExecInv'
<1>1. HandOver' /\ Ownership'
  BY MoveHandOver, MoveOwned DEF ExecInv
<1>2. ~cancelled' => Alive' /\ Whole'
  BY MoveAlive DEF ExecInv
<1>3. QED
  BY <1>1, <1>2 DEF ExecInv, WholeInputs

(***************************************************************************)
(* The streams that are open after a step.                                 *)
(***************************************************************************)
LEMMA OpenIs == OpenStreams = open \cup {<<k>> : k \in TeedKeys \ rclosed}
BY DEF OpenStreams, TeedKeys

LEMMA OpenIsThen == OpenStreams' = open' \cup {<<k>> : k \in TeedKeys' \ rclosed'}
BY DEF OpenStreams, TeedKeys

LEMMA OpenKept ==
  ASSUME UNCHANGED <<bpc, g, open, rclosed>>
  PROVE  OpenStreams' = OpenStreams
BY TeedKept DEF OpenStreams, TeedKeys

LEMMA OpenChatClosed ==
  ASSUME ExecType, Planned, UNCHANGED <<bpc, g, rclosed>>, NEW s, s \notin ReaderIds, open' = open \ {s}
  PROVE  OpenStreams' = OpenStreams \ {s} /\ open' \subseteq ChatIds
<1>1. \A k \in TeedKeys : <<k>> \in ReaderIds
  <2> SUFFICES ASSUME NEW c \in Teed, NEW k \in KeysOf(c) PROVE <<k>> \in ReaderIds
    BY DEF TeedKeys
  <2>1. k \in Keys
    BY CopyKeys DEF ExecType, Planned, KeysOf
  <2>2. QED
    BY <2>1, ReaderId
<1>2. TeedKeys' = TeedKeys
  BY TeedKept
<1>3. QED
  BY <1>1, <1>2, OpenIs, OpenIsThen DEF ExecType

LEMMA OpenReaderClosed ==
  ASSUME ExecType, Planned, UNCHANGED <<bpc, g, open>>, NEW k \in Keys, rclosed' = rclosed \cup {k}
  PROVE  OpenStreams' = OpenStreams \ {<<k>>}
<1>1. <<k>> \notin open
  BY ReaderId, ReaderForm DEF ExecType
<1>2. TeedKeys' = TeedKeys
  BY TeedKept
<1>3. \A j : <<j>> = <<k>> => j = k
  OBVIOUS
<1>4. QED
  BY <1>1, <1>2, <1>3 DEF OpenStreams, TeedKeys

LEMMA OpenChatOpened ==
  ASSUME UNCHANGED <<bpc, g, rclosed>>, NEW s, open' = open \cup {s}
  PROVE  OpenStreams' = OpenStreams \cup {s}
BY TeedKept DEF OpenStreams, TeedKeys

(***************************************************************************)
(* The steps of a walker.                                                  *)
(***************************************************************************)
LEMMA StoppedCarrier == ASSUME ExecType, NEW w \in Walkers PROVE
  /\ IsCarrier(car[w]) /\ at[w] \in NodesOf(g)
  /\ at = [at EXCEPT ![w] = at[w]] /\ car = [car EXCEPT ![w] = car[w]]
  /\ \A f : /\ IsCarrier([car[w] EXCEPT !.fold = f]) /\ [car[w] EXCEPT !.fold = f].st = car[w].st
            /\ [car[w] EXCEPT !.fold = f].val = car[w].val /\ [car[w] EXCEPT !.fold = f].fold = f
<1>1. IsCarrier(car[w]) /\ at[w] \in NodesOf(g)
  BY DEF ExecType
<1>2. at = [at EXCEPT ![w] = at[w]] /\ car = [car EXCEPT ![w] = car[w]]
  BY DEF ExecType
<1>3. PICK v, s, e, b : car[w] = [val |-> v, st |-> s, elem |-> e, fold |-> b] /\ s \in StreamIds \cup {None}
  BY <1>1 DEF IsCarrier
<1>4. ASSUME NEW f PROVE /\ IsCarrier([car[w] EXCEPT !.fold = f]) /\ [car[w] EXCEPT !.fold = f].st = car[w].st
                         /\ [car[w] EXCEPT !.fold = f].val = car[w].val /\ [car[w] EXCEPT !.fold = f].fold = f
  BY <1>3 DEF IsCarrier
<1>5. QED
  BY <1>1, <1>2, <1>4

Known(w) ==
  /\ ExecType /\ Planned /\ HandOver /\ Named(w) /\ Waiting(w) /\ g \in Graphs /\ at[w] \in NodesOf(g)
  /\ DOMAIN todo = Fans /\ buf \in [Keys -> {<<>>} \cup {<<i>> : i \in Items}] /\ cancelled \in BOOLEAN
  /\ open \subseteq ChatIds
  /\ pc[w] \in {"fold", "next"} => car[w].st \notin live
  /\ ~cancelled /\ pc[w] # "tail" => Uncut(car[w].val)
  /\ ~cancelled /\ pc[w] \in {"walk", "fold", "next", "reg", "sink"} => car[w].st \in OpenStreams \cup {None}

LEMMA WalkerFacts == ASSUME ExecInv, NEW w \in Walkers PROVE Known(w)
BY DEF Known, ExecInv, HandOver, Names, Ownership, ExecType, Exclusive, Alive, Whole, StillOpen

LEMMA UnregisterKeeps == ASSUME ExecInv, NEW w \in Walkers, Unregister(w) PROVE ExecInv'
<1>t. Known(w)
  BY WalkerFacts
<1>1. PICK n : n = at[w]
  OBVIOUS
<1>2. PICK f : f = Folds(registry, g.inT[n], car[w].elem)
  OBVIOUS
<1>3. PICK p : p = IF Foldable(registry, g.inT[n]) THEN "fold" ELSE "err"
  OBVIOUS
<1>4. PICK c : c = [car[w] EXCEPT !.fold = f]
  OBVIOUS
<1>5. IsCarrier(c) /\ c.st = car[w].st /\ c.val = car[w].val /\ c.fold = f
  BY <1>4, <1>t, StoppedCarrier DEF Known
<1>6. p = "err" => ~f
  BY <1>2, <1>3 DEF Folds, Foldable
<1>7. Moves(w, p, n, c)
  <2>1. Goto(w, p, n, c)
    BY <1>1, <1>2, <1>3, <1>4 DEF Unregister
  <2>2. UNCHANGED <<shape, teeVars, rclosed, closing, cancelled, consVars>> /\ pc[w] = "walk" /\ car[w].st # None
    BY DEF Unregister
  <2>3. QED
    BY <1>1, <1>3, <1>5, <1>t, <2>1, <2>2 DEF Known, Moves, Goto, Mobile, teeVars, consVars
<1>8. OpenStreams' = OpenStreams
  BY OpenKept DEF Unregister, shape, teeVars
<1>9. Closes(w, p, n, c, {})
  <2>1. ~BoundaryAt(n)
    BY <1>1 DEF Unregister, Boundary, BoundaryAt, Here
  <2>2. pc[w] = "walk" /\ live' = live \ {car[w].st} /\ UNCHANGED <<open, rclosed, closing>> /\ p \in {"fold", "err"}
    BY <1>3 DEF Unregister
  <2>3. QED
    BY <1>5, <1>6, <1>8, <2>1, <2>2, <1>t DEF Known, Closes
<1>10. Spares(w, p, c, {})
  <2>1. UNCHANGED <<buf, cancelled>> /\ pc[w] = "walk" /\ p \in {"fold", "err"}
    BY <1>3 DEF Unregister, teeVars
  <2>2. QED
    BY <1>5, <1>8, <2>1, <1>t DEF Known, Spares
<1>11. QED
  BY <1>7, <1>9, <1>10, MoveInv DEF Unregister, logVars

LEMMA OpenForm ==
  ASSUME ExecType, Planned, NEW s \in OpenStreams
  PROVE  /\ s \in ChatIds => s \in open
         /\ s \in ReaderIds => s[1] \notin rclosed
<1>1. ASSUME NEW k \in TeedKeys PROVE <<k>> \in ReaderIds /\ <<k>>[1] = k
  <2>1. PICK c \in Teed : k \in KeysOf(c)
    BY DEF TeedKeys
  <2>2. k \in Keys
    BY <2>1, CopyKeys DEF ExecType, Planned, KeysOf
  <2>3. QED
    BY <2>2, ReaderId
<1>2. CASE s \in open
  BY <1>2, ChatForm DEF ExecType
<1>3. CASE s \in {<<k>> : k \in TeedKeys \ rclosed}
  BY <1>3, <1>1, ReaderForm
<1>4. QED
  BY <1>2, <1>3, OpenIs

LEMMA FoldStreamKeeps == ASSUME ExecInv, NEW w \in Walkers, FoldStream(w) PROVE ExecInv'
<1>t. Known(w)
  BY WalkerFacts
<1>a. /\ pc[w] = "fold" /\ open' = open \ {car[w].st}
      /\ UNCHANGED <<shape, registry, live, teeVars, rclosed, closing, cancelled, consVars, logVars>>
  BY DEF FoldStream, FoldChat
<1>b. car[w].st \in ChatIds
  BY <1>t, <1>a, ReaderForm DEF FoldStream, Known, Named, ExecType, IsCarrier, StreamIds
<1>c. OpenStreams' = OpenStreams \ {car[w].st} /\ open' \subseteq ChatIds
  BY <1>a, <1>b, <1>t, ChatForm, OpenChatClosed DEF Known, shape, teeVars
<1>1. PICK n : n = at[w]
  OBVIOUS
<1>2. PICK s : s = car[w].st
  OBVIOUS
<1>3. ASSUME NEW p, NEW c, Goto(w, p, n, c), IsCarrier(c),
             (p = "walk" /\ c.st = None) \/ (p = "err" /\ c.st = car[w].st), ~cancelled => Uncut(c.val)
      PROVE  ExecInv'
  <2>1. Moves(w, p, n, c)
    BY <1>1, <1>3, <1>a, <1>t DEF Known, Moves, Goto, Mobile, teeVars, consVars
  <2>2. Closes(w, p, n, c, {s})
    BY <1>2, <1>3, <1>a, <1>b, <1>c, <1>t, ChatForm, OpenAre DEF Known, Closes
  <2>3. Spares(w, p, c, {s})
    BY <1>2, <1>3, <1>a, <1>t DEF Known, Spares, teeVars
  <2>4. QED
    BY <2>1, <2>2, <2>3, <1>a, MoveInv DEF logVars
<1>4. CASE Goto(w, "walk", at[w], Carrier(car[w].val))
  <2>1. PICK c : c = Carrier(car[w].val)
    OBVIOUS
  <2>2. QED
    BY <1>1, <1>3, <1>4, <1>a, <1>t, <2>1, CarrierForm DEF Known
<1>5. CASE car[w].st \notin open /\ Goto(w, "walk", at[w], Carrier(Cut))
  <2>1. cancelled
    BY <1>5, <1>a, <1>b, <1>t, OpenForm, ChatForm DEF Known
  <2>2. PICK c : c = Carrier(Cut)
    OBVIOUS
  <2>3. QED
    BY <1>1, <1>3, <1>5, <2>1, <2>2, CarrierForm
<1>6. CASE Stop(w, "err")
  <2>1. PICK c : c = car[w]
    OBVIOUS
  <2>2. Goto(w, "err", n, c) /\ IsCarrier(c)
    BY <1>1, <1>6, <2>1, <1>t, StoppedCarrier DEF Known, Stop, Goto
  <2>3. QED
    BY <1>3, <1>a, <1>t, <2>1, <2>2 DEF Known
<1>7. QED
  BY <1>4, <1>5, <1>6 DEF FoldStream, FoldChat

LEMMA NextCallKeeps == ASSUME ExecInv, NEW w \in Walkers, NextCall(w) PROVE ExecInv'
<1>t. Known(w)
  BY WalkerFacts
<1>a. /\ pc[w] = "fold" /\ IsReader(car[w].st)
      /\ UNCHANGED <<shape, registry, live, open, teeVars, rclosed, closing, cancelled, consVars, logVars>>
  BY DEF NextCall
<1>b. car[w].st \in ReaderIds
  BY <1>t, <1>a, ChatForm, NoneForm DEF Known, ExecType, IsCarrier, StreamIds
<1>c. OpenStreams' = OpenStreams
  BY <1>a, OpenKept DEF shape, teeVars
<1>1. PICK n : n = at[w]
  OBVIOUS
<1>2. CASE car[w].st[1] \in rclosed /\ Goto(w, "walk", at[w], Carrier(Cut))
  <2>1. PICK c : c = Carrier(Cut)
    OBVIOUS
  <2>2. IsCarrier(c) /\ c.st = None
    BY <2>1, CarrierForm
  <2>3. car[w].st \notin OpenStreams /\ None \notin OpenStreams
    BY <1>2, <1>b, <1>t, OpenForm, OpenAre DEF Known
  <2>4. cancelled
    BY <1>a, <1>b, <1>t, <2>3, ReaderForm DEF Known
  <2>5. Moves(w, "walk", n, c)
    BY <1>1, <1>2, <2>1, <2>2, <1>a, <1>t DEF Known, Moves, Goto, Mobile, teeVars, consVars
  <2>6. Closes(w, "walk", n, c, {})
    BY <1>a, <1>c, <1>t, <2>2, <2>3 DEF Known, Closes
  <2>7. Spares(w, "walk", c, {})
    BY <1>a, <2>4 DEF Spares, teeVars
  <2>8. QED
    BY <2>5, <2>6, <2>7, <1>a, MoveInv DEF logVars
<1>3. CASE Stop(w, "next")
  <2>1. PICK c : c = car[w]
    OBVIOUS
  <2>2. Goto(w, "next", n, c) /\ IsCarrier(c)
    BY <1>1, <1>3, <2>1, <1>t, StoppedCarrier DEF Known, Stop, Goto
  <2>3. Moves(w, "next", n, c)
    BY <1>1, <2>1, <2>2, <1>a, <1>b, <1>t DEF Known, Moves, Goto, Mobile, teeVars, consVars
  <2>4. Closes(w, "next", n, c, {})
    BY <2>1, <1>a, <1>c, <1>t DEF Known, Closes
  <2>5. Spares(w, "next", c, {})
    BY <2>1, <1>a, <1>c, <1>t DEF Known, Spares, teeVars
  <2>6. QED
    BY <2>3, <2>4, <2>5, <1>a, MoveInv DEF logVars
<1>4. QED
  BY <1>2, <1>3 DEF NextCall

LEMMA RecvKeeps == ASSUME ExecInv, NEW w \in Walkers, Recv(w) PROVE ExecInv'
<1>t. Known(w)
  BY WalkerFacts
<1>1. PICK k : k = car[w].st[1]
  OBVIOUS
<1>2. PICK n : n = at[w]
  OBVIOUS
<1>3. PICK s : s = car[w].st
  OBVIOUS
<1>a. /\ pc[w] = "next" /\ buf[k] # <<>> /\ buf' = [buf EXCEPT ![k] = <<>>]
      /\ UNCHANGED <<shape, registry, live, open, bpc, src, left, hand, todo, closing, cancelled, consVars, logVars>>
  BY <1>1 DEF Recv
<1>b. s \in ReaderIds /\ k \in Keys /\ s = <<k>>
  BY <1>1, <1>3, <1>a, <1>t, ReaderForm DEF Known, Named
<1>c. buf' \in [Keys -> {<<>>} \cup {<<i>> : i \in Items}] /\ \A j \in Keys : buf'[j] \in {buf[j], <<>>}
  BY <1>a, <1>t DEF Known
<1>d. ~cancelled => Head(buf[k]) # "cut"
  <2>1. PICK i \in Items : buf[k] = <<i>>
    BY <1>a, <1>b, <1>t DEF Known
  <2>2. Head(buf[k]) = i
    BY <2>1, EmptyIsNot
  <2>3. ~cancelled => buf[k] # <<"cut">>
    BY <1>b DEF ExecInv, Whole
  <2>4. QED
    BY <2>1, <2>2, <2>3
<1>4. CASE Stop(w, "fold") /\ UNCHANGED rclosed
  <2>1. PICK c : c = car[w]
    OBVIOUS
  <2>2. Goto(w, "fold", n, c) /\ IsCarrier(c)
    BY <1>2, <1>4, <2>1, <1>t, StoppedCarrier DEF Known, Stop, Goto
  <2>3. OpenStreams' = OpenStreams
    BY <1>4, <1>a, OpenKept DEF shape
  <2>4. Moves(w, "fold", n, c)
    BY <1>2, <1>3, <2>1, <2>2, <1>a, <1>b, <1>c, <1>t, ReaderForm DEF Known, Moves, Goto, Mobile, consVars
  <2>5. Closes(w, "fold", n, c, {})
    BY <1>4, <2>1, <2>3, <1>a, <1>t DEF Known, Closes
  <2>6. Spares(w, "fold", c, {})
    BY <2>1, <2>3, <1>a, <1>c, <1>t DEF Known, Spares
  <2>7. QED
    BY <2>4, <2>5, <2>6, <1>a, MoveInv DEF logVars
<1>5. ASSUME NEW p, NEW c, rclosed' = rclosed \cup {k}, Goto(w, p, n, c), IsCarrier(c),
             (p = "walk" /\ c.st = None) \/ (p = "err" /\ c.st = car[w].st), ~cancelled => Uncut(c.val)
      PROVE  ExecInv'
  <2>1. OpenStreams' = OpenStreams \ {s}
    BY <1>5, <1>a, <1>b, <1>t, OpenReaderClosed DEF Known, shape
  <2>2. Moves(w, p, n, c)
    BY <1>2, <1>5, <1>a, <1>c, <1>t DEF Known, Moves, Goto, Mobile, consVars
  <2>3. Closes(w, p, n, c, {s})
    BY <1>3, <1>5, <2>1, <1>a, <1>b, <1>t, OpenAre DEF Known, Closes
  <2>4. Spares(w, p, c, {s})
    BY <1>3, <1>5, <1>a, <1>c DEF Spares
  <2>5. QED
    BY <2>2, <2>3, <2>4, <1>a, MoveInv DEF logVars
<1>6. CASE rclosed' = rclosed \cup {k} /\ Stop(w, "err")
  <2>1. PICK c : c = car[w]
    OBVIOUS
  <2>2. Goto(w, "err", n, c) /\ IsCarrier(c)
    BY <1>2, <1>6, <2>1, <1>t, StoppedCarrier DEF Known, Stop, Goto
  <2>3. ~cancelled => Uncut(c.val)
    BY <2>1, <1>a, <1>t DEF Known
  <2>4. QED
    BY <1>5, <1>6, <2>1, <2>2, <2>3
<1>7. CASE rclosed' = rclosed \cup {k} /\ Goto(w, "walk", at[w], Carrier(IF Head(buf[k]) = "cut" THEN Cut ELSE car[w].val))
  <2>1. PICK v : v = IF Head(buf[k]) = "cut" THEN Cut ELSE car[w].val
    OBVIOUS
  <2>2. PICK c : c = Carrier(v)
    OBVIOUS
  <2>3. IsCarrier(c) /\ c.st = None /\ c.val = v
    BY <2>2, CarrierForm
  <2>4. ~cancelled => Uncut(v)
    BY <2>1, <1>a, <1>d, <1>t DEF Known
  <2>5. QED
    BY <1>2, <1>5, <1>7, <2>1, <2>2, <2>3, <2>4
<1>8. QED
  BY <1>1, <1>4, <1>6, <1>7 DEF Recv

(* A walker that holds no stream goes on, or stops, without one. *)
LEMMA PlainMove ==
  ASSUME ExecInv, NEW w \in Walkers, NEW p, NEW n, NEW c, car[w].st = None, pc[w] \in Mobile,
         Goto(w, p, n, c), IsCarrier(c), c.st = None, n \in NodesOf(g),
         UNCHANGED <<shape, live, open, bpc, src, hand, buf, rclosed, closing>>,
         n = at[w] \/ Teed = {} \/ Onward(w, n),
         p \in {"walk", "sink", "err", "end"} \/ (p = "tail" /\ w = 0),
         todo' = todo, cancelled' = cancelled,
         cons' = cons \/ (cons' = "reader" /\ p = "tail" /\ w = 0),
         ~cancelled /\ p # "tail" => Uncut(c.val), cutRuns' = cutRuns
  PROVE  ExecInv'
<1>t. Known(w)
  BY WalkerFacts
<1>1. OpenStreams' = OpenStreams /\ None \notin OpenStreams
  BY OpenKept, OpenAre, <1>t DEF shape, Known
<1>2. Moves(w, p, n, c)
  BY <1>t, NoneForm DEF Known, Moves, Goto, StreamIds
<1>3. Closes(w, p, n, c, {})
  BY <1>t, <1>1 DEF Known, Closes
<1>4. Spares(w, p, c, {})
  BY <1>1 DEF Spares
<1>5. QED
  BY <1>2, <1>3, <1>4, MoveInv

LEMMA AdvanceIs ==
  ASSUME ExecType, NEW w \in Walkers, NEW c, Advance(w, c)
  PROVE  \E p \in {"walk", "sink"}, n \in NodesOf(g) :
           /\ Goto(w, p, n, c)
           /\ p = "walk" => Onward(w, n)
           /\ p = "sink" => n = at[w]
<1>1. g \in Graphs /\ at[w] \in NodesOf(g)
  BY DEF ExecType
<1>2. CASE Default \in PortsOf(g, at[w])
  <2>1. PICK n : n = Target(g, at[w], Default)
    OBVIOUS
  <2>2. n \in NodesOf(g) /\ Onward(w, n)
    BY <1>1, <1>2, <2>1, TargetNode DEF Onward
  <2>3. Goto(w, "walk", n, c)
    BY <1>2, <2>1 DEF Advance
  <2>4. QED
    BY <2>2, <2>3
<1>3. CASE Default \notin PortsOf(g, at[w])
  <2>1. PICK n : n = at[w]
    OBVIOUS
  <2>2. Goto(w, "sink", n, c)
    BY <1>3, <2>1 DEF Advance
  <2>3. QED
    BY <1>1, <2>1, <2>2
<1>4. QED
  BY <1>2, <1>3

LEMMA RunKeeps == ASSUME ExecInv, NEW w \in Walkers, Run(w) PROVE ExecInv'
<1>t. Known(w)
  BY WalkerFacts
<1>1. PICK n : n = at[w]
  OBVIOUS
<1>2. PICK v : v = car[w].val
  OBVIOUS
<1>a. /\ pc[w] = "walk" /\ car[w].st = None /\ Logged(n, v)
      /\ UNCHANGED <<shape, registry, live, teeVars, rclosed, closing, cancelled, consVars>>
  BY <1>1, <1>2 DEF Run
<1>u. ~cancelled => Uncut(v)
  BY <1>2, <1>a, <1>t DEF Known
<1>l. cutRuns' = cutRuns
  BY <1>a, <1>u, UncutIs DEF Logged
<1>p. ASSUME NEW p, NEW m \in NodesOf(g), NEW c, Goto(w, p, m, c), IsCarrier(c), c.st = None, UNCHANGED open,
             m = at[w] \/ Onward(w, m), p \in {"walk", "sink", "err"}, ~cancelled => Uncut(c.val)
      PROVE  ExecInv'
  BY <1>p, <1>a, <1>l, PlainMove DEF Mobile, teeVars, consVars
<1>3. CASE Stop(w, "err") /\ UNCHANGED open
  <2>1. PICK c : c = car[w]
    OBVIOUS
  <2>2. Goto(w, "err", n, c) /\ IsCarrier(c) /\ n \in NodesOf(g)
    BY <1>1, <1>3, <2>1, <1>t, StoppedCarrier DEF Known, Stop, Goto
  <2>3. QED
    BY <1>1, <1>2, <1>3, <1>a, <1>u, <1>p, <2>1, <2>2
<1>4. CASE Advance(w, Carrier(Apply(g, n, v))) /\ UNCHANGED open
  <2>1. PICK c : c = Carrier(Apply(g, n, v))
    OBVIOUS
  <2>2. IsCarrier(c) /\ c.st = None /\ c.val = Apply(g, n, v)
    BY <2>1, CarrierForm
  <2>3. ~cancelled => Uncut(c.val)
    BY <2>2, <1>1, <1>u, <1>t, UncutApply DEF Known
  <2>4. Advance(w, c)
    BY <1>4, <2>1
  <2>5. PICK p \in {"walk", "sink"}, m \in NodesOf(g) :
          Goto(w, p, m, c) /\ (p = "walk" => Onward(w, m)) /\ (p = "sink" => m = at[w])
    BY <2>4, <1>t, AdvanceIs DEF Known
  <2>6. QED
    BY <1>4, <1>p, <2>2, <2>3, <2>5
<1>5. CASE Goto(w, "sink", n, Empty) /\ UNCHANGED open
  <2>1. PICK c : c = Empty
    OBVIOUS
  <2>2. IsCarrier(c) /\ c.st = None /\ Uncut(c.val)
    BY <2>1, CarrierForm, UncutInput DEF Empty
  <2>3. QED
    BY <1>1, <1>5, <1>p, <1>t, <2>1, <2>2 DEF Known
<1>6. CASE /\ open' = open \cup {<<w, n>>}
           /\ Goto(w, "reg", n, [Carrier(Apply(g, n, v)) EXCEPT !.st = <<w, n>>])
  <2>1. PICK c : c = [Carrier(Apply(g, n, v)) EXCEPT !.st = <<w, n>>]
    OBVIOUS
  <2>2. <<w, n>> \in ChatIds
    BY <1>1, <1>t, Node, ChatId DEF Known
  <2>3. IsCarrier(c) /\ c.st = <<w, n>> /\ c.val = Apply(g, n, v)
    BY <2>1, <2>2 DEF Carrier, IsCarrier, StreamIds
  <2>4. ~cancelled => Uncut(c.val)
    BY <2>3, <1>1, <1>u, <1>t, UncutApply DEF Known
  <2>5. OpenStreams' = OpenStreams \cup {c.st} /\ None \notin OpenStreams
    <3>1. PICK s : s = <<w, n>>
      OBVIOUS
    <3>2. OpenStreams' = OpenStreams \cup {s}
      BY <1>6, <1>a, <3>1, OpenChatOpened DEF shape, teeVars
    <3>3. QED
      BY <2>3, <3>1, <3>2, <1>t, OpenAre DEF Known
  <2>6. Moves(w, "reg", n, c)
    BY <1>1, <1>6, <2>1, <2>3, <1>a, <1>t DEF Known, Moves, Goto, Mobile, teeVars, consVars
  <2>7. Closes(w, "reg", n, c, {})
    <3>1. open' \subseteq ChatIds /\ UNCHANGED <<rclosed, live, closing>>
      BY <1>6, <2>2, <1>a, <1>t DEF Known
    <3>2. car[w].st \notin OpenStreams'
      BY <1>a, <2>2, <2>3, <2>5, ChatForm
    <3>3. QED
      BY <3>1, <3>2, <2>5 DEF Closes
  <2>8. Spares(w, "reg", c, {})
    BY <2>4, <2>5, <1>a DEF Spares, teeVars
  <2>9. QED
    BY <2>6, <2>7, <2>8, <1>l, MoveInv
<1>7. CASE UNCHANGED open /\ \E q \in PortsOf(g, n) : Goto(w, "walk", Target(g, n, q), Carrier(v))
  <2>1. PICK q \in PortsOf(g, n) : Goto(w, "walk", Target(g, n, q), Carrier(v))
    BY <1>7
  <2>2. PICK m : m = Target(g, n, q)
    OBVIOUS
  <2>3. PICK c : c = Carrier(v)
    OBVIOUS
  <2>4. m \in NodesOf(g) /\ Onward(w, m)
    BY <1>1, <2>2, <1>t, TargetNode DEF Known, Onward
  <2>5. IsCarrier(c) /\ c.st = None /\ c.val = v
    BY <2>3, CarrierForm
  <2>6. QED
    BY <1>7, <1>p, <1>u, <2>1, <2>2, <2>3, <2>4, <2>5
<1>8. QED
  BY <1>1, <1>2, <1>3, <1>4, <1>5, <1>6, <1>7 DEF Run

LEMMA RegisterKeeps == ASSUME ExecInv, NEW w \in Walkers, Register(w) PROVE ExecInv'
<1>t. Known(w)
  BY WalkerFacts
<1>a. /\ pc[w] = "reg" /\ live' = live \cup {car[w].st}
      /\ UNCHANGED <<shape, registry, open, teeVars, rclosed, closing, cancelled, consVars, logVars>>
  BY DEF Register
<1>b. car[w].st \in ChatIds
  <2>1. car[w].st = <<w, at[w]>> /\ at[w] \in AllNodes
    BY <1>a, <1>t, Node DEF Known, Named
  <2>2. QED
    BY <2>1, ChatId
<1>c. OpenStreams' = OpenStreams
  BY <1>a, OpenKept DEF shape, teeVars
<1>1. PICK c : c = car[w]
  OBVIOUS
<1>2. IsCarrier(c) /\ Advance(w, c)
  BY <1>1, <1>t, StoppedCarrier DEF Register, Known
<1>3. PICK p \in {"walk", "sink"}, n \in NodesOf(g) :
        Goto(w, p, n, c) /\ (p = "walk" => Onward(w, n)) /\ (p = "sink" => n = at[w])
  BY <1>2, <1>t, AdvanceIs DEF Known
<1>4. Moves(w, p, n, c)
  BY <1>1, <1>2, <1>3, <1>a, <1>b, <1>t, ChatForm DEF Known, Moves, Goto, Mobile, teeVars, consVars
<1>5. Closes(w, p, n, c, {})
  BY <1>1, <1>3, <1>a, <1>c, <1>t DEF Known, Closes
<1>6. Spares(w, p, c, {})
  BY <1>1, <1>3, <1>a, <1>c, <1>t DEF Known, Spares, teeVars
<1>7. QED
  BY <1>4, <1>5, <1>6, <1>a, MoveInv DEF logVars

LEMMA LeafEndsKeeps == ASSUME ExecInv, NEW w \in Walkers, LeafEnds(w) PROVE ExecInv'
<1>t. Known(w)
  BY WalkerFacts
<1>a. /\ pc[w] = "sink" /\ IsLeaf(w) /\ open' = open \ {car[w].st} /\ live' = live \ {car[w].st} /\ Stop(w, "end")
      /\ UNCHANGED <<shape, registry, teeVars, rclosed, closing, cancelled, consVars, logVars>>
  BY DEF LeafEnds
<1>b. w # 0 /\ pc[0] \notin {"join", "collect"}
  BY <1>a, <1>t, MergeHasNoTee DEF IsLeaf, Known
<1>1. PICK n : n = at[w]
  OBVIOUS
<1>2. PICK c : c = car[w]
  OBVIOUS
<1>3. PICK s : s = car[w].st
  OBVIOUS
<1>4. Goto(w, "end", n, c) /\ IsCarrier(c)
  BY <1>1, <1>2, <1>a, <1>t, StoppedCarrier DEF Known, Stop, Goto
<1>5. s \notin ReaderIds
  BY <1>3, <1>a, <1>t DEF Known, Named
<1>6. OpenStreams' = OpenStreams \ {s} /\ open' \subseteq ChatIds
  BY <1>3, <1>5, <1>a, <1>t, OpenChatClosed DEF Known, shape, teeVars
<1>7. Moves(w, "end", n, c)
  BY <1>1, <1>2, <1>3, <1>4, <1>5, <1>a, <1>b, <1>t DEF Known, Moves, Goto, Mobile, teeVars, consVars
<1>8. Closes(w, "end", n, c, {s})
  BY <1>2, <1>3, <1>6, <1>a, <1>t DEF Known, Closes
<1>9. Spares(w, "end", c, {s})
  BY <1>2, <1>3, <1>a, <1>b, <1>t DEF Known, Spares, teeVars
<1>10. QED
  BY <1>7, <1>8, <1>9, <1>a, MoveInv DEF logVars

(* A walk that stops with its stream, which stays registered. *)
LEMMA StopMove ==
  ASSUME ExecInv, NEW w \in Walkers, NEW p \in {"end", "err"}, pc[w] \in {"walk", "sink"}, Stop(w, p),
         UNCHANGED <<shape, live, open, bpc, src, hand, todo, buf, rclosed, closing, cancelled, cons, cutRuns>>,
         p = "end" => car[w].st \notin ReaderIds
  PROVE  ExecInv'
<1>t. Known(w)
  BY WalkerFacts
<1>1. PICK n : n = at[w]
  OBVIOUS
<1>2. PICK c : c = car[w]
  OBVIOUS
<1>3. Goto(w, p, n, c) /\ IsCarrier(c)
  BY <1>1, <1>2, <1>t, StoppedCarrier DEF Known, Stop, Goto
<1>4. OpenStreams' = OpenStreams
  BY OpenKept DEF shape
<1>5. Moves(w, p, n, c)
  BY <1>1, <1>2, <1>3, <1>t DEF Known, Moves, Goto, Mobile
<1>6. Closes(w, p, n, c, {})
  BY <1>2, <1>4, <1>t DEF Known, Closes, Waiting
<1>7. Spares(w, p, c, {})
  BY <1>2, <1>4, <1>t DEF Known, Spares
<1>8. QED
  BY <1>5, <1>6, <1>7, MoveInv

LEMMA SourceEndsKeeps == ASSUME ExecInv, NEW w \in Walkers, SourceEnds(w) PROVE ExecInv'
<1>t. Known(w)
  BY WalkerFacts
<1>a. /\ w # 0 /\ ~IsLeaf(w) /\ pc[w] \in {"walk", "sink"}
      /\ UNCHANGED <<shape, registry, live, open, teeVars, rclosed, closing, cancelled, consVars, logVars>>
      /\ \E p \in {"end", "err"} : Stop(w, p)
  BY DEF SourceEnds
<1>b. Teed = {}
  <2>1. w \in Keys /\ pc[w] # "idle"
    BY <1>a, WalkersAre
  <2>2. ~Handed(w)
    BY <1>a DEF IsLeaf, Handed
  <2>3. QED
    BY <2>1, <2>2, <1>t DEF Known, Planned
<1>c. car[w].st \notin ReaderIds
  BY <1>b, <1>t DEF Known, Named, Handed
<1>1. PICK p \in {"end", "err"} : Stop(w, p)
  BY <1>a
<1>2. QED
  BY <1>1, <1>a, <1>c, StopMove DEF teeVars, consVars, logVars

LEMMA SecondMergeKeeps == ASSUME ExecInv, SecondMerge PROVE ExecInv'
BY StopMove, WalkersAre DEF SecondMerge, teeVars, consVars, logVars

LEMMA JoinKeeps == ASSUME ExecInv, Join PROVE ExecInv'
<1>w. 0 \in Walkers
  BY WalkersAre
<1>t. Known(0)
  BY <1>w, WalkerFacts
<1>a. /\ pc[0] = "join" /\ (\A x \in todo[at[0]] : Ended(x)) /\ Stop(0, "collect")
      /\ UNCHANGED <<shape, registry, live, open, teeVars, rclosed, closing, cancelled, consVars, logVars>>
  BY DEF Join
<1>1. PICK n : n = at[0]
  OBVIOUS
<1>2. PICK c : c = car[0]
  OBVIOUS
<1>3. Goto(0, "collect", n, c) /\ IsCarrier(c) /\ c.st = None
  BY <1>1, <1>2, <1>a, <1>t, <1>w, StoppedCarrier DEF Known, Stop, Goto, Named
<1>4. OpenStreams' = OpenStreams /\ None \notin OpenStreams
  BY <1>a, <1>t, OpenKept, OpenAre DEF shape, teeVars, Known
<1>5. Moves(0, "collect", n, c)
  BY <1>1, <1>2, <1>3, <1>a, <1>t, NoneForm DEF Known, Moves, Goto, Mobile, teeVars, consVars
<1>6. Closes(0, "collect", n, c, {})
  BY <1>2, <1>3, <1>4, <1>a, <1>t DEF Known, Closes
<1>7. Spares(0, "collect", c, {})
  BY <1>2, <1>a, <1>t DEF Known, Spares, teeVars
<1>8. QED
  BY <1>5, <1>6, <1>7, <1>a, <1>w, MoveInv DEF logVars

LEMMA InvokeKeeps == ASSUME ExecInv, InvokeAndBox PROVE ExecInv'
<1>w. 0 \in Walkers
  BY WalkersAre
<1>t. Known(0)
  BY <1>w, WalkerFacts
<1>a. /\ pc[0] = "invoke"
      /\ UNCHANGED <<shape, registry, live, open, teeVars, rclosed, closing, cancelled, cutRuns>>
  BY DEF InvokeAndBox
<1>b. Teed = {} /\ car[0].st = None
  BY <1>a, <1>t DEF Known, Planned, Named
<1>1. CASE Goto(0, "tail", g.exit, Carrier(invoke.result)) /\ cons' = "reader"
  <2>1. PICK n : n = g.exit
    OBVIOUS
  <2>2. PICK c : c = Carrier(invoke.result)
    OBVIOUS
  <2>3. n \in NodesOf(g) /\ IsCarrier(c) /\ c.st = None
    BY <2>1, <2>2, <1>t, GraphsAssumption, CarrierForm DEF Known
  <2>4. QED
    BY <1>1, <2>1, <2>2, <2>3, <1>a, <1>b, <1>w, PlainMove DEF teeVars, Mobile
<1>2. CASE Stop(0, "err") /\ UNCHANGED cons
  <2>1. PICK n : n = at[0]
    OBVIOUS
  <2>2. PICK c : c = car[0]
    OBVIOUS
  <2>3. Goto(0, "err", n, c) /\ n \in NodesOf(g) /\ IsCarrier(c) /\ c.st = None /\ (~cancelled => Uncut(c.val))
    BY <1>2, <2>1, <2>2, <1>a, <1>b, <1>t, <1>w, StoppedCarrier DEF Known, Stop, Goto
  <2>4. QED
    BY <1>2, <2>3, <1>a, <1>b, <1>w, PlainMove DEF teeVars, Mobile
<1>3. QED
  BY <1>1, <1>2 DEF InvokeAndBox

LEMMA CombineKeeps == ASSUME ExecInv, Combine PROVE ExecInv'
<1>w. 0 \in Walkers
  BY WalkersAre
<1>t. Known(0)
  BY <1>w, WalkerFacts
<1>1. PICK n : n = at[0]
  OBVIOUS
<1>2. PICK v : v = car[0].val
  OBVIOUS
<1>a. /\ pc[0] = "collect" /\ Logged(n, v)
      /\ UNCHANGED <<shape, registry, live, open, teeVars, rclosed, closing, cancelled, consVars>>
  BY <1>1, <1>2 DEF Combine
<1>u. ~cancelled => Uncut(v)
  BY <1>2, <1>a, <1>t DEF Known
<1>l. cutRuns' = cutRuns /\ car[0].st = None
  BY <1>a, <1>u, <1>t, UncutIs DEF Logged, Known, Named
<1>3. CASE Stop(0, "err")
  <2>1. PICK c : c = car[0]
    OBVIOUS
  <2>2. Goto(0, "err", n, c) /\ IsCarrier(c) /\ n \in NodesOf(g)
    BY <1>1, <1>3, <2>1, <1>t, <1>w, StoppedCarrier DEF Known, Stop, Goto
  <2>3. QED
    BY <1>1, <1>2, <1>a, <1>l, <1>u, <1>w, <2>1, <2>2, PlainMove DEF teeVars, consVars, Mobile
<1>4. CASE Advance(0, Carrier(Apply(g, n, v)))
  <2>1. PICK c : c = Carrier(Apply(g, n, v))
    OBVIOUS
  <2>2. IsCarrier(c) /\ c.st = None /\ c.val = Apply(g, n, v)
    BY <2>1, CarrierForm
  <2>3. ~cancelled => Uncut(c.val)
    BY <2>2, <1>1, <1>u, <1>t, UncutApply DEF Known
  <2>4. Advance(0, c)
    BY <1>4, <2>1
  <2>5. PICK p \in {"walk", "sink"}, m \in NodesOf(g) :
          Goto(0, p, m, c) /\ (p = "walk" => Onward(0, m)) /\ (p = "sink" => m = at[0])
    BY <2>4, <1>t, <1>w, AdvanceIs DEF Known
  <2>6. QED
    BY <1>a, <1>l, <1>w, <2>2, <2>3, <2>5, PlainMove DEF teeVars, consVars, Mobile
<1>5. QED
  BY <1>1, <1>2, <1>3, <1>4 DEF Combine

LEMMA CollectKeeps == ASSUME ExecInv, Collect PROVE ExecInv'
<1>w. 0 \in Walkers /\ Keys \subseteq Nat
  BY WalkersAre
<1>t. Known(0)
  BY <1>w, WalkerFacts
<1>1. PICK m : m = at[0]
  OBVIOUS
<1>2. PICK k : k = Min(todo[m])
  OBVIOUS
<1>a. /\ pc[0] = "collect" /\ todo[m] # {} /\ todo' = [todo EXCEPT ![m] = todo[m] \ {k}]
      /\ live' = (IF pc[k] = "err" THEN live ELSE live \ {car[k].st})
      /\ UNCHANGED <<shape, registry, bpc, src, left, hand, buf, rclosed, closing, cancelled, consVars, logVars>>
  BY <1>1, <1>2 DEF Collect
<1>b. m \in Merges /\ todo[m] \subseteq Keys /\ car[0].st = None /\ m \in Fans /\ \A j \in todo[m] : Ended(j)
  BY <1>1, <1>a, <1>t DEF Known, Planned, Named, Merges, Fans, ExecType
<1>c. k \in todo[m] /\ k \in Keys /\ pc[k] \in {"idle", "end", "err"}
  BY <1>2, <1>a, <1>b, <1>w, MinIs DEF Ended
<1>d. todo'[m] = todo[m] \ {k} /\ DOMAIN todo' = Fans
  BY <1>a, <1>b, <1>t DEF Known
<1>k. Known(k)
  BY <1>c, WalkersAre, WalkerFacts
<1>p. ASSUME NEW p \in {"collect", "err"}, NEW c, NEW S, Goto(0, p, m, c), IsCarrier(c), c.st = None,
             OpenStreams' = OpenStreams \ S, open' \subseteq ChatIds, live \ live' \subseteq S \cup {None}, live' \subseteq live,
             S = {} \/ (pc[k] = "end" /\ S \subseteq {car[k].st}), ~cancelled => Uncut(c.val)
      PROVE  ExecInv'
  <2>1. Moves(0, p, m, c)
    BY <1>p, <1>1, <1>a, <1>b, <1>d, <1>t, NoneForm DEF Known, Moves, Goto, Mobile, consVars, StreamIds
  <2>2. Closes(0, p, m, c, S)
    BY <1>p, <1>a, <1>b, <1>t, OpenAre DEF Known, Closes
  <2>3. Spares(0, p, c, S)
    BY <1>p, <1>1, <1>a, <1>c, <1>d DEF Spares
  <2>4. QED
    BY <2>1, <2>2, <2>3, <1>a, <1>w, MoveInv DEF logVars
<1>3. CASE pc[k] = "err" /\ Stop(0, "err") /\ UNCHANGED open
  <2>1. PICK c : c = car[0]
    OBVIOUS
  <2>2. Goto(0, "err", m, c) /\ IsCarrier(c) /\ c.st = None /\ (~cancelled => Uncut(c.val))
    BY <1>1, <1>3, <2>1, <1>a, <1>b, <1>t, <1>w, StoppedCarrier DEF Known, Stop, Goto
  <2>3. OpenStreams' = OpenStreams \ {} /\ live' = live
    BY <1>3, <1>a, OpenKept DEF shape
  <2>4. QED
    BY <1>3, <1>p, <1>t, <2>2, <2>3 DEF Known
<1>4. CASE pc[k] # "err" /\ car[k].st = None /\ UNCHANGED open
           /\ Goto(0, "collect", m, Carrier(car[0].val \cup car[k].val))
  <2>1. PICK c : c = Carrier(car[0].val \cup car[k].val)
    OBVIOUS
  <2>2. IsCarrier(c) /\ c.st = None /\ c.val = car[0].val \cup car[k].val
    BY <2>1, CarrierForm
  <2>3. ~cancelled => Uncut(c.val)
    BY <2>2, <1>a, <1>c, <1>t, <1>k, UncutUnion DEF Known
  <2>4. OpenStreams' = OpenStreams \ {} /\ live' = live \ {None}
    BY <1>4, <1>a, OpenKept DEF shape
  <2>5. QED
    BY <1>4, <1>p, <1>t, <2>1, <2>2, <2>3, <2>4 DEF Known
<1>5. ASSUME pc[k] # "err", car[k].st # None, open' = open \ {car[k].st}, NEW p \in {"collect", "err"}, NEW c,
             Goto(0, p, m, c), IsCarrier(c), c.st = None, ~cancelled => Uncut(c.val)
      PROVE  ExecInv'
  <2>1. pc[k] = "end" /\ car[k].st \notin ReaderIds
    BY <1>5, <1>c, <1>k DEF Known, Named
  <2>2. PICK s : s = car[k].st
    OBVIOUS
  <2>3. OpenStreams' = OpenStreams \ {s} /\ open' \subseteq ChatIds
    BY <1>5, <2>1, <2>2, <1>a, <1>t, OpenChatClosed DEF Known, shape
  <2>4. live' = live \ {s}
    BY <1>5, <2>2, <1>a
  <2>5. QED
    BY <1>5, <1>p, <2>1, <2>2, <2>3, <2>4
<1>6. CASE pc[k] # "err" /\ car[k].st # None /\ open' = open \ {car[k].st}
           /\ Goto(0, "collect", m, Carrier(car[0].val \cup car[k].val))
  <2>1. PICK c : c = Carrier(car[0].val \cup car[k].val)
    OBVIOUS
  <2>2. IsCarrier(c) /\ c.st = None /\ c.val = car[0].val \cup car[k].val
    BY <2>1, CarrierForm
  <2>3. ~cancelled => Uncut(c.val)
    BY <2>2, <1>a, <1>c, <1>t, <1>k, UncutUnion DEF Known
  <2>4. QED
    BY <1>5, <1>6, <2>1, <2>2, <2>3
<1>7. CASE pc[k] # "err" /\ car[k].st # None /\ open' = open \ {car[k].st} /\ car[k].st \notin open
           /\ Goto(0, "collect", m, Carrier(car[0].val \cup Cut))
  <2>1. PICK c : c = Carrier(car[0].val \cup Cut)
    OBVIOUS
  <2>2. IsCarrier(c) /\ c.st = None
    BY <2>1, CarrierForm
  <2>3. pc[k] = "end" /\ car[k].st \in ChatIds
    BY <1>7, <1>c, <1>k, WalkersAre DEF Known, Named, ExecType, IsCarrier, StreamIds
  <2>4. ~cancelled => car[k].st \in OpenStreams
    BY <1>1, <1>7, <2>3, <1>a, <1>c DEF ExecInv, Alive, StillOpen
  <2>5. cancelled
    BY <1>7, <2>3, <2>4, <1>t, OpenForm DEF Known
  <2>6. QED
    BY <1>5, <1>7, <2>1, <2>2, <2>5
<1>8. CASE pc[k] # "err" /\ car[k].st # None /\ open' = open \ {car[k].st} /\ Stop(0, "err")
  <2>1. PICK c : c = car[0]
    OBVIOUS
  <2>2. Goto(0, "err", m, c) /\ IsCarrier(c) /\ c.st = None /\ (~cancelled => Uncut(c.val))
    BY <1>1, <1>8, <2>1, <1>a, <1>b, <1>t, <1>w, StoppedCarrier DEF Known, Stop, Goto
  <2>3. QED
    BY <1>5, <1>8, <2>2
<1>9. QED
  BY <1>1, <1>2, <1>3, <1>4, <1>6, <1>7, <1>8 DEF Collect, FoldChat

LEMMA TailKeeps == ASSUME ExecInv, materialiseTail PROVE ExecInv'
<1>w. 0 \in Walkers
  BY WalkersAre
<1>t. Known(0)
  BY <1>w, WalkerFacts
<1>1. PICK n : n = at[0]
  OBVIOUS
<1>2. PICK s : s = car[0].st
  OBVIOUS
<1>a. /\ pc[0] = "sink" /\ live' = live \ {s}
      /\ UNCHANGED <<shape, registry, teeVars, rclosed, closing, result, logVars, faults>>
  BY <1>2 DEF materialiseTail
<1>b. s \notin ReaderIds
  BY <1>2, <1>a, <1>t DEF Known, Named
<1>3. CASE /\ Goto(0, "tail", at[0], [car[0] EXCEPT !.fold = Folds(registry, g.O, car[0].elem)])
           /\ cons' = "reader" /\ UNCHANGED open
           /\ cancelled' = (cancelled \/ (plan = "graph" /\ ~Wrapped))
  <2>1. PICK f : f = Folds(registry, g.O, car[0].elem)
    OBVIOUS
  <2>2. PICK c : c = [car[0] EXCEPT !.fold = f]
    OBVIOUS
  <2>3. IsCarrier(c) /\ c.st = s
    BY <1>2, <2>2, <1>t, <1>w, StoppedCarrier DEF Known
  <2>4. Goto(0, "tail", n, c)
    BY <1>1, <1>3, <2>1, <2>2
  <2>5. OpenStreams' = OpenStreams
    BY <1>3, <1>a, OpenKept DEF shape, teeVars
  <2>6. Moves(0, "tail", n, c)
    BY <1>1, <1>2, <1>3, <2>3, <2>4, <1>a, <1>b, <1>t DEF Known, Moves, Goto, Mobile, teeVars
  <2>7. Closes(0, "tail", n, c, {})
    BY <1>2, <1>3, <2>3, <2>5, <1>a, <1>t DEF Known, Closes
  <2>8. Spares(0, "tail", c, {})
    BY <1>a DEF Spares, teeVars
  <2>9. QED
    BY <2>6, <2>7, <2>8, <1>a, <1>w, MoveInv DEF logVars
<1>4. CASE Stop(0, "err") /\ open' = open \ {car[0].st} /\ UNCHANGED <<cons, cancelled>>
  <2>1. PICK c : c = car[0]
    OBVIOUS
  <2>2. Goto(0, "err", n, c) /\ IsCarrier(c)
    BY <1>1, <1>4, <2>1, <1>t, <1>w, StoppedCarrier DEF Known, Stop, Goto
  <2>3. OpenStreams' = OpenStreams \ {s} /\ open' \subseteq ChatIds
    BY <1>2, <1>4, <1>a, <1>b, <1>t, OpenChatClosed DEF Known, shape, teeVars
  <2>4. Moves(0, "err", n, c)
    BY <1>1, <1>4, <2>1, <2>2, <1>a, <1>t DEF Known, Moves, Goto, Mobile, teeVars
  <2>5. Closes(0, "err", n, c, {s})
    BY <1>2, <2>1, <2>3, <1>a, <1>t DEF Known, Closes
  <2>6. Spares(0, "err", c, {s})
    BY <1>2, <1>4, <2>1, <1>a, <1>t DEF Known, Spares, teeVars
  <2>7. QED
    BY <2>4, <2>5, <2>6, <1>a, <1>w, MoveInv DEF logVars
<1>5. QED
  BY <1>3, <1>4 DEF materialiseTail

(***************************************************************************)
(* A step of a broadcaster, the consumer, closeAll or the program: no       *)
(* walker moves and nothing is teed; the streams of S are closed.           *)
(***************************************************************************)
Elsewhere(S) ==
  /\ UNCHANGED <<shape, walkVars, src, cutRuns>> /\ Teed' = Teed
  /\ bpc' \in [Copies -> {"idle", "pull", "wait", "send", "done"}]
  /\ hand' \in [Copies -> Items] /\ DOMAIN todo' = Fans
  /\ buf' \in [Keys -> {<<>>} \cup {<<i>> : i \in Items}]
  /\ Teed = {} => todo' = todo
  /\ live' \subseteq live /\ live' \cup closing' \subseteq live \cup closing
  /\ (live \cup closing) \ S \subseteq live' \cup closing'
  /\ open' \subseteq open /\ rclosed' \subseteq Keys \cap TeedKeys
  /\ OpenStreams' = OpenStreams \ S
  /\ \A c \in Teed : bpc[c] = "done" => bpc'[c] = "done"
  /\ \A c \in Teed : bpc'[c] = "done" => bpc[c] = "done" \/ src[c].st \in S \cup {None}
  /\ cancelled' \in BOOLEAN /\ (cancelled => cancelled')
  /\ Consumer'

SparesAll(S) ==
  /\ \A w \in Walkers : pc[w] \in {"walk", "fold", "next", "reg", "sink"} => car[w].st \notin S
  /\ pc[0] \in {"join", "collect"} => \A w \in todo[at[0]] : pc[w] = "end" => car[w].st \notin S
  /\ \A c \in Teed : bpc'[c] # "done" => src[c].st \notin S
  /\ \A w \in Walkers : pc[w] = "spawn" => KeysOf(at[w]) \cap rclosed' = {}
  /\ \A c \in Copies : hand'[c] # "cut"
  /\ \A k \in Keys : buf'[k] # <<"cut">>

LEMMA ElsewhereHandOver == ASSUME HandOver, NEW S, Elsewhere(S) PROVE HandOver'
<1>f. /\ UNCHANGED <<shape, pc, at, car, src>> /\ Teed' = Teed
      /\ UNCHANGED <<g, plan>>
  BY DEF Elsewhere, walkVars, shape
<1>k. TeedKeys' = TeedKeys /\ Merges' = Merges
  BY <1>f DEF TeedKeys, KeysOf, Merges
<1>h. \A k : Handed(k) => Handed(k)'
  BY <1>f, HandedKept
<1>1. ExecType'
  BY <1>f DEF HandOver, ExecType, Elsewhere
<1>2. Planned'
  <2>1. pc[0] \in {"join", "collect"} => todo' = todo
    BY MergeHasNoTee DEF Elsewhere
  <2>2. QED
    BY <1>f, <1>k, <1>h, <2>1 DEF HandOver, Planned, Ended, Merges
<1>3. Names'
  <2>1. \A w \in Walkers : Named(w)'
    BY <1>f, <1>h DEF HandOver, Names, Named
  <2>2. \A c \in Teed' : TeeNamed(c)'
    BY <1>f, <1>h DEF HandOver, Names, TeeNamed
  <2>3. QED
    BY <1>f, <1>k, <2>1, <2>2 DEF HandOver, Names, Elsewhere
<1>4. Exclusive'
  BY <1>f DEF HandOver, Exclusive, Elsewhere
<1>5. QED
  BY <1>1, <1>2, <1>3, <1>4 DEF HandOver, Elsewhere

LEMMA ElsewhereOwned == ASSUME HandOver, Ownership, NEW S, Elsewhere(S) PROVE Ownership'
<1>f. /\ UNCHANGED <<shape, pc, at, car, src>> /\ Teed' = Teed
      /\ UNCHANGED <<g, plan>> /\ \A d : KeysOf(d)' = KeysOf(d)
  BY DEF Elsewhere, walkVars, shape, KeysOf
<1>k. TeedKeys' = TeedKeys
  BY <1>f DEF TeedKeys, KeysOf
<1>o. OpenStreams' = OpenStreams \ S /\ None \notin OpenStreams
  BY OpenAre DEF Elsewhere, HandOver
<1>l. \A s \in live \cup closing : s \in live' \cup closing' \/ s \in S
  BY DEF Elsewhere
<1>1. ASSUME NEW w \in Walkers PROVE Waiting(w)'
  <2>1. (pc[w] \in {"walk", "sink"} /\ car[w].st \in OpenStreams => car[w].st \in live \cup closing)'
    BY <1>f, <1>o, <1>l DEF Ownership, Waiting
  <2>2. ASSUME pc[w] = "spawn", NEW k \in KeysOf(at[w]) \ rclosed' PROVE <<k>> \in live' \cup closing'
    <3>1. k \in TeedKeys
      BY <2>2, NotHanded
    <3>2. <<k>> \in OpenStreams'
      BY <1>k, <3>1, OpenIsThen
    <3>3. <<k>> \in OpenStreams /\ <<k>> \notin S
      BY <3>2, <1>o
    <3>4. k \notin rclosed
      BY <2>2, <3>3, OpenReader
    <3>5. QED
      BY <2>2, <3>3, <3>4, <1>l DEF Ownership, Waiting
  <2>3. QED
    BY <1>f, <2>1, <2>2 DEF Waiting
<1>2. (\A c \in Teed : bpc[c] = "done" => src[c].st \notin OpenStreams)'
  BY <1>f, <1>o DEF Ownership, Elsewhere
<1>3. ASSUME NEW s \in OpenStreams' PROVE Owned(s)' \/ s \in Unfoldable'
  <2>1. s \in OpenStreams /\ s \notin S /\ s # None
    BY <1>o
  <2>2. CASE s \in live \cup closing
    BY <2>1, <2>2, <1>l DEF Owned
  <2>3. CASE Teeing(s) # {}
    <3>1. PICK c \in Teed : src[c].st = s /\ bpc[c] # "done"
      BY <2>3 DEF Teeing
    <3>2. bpc'[c] # "done"
      BY <2>1, <3>1 DEF Elsewhere
    <3>3. c \in Teeing(s)'
      BY <1>f, <3>1, <3>2 DEF Teeing
    <3>4. QED
      BY <3>3 DEF Owned
  <2>4. CASE Holding(s) # {}
    BY <2>4, <1>f DEF Owned, Holding, Ended
  <2>5. CASE s \in Unfoldable
    BY <2>5, <1>f DEF Unfoldable, Boundary, Here
  <2>6. QED
    BY <2>1, <2>2, <2>3, <2>4, <2>5 DEF Ownership, Owned
<1>4. QED
  BY <1>1, <1>2, <1>3 DEF Ownership

LEMMA ElsewhereInv ==
  ASSUME ExecInv, NEW S, Elsewhere(S), ~cancelled' => SparesAll(S)
  PROVE  ExecInv'
<1>f. /\ UNCHANGED <<shape, pc, at, car, src, cutRuns>> /\ Teed' = Teed
      /\ UNCHANGED <<g, plan>> /\ \A d : KeysOf(d)' = KeysOf(d)
  BY DEF Elsewhere, walkVars, shape, KeysOf
<1>1. HandOver' /\ Ownership'
  BY ElsewhereHandOver, ElsewhereOwned DEF ExecInv
<1>2. ASSUME ~cancelled' PROVE Alive' /\ Whole'
  <2>1. Alive /\ Whole /\ SparesAll(S) /\ OpenStreams' = OpenStreams \ S
    BY <1>2 DEF ExecInv, Elsewhere
  <2>2. \A s : StillOpen(s) /\ s \notin S => StillOpen(s)'
    BY <2>1 DEF StillOpen
  <2>3. (\A w \in Walkers : pc[w] \in {"walk", "fold", "next", "reg", "sink"} => StillOpen(car[w].st))'
    BY <2>1, <1>f DEF Alive, SparesAll, StillOpen
  <2>4. (pc[0] \in {"join", "collect"} => \A w \in todo[at[0]] : pc[w] = "end" => StillOpen(car[w].st))'
    <3>1. pc[0] \in {"join", "collect"} => todo' = todo
      BY MergeHasNoTee DEF Elsewhere, ExecInv
    <3>2. QED
      BY <2>1, <3>1, <1>f DEF Alive, SparesAll, StillOpen
  <2>5. (\A c \in Teed : bpc[c] # "done" => StillOpen(src[c].st))'
    BY <2>1, <1>f DEF Alive, SparesAll, StillOpen, Elsewhere
  <2>6. (\A w \in Walkers : pc[w] = "spawn" => KeysOf(at[w]) \cap rclosed = {})'
    BY <2>1, <1>f DEF SparesAll
  <2>7. Whole'
    BY <2>1, <1>f DEF Whole, SparesAll
  <2>8. QED
    BY <2>3, <2>4, <2>5, <2>6, <2>7 DEF Alive
<1>3. QED
  BY <1>1, <1>2, <1>f DEF ExecInv, WholeInputs

(***************************************************************************)
(* The broadcasters.                                                       *)
(***************************************************************************)
LEMMA TeeStep ==
  ASSUME ExecInv, NEW c \in Copies, bpc[c] \notin {"idle", "done"}, NEW b \in {"pull", "wait", "send"},
         bpc' = [bpc EXCEPT ![c] = b],
         hand' \in [Copies -> Items], DOMAIN todo' = Fans, buf' \in [Keys -> {<<>>} \cup {<<i>> : i \in Items}],
         UNCHANGED <<shape, walkVars, live, open, src, rclosed, closing, cancelled, consVars, logVars>>,
         ~cancelled => (\A d \in Copies : hand'[d] # "cut") /\ \A k \in Keys : buf'[k] # <<"cut">>
  PROVE  ExecInv'
<1>1. c \in Teed /\ Teed' = Teed
  BY DEF Teed, ExecInv, HandOver, ExecType
<1>2. OpenStreams' = OpenStreams /\ TeedKeys' = TeedKeys
  <2>1. TeedKeys' = TeedKeys
    BY <1>1 DEF TeedKeys, KeysOf, shape
  <2>2. QED
    BY <2>1, OpenIs, OpenIsThen
<1>3. Elsewhere({})
  <2>1. Consumer'
    BY DEF ExecInv, HandOver, Consumer, walkVars, consVars, shape
  <2>2. rclosed' \subseteq Keys \cap TeedKeys
    BY DEF ExecInv, HandOver, ExecType, Names
  <2>3. /\ bpc' \in [Copies -> {"idle", "pull", "wait", "send", "done"}]
        /\ \A d \in Teed : bpc[d] = "done" => bpc'[d] = "done"
        /\ \A d \in Teed : bpc'[d] = "done" => bpc[d] = "done"
    BY DEF ExecInv, HandOver, ExecType, Teed
  <2>4. cancelled \in BOOLEAN
    BY DEF ExecInv, HandOver, ExecType
  <2>5. QED
    BY <1>1, <1>2, <2>1, <2>2, <2>3, <2>4 DEF Elsewhere, logVars
<1>4. ~cancelled' => SparesAll({})
  <2>1. ~cancelled => \A w \in Walkers : pc[w] = "spawn" => KeysOf(at[w]) \cap rclosed' = {}
    BY DEF ExecInv, Alive
  <2>2. QED
    BY <2>1 DEF SparesAll
<1>5. QED
  BY <1>3, <1>4, ElsewhereInv

LEMMA TeeFacts ==
  ASSUME ExecInv, NEW c \in Copies
  PROVE  /\ hand \in [Copies -> Items] /\ bpc \in [Copies -> {"idle", "pull", "wait", "send", "done"}]
         /\ DOMAIN todo = Fans /\ c \in Fans /\ buf \in [Keys -> {<<>>} \cup {<<i>> : i \in Items}]
         /\ ExecType /\ Planned /\ src[c].st \in ReaderIds \cup ChatIds \cup {None}
         /\ ~cancelled => (\A d \in Copies : hand[d] # "cut") /\ \A k \in Keys : buf[k] # <<"cut">>
         /\ ~cancelled /\ bpc[c] \notin {"idle", "done"} => src[c].st \in OpenStreams \cup {None}
BY DEF ExecInv, HandOver, ExecType, Whole, Alive, StillOpen, Teed, Fans, IsCarrier, StreamIds

LEMMA ServeIs ==
  ASSUME ExecInv, NEW c \in Copies, NEW f \in Items, Serve(c, f), ~cancelled => f # "cut"
  PROVE  /\ bpc' = [bpc EXCEPT ![c] = "send"] /\ hand' \in [Copies -> Items] /\ DOMAIN todo' = Fans
         /\ ~cancelled => \A d \in Copies : hand'[d] # "cut"
BY TeeFacts DEF Serve

LEMMA PullKeeps == ASSUME ExecInv, NEW c \in Copies, Pull(c) PROVE ExecInv'
<1>a. /\ bpc[c] = "pull" /\ ~IsReader(src[c].st)
      /\ UNCHANGED <<shape, registry, walkVars, live, open, src, buf, rclosed, closing, cancelled, consVars, logVars>>
  BY DEF Pull
<1>b. src[c].st # None /\ src[c].st \notin open => cancelled
  <2>1. src[c].st \notin ReaderIds
    BY <1>a, ReaderForm
  <2>2. QED
    BY <1>a, <2>1, TeeFacts, OpenForm
<1>1. \E f \in Items : Serve(c, f) /\ (~cancelled => f # "cut")
  BY <1>b DEF Pull, Items
<1>2. QED
  BY <1>1, <1>a, ServeIs, TeeFacts, TeeStep

LEMMA HeadIs ==
  ASSUME ExecInv, NEW k \in Keys, buf[k] # <<>>
  PROVE  Head(buf[k]) \in Items /\ (~cancelled => Head(buf[k]) # "cut")
<1>1. PICK i \in Items : buf[k] = <<i>>
  BY DEF ExecInv, HandOver, ExecType
<1>2. Head(buf[k]) = i
  BY <1>1, EmptyIsNot
<1>3. ~cancelled => i # "cut"
  BY <1>1 DEF ExecInv, Whole
<1>4. QED
  BY <1>2, <1>3

LEMMA PullReaderKeeps == ASSUME ExecInv, NEW c \in Copies, PullReader(c) PROVE ExecInv'
<1>1. PICK k : k = src[c].st[1]
  OBVIOUS
<1>a. /\ bpc[c] \in {"pull", "wait"} /\ IsReader(src[c].st)
      /\ UNCHANGED <<shape, registry, walkVars, live, open, src, left, rclosed, closing, cancelled, consVars, logVars>>
  BY DEF PullReader
<1>b. src[c].st \in ReaderIds /\ k \in Keys
  <2>1. src[c].st \in ReaderIds
    BY <1>a, TeeFacts, ChatForm, NoneForm
  <2>2. QED
    BY <1>1, <2>1, ReaderForm
<1>2. CASE k \in rclosed /\ Serve(c, "cut") /\ UNCHANGED buf
  <2>1. cancelled
    BY <1>1, <1>2, <1>a, <1>b, TeeFacts, OpenForm, ReaderForm
  <2>2. "cut" \in Items
    BY DEF Items
  <2>3. QED
    BY <1>2, <1>a, <2>1, <2>2, ServeIs, TeeFacts, TeeStep
<1>3. CASE bpc' = [bpc EXCEPT ![c] = "wait"] /\ UNCHANGED <<hand, todo, buf>>
  BY <1>3, <1>a, TeeFacts, TeeStep
<1>4. CASE buf[k] # <<>> /\ Serve(c, Head(buf[k])) /\ buf' = [buf EXCEPT ![k] = <<>>]
  <2>1. PICK f : f = Head(buf[k])
    OBVIOUS
  <2>2. f \in Items /\ (~cancelled => f # "cut")
    BY <1>4, <1>b, <2>1, HeadIs
  <2>3. buf' \in [Keys -> {<<>>} \cup {<<i>> : i \in Items}] /\ (~cancelled => \A j \in Keys : buf'[j] # <<"cut">>)
    BY <1>4, TeeFacts, EmptyIsNot
  <2>4. QED
    BY <1>4, <1>a, <2>1, <2>2, <2>3, ServeIs, TeeStep
<1>5. QED
  BY <1>1, <1>2, <1>3, <1>4 DEF PullReader

LEMMA SendKeeps == ASSUME ExecInv, NEW c \in Copies, Send(c) PROVE ExecInv'
<1>1. PICK k : k = Min(todo[c])
  OBVIOUS
<1>a. /\ bpc[c] = "send" /\ todo' = [todo EXCEPT ![c] = todo[c] \ {k}]
      /\ UNCHANGED buf \/ buf' = [buf EXCEPT ![k] = <<hand[c]>>]
      /\ UNCHANGED <<shape, registry, walkVars, live, open, bpc, src, left, hand, rclosed, closing,
                     cancelled, consVars, logVars>>
  BY <1>1 DEF Send
<1>2. bpc' = [bpc EXCEPT ![c] = "send"] /\ DOMAIN todo' = Fans /\ hand' \in [Copies -> Items] /\ hand[c] \in Items
  BY <1>a, TeeFacts
<1>3. <<hand[c]>> = <<"cut">> => hand[c] = "cut"
  OBVIOUS
<1>4. /\ buf' \in [Keys -> {<<>>} \cup {<<i>> : i \in Items}]
      /\ ~cancelled => (\A d \in Copies : hand'[d] # "cut") /\ \A j \in Keys : buf'[j] # <<"cut">>
  BY <1>2, <1>3, <1>a, TeeFacts
<1>5. QED
  BY <1>2, <1>4, <1>a, TeeStep

LEMMA NextFrameKeeps == ASSUME ExecInv, NEW c \in Copies, NextFrame(c) PROVE ExecInv'
BY TeeFacts, TeeStep DEF NextFrame

LEMMA CloseIs ==
  ASSUME HandOver, Teed' = Teed, g' = g, NEW s \in StreamIds \cup {None}, CloseStream(s),
         s \in ReaderIds => s[1] \in TeedKeys
  PROVE  /\ OpenStreams' = OpenStreams \ {s} /\ open' \subseteq open
         /\ rclosed' \subseteq Keys \cap TeedKeys /\ rclosed' \subseteq rclosed \cup {k \in Keys : <<k>> = s}
         /\ buf' \in [Keys -> {<<>>} \cup {<<i>> : i \in Items}] /\ \A k \in Keys : buf'[k] \in {buf[k], <<>>}
<1>k. TeedKeys' = TeedKeys
  BY DEF TeedKeys, KeysOf
<1>r. rclosed \subseteq Keys \cap TeedKeys /\ buf \in [Keys -> {<<>>} \cup {<<i>> : i \in Items}] /\ open \subseteq ChatIds
  BY DEF HandOver, ExecType, Names
<1>1. CASE s \in ReaderIds
  <2>1. PICK k \in Keys : s = <<k>> /\ s[1] = k /\ IsReader(s)
    BY <1>1, ReaderForm
  <2>2. rclosed' = rclosed \cup {k} /\ buf' = [buf EXCEPT ![k] = <<>>] /\ open' = open
    BY <2>1 DEF CloseStream
  <2>3. <<k>> \notin open /\ \A j : <<j>> = <<k>> => j = k
    BY <1>r, ReaderId, ReaderForm
  <2>4. OpenStreams' = OpenStreams \ {s}
    BY <1>k, <2>1, <2>2, <2>3, OpenIs, OpenIsThen
  <2>5. QED
    BY <1>1, <1>r, <2>1, <2>2, <2>4
<1>2. CASE s \notin ReaderIds
  <2>1. ~IsReader(s)
    BY <1>2, ChatForm, NoneForm DEF StreamIds
  <2>2. open' = open \ {s} /\ UNCHANGED <<rclosed, buf>>
    BY <2>1 DEF CloseStream
  <2>3. ASSUME NEW k \in TeedKeys PROVE <<k>> \in ReaderIds
    <3>1. PICK c \in Teed : k \in KeysOf(c)
      BY DEF TeedKeys
    <3>2. k \in Keys
      BY <3>1, CopyKeys DEF HandOver, ExecType, Planned, KeysOf
    <3>3. QED
      BY <3>2, ReaderId
  <2>4. OpenStreams' = OpenStreams \ {s}
    BY <1>2, <1>k, <2>2, <2>3, OpenIs, OpenIsThen
  <2>5. QED
    BY <1>r, <2>2, <2>4
<1>3. QED
  BY <1>1, <1>2

LEMMA BroadcastEndsKeeps == ASSUME ExecInv, NEW c \in Copies, BroadcastEnds(c) PROVE ExecInv'
<1>a. /\ bpc[c] = "send" /\ bpc' = [bpc EXCEPT ![c] = "done"] /\ CloseStream(src[c].st)
      /\ UNCHANGED <<shape, registry, walkVars, live, src, left, hand, todo, closing, cancelled, consVars, logVars>>
  BY DEF BroadcastEnds
<1>h. HandOver /\ ExecType /\ Planned /\ Names /\ Exclusive
  BY DEF ExecInv, HandOver
<1>1. c \in Teed /\ Teed' = Teed /\ g' = g
  BY <1>a, <1>h DEF Teed, ExecType, shape
<1>2. PICK s : s = src[c].st
  OBVIOUS
<1>3. s \in StreamIds \cup {None} /\ (s \in ReaderIds => Handed(s[1]) /\ s[1] \in TeedKeys)
  <2>1. IsCarrier(src[c]) /\ TeeNamed(c)
    BY <1>1, <1>h DEF ExecType, Names
  <2>2. s \in ReaderIds => Handed(s[1])
    BY <1>2, <2>1 DEF TeeNamed
  <2>3. QED
    BY <1>2, <2>1, <2>2 DEF IsCarrier, Handed, TeedKeys
<1>4. /\ OpenStreams' = OpenStreams \ {s} /\ open' \subseteq open
      /\ rclosed' \subseteq Keys \cap TeedKeys /\ rclosed' \subseteq rclosed \cup {k \in Keys : <<k>> = s}
      /\ buf' \in [Keys -> {<<>>} \cup {<<i>> : i \in Items}] /\ \A k \in Keys : buf'[k] \in {buf[k], <<>>}
  BY <1>1, <1>2, <1>3, <1>a, <1>h, CloseIs
<1>5. PICK S : S = {s} \ {None}
  OBVIOUS
<1>6. OpenStreams' = OpenStreams \ S
  BY <1>4, <1>5, <1>h, OpenAre
<1>7. Elsewhere(S)
  <2>1. Consumer'
    BY <1>a DEF ExecInv, HandOver, Consumer, walkVars, consVars, shape
  <2>2. /\ bpc' \in [Copies -> {"idle", "pull", "wait", "send", "done"}]
        /\ \A d \in Teed : bpc[d] = "done" => bpc'[d] = "done"
        /\ \A d \in Teed : bpc'[d] = "done" => bpc[d] = "done" \/ src[d].st \in S \cup {None}
    BY <1>2, <1>5, <1>a, <1>h DEF ExecType, Teed
  <2>3. cancelled \in BOOLEAN /\ hand \in [Copies -> Items] /\ DOMAIN todo = Fans
    BY <1>h DEF ExecType
  <2>4. QED
    BY <1>1, <1>4, <1>6, <1>a, <2>1, <2>2, <2>3 DEF Elsewhere, logVars
<1>8. ~cancelled' => SparesAll(S)
  <2> SUFFICES ASSUME ~cancelled' PROVE SparesAll(S)
    OBVIOUS
  <2>0. Alive /\ Whole
    BY <1>a DEF ExecInv
  <2>1. \A w \in Walkers : pc[w] \in {"walk", "fold", "next", "reg", "sink"} => car[w].st \notin S
    BY <1>1, <1>2, <1>5, <1>h DEF Exclusive, Carrying
  <2>2. pc[0] \notin {"join", "collect"}
    BY <1>1, <1>h, MergeHasNoTee
  <2>3. \A d \in Teed : bpc'[d] # "done" => src[d].st \notin S
    <3>1. \A d \in Teed : bpc'[d] # "done" => d # c
      BY <1>a, <1>h DEF ExecType
    <3>2. QED
      BY <1>1, <1>2, <1>5, <1>h, <3>1 DEF Exclusive
  <2>4. ASSUME NEW w \in Walkers, pc[w] = "spawn" PROVE KeysOf(at[w]) \cap rclosed' = {}
    <3>1. \A k \in KeysOf(at[w]) : <<k>> # s
      BY <1>1, <1>2, <1>h, <2>4, SpawnReaders
    <3>2. KeysOf(at[w]) \cap rclosed = {}
      BY <2>0, <2>4 DEF Alive
    <3>3. QED
      BY <1>4, <3>1, <3>2
  <2>5. (\A d \in Copies : hand'[d] # "cut") /\ \A k \in Keys : buf'[k] # <<"cut">>
    BY <1>4, <1>a, <2>0, EmptyIsNot DEF Whole
  <2>6. QED
    BY <2>1, <2>2, <2>3, <2>4, <2>5 DEF SparesAll
<1>9. QED
  BY <1>7, <1>8, ElsewhereInv

(***************************************************************************)
(* The consumer, closeAll and the program.                                 *)
(***************************************************************************)
LEMMA RootStep ==
  ASSUME ExecInv, NEW S, UNCHANGED <<shape, walkVars, teeVars, rclosed, logVars>>,
         open' \subseteq open, OpenStreams' = OpenStreams \ S,
         live' \subseteq live, live' \cup closing' = live \cup closing,
         cancelled' \in BOOLEAN, cancelled => cancelled', Consumer',
         ~cancelled' => S = {} \/ (pc[0] = "tail" /\ S \subseteq {car[0].st} \ {None})
  PROVE  ExecInv'
<1>h. HandOver /\ ExecType /\ Planned /\ Names /\ Exclusive
  BY DEF ExecInv, HandOver
<1>w. 0 \in Walkers
  BY WalkersAre
<1>1. Teed' = Teed
  BY DEF Teed, teeVars
<1>2. Elsewhere(S)
  BY <1>1, <1>h DEF Elsewhere, teeVars, logVars, ExecType, Names
<1>3. ~cancelled' => SparesAll(S)
  <2> SUFFICES ASSUME ~cancelled' PROVE SparesAll(S)
    OBVIOUS
  <2>0. Alive /\ Whole /\ UNCHANGED <<bpc, hand, buf, rclosed>>
    BY DEF ExecInv, teeVars
  <2>1. /\ \A w \in Walkers : pc[w] \in {"walk", "fold", "next", "reg", "sink"} => car[w].st \notin S
        /\ \A d \in Teed : src[d].st \notin S
        /\ S # {} => pc[0] \notin {"join", "collect"}
    BY <1>h, <1>w DEF Exclusive, Carrying
  <2>2. QED
    BY <2>0, <2>1 DEF SparesAll, Alive, Whole
<1>4. QED
  BY <1>2, <1>3, ElsewhereInv

LEMMA StreamFailsKeeps == ASSUME ExecInv, StreamFails PROVE ExecInv'
<1>a. /\ pc[0] = "err" /\ cons = "call" /\ closing' = live /\ live' = {} /\ cancelled' = (cancelled \/ plan = "graph")
      /\ cons' = "failing"
      /\ UNCHANGED <<shape, registry, walkVars, open, teeVars, rclosed, result, logVars, faults>>
  BY DEF StreamFails, closeAll
<1>1. closing = {} /\ cancelled \in BOOLEAN
  BY <1>a DEF ExecInv, HandOver, Consumer, ExecType
<1>2. OpenStreams' = OpenStreams \ {}
  BY <1>a, OpenKept DEF shape, teeVars
<1>3. Consumer'
  BY <1>a DEF Consumer, shape, walkVars
<1>4. QED
  BY <1>a, <1>1, <1>2, <1>3, RootStep

LEMMA ConsumerFacts ==
  ASSUME ExecInv, cons \in {"reader", "got"}
  PROVE  pc[0] = "tail" /\ closing = {} /\ car[0].st \notin ReaderIds /\ cancelled \in BOOLEAN
<1>1. pc[0] = "tail" /\ closing = {} /\ cancelled \in BOOLEAN
  BY DEF ExecInv, HandOver, Consumer, ExecType
<1>2. Named(0)
  BY WalkersAre DEF ExecInv, HandOver, Names
<1>3. QED
  BY <1>1, <1>2 DEF Named

(* The tail's stream, if any, is closed. *)
LEMMA TailClosed ==
  ASSUME ExecInv, pc[0] = "tail", car[0].st \notin ReaderIds, UNCHANGED <<shape, teeVars, rclosed>>, open' = open \ {car[0].st}
  PROVE  OpenStreams' = OpenStreams \ ({car[0].st} \ {None}) /\ open' \subseteq open
<1>1. PICK s : s = car[0].st
  OBVIOUS
<1>2. OpenStreams' = OpenStreams \ {s} /\ None \notin OpenStreams
  BY <1>1, OpenChatClosed, OpenAre DEF ExecInv, HandOver, shape, teeVars
<1>3. QED
  BY <1>1, <1>2

LEMMA ConsumerNextKeeps == ASSUME ExecInv, ConsumerNext PROVE ExecInv'
<1>a. /\ cons = "reader" /\ cons' = "got"
      /\ UNCHANGED <<shape, registry, walkVars, live, teeVars, rclosed, closing, cancelled, logVars>>
      /\ UNCHANGED open \/ open' = open \ {car[0].st}
  BY DEF ConsumerNext, FoldChat
<1>1. pc[0] = "tail" /\ closing = {} /\ car[0].st \notin ReaderIds /\ cancelled \in BOOLEAN
  BY <1>a, ConsumerFacts
<1>2. Consumer'
  BY <1>a, <1>1 DEF Consumer, walkVars
<1>3. CASE UNCHANGED open
  <2>1. OpenStreams' = OpenStreams \ {}
    BY <1>3, <1>a, OpenKept DEF shape, teeVars
  <2>2. QED
    BY <1>3, <1>a, <1>1, <1>2, <2>1, RootStep
<1>4. CASE open' = open \ {car[0].st}
  <2>1. PICK S : S = {car[0].st} \ {None}
    OBVIOUS
  <2>2. OpenStreams' = OpenStreams \ S /\ open' \subseteq open
    BY <1>4, <1>a, <1>1, <2>1, TailClosed
  <2>3. QED
    BY <1>a, <1>1, <1>2, <2>1, <2>2, RootStep
<1>5. QED
  BY <1>a, <1>3, <1>4

LEMMA ConsumerCloseKeeps == ASSUME ExecInv, ConsumerClose PROVE ExecInv'
<1>a. /\ cons \in {"reader", "got"} /\ open' = open \ {car[0].st} /\ cons' \in {"closing", "quitting"}
      /\ \/ closing' = live /\ live' = {} /\ cancelled' = TRUE
         \/ UNCHANGED <<live, closing, cancelled>>
      /\ UNCHANGED <<shape, registry, walkVars, teeVars, rclosed, result, logVars, faults>>
  BY DEF ConsumerClose, closeAll
<1>1. pc[0] = "tail" /\ closing = {} /\ car[0].st \notin ReaderIds /\ cancelled \in BOOLEAN
  BY <1>a, ConsumerFacts
<1>2. Consumer'
  BY <1>a, <1>1 DEF Consumer, walkVars
<1>3. PICK S : S = {car[0].st} \ {None}
  OBVIOUS
<1>4. OpenStreams' = OpenStreams \ S /\ open' \subseteq open
  BY <1>3, <1>a, <1>1, TailClosed
<1>5. QED
  BY <1>3, <1>4, <1>a, <1>1, <1>2, RootStep

LEMMA CloseOneKeeps == ASSUME ExecInv, CloseOne PROVE ExecInv'
<1>1. PICK s \in closing :
        /\ closing' = closing \ {s} /\ CloseStream(s)
        /\ UNCHANGED <<shape, registry, walkVars, live, bpc, src, left, hand, todo, cancelled, consVars, logVars, faults>>
  BY DEF CloseOne
<1>h. HandOver /\ ExecType /\ Planned /\ Names /\ Consumer
  BY DEF ExecInv, HandOver
<1>2. s \in StreamIds /\ (s \in ReaderIds => s[1] \in TeedKeys)
  BY <1>h DEF ExecType, Names
<1>3. Teed' = Teed /\ g' = g
  BY <1>1 DEF Teed, shape
<1>4. /\ OpenStreams' = OpenStreams \ {s} /\ open' \subseteq open
      /\ rclosed' \subseteq Keys \cap TeedKeys
      /\ buf' \in [Keys -> {<<>>} \cup {<<i>> : i \in Items}] /\ \A k \in Keys : buf'[k] \in {buf[k], <<>>}
  BY <1>1, <1>2, <1>3, <1>h, CloseIs
<1>5. Elsewhere({s})
  <2>1. Consumer'
    BY <1>1, <1>h DEF Consumer, walkVars, consVars, shape
  <2>2. QED
    BY <1>1, <1>3, <1>4, <1>h, <2>1 DEF Elsewhere, ExecType, logVars
<1>6. ~cancelled' => SparesAll({s})
  <2> SUFFICES ASSUME ~cancelled' PROVE SparesAll({s})
    OBVIOUS
  <2>0. Alive /\ Whole /\ ~cancelled
    BY <1>1 DEF ExecInv
  <2>1. plan # "graph" /\ pc[0] \in {"tail", "err"}
    <3>1. closing # {}
      BY <1>1
    <3>2. QED
      BY <2>0, <3>1, <1>h DEF Consumer
  <2>2. Teed = {} /\ \A w \in Walkers : pc[w] \in {"idle", "tail", "err"}
    BY <2>1, <1>h, WalkersAre DEF Planned
  <2>3. (\A d \in Copies : hand'[d] # "cut") /\ \A k \in Keys : buf'[k] # <<"cut">>
    BY <1>1, <1>4, <2>0, EmptyIsNot DEF Whole
  <2>4. QED
    BY <2>1, <2>2, <2>3 DEF SparesAll
<1>7. QED
  BY <1>5, <1>6, ElsewhereInv

LEMMA OtherRootKeeps ==
  ASSUME ExecInv, CloseReturns \/ CallerCancels \/ RegisterConcatenator
  PROVE  ExecInv'
<1>a. /\ UNCHANGED <<shape, walkVars, live, open, teeVars, rclosed, closing, logVars>>
      /\ \/ UNCHANGED <<cancelled, cons>>
         \/ cancelled' = TRUE /\ UNCHANGED cons
         \/ /\ cons \in {"failing", "closing", "quitting"} /\ closing = {} /\ cons' \in {"failed", "closed", "quit"}
            /\ UNCHANGED cancelled
  BY DEF CloseReturns, CallerCancels, RegisterConcatenator, consVars
<1>1. OpenStreams' = OpenStreams \ {}
  BY <1>a, OpenKept DEF shape, teeVars
<1>2. Consumer' /\ cancelled \in BOOLEAN
  BY <1>a DEF ExecInv, HandOver, ExecType, Consumer, shape, walkVars
<1>3. QED
  BY <1>a, <1>1, <1>2, RootStep

(***************************************************************************)
(* fanOutCopy tees a stream.                                               *)
(***************************************************************************)
LEMMA TeeFrame ==
  ASSUME HandOver, NEW w \in Walkers, NEW c, c = at[w], Tee(w)
  PROVE  /\ pc[w] = "walk" /\ c \in OfKind(g, "copy") /\ c \in Copies /\ plan = "graph" /\ c \notin Teed
         /\ Teed' = Teed \cup {c} /\ KeysOf(c) \subseteq Keys /\ KeysOf(c) \cap TeedKeys = {}
         /\ TeedKeys' = TeedKeys \cup KeysOf(c) /\ (\A d : KeysOf(d)' = KeysOf(d))
         /\ UNCHANGED <<g, plan, at, car, open, rclosed, closing, cancelled, cons, cutRuns, hand, todo, buf>>
         /\ pc' = [pc EXCEPT ![w] = "spawn"] /\ pc'[w] = "spawn" /\ \A x \in Walkers \ {w} : pc'[x] = pc[x]
         /\ bpc'[c] = "pull" /\ \A d \in Copies \ {c} : bpc'[d] = bpc[d] /\ src'[d] = src[d]
         /\ src'[c].st = car[w].st /\ src'[c].val = car[w].val /\ IsCarrier(src'[c])
         /\ live' = (live \ {car[w].st}) \cup {<<k>> : k \in KeysOf(c)}
         /\ \A k : Handed(k) => Handed(k)'
<1>a. /\ pc[w] = "walk" /\ Boundary(w) /\ Here(w) = "copy" /\ bpc[c] = "idle"
      /\ live' = (live \ {car[w].st}) \cup {<<k>> : k \in KeysOf(c)}
      /\ bpc' = [bpc EXCEPT ![c] = "pull"] /\ Stop(w, "spawn")
      /\ UNCHANGED <<shape, registry, open, hand, todo, buf, rclosed, closing, cancelled, consVars, logVars, faults>>
  BY DEF Tee
<1>b. ExecType /\ Planned /\ Names
  BY DEF HandOver
<1>1. c \in OfKind(g, "copy") /\ c \in Copies /\ plan = "graph" /\ g \in Graphs
  BY <1>a, <1>b DEF ExecType, Boundary, Here, OfKind, Copies
<1>2. UNCHANGED <<g, plan, at, car, cons, cutRuns>> /\ \A d : KeysOf(d)' = KeysOf(d)
  BY <1>a DEF shape, Stop, consVars, logVars, KeysOf
<1>3. c \notin Teed /\ Teed' = Teed \cup {c} /\ bpc'[c] = "pull" /\ \A d \in Copies \ {c} : bpc'[d] = bpc[d]
  BY <1>1, <1>a, <1>b DEF Teed, ExecType
<1>4. KeysOf(c) \subseteq Keys
  BY <1>1, CopyKeys DEF KeysOf
<1>5. KeysOf(c) \cap TeedKeys = {}
  <2> SUFFICES ASSUME NEW k \in KeysOf(c), NEW d \in Teed, k \in KeysOf(d) PROVE FALSE
    BY DEF TeedKeys
  <2>1. c = d
    BY <1>1, KeyUnique DEF KeysOf
  <2>2. QED
    BY <1>3, <2>1
<1>6. TeedKeys' = TeedKeys \cup KeysOf(c)
  BY <1>2, <1>3 DEF TeedKeys
<1>7. pc' = [pc EXCEPT ![w] = "spawn"] /\ pc'[w] = "spawn" /\ \A x \in Walkers \ {w} : pc'[x] = pc[x]
  BY <1>a, <1>b DEF Stop, ExecType
<1>8. /\ src'[c].st = car[w].st /\ src'[c].val = car[w].val /\ IsCarrier(src'[c])
      /\ \A d \in Copies \ {c} : src'[d] = src[d]
  <2>1. PICK e : src' = [src EXCEPT ![c] = [car[w] EXCEPT !.elem = e]]
    BY DEF Tee
  <2>2. src = [d \in Copies |-> src[d]]
    BY <1>b DEF ExecType
  <2>3. src'[c] = [car[w] EXCEPT !.elem = e] /\ \A d \in Copies \ {c} : src'[d] = src[d]
    BY <1>1, <2>1, <2>2
  <2>4. IsCarrier(car[w])
    BY <1>b DEF ExecType
  <2>5. PICK v, s, o, b : car[w] = [val |-> v, st |-> s, elem |-> o, fold |-> b] /\ s \in StreamIds \cup {None}
    BY <2>4 DEF IsCarrier
  <2>6. QED
    BY <2>3, <2>5 DEF IsCarrier
<1>9. ASSUME NEW k, Handed(k) PROVE Handed(k)'
  <2>1. PICK d \in Teed : k \in KeysOf(d) /\ \A x \in Walkers : pc[x] = "spawn" => at[x] # d
    BY <1>9 DEF Handed
  <2>2. \A x \in Walkers : pc'[x] = "spawn" => at'[x] # d
    BY <2>1, <1>2, <1>3, <1>7
  <2>3. QED
    BY <2>1, <2>2, <1>2, <1>3 DEF Handed
<1>10. QED
  BY <1>a, <1>1, <1>2, <1>3, <1>4, <1>5, <1>6, <1>7, <1>8, <1>9

LEMMA NewReaders ==
  ASSUME HandOver, NEW k \in Keys, k \notin TeedKeys
  PROVE  /\ <<k>> \in ReaderIds /\ <<k>> \notin live \cup closing /\ k \notin rclosed
         /\ \A w \in Walkers : car[w].st # <<k>>
         /\ \A d \in Teed : src[d].st # <<k>>
<1>1. <<k>> \in ReaderIds /\ <<k>>[1] = k
  BY ReaderId
<1>2. ~Handed(k)
  BY DEF Handed, TeedKeys
<1>3. <<k>> \notin live \cup closing /\ k \notin rclosed
  BY <1>1 DEF HandOver, Names
<1>4. QED
  BY <1>1, <1>2, <1>3 DEF HandOver, Names, Named, TeeNamed

LEMMA TeeKeepsHandOver == ASSUME HandOver, NEW w \in Walkers, Tee(w) PROVE HandOver'
<1>1. PICK c : c = at[w]
  OBVIOUS
<1>f. /\ pc[w] = "walk" /\ c \in OfKind(g, "copy") /\ c \in Copies /\ plan = "graph" /\ c \notin Teed
      /\ Teed' = Teed \cup {c} /\ KeysOf(c) \subseteq Keys /\ KeysOf(c) \cap TeedKeys = {}
      /\ TeedKeys' = TeedKeys \cup KeysOf(c) /\ (\A d : KeysOf(d)' = KeysOf(d))
      /\ UNCHANGED <<g, plan, at, car, open, rclosed, closing, cancelled, cons, cutRuns, hand, todo, buf>>
      /\ pc' = [pc EXCEPT ![w] = "spawn"] /\ pc'[w] = "spawn" /\ \A x \in Walkers \ {w} : pc'[x] = pc[x]
      /\ bpc'[c] = "pull" /\ \A d \in Copies \ {c} : bpc'[d] = bpc[d] /\ src'[d] = src[d]
      /\ src'[c].st = car[w].st /\ src'[c].val = car[w].val /\ IsCarrier(src'[c])
      /\ live' = (live \ {car[w].st}) \cup {<<k>> : k \in KeysOf(c)}
      /\ \A k : Handed(k) => Handed(k)'
  BY <1>1, TeeFrame
<1>h. ExecType /\ Planned /\ Consumer /\ Names /\ Exclusive
  BY DEF HandOver
<1>t. Teed \subseteq Copies
  BY DEF Teed
<1>w. 0 \in Walkers /\ Keys = Walkers \ {0}
  BY WalkersAre
<1>n. \A k \in KeysOf(c) : /\ <<k>> \in ReaderIds /\ <<k>> \notin live \cup closing /\ k \notin rclosed
                           /\ \A x \in Walkers : car[x].st # <<k>>
                           /\ \A d \in Teed : src[d].st # <<k>>
  BY <1>f, NewReaders
<1>2. ExecType'
  <2>1. src' = [d \in Copies |-> src'[d]] /\ \A d \in Copies : IsCarrier(src'[d])
    <3>1. PICK e : src' = [src EXCEPT ![at[w]] = [car[w] EXCEPT !.elem = e]]
      BY DEF Tee
    <3>2. src' = [d \in Copies |-> src'[d]]
      BY <3>1, <1>h DEF ExecType
    <3>3. QED
      BY <3>2, <1>f, <1>h DEF ExecType
  <2>2. live' \subseteq StreamIds
    BY <1>f, <1>n, <1>h DEF ExecType, StreamIds
  <2>3. bpc' \in [Copies -> {"idle", "pull", "wait", "send", "done"}] /\ pc' \in [Walkers -> Counters]
    BY <1>1, <1>f, <1>h DEF ExecType, Tee, Counters
  <2>4. QED
    BY <2>1, <2>2, <2>3, <1>f, <1>h DEF ExecType
<1>3. Planned'
  <2>1. Merges = {} /\ Merges' = {}
    BY <1>f, <1>h DEF Planned, Merges
  <2>2. pc'[0] \notin {"fanin", "join", "collect", "invoke"}
    BY <2>1, <1>f, <1>h, <1>w DEF Planned
  <2>3. \A k \in Keys : pc'[k] # "idle" => Handed(k)'
    BY <2>1, <1>f, <1>h, <1>w DEF Planned
  <2>4. \A k \in Keys : pc'[k] \notin RootOnly
    BY <1>f, <1>h, <1>w DEF Planned, RootOnly
  <2>5. Teed' \subseteq OfKind(g', "copy")
    BY <1>f, <1>h DEF Planned
  <2>6. QED
    BY <2>1, <2>2, <2>3, <2>4, <2>5, <1>f DEF Planned
<1>4. Consumer'
  <2>1. w = 0 => cons = "call"
    BY <1>f, <1>h DEF Consumer
  <2>2. pc'[0] = pc[0] \/ cons = "call"
    BY <2>1, <1>f, <1>w
  <2>3. QED
    BY <2>2, <1>f, <1>h DEF Consumer
<1>5. Names'
  <2>1. ASSUME NEW x \in Walkers PROVE Named(x)'
    <3>1. CASE x = w
      BY <3>1, <1>1, <1>f, <1>h DEF Names, Named
    <3>2. CASE x # w
      <4>1. pc[x] = "spawn" => at[x] \in Teed /\ at[x] \in Copies \ {c}
        BY <1>f, <1>h, <1>t DEF Names, Named
      <4>2. QED
        BY <3>2, <4>1, <1>f, <1>h DEF Names, Named
    <3>3. QED
      BY <3>1, <3>2
  <2>2. ASSUME NEW d \in Teed' PROVE TeeNamed(d)'
    <3>1. CASE d = c
      <4>1. PICK s : s = car[w].st
        OBVIOUS
      <4>2. s \in ReaderIds => Handed(s[1])'
        BY <4>1, <1>f, <1>h DEF Names, Named
      <4>3. s \in ChatIds => pc'[s[1]] # "idle" /\ Beyond(g, s[2], at'[s[1]])
        BY <4>1, <1>f, <1>h DEF Names, Named
      <4>4. QED
        BY <3>1, <4>1, <4>2, <4>3, <1>f DEF TeeNamed
    <3>2. CASE d # c
      <4>1. PICK s : s = src[d].st
        OBVIOUS
      <4>2. TeeNamed(d) /\ src'[d].st = s
        BY <3>2, <4>1, <1>f, <1>h, <1>t DEF Names
      <4>3. s \in ReaderIds => Handed(s[1])'
        BY <4>1, <4>2, <1>f DEF TeeNamed
      <4>4. s \in ChatIds => pc'[s[1]] # "idle" /\ Beyond(g, s[2], at'[s[1]])
        BY <4>1, <4>2, <1>f, ChatForm DEF TeeNamed
      <4>5. QED
        BY <4>2, <4>3, <4>4, <1>f DEF TeeNamed
    <3>3. QED
      BY <3>1, <3>2
  <2>3. (\A y, x \in Walkers : pc[y] = "spawn" /\ pc[x] = "spawn" /\ y # x => at[y] # at[x])'
    <3>1. \A x \in Walkers : pc[x] = "spawn" => at[x] # at[w]
      BY <1>1, <1>f, <1>h DEF Names, Named
    <3>2. QED
      BY <3>1, <1>f, <1>h DEF Names
  <2>4. (\A s \in (live \cup closing) \cap ReaderIds : s[1] \in TeedKeys)'
    <3>1. \A k \in KeysOf(c) : <<k>>[1] = k
      OBVIOUS
    <3>2. QED
      BY <3>1, <1>f, <1>h DEF Names
  <2>5. QED
    BY <2>1, <2>2, <2>3, <2>4, <1>f, <1>h DEF Names
<1>6. Exclusive'
  <2>1. (\A y, x \in Walkers :
           y # x /\ pc[y] \in Carrying /\ pc[x] \in Carrying /\ car[y].st = car[x].st => car[y].st = None)'
    BY <1>f, <1>h DEF Exclusive, Carrying
  <2>2. (\A y \in Walkers, d \in Teed : pc[y] \in Carrying /\ car[y].st = src[d].st => car[y].st = None)'
    BY <1>f, <1>h, <1>t DEF Exclusive, Carrying
  <2>3. (\A d, e \in Teed : d # e /\ src[d].st = src[e].st => src[d].st = None)'
    BY <1>f, <1>h, <1>t DEF Exclusive, Carrying
  <2>4. (\A x \in Walkers : pc[x] \in {"fold", "next"} => car[x].st \notin live)'
    BY <1>f, <1>h, <1>n DEF Exclusive
  <2>5. (\A d \in Teed : src[d].st \notin live)'
    BY <1>f, <1>h, <1>t, <1>n DEF Exclusive
  <2>6. QED
    BY <2>1, <2>2, <2>3, <2>4, <2>5 DEF Exclusive
<1>7. QED
  BY <1>2, <1>3, <1>4, <1>5, <1>6 DEF HandOver

LEMMA TeeKeeps == ASSUME ExecInv, NEW w \in Walkers, Tee(w) PROVE ExecInv'
<1>1. PICK c : c = at[w]
  OBVIOUS
<1>h. HandOver /\ ExecType /\ Planned /\ Names /\ Exclusive /\ Ownership
  BY DEF ExecInv, HandOver
<1>f. /\ pc[w] = "walk" /\ c \in OfKind(g, "copy") /\ c \in Copies /\ plan = "graph" /\ c \notin Teed
      /\ Teed' = Teed \cup {c} /\ KeysOf(c) \subseteq Keys /\ KeysOf(c) \cap TeedKeys = {}
      /\ TeedKeys' = TeedKeys \cup KeysOf(c) /\ (\A d : KeysOf(d)' = KeysOf(d))
      /\ UNCHANGED <<g, plan, at, car, open, rclosed, closing, cancelled, cons, cutRuns, hand, todo, buf>>
      /\ pc'[w] = "spawn" /\ \A x \in Walkers \ {w} : pc'[x] = pc[x]
      /\ bpc'[c] = "pull" /\ \A d \in Copies \ {c} : bpc'[d] = bpc[d] /\ src'[d] = src[d]
      /\ src'[c].st = car[w].st /\ src'[c].val = car[w].val
      /\ live' = (live \ {car[w].st}) \cup {<<k>> : k \in KeysOf(c)}
  BY <1>1, <1>h, TeeFrame
<1>t. Teed \subseteq Copies
  BY DEF Teed
<1>n. \A k \in KeysOf(c) : /\ <<k>> \in ReaderIds /\ k \notin rclosed
                           /\ \A x \in Walkers : car[x].st # <<k>>
                           /\ \A d \in Teed : src[d].st # <<k>>
  BY <1>f, <1>h, NewReaders
<1>o. OpenStreams' = OpenStreams \cup {<<k>> : k \in KeysOf(c)}
  BY OpenIs, OpenIsThen, <1>f, <1>n
<1>e. None \notin OpenStreams
  BY <1>h, OpenAre
<1>2. HandOver'
  BY <1>h, TeeKeepsHandOver
<1>3. Ownership'
  <2>1. ASSUME NEW x \in Walkers PROVE Waiting(x)'
    <3>1. CASE x = w
      BY <3>1, <1>1, <1>f DEF Waiting
    <3>2. CASE x # w
      <4>1. ASSUME pc[x] \in {"walk", "sink"}, car[x].st \in OpenStreams' PROVE car[x].st \in live' \cup closing'
        <5>1. car[x].st \in OpenStreams
          BY <4>1, <1>o, <1>n
        <5>2. car[x].st \in live \cup closing
          BY <4>1, <5>1, <1>h DEF Ownership, Waiting
        <5>3. car[x].st # car[w].st
          BY <3>2, <4>1, <5>1, <1>e, <1>f, <1>h DEF Exclusive, Carrying
        <5>4. QED
          BY <5>2, <5>3, <1>f
      <4>2. ASSUME pc[x] = "spawn", NEW k \in KeysOf(at[x]) \ rclosed PROVE <<k>> \in live' \cup closing'
        <5>1. <<k>> \in live \cup closing
          BY <4>2, <1>h DEF Ownership, Waiting
        <5>2. <<k>> # car[w].st
          BY <4>2, <1>h, SpawnReaders
        <5>3. QED
          BY <5>1, <5>2, <1>f
      <4>3. QED
        BY <3>2, <4>1, <4>2, <1>f DEF Waiting
    <3>3. QED
      BY <3>1, <3>2
  <2>2. (\A d \in Teed : bpc[d] = "done" => src[d].st \notin OpenStreams)'
    BY <1>f, <1>o, <1>n, <1>h, <1>t DEF Ownership
  <2>3. ASSUME NEW s \in OpenStreams' PROVE Owned(s)' \/ s \in Unfoldable'
    <3>1. CASE s \in live' \cup closing'
      BY <3>1 DEF Owned
    <3>2. CASE s = car[w].st
      <4>1. c \in Teeing(s)'
        BY <3>2, <1>f DEF Teeing
      <4>2. QED
        BY <4>1 DEF Owned
    <3>3. CASE s \in OpenStreams /\ s \notin live \cup closing /\ s # car[w].st
      <4>1. CASE Teeing(s) # {}
        BY <4>1, <1>f, <1>t DEF Owned, Teeing
      <4>2. CASE Holding(s) # {}
        <5>1. PICK x \in Walkers : car[x].st = s /\ ~Ended(x)
          BY <4>2 DEF Holding
        <5>2. x \in Holding(s)'
          BY <5>1, <3>3, <1>f DEF Holding, Ended
        <5>3. QED
          BY <5>2 DEF Owned
      <4>3. CASE s \in Unfoldable
        <5>1. PICK x \in Walkers : car[x].st = s /\ pc[x] = "err" /\ ~Boundary(x) /\ ~car[x].fold
          BY <4>3 DEF Unfoldable
        <5>2. pc'[x] = "err" /\ ~Boundary(x)' /\ ~car'[x].fold /\ car'[x].st = s
          BY <5>1, <3>3, <1>f DEF Boundary, Here
        <5>3. s \in Unfoldable'
          BY <5>2 DEF Unfoldable
        <5>4. QED
          BY <5>3
      <4>4. QED
        BY <3>3, <4>1, <4>2, <4>3, <1>h DEF Ownership, Owned
    <3>4. QED
      BY <3>1, <3>2, <3>3, <1>f, <1>o
  <2>4. QED
    BY <2>1, <2>2, <2>3 DEF Ownership
<1>4. ASSUME ~cancelled' PROVE Alive' /\ Whole'
  <2>1. Alive /\ Whole
    BY <1>4, <1>f DEF ExecInv
  <2>2. pc'[0] \notin {"join", "collect"}
    <3>1. pc[0] \notin {"join", "collect"}
      BY <1>f, <1>h DEF Planned
    <3>2. QED
      BY <3>1, <1>f, WalkersAre
  <2>3. \A s : StillOpen(s) => StillOpen(s)'
    BY <1>o DEF StillOpen
  <2>4. ASSUME NEW x \in Walkers, pc'[x] \in {"walk", "fold", "next", "reg", "sink"} PROVE StillOpen(car[x].st)'
    <3>1. PICK s : s = car[x].st
      OBVIOUS
    <3>2. StillOpen(s) /\ car'[x].st = s
      BY <3>1, <2>1, <2>4, <1>f DEF Alive
    <3>3. QED
      BY <3>2, <2>3 DEF StillOpen
  <2>5. ASSUME NEW d \in Teed', bpc'[d] # "done" PROVE StillOpen(src[d].st)'
    <3>1. PICK s : s = src'[d].st
      OBVIOUS
    <3>2. StillOpen(s)
      BY <3>1, <2>1, <2>5, <1>f, <1>t DEF Alive
    <3>3. QED
      BY <3>1, <3>2, <2>3 DEF StillOpen
  <2>6. ASSUME NEW x \in Walkers, pc'[x] = "spawn" PROVE (KeysOf(at[x]) \cap rclosed)' = {}
    <3>1. CASE x = w
      BY <3>1, <1>1, <1>f, <1>n
    <3>2. CASE x # w
      BY <3>2, <2>6, <2>1, <1>f DEF Alive
    <3>3. QED
      BY <3>1, <3>2
  <2>7. Alive'
    BY <2>2, <2>4, <2>5, <2>6 DEF Alive
  <2>8. Whole'
    BY <2>1, <1>f DEF Whole
  <2>9. QED
    BY <2>7, <2>8
<1>5. QED
  BY <1>2, <1>3, <1>4, <1>f DEF ExecInv, WholeInputs

(***************************************************************************)
(* fanOutCopy starts the walks of the targets, or gives up when none leads  *)
(* to the exit.                                                            *)
(***************************************************************************)
LEMMA SpawnFacts ==
  ASSUME HandOver, NEW w \in Walkers, NEW c, c = at[w], pc[w] = "spawn"
  PROVE  /\ c \in Teed /\ c \in OfKind(g, "copy") /\ c \in Copies /\ plan = "graph" /\ Merges = {}
         /\ KeysOf(c) \subseteq Keys /\ KeysOf(c) \subseteq TeedKeys /\ w \notin KeysOf(c)
         /\ car[w].st = src[c].st /\ g \in Graphs
         /\ \A k \in KeysOf(c) : pc[k] = "idle" /\ <<k>> \in ReaderIds /\ <<k>>[1] = k
         /\ pc[0] \notin {"invoke", "fanin", "join", "collect"}
<1>1. ExecType /\ Planned /\ Names
  BY DEF HandOver
<1>2. c \in Teed /\ car[w].st = src[c].st /\ g \in Graphs
  BY <1>1 DEF Names, Named, ExecType
<1>3. c \in OfKind(g, "copy") /\ c \in Copies /\ plan = "graph" /\ Merges = {}
  BY <1>1, <1>2 DEF Planned, Teed
<1>4. \A k \in KeysOf(c) : k \in Keys /\ k \in TeedKeys /\ ~Handed(k) /\ <<k>> \in ReaderIds /\ <<k>>[1] = k
  BY NotHanded, ReaderId
<1>5. \A k \in KeysOf(c) : pc[k] = "idle"
  BY <1>1, <1>3, <1>4 DEF Planned
<1>6. pc[0] \notin {"invoke", "fanin", "join", "collect"}
  BY <1>1, <1>3 DEF Planned
<1>7. QED
  BY <1>2, <1>3, <1>4, <1>5, <1>6

(* The stream that was teed is the broadcaster's. *)
LEMMA SpawnHolds ==
  ASSUME HandOver, Ownership, NEW w \in Walkers, NEW c, c = at[w], pc[w] = "spawn",
         NEW s \in OpenStreams, car[w].st = s
  PROVE  c \in Teeing(s)
<1>1. c \in Teed /\ src[c].st = s
  BY SpawnFacts
<1>2. QED
  BY <1>1 DEF Teeing, Ownership

LEMMA SpawnFails == ASSUME ExecInv, NEW w \in Walkers, Spawn(w), TailKeys(at[w]) = {} PROVE ExecInv'
<1>1. PICK c : c = at[w]
  OBVIOUS
<1>h. HandOver /\ ExecType /\ Planned /\ Consumer /\ Names /\ Exclusive /\ Ownership
  BY DEF ExecInv, HandOver
<1>a. /\ pc[w] = "spawn" /\ Stop(w, "err") /\ rclosed' = rclosed \cup KeysOf(c)
      /\ buf' = [k \in Keys |-> IF k \in KeysOf(c) THEN <<>> ELSE buf[k]]
      /\ UNCHANGED <<shape, registry, live, open, bpc, src, left, hand, todo, closing,
                     cancelled, consVars, logVars, faults>>
  BY <1>1 DEF Spawn
<1>b. /\ c \in Teed /\ c \in OfKind(g, "copy") /\ c \in Copies /\ plan = "graph" /\ Merges = {}
      /\ KeysOf(c) \subseteq Keys /\ KeysOf(c) \subseteq TeedKeys /\ w \notin KeysOf(c)
      /\ car[w].st = src[c].st /\ g \in Graphs
      /\ \A k \in KeysOf(c) : pc[k] = "idle" /\ <<k>> \in ReaderIds /\ <<k>>[1] = k
      /\ pc[0] \notin {"invoke", "fanin", "join", "collect"}
  BY <1>1, <1>a, <1>h, SpawnFacts
<1>f. /\ UNCHANGED <<g, plan, at, car, cons, cutRuns, bpc, src>> /\ Teed' = Teed /\ TeedKeys' = TeedKeys
      /\ (\A d : KeysOf(d)' = KeysOf(d)) /\ Merges' = Merges
  BY <1>a, TeedKept DEF shape, Stop, consVars, logVars, Merges
<1>p. pc' \in [Walkers -> Counters] /\ pc'[w] = "err" /\ \A x \in Walkers \ {w} : pc'[x] = pc[x]
  BY <1>a, <1>h DEF Stop, ExecType, Counters
<1>k. \A k : Handed(k) => Handed(k)'
  BY <1>f, <1>p, HandedKept
<1> DEFINE S == {<<k>> : k \in KeysOf(c)}
<1>o. OpenStreams' = OpenStreams \ S
  <2>1. S \cap open = {}
    BY <1>b, <1>h, ReaderForm DEF ExecType
  <2>2. \A j, k : <<j>> = <<k>> => j = k
    OBVIOUS
  <2>3. QED
    BY <2>1, <2>2, <1>a, <1>f, OpenIs, OpenIsThen
<1>s. \A k \in KeysOf(c) : /\ \A x \in Walkers : car[x].st # <<k>>
                           /\ \A d \in Teed : src[d].st # <<k>>
  BY <1>1, <1>a, <1>h, SpawnReaders
<1>w. 0 \in Walkers /\ Keys = Walkers \ {0}
  BY WalkersAre
<1>2. HandOver'
  <2>1. ExecType'
    <3>1. buf' \in [Keys -> {<<>>} \cup {<<i>> : i \in Items}]
      BY <1>a, <1>h DEF ExecType
    <3>2. QED
      BY <3>1, <1>a, <1>b, <1>f, <1>p, <1>h DEF ExecType
  <2>2. Planned'
    <3>1. pc'[0] \notin {"invoke", "fanin", "join", "collect"}
      BY <1>b, <1>p, <1>w
    <3>2. \A k \in Keys : pc'[k] # "idle" => Handed(k)'
      BY <1>a, <1>b, <1>k, <1>p, <1>h, <1>w DEF Planned
    <3>3. \A k \in Keys : pc'[k] \notin RootOnly
      BY <1>p, <1>h, <1>w DEF Planned, RootOnly
    <3>4. QED
      BY <3>1, <3>2, <3>3, <1>b, <1>f, <1>h DEF Planned
  <2>3. Consumer'
    <3>1. pc'[0] = pc[0] \/ (cons = "call" /\ pc'[0] = "err")
      BY <1>a, <1>p, <1>h, <1>w DEF Consumer
    <3>2. QED
      BY <3>1, <1>a, <1>f, <1>h DEF Consumer
  <2>4. Names'
    <3>1. \A x \in Walkers : Named(x)'
      BY <1>f, <1>p, <1>k, <1>h DEF Names, Named
    <3>2. \A d \in Teed' : TeeNamed(d)'
      BY <1>a, <1>f, <1>p, <1>k, <1>h, ChatForm DEF Names, TeeNamed
    <3>3. QED
      BY <3>1, <3>2, <1>a, <1>b, <1>f, <1>p, <1>h DEF Names
  <2>5. Exclusive'
    BY <1>a, <1>f, <1>p, <1>h DEF Exclusive, Carrying
  <2>6. QED
    BY <2>1, <2>2, <2>3, <2>4, <2>5 DEF HandOver
<1>3. Ownership'
  <2>1. \A x \in Walkers : Waiting(x)'
    BY <1>a, <1>f, <1>p, <1>o, <1>h DEF Ownership, Waiting
  <2>2. (\A d \in Teed : bpc[d] = "done" => src[d].st \notin OpenStreams)'
    BY <1>f, <1>o, <1>h DEF Ownership
  <2>3. ASSUME NEW s \in OpenStreams' PROVE Owned(s)' \/ s \in Unfoldable'
    <3>0. s \in OpenStreams
      BY <1>o
    <3>1. CASE s \in live \cup closing
      BY <3>1, <1>a DEF Owned
    <3>2. CASE Teeing(s) # {}
      BY <3>2, <1>f DEF Owned, Teeing
    <3>3. CASE Holding(s) # {} /\ Teeing(s) = {}
      <4>1. PICK x \in Walkers : car[x].st = s /\ ~Ended(x)
        BY <3>3 DEF Holding
      <4>2. x # w
        BY <3>0, <3>3, <4>1, <1>1, <1>a, <1>h, SpawnHolds
      <4>3. x \in Holding(s)'
        BY <4>1, <4>2, <1>f, <1>p DEF Holding, Ended
      <4>4. QED
        BY <4>3 DEF Owned
    <3>4. CASE s \in Unfoldable
      <4>1. PICK x \in Walkers : car[x].st = s /\ pc[x] = "err" /\ ~Boundary(x) /\ ~car[x].fold
        BY <3>4 DEF Unfoldable
      <4>2. pc'[x] = "err" /\ ~Boundary(x)' /\ ~car'[x].fold /\ car'[x].st = s
        BY <4>1, <1>a, <1>f, <1>p DEF Boundary, Here
      <4>3. s \in Unfoldable'
        BY <4>2 DEF Unfoldable
      <4>4. QED
        BY <4>3
    <3>5. QED
      BY <3>0, <3>1, <3>2, <3>3, <3>4, <1>h DEF Ownership, Owned
  <2>4. QED
    BY <2>1, <2>2, <2>3 DEF Ownership
<1>4. ASSUME ~cancelled' PROVE Alive' /\ Whole'
  <2>1. Alive /\ Whole
    BY <1>4, <1>a DEF ExecInv
  <2>2. \A s : StillOpen(s) /\ s \notin S => StillOpen(s)'
    BY <1>o DEF StillOpen
  <2>3. (\A x \in Walkers : pc[x] \in {"walk", "fold", "next", "reg", "sink"} => StillOpen(car[x].st))'
    BY <2>1, <1>f, <1>p, <1>s, <1>o DEF Alive, StillOpen
  <2>4. pc'[0] \notin {"join", "collect"}
    BY <1>b, <1>p, <1>w
  <2>5. (\A d \in Teed : bpc[d] # "done" => StillOpen(src[d].st))'
    BY <2>1, <1>f, <1>s, <1>o DEF Alive, StillOpen
  <2>6. ASSUME NEW x \in Walkers, pc'[x] = "spawn" PROVE KeysOf(at[x]) \cap rclosed' = {}
    <3>1. x # w /\ pc[x] = "spawn" /\ at[x] # c
      BY <2>6, <1>1, <1>a, <1>p, <1>h DEF Names
    <3>2. KeysOf(at[x]) \cap KeysOf(c) = {}
      BY <3>1, <1>b, KeyUnique DEF KeysOf
    <3>3. QED
      BY <3>1, <3>2, <2>1, <1>a DEF Alive
  <2>7. Whole'
    <3>1. \A k \in Keys : buf'[k] # <<"cut">>
      BY <2>1, <1>a, EmptyIsNot DEF Whole
    <3>2. QED
      BY <2>1, <3>1, <1>a, <1>f, <1>p DEF Whole
  <2>8. QED
    BY <2>3, <2>4, <2>5, <2>6, <2>7, <1>f DEF Alive
<1>5. QED
  BY <1>2, <1>3, <1>4, <1>f DEF ExecInv, WholeInputs

(* The walkers that start, each on the reader of its key. *)
Starts(w, c, started, key) ==
  /\ w \in started /\ started \subseteq Walkers /\ (\A x \in started \ {w} : x \in KeysOf(c))
  /\ \A x \in started : /\ key[x] \in KeysOf(c) /\ pc'[x] = "walk" /\ at'[x] = Target(g, c, key[x])
                         /\ car'[x].st = <<key[x]>> /\ car'[x].val = src[c].val
  /\ \A x, y \in started : x # y => key[x] # key[y]
  /\ \A x \in Walkers \ started : pc'[x] = pc[x] /\ at'[x] = at[x] /\ car'[x] = car[x]

LEMMA SpawnFrame ==
  ASSUME HandOver, NEW w \in Walkers, NEW c, c = at[w], Spawn(w), TailKeys(c) # {}
  PROVE  /\ pc[w] = "spawn"
         /\ UNCHANGED <<g, plan, live, open, rclosed, closing, bpc, src, hand, buf, todo, cancelled, cons, cutRuns>>
         /\ Teed' = Teed /\ TeedKeys' = TeedKeys /\ Merges' = Merges /\ (\A d : KeysOf(d)' = KeysOf(d))
         /\ \E started, key : Starts(w, c, started, key)
         /\ ExecType'
<1>h. ExecType
  BY DEF HandOver
<1>d. PICK tail : tail = Min(TailKeys(c))
  OBVIOUS
<1> DEFINE leaves == KeysOf(c) \ {tail}
           started == {w} \cup leaves
           key == [x \in started |-> IF x = w THEN tail ELSE x]
           entry(k) == [src[c] EXCEPT !.st = <<k>>]
<1>a. /\ pc[w] = "spawn"
      /\ pc' = [x \in Walkers |-> IF x = w \/ x \in leaves THEN "walk" ELSE pc[x]]
      /\ at' = [x \in Walkers |-> IF x = w THEN Target(g, c, tail)
                                  ELSE IF x \in leaves THEN Target(g, c, x) ELSE at[x]]
      /\ car' = [x \in Walkers |-> IF x = w THEN entry(tail)
                                   ELSE IF x \in leaves THEN entry(x) ELSE car[x]]
      /\ UNCHANGED <<buf, rclosed>>
      /\ UNCHANGED <<shape, registry, live, open, bpc, src, left, hand, todo, closing,
                     cancelled, consVars, logVars, faults>>
  BY <1>d DEF Spawn, Leaves
<1>b. /\ c \in Copies /\ KeysOf(c) \subseteq Keys /\ w \notin KeysOf(c) /\ g \in Graphs
      /\ \A k \in KeysOf(c) : <<k>> \in ReaderIds
  BY <1>a, SpawnFacts
<1>w. Keys \subseteq Walkers /\ Keys \subseteq Nat
  BY WalkersAre
<1>t. tail \in KeysOf(c)
  <2>1. TailKeys(c) \in SUBSET Nat /\ TailKeys(c) \subseteq KeysOf(c)
    BY <1>b, <1>w DEF TailKeys
  <2>2. Min(TailKeys(c)) \in TailKeys(c)
    BY <2>1, MinIs, Zenon
  <2>3. QED
    BY <2>1, <2>2, <1>d
<1>1. UNCHANGED <<g, plan, live, open, rclosed, closing, bpc, src, hand, buf, todo, cancelled, cons, cutRuns>>
  BY <1>a DEF shape, consVars, logVars
<1>2. Teed' = Teed /\ TeedKeys' = TeedKeys /\ Merges' = Merges /\ (\A d : KeysOf(d)' = KeysOf(d))
  BY <1>1, TeedKept DEF Merges
<1>3. \A k \in KeysOf(c) : entry(k).st = <<k>> /\ entry(k).val = src[c].val /\ IsCarrier(entry(k))
  <2>1. IsCarrier(src[c])
    BY <1>b, <1>h DEF ExecType
  <2>2. PICK v, s, o, b : src[c] = [val |-> v, st |-> s, elem |-> o, fold |-> b]
    BY <2>1 DEF IsCarrier
  <2>3. \A k : entry(k) = [val |-> v, st |-> <<k>>, elem |-> o, fold |-> b] /\ src[c].val = v
    BY <2>2
  <2>4. QED
    BY <2>3, <1>b DEF IsCarrier, StreamIds
<1>4. started \subseteq Walkers /\ \A x \in started \ {w} : x \in KeysOf(c)
  BY <1>b, <1>w
<1>5. \A x \in started : key[x] \in KeysOf(c) /\ pc'[x] = "walk" /\ at'[x] = Target(g, c, key[x]) /\ car'[x] = entry(key[x])
  <2>1. key[w] = tail /\ pc'[w] = "walk" /\ at'[w] = Target(g, c, tail) /\ car'[w] = entry(tail)
    BY <1>a
  <2>2. ASSUME NEW x \in leaves PROVE key[x] = x /\ pc'[x] = "walk" /\ at'[x] = Target(g, c, x) /\ car'[x] = entry(x)
    <3>1. x # w /\ x \in Walkers
      BY <1>b, <1>w
    <3>2. QED
      BY <3>1, <1>a
  <2>3. QED
    BY <2>1, <2>2, <1>t
<1>6. \A x, y \in started : x # y => key[x] # key[y]
  BY <1>b
<1>7. \A x \in Walkers \ started : pc'[x] = pc[x] /\ at'[x] = at[x] /\ car'[x] = car[x]
  BY <1>a
<1>8. ExecType'
  <2>1. pc' \in [Walkers -> Counters]
    BY <1>a, <1>h DEF ExecType, Counters
  <2> HIDE DEF started, key, entry
  <2>2. ASSUME NEW x \in Walkers PROVE at'[x] \in NodesOf(g)
    <3>1. CASE x \in started
      <4>1. key[x] \in PortsOf(g, c) /\ at'[x] = Target(g, c, key[x])
        BY <3>1, <1>5 DEF KeysOf
      <4>2. QED
        BY <4>1, <1>b, TargetNode
    <3>2. CASE x \notin started
      BY <3>2, <1>7, <1>h DEF ExecType
    <3>3. QED
      BY <3>1, <3>2
  <2>3. at' \in [Walkers -> NodesOf(g)]
    BY <2>2, <1>a
  <2>4. ASSUME NEW x \in Walkers PROVE IsCarrier(car'[x])
    <3>1. CASE x \in started
      BY <3>1, <1>3, <1>5
    <3>2. CASE x \notin started
      BY <3>2, <1>7, <1>h DEF ExecType
    <3>3. QED
      BY <3>1, <3>2
  <2>5. car' = [x \in Walkers |-> car'[x]]
    BY <1>a
  <2>6. QED
    BY <2>1, <2>3, <2>4, <2>5, <1>1, <1>h DEF ExecType
<1>9. ASSUME NEW x \in started PROVE car'[x].st = <<key[x]>> /\ car'[x].val = src[c].val
  <2> HIDE DEF started, key, entry
  <2>1. key[x] \in KeysOf(c) /\ car'[x] = entry(key[x])
    BY <1>5
  <2>2. QED
    BY <2>1, <1>3
<1>10. \E st, ky : Starts(w, c, st, ky)
  <2>1. w \in started
    OBVIOUS
  <2> HIDE DEF started, key
  <2>2. Starts(w, c, started, key)
    BY <2>1, <1>4, <1>5, <1>6, <1>7, <1>9 DEF Starts
  <2>3. QED
    BY <2>2
<1>11. QED
  BY <1>a, <1>1, <1>2, <1>8, <1>10

LEMMA SpawnWalks == ASSUME ExecInv, NEW w \in Walkers, Spawn(w), TailKeys(at[w]) # {} PROVE ExecInv'
<1>1. PICK c : c = at[w]
  OBVIOUS
<1>h. HandOver /\ ExecType /\ Planned /\ Consumer /\ Names /\ Exclusive /\ Ownership
  BY DEF ExecInv, HandOver
<1>f. /\ pc[w] = "spawn"
      /\ UNCHANGED <<g, plan, live, open, rclosed, closing, bpc, src, hand, buf, todo, cancelled, cons, cutRuns>>
      /\ Teed' = Teed /\ TeedKeys' = TeedKeys /\ Merges' = Merges /\ (\A d : KeysOf(d)' = KeysOf(d))
      /\ ExecType'
  BY <1>1, <1>h, SpawnFrame
<1>e. PICK started, key : Starts(w, c, started, key)
  BY <1>1, <1>h, SpawnFrame
<1>g. /\ w \in started /\ started \subseteq Walkers /\ (\A x \in started \ {w} : x \in KeysOf(c))
      /\ \A x \in started : /\ key[x] \in KeysOf(c) /\ pc'[x] = "walk" /\ at'[x] = Target(g, c, key[x])
                             /\ car'[x].st = <<key[x]>> /\ car'[x].val = src[c].val
      /\ \A x, y \in started : x # y => key[x] # key[y]
      /\ \A x \in Walkers \ started : pc'[x] = pc[x] /\ at'[x] = at[x] /\ car'[x] = car[x]
  BY <1>e DEF Starts
<1>b. /\ c \in Teed /\ c \in OfKind(g, "copy") /\ c \in Copies /\ plan = "graph" /\ Merges = {}
      /\ KeysOf(c) \subseteq Keys /\ KeysOf(c) \subseteq TeedKeys /\ w \notin KeysOf(c)
      /\ car[w].st = src[c].st /\ g \in Graphs
      /\ (\A k \in KeysOf(c) : pc[k] = "idle" /\ <<k>> \in ReaderIds /\ <<k>>[1] = k)
      /\ pc[0] \notin {"invoke", "fanin", "join", "collect"}
  BY <1>1, <1>f, <1>h, SpawnFacts
<1>i. \A x \in started \ {w} : pc[x] = "idle"
  BY <1>b, <1>g
<1>k. \A k : Handed(k) => Handed(k)'
  BY <1>f, <1>g, HandedKept
<1>n. \A k \in KeysOf(c) : Handed(k)'
  <2>1. \A x \in Walkers : pc'[x] = "spawn" => at'[x] # c
    BY <1>1, <1>f, <1>g, <1>h DEF Names
  <2>2. QED
    BY <2>1, <1>b, <1>f DEF Handed
<1>s. \A k \in KeysOf(c) : /\ (\A x \in Walkers : car[x].st # <<k>>)
                           /\ (\A d \in Teed : src[d].st # <<k>>)
                           /\ (<<k>> \in OpenStreams <=> k \notin rclosed)
  BY <1>1, <1>f, <1>h, SpawnReaders, OpenReader
<1>o. OpenStreams' = OpenStreams
  BY <1>f, OpenIs, OpenIsThen
<1>w. 0 \in Walkers /\ Keys = Walkers \ {0}
  BY WalkersAre
<1>z. pc'[0] = pc[0] \/ (w = 0 /\ pc'[0] = "walk" /\ pc[0] = "spawn")
  BY <1>b, <1>f, <1>g, <1>w
<1>2. HandOver'
  <2>1. Planned'
    <3>1. pc'[0] \notin {"invoke", "fanin", "join", "collect"}
      BY <1>b, <1>z
    <3>2. \A k \in Keys : pc'[k] # "idle" => Handed(k)'
      <4>1. Handed(w)' \/ w = 0
        BY <1>b, <1>f, <1>k, <1>h, <1>w DEF Planned
      <4>2. \A k \in Keys \ started : pc'[k] # "idle" => Handed(k)'
        BY <1>b, <1>g, <1>k, <1>h, <1>w DEF Planned
      <4>3. QED
        BY <4>1, <4>2, <1>g, <1>n, <1>w
    <3>3. \A k \in Keys : pc'[k] \notin RootOnly
      BY <1>g, <1>h, <1>w DEF Planned, RootOnly
    <3>4. QED
      BY <3>1, <3>2, <3>3, <1>b, <1>f, <1>h DEF Planned
  <2>2. Consumer'
    BY <1>z, <1>f, <1>h DEF Consumer
  <2>3. Names'
    <3>1. ASSUME NEW x \in Walkers PROVE Named(x)'
      <4>1. CASE x \in started
        <5>1. PICK s : s = car'[x].st
          OBVIOUS
        <5>2. s \in ReaderIds /\ s[1] \in KeysOf(c) /\ pc'[x] = "walk"
          <6>1. key[x] \in KeysOf(c) /\ s = <<key[x]>> /\ pc'[x] = "walk"
            BY <4>1, <5>1, <1>g
          <6>2. QED
            BY <6>1, <1>b
        <5>3. Handed(s[1])' /\ s \notin ChatIds
          BY <5>2, <1>n, ReaderForm
        <5>4. QED
          BY <5>1, <5>2, <5>3 DEF Named
      <4>2. CASE x \notin started
        BY <4>2, <1>f, <1>g, <1>k, <1>h DEF Names, Named
      <4>3. QED
        BY <4>1, <4>2
    <3>2. ASSUME NEW d \in Teed' PROVE TeeNamed(d)'
      <4>1. PICK s : s = src[d].st
        OBVIOUS
      <4>2. TeeNamed(d) /\ src'[d].st = s
        BY <4>1, <1>f, <1>h DEF Names
      <4>3. s \in ReaderIds => Handed(s[1])'
        BY <4>1, <4>2, <1>k DEF TeeNamed
      <4>4. ASSUME s \in ChatIds PROVE pc'[s[1]] # "idle" /\ Beyond(g, s[2], at'[s[1]])
        <5>1. PICK x : x = s[1]
          OBVIOUS
        <5>2. x \in Walkers /\ pc[x] # "idle" /\ Beyond(g, s[2], at[x])
          BY <4>1, <4>2, <4>4, <5>1, ChatForm DEF TeeNamed
        <5>3. CASE x = w
          <6>1. key[w] \in PortsOf(g, c) /\ at'[w] = Target(g, c, key[w]) /\ pc'[w] = "walk"
            BY <1>g DEF KeysOf
          <6>2. Beyond(g, s[2], Target(g, c, key[w]))
            BY <5>2, <5>3, <6>1, <1>1, <1>b, BeyondTarget
          <6>3. QED
            BY <5>1, <5>3, <6>1, <6>2
        <5>4. CASE x # w
          BY <5>1, <5>2, <5>4, <1>g, <1>i
        <5>5. QED
          BY <5>3, <5>4
      <4>5. QED
        BY <4>2, <4>3, <4>4, <1>f DEF TeeNamed
    <3>3. (\A y, x \in Walkers : pc[y] = "spawn" /\ pc[x] = "spawn" /\ y # x => at[y] # at[x])'
      BY <1>g, <1>h DEF Names
    <3>4. QED
      BY <3>1, <3>2, <3>3, <1>f, <1>h DEF Names
  <2>4. Exclusive'
    <3>1. (\A y, x \in Walkers :
             y # x /\ pc[y] \in Carrying /\ pc[x] \in Carrying /\ car[y].st = car[x].st => car[y].st = None)'
      <4> SUFFICES ASSUME NEW y \in Walkers, NEW x \in Walkers, y # x, pc'[y] \in Carrying, pc'[x] \in Carrying,
                          car'[y].st = car'[x].st
                   PROVE  car'[y].st = None
        OBVIOUS
      <4>1. \A j, k : <<j>> = <<k>> => j = k
        OBVIOUS
      <4>2. ~(y \in started /\ x \in started)
        BY <4>1, <1>g
      <4>3. \A u \in started, v \in Walkers \ started : car'[u].st # car'[v].st
        <5> SUFFICES ASSUME NEW u \in started, NEW v \in Walkers \ started PROVE car'[u].st # car'[v].st
          OBVIOUS
        <5>1. key[u] \in KeysOf(c) /\ car'[u].st = <<key[u]>> /\ car'[v] = car[v]
          BY <1>g
        <5>2. QED
          BY <5>1, <1>s
      <4>4. QED
        BY <4>2, <4>3, <1>g, <1>h DEF Exclusive
    <3>2. (\A x \in Walkers, d \in Teed : pc[x] \in Carrying /\ car[x].st = src[d].st => car[x].st = None)'
      <4> SUFFICES ASSUME NEW x \in Walkers, NEW d \in Teed, pc'[x] \in Carrying, car'[x].st = src[d].st
                   PROVE  car'[x].st = None
        BY <1>f
      <4>1. CASE x \in started
        <5>1. key[x] \in KeysOf(c) /\ car'[x].st = <<key[x]>>
          BY <4>1, <1>g
        <5>2. QED
          BY <5>1, <1>s
      <4>2. CASE x \notin started
        BY <4>2, <1>g, <1>h DEF Exclusive
      <4>3. QED
        BY <4>1, <4>2
    <3>3. (\A x \in Walkers : pc[x] \in {"fold", "next"} => car[x].st \notin live)'
      BY <1>f, <1>g, <1>h DEF Exclusive
    <3>4. QED
      BY <3>1, <3>2, <3>3, <1>f, <1>h DEF Exclusive
  <2>5. QED
    BY <2>1, <2>2, <2>3, <2>4, <1>f DEF HandOver
<1>3. Ownership'
  <2>1. ASSUME NEW x \in Walkers PROVE Waiting(x)'
    <3>1. CASE x \in started
      <4>1. PICK k : k = key[x]
        OBVIOUS
      <4>2. k \in KeysOf(c) /\ car'[x].st = <<k>> /\ pc'[x] = "walk"
        BY <3>1, <4>1, <1>g
      <4>3. <<k>> \in OpenStreams => <<k>> \in live \cup closing
        BY <4>2, <1>1, <1>f, <1>s, <1>h DEF Ownership, Waiting
      <4>4. QED
        BY <4>2, <4>3, <1>f, <1>o DEF Waiting
    <3>2. CASE x \notin started
      BY <3>2, <1>f, <1>g, <1>o, <1>h DEF Ownership, Waiting
    <3>3. QED
      BY <3>1, <3>2
  <2>2. (\A d \in Teed : bpc[d] = "done" => src[d].st \notin OpenStreams)'
    BY <1>f, <1>o, <1>h DEF Ownership
  <2>3. ASSUME NEW s \in OpenStreams' PROVE Owned(s)' \/ s \in Unfoldable'
    <3>0. s \in OpenStreams
      BY <1>o
    <3>1. CASE s \in live \cup closing
      BY <3>1, <1>f DEF Owned
    <3>2. CASE Teeing(s) # {}
      BY <3>2, <1>f DEF Owned, Teeing
    <3>3. CASE Holding(s) # {} /\ Teeing(s) = {}
      <4>1. PICK x \in Walkers : car[x].st = s /\ ~Ended(x)
        BY <3>3 DEF Holding
      <4>2. x # w
        BY <3>0, <3>3, <4>1, <1>1, <1>f, <1>h, SpawnHolds
      <4>3. x \notin started
        BY <4>1, <4>2, <1>i DEF Ended
      <4>4. x \in Holding(s)'
        BY <4>1, <4>3, <1>g DEF Holding, Ended
      <4>5. QED
        BY <4>4 DEF Owned
    <3>4. CASE s \in Unfoldable
      <4>1. PICK x \in Walkers : car[x].st = s /\ pc[x] = "err" /\ ~Boundary(x) /\ ~car[x].fold
        BY <3>4 DEF Unfoldable
      <4>2. x \notin started
        BY <4>1, <1>f, <1>i
      <4>3. pc'[x] = "err" /\ ~Boundary(x)' /\ ~car'[x].fold /\ car'[x].st = s
        BY <4>1, <4>2, <1>f, <1>g DEF Boundary, Here
      <4>4. s \in Unfoldable'
        BY <4>3 DEF Unfoldable
      <4>5. QED
        BY <4>4
    <3>5. QED
      BY <3>0, <3>1, <3>2, <3>3, <3>4, <1>h DEF Ownership, Owned
  <2>4. QED
    BY <2>1, <2>2, <2>3 DEF Ownership
<1>4. ASSUME ~cancelled' PROVE Alive' /\ Whole'
  <2>1. Alive /\ Whole
    BY <1>4, <1>f DEF ExecInv
  <2>2. KeysOf(c) \cap rclosed = {}
    BY <2>1, <1>1, <1>f DEF Alive
  <2>3. (\A x \in Walkers : pc[x] \in {"walk", "fold", "next", "reg", "sink"} => StillOpen(car[x].st))'
    <3>1. \A x \in started : car'[x].st \in OpenStreams
      BY <2>2, <1>g, <1>s
    <3>2. QED
      BY <3>1, <2>1, <1>g, <1>o DEF Alive, StillOpen
  <2>4. pc'[0] \notin {"join", "collect"}
    BY <1>b, <1>z
  <2>5. (\A d \in Teed : bpc[d] # "done" => StillOpen(src[d].st))'
    BY <2>1, <1>f, <1>o DEF Alive, StillOpen
  <2>6. (\A x \in Walkers : pc[x] = "spawn" => KeysOf(at[x]) \cap rclosed = {})'
    BY <2>1, <1>f, <1>g DEF Alive
  <2>7. Whole'
    BY <2>1, <1>b, <1>f, <1>g DEF Whole
  <2>8. QED
    BY <2>3, <2>4, <2>5, <2>6, <2>7 DEF Alive
<1>5. QED
  BY <1>2, <1>3, <1>4, <1>f DEF ExecInv, WholeInputs

LEMMA SpawnKeeps == ASSUME ExecInv, NEW w \in Walkers, Spawn(w) PROVE ExecInv'
BY SpawnFails, SpawnWalks

(***************************************************************************)
(* fanInMerge starts a walk per source, with no stream in flight.          *)
(***************************************************************************)
LEMMA FanInKeeps == ASSUME ExecInv, FanIn PROVE ExecInv'
<1>h. HandOver /\ ExecType /\ Planned /\ Consumer /\ Names /\ Exclusive /\ Ownership
  BY DEF ExecInv, HandOver
<1>m. PICK m \in OfKind(g, "merge") :
        LET keys == KeysInto(g, m) \ {Default} IN
        /\ pc[0] = "fanin"
        /\ pc' = [w \in Walkers |-> IF w = 0 THEN "join" ELSE IF w \in keys THEN "walk" ELSE pc[w]]
        /\ at' = [w \in Walkers |-> IF w = 0 THEN m ELSE IF w \in keys THEN SourceAt(g, m, w) ELSE at[w]]
        /\ car' = [w \in Walkers |-> IF w = 0 THEN Empty ELSE Carrier(Input)]
        /\ todo' = [todo EXCEPT ![m] = keys]
        /\ UNCHANGED <<shape, registry, live, open, bpc, src, left, hand, buf, rclosed, closing,
                       cancelled, consVars, logVars, faults>>
  BY DEF FanIn
<1>l. PICK keys : keys = KeysInto(g, m) \ {Default}
  OBVIOUS
<1>1. /\ m \in OfKind(g, "merge") /\ keys = KeysInto(g, m) \ {Default} /\ pc[0] = "fanin"
      /\ pc' = [w \in Walkers |-> IF w = 0 THEN "join" ELSE IF w \in keys THEN "walk" ELSE pc[w]]
      /\ at' = [w \in Walkers |-> IF w = 0 THEN m ELSE IF w \in keys THEN SourceAt(g, m, w) ELSE at[w]]
      /\ car' = [w \in Walkers |-> IF w = 0 THEN Empty ELSE Carrier(Input)]
      /\ todo' = [todo EXCEPT ![m] = keys]
      /\ UNCHANGED <<shape, registry, live, open, bpc, src, left, hand, buf, rclosed, closing,
                       cancelled, consVars, logVars, faults>>
  BY <1>m, <1>l
<1>w. 0 \in Walkers /\ Keys = Walkers \ {0}
  BY WalkersAre
<1>a. Teed = {} /\ plan = "graph" /\ m \in Merges /\ cons = "call" /\ g \in Graphs
  BY <1>1, <1>h, MergeHasNoTee DEF Consumer, ExecType, Merges
<1>b. \A x \in Walkers : pc[x] \in {"idle", "fanin"} /\ car[x].st = None
  <2>1. \A x \in Walkers : pc[x] \in {"idle", "fanin"}
    BY <1>1, <1>h, <1>w DEF Planned
  <2>2. QED
    BY <2>1, <1>h DEF Names, Named
<1>f. /\ UNCHANGED <<g, plan, live, open, rclosed, closing, bpc, src, hand, buf, cancelled, cons, cutRuns>>
      /\ Teed' = {} /\ TeedKeys' = TeedKeys /\ Merges' = Merges /\ OpenStreams' = OpenStreams
  <2>1. UNCHANGED <<g, plan, live, open, rclosed, closing, bpc, src, hand, buf, cancelled, cons, cutRuns>>
    BY <1>1 DEF shape, consVars, logVars
  <2>2. Teed' = {} /\ TeedKeys' = TeedKeys /\ Merges' = Merges
    BY <2>1, <1>a, TeedKept DEF Merges
  <2>3. QED
    BY <2>1, <2>2, OpenIs, OpenIsThen
<1>k. keys \subseteq Keys
  BY <1>1, <1>a, IntoKeys
<1>c. \A x \in Walkers : /\ IsCarrier(car'[x]) /\ car'[x].st = None /\ Uncut(car'[x].val)
  <2>1. \A x \in Walkers : car'[x] = Carrier({}) \/ car'[x] = Carrier(Input)
    BY <1>1 DEF Empty
  <2>2. QED
    BY <2>1, CarrierForm, UncutInput
<1>p. pc'[0] = "join" /\ at'[0] = m /\ todo'[m] = keys /\ \A x \in Keys : pc'[x] \in {"walk", "idle"}
  <2>1. m \in Fans /\ m \in DOMAIN todo
    BY <1>1, <1>h, <1>a DEF Fans, ExecType
  <2>2. \A x \in Keys : pc[x] = "idle"
    BY <1>1, <1>h DEF Planned
  <2>3. QED
    BY <2>1, <2>2, <1>1, <1>w
<1>q. \A x \in Walkers : pc'[x] \in {"join", "walk", "idle"}
  BY <1>p, <1>w
<1>e. None \notin OpenStreams
  BY <1>h, OpenAre
<1>2. HandOver'
  <2>1. ExecType'
    <3>1. pc' \in [Walkers -> Counters]
      BY <1>1, <1>q DEF Counters
    <3>2. \A x \in Walkers : at'[x] \in NodesOf(g)
      <4>1. \A x \in keys : SourceAt(g, m, x) \in NodesOf(g)
        BY <1>1, <1>a, SourceNode
      <4>2. m \in NodesOf(g)
        BY <1>1 DEF OfKind
      <4>3. QED
        BY <4>1, <4>2, <1>1, <1>h DEF ExecType
    <3>3. at' \in [Walkers -> NodesOf(g)]
      BY <3>2, <1>1
    <3>4. car' = [x \in Walkers |-> car'[x]]
      BY <1>1
    <3>5. DOMAIN todo' = Fans
      BY <1>1, <1>h DEF ExecType
    <3>6. QED
      BY <3>1, <3>3, <3>4, <3>5, <1>c, <1>f, <1>h DEF ExecType
  <2>2. Planned'
    <3>1. \A x \in Keys : pc'[x] \notin RootOnly
      BY <1>p DEF RootOnly
    <3>2. QED
      BY <3>1, <1>p, <1>k, <1>a, <1>f, <1>h DEF Planned
  <2>3. Consumer'
    BY <1>p, <1>a, <1>f, <1>h DEF Consumer
  <2>4. Names'
    <3>1. \A x \in Walkers : Named(x)'
      BY <1>c, <1>q, NoneForm DEF Named, StreamIds
    <3>2. QED
      BY <3>1, <1>q, <1>f, <1>h DEF Names
  <2>5. Exclusive'
    BY <1>c, <1>q, <1>f DEF Exclusive
  <2>6. QED
    BY <2>1, <2>2, <2>3, <2>4, <2>5 DEF HandOver
<1>3. Ownership'
  <2>1. \A x \in Walkers : Waiting(x)'
    BY <1>c, <1>q, <1>f, <1>e DEF Waiting
  <2>2. ASSUME NEW s \in OpenStreams' PROVE Owned(s)'
    <3>1. Teeing(s) = {} /\ Holding(s) = {}
      BY <2>2, <1>a, <1>b, <1>f, <1>e DEF Teeing, Holding
    <3>2. s \notin Unfoldable
      BY <1>b DEF Unfoldable
    <3>3. s \in live \cup closing
      BY <3>1, <3>2, <1>f, <1>h DEF Ownership, Owned
    <3>4. QED
      BY <3>3, <1>f DEF Owned
  <2>3. QED
    BY <2>1, <2>2, <1>f DEF Ownership
<1>4. ASSUME ~cancelled' PROVE Alive' /\ Whole'
  <2>1. Whole
    BY <1>4, <1>f DEF ExecInv
  <2>2. Whole'
    BY <2>1, <1>c, <1>f DEF Whole
  <2>3. (\A x \in Walkers : pc[x] \in {"walk", "fold", "next", "reg", "sink"} => StillOpen(car[x].st))'
    BY <1>c DEF StillOpen
  <2>4. (\A x \in todo[at[0]] : pc[x] # "end")'
    BY <1>p, <1>k
  <2>5. QED
    BY <2>2, <2>3, <2>4, <1>q, <1>f DEF Alive
<1>5. QED
  BY <1>2, <1>3, <1>4, <1>f DEF ExecInv, WholeInputs

(***************************************************************************)
(* The invariant.                                                          *)
(***************************************************************************)
LEMMA InitInv == ASSUME Init PROVE ExecInv
<1>w. 0 \in Walkers /\ Keys = Walkers \ {0}
  BY WalkersAre
<1>1. /\ g \in Graphs /\ at = [w \in Walkers |-> g.entry] /\ car = [w \in Walkers |-> Carrier(Input)]
      /\ live = {} /\ open = {} /\ rclosed = {} /\ closing = {}
      /\ bpc = [c \in Copies |-> "idle"] /\ src = [c \in Copies |-> Empty] /\ hand = [c \in Copies |-> "frame"]
      /\ todo = [n \in Fans |-> {}] /\ buf = [k \in Keys |-> <<>>]
      /\ cancelled = FALSE /\ cons = "call" /\ cutRuns = {}
      /\ pc = [w \in Walkers |->
                 CASE w # 0 \/ plan = "error" -> "idle"
                   [] w = 0 /\ plan = "box" -> "invoke"
                   [] w = 0 /\ plan = "graph" /\ OfKind(g, "merge") # {} -> "fanin"
                   [] OTHER -> "walk"]
  BY DEF Init
<1>p. /\ (\A k \in Keys : pc[k] = "idle") /\ pc[0] \in {"idle", "invoke", "fanin", "walk"}
      /\ (pc[0] = "invoke" => plan = "box") /\ (pc[0] = "fanin" => plan = "graph" /\ Merges # {})
  <2>1. \A k \in Keys : pc[k] = "idle"
    BY <1>1, <1>w
  <2>2. pc[0] = CASE plan = "error" -> "idle"
                  [] plan = "box" -> "invoke"
                  [] plan = "graph" /\ OfKind(g, "merge") # {} -> "fanin"
                  [] OTHER -> "walk"
    BY <1>1, <1>w
  <2>3. QED
    BY <2>1, <2>2 DEF Merges
<1>q. \A x \in Walkers : pc[x] \in {"idle", "invoke", "fanin", "walk"}
  BY <1>p, <1>w
<1>t. Teed = {} /\ TeedKeys = {}
  BY <1>1 DEF Teed, TeedKeys
<1>o. OpenStreams = {}
  BY <1>t, <1>1, OpenIs
<1>c. \A x \in Walkers : IsCarrier(car[x]) /\ car[x].st = None /\ Uncut(car[x].val)
  BY <1>1, CarrierForm, UncutInput
<1>d. \A c \in Copies : IsCarrier(src[c]) /\ Uncut(src[c].val)
  BY <1>1, CarrierForm, UncutInput DEF Empty
<1>2. ExecType
  <2>1. g.entry \in NodesOf(g)
    BY <1>1, GraphsAssumption
  <2>2. at \in [Walkers -> NodesOf(g)]
    BY <2>1, <1>1
  <2>3. pc \in [Walkers -> Counters]
    BY <1>1, <1>q DEF Counters
  <2>4. car = [w \in Walkers |-> car[w]] /\ src = [c \in Copies |-> src[c]]
    BY <1>1
  <2>5. bpc \in [Copies -> {"idle", "pull", "wait", "send", "done"}] /\ hand \in [Copies -> Items]
    BY <1>1 DEF Items
  <2>6. buf \in [Keys -> {<<>>} \cup {<<i>> : i \in Items}]
    BY <1>1
  <2>7. QED
    BY <2>2, <2>3, <2>4, <2>5, <2>6, <1>1, <1>c, <1>d DEF ExecType
<1>3. Planned
  <2>1. plan = "graph" => OfKind(g, "copy") = {} \/ Merges = {}
    BY GraphPlan DEF Init, Merges
  <2>2. \A k \in Keys : pc[k] \notin RootOnly
    BY <1>p DEF RootOnly
  <2>3. QED
    BY <2>1, <2>2, <1>p, <1>t DEF Planned
<1>4. Consumer
  BY <1>1 DEF Consumer
<1>5. Names
  <2>1. \A x \in Walkers : Named(x)
    BY <1>c, <1>q, NoneForm DEF Named, StreamIds
  <2>2. QED
    BY <2>1, <1>1, <1>q, <1>t DEF Names
<1>6. Exclusive
  BY <1>c, <1>q, <1>t DEF Exclusive
<1>7. Ownership
  BY <1>o, <1>q, <1>t DEF Ownership, Waiting
<1>8. Alive /\ Whole
  <2>1. Alive
    BY <1>c, <1>q, <1>t, <1>p DEF Alive, StillOpen
  <2>2. Whole
    BY <1>c, <1>d, <1>1, EmptyIsNot DEF Whole
  <2>3. QED
    BY <2>1, <2>2
<1>9. QED
  BY <1>1, <1>2, <1>3, <1>4, <1>5, <1>6, <1>7, <1>8 DEF ExecInv, HandOver, WholeInputs

LEMMA WalkerKeeps == ASSUME ExecInv, NEW w \in Walkers, Walker(w) PROVE ExecInv'
BY UnregisterKeeps, FoldStreamKeeps, NextCallKeeps, RecvKeeps, RunKeeps, RegisterKeeps, TeeKeeps,
   SpawnKeeps, LeafEndsKeeps, SourceEndsKeeps DEF Walker

LEMMA RootKeeps == ASSUME ExecInv, Root PROVE ExecInv'
BY FanInKeeps, JoinKeeps, CollectKeeps, CombineKeeps, SecondMergeKeeps, InvokeKeeps, TailKeeps,
   StreamFailsKeeps DEF Root

LEMMA CloserKeeps == ASSUME ExecInv, Closer PROVE ExecInv'
BY ConsumerCloseKeeps, CloseOneKeeps, OtherRootKeeps DEF Closer

LEMMA BroadcasterKeeps == ASSUME ExecInv, NEW c \in Copies, Broadcaster(c) PROVE ExecInv'
BY PullKeeps, PullReaderKeeps, SendKeeps, NextFrameKeeps, BroadcastEndsKeeps DEF Broadcaster

LEMMA StutterKeeps == ASSUME ExecInv, UNCHANGED vars PROVE ExecInv'
<1>1. /\ UNCHANGED <<shape, pc, at, car, live, open, bpc, src, hand, todo, buf, rclosed, closing,
                     cancelled, cons, cutRuns>>
      /\ UNCHANGED <<g, plan, walkVars>>
  BY DEF vars, shape, walkVars, teeVars, consVars, logVars
<1>2. Teed' = Teed /\ TeedKeys' = TeedKeys
  BY <1>1, TeedKept
<1>3. OpenStreams' = OpenStreams
  BY <1>1, <1>2, OpenIs, OpenIsThen
<1>4. Elsewhere({})
  <2>1. ExecType /\ Consumer /\ Names
    BY DEF ExecInv, HandOver
  <2>2. Consumer'
    BY <2>1, <1>1 DEF Consumer
  <2>3. QED
    BY <2>1, <2>2, <1>1, <1>2, <1>3 DEF Elsewhere, ExecType, Names
<1>5. ~cancelled' => SparesAll({})
  BY <1>1 DEF ExecInv, SparesAll, Alive, Whole
<1>6. QED
  BY <1>4, <1>5, ElsewhereInv

LEMMA StepInv == ASSUME ExecInv, [Next]_vars PROVE ExecInv'
BY WalkerKeeps, RootKeeps, CloserKeeps, BroadcasterKeeps, ConsumerNextKeeps, OtherRootKeeps, StutterKeeps
   DEF Next

LEMMA AlwaysInv == Spec => []ExecInv
BY InitInv, StepInv, PTL DEF Spec

(* A stream that two goroutines could read, or none would close, is not     *)
(* there.                                                                  *)
LEMMA InvGivesOneOwner == ASSUME ExecInv PROVE OneOwner
<1>h. ExecType /\ Planned /\ Exclusive /\ Ownership
  BY DEF ExecInv, HandOver
<1> SUFFICES ASSUME NEW s \in OpenStreams
             PROVE  /\ Cardinality(Reading(s)) + Cardinality(Teeing(s)) <= 1
                    /\ Reading(s) # {} \/ Teeing(s) # {} => s \notin live
                    /\ Owned(s) \/ s \in Unfoldable
  BY DEF OneOwner
<1>1. s # None
  BY <1>h, OpenAre
<1>2. \A x, y \in Reading(s) : x = y
  BY <1>1, <1>h DEF Reading, Exclusive, Carrying
<1>3. \A c, d \in Teeing(s) : c = d
  BY <1>1, <1>h DEF Teeing, Exclusive
<1>4. Reading(s) = {} \/ Teeing(s) = {}
  BY <1>1, <1>h DEF Reading, Teeing, Exclusive, Carrying
<1>5. ASSUME NEW S, \A x, y \in S : x = y PROVE Cardinality(S) \in {0, 1}
  <2>1. CASE S = {}
    BY <2>1, FS_EmptySet
  <2>2. CASE S # {}
    <3>1. PICK x : S = {x}
      BY <2>2, <1>5
    <3>2. QED
      BY <3>1, FS_Singleton
  <2>3. QED
    BY <2>1, <2>2
<1>6. Cardinality(Reading(s)) \in {0, 1} /\ Cardinality(Teeing(s)) \in {0, 1}
  BY <1>2, <1>3, <1>5
<1>7. Cardinality({}) = 0
  BY FS_EmptySet
<1>8. Cardinality(Reading(s)) + Cardinality(Teeing(s)) <= 1
  BY <1>4, <1>6, <1>7
<1>9. Reading(s) # {} \/ Teeing(s) # {} => s \notin live
  BY <1>h DEF Reading, Teeing, Exclusive
<1>10. QED
  BY <1>8, <1>9, <1>h DEF Ownership

(* Every open stream has one owner: liveSet.register and unregister hand it *)
(* over so that at most one goroutine or broadcaster reads it, closeAll     *)
(* never takes it from under its reader, and it stays registered, about to  *)
(* be closed or in the hands of a goroutine that goes on, unless no folder  *)
(* was found for it.                                                       *)
THEOREM StreamsHaveOneOwner == Spec => []OneOwner
<1>1. ExecInv => OneOwner
  BY InvGivesOneOwner
<1>2. QED
  BY <1>1, AlwaysInv, PTL

(* Until the root context is cancelled no node of walkChain, and no merge,  *)
(* runs on a value folded from a stream that was closed early.             *)
THEOREM NodesGetWholeInputs == Spec => []WholeInputs
<1>1. ExecInv => WholeInputs
  BY DEF ExecInv
<1>2. QED
  BY <1>1, AlwaysInv, PTL
=============================================================================
