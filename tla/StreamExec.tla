----------------------------- MODULE StreamExec -----------------------------
(***************************************************************************)
(* Runnable.Stream on a compiled typed graph: runLinearStream, runStreamDAG *)
(* and runStreamGraph with its fan-out and fan-in, the consumer of the      *)
(* reader they return, and its Close.                                      *)
(*                                                                         *)
(* Goroutines ("walkers"): 0 is the caller of Stream, k > 0 the one started *)
(* for target key k of a Copy or source key k of a merge; plus a            *)
(* broadcaster per Copy.  The streams are the ones a ChatModel opened,      *)
(* <<walker, node>>, and the readers of a Copy, <<key>>.  The Copy's        *)
(* channels hold one frame (copyBufSize); StreamFan has the combinators in  *)
(* full.                                                                   *)
(***************************************************************************)
EXTENDS StreamPlan

CONSTANTS
  Graphs,      \* the graphs to compile, keys distinct within each
  MaxKey,      \* bound: keys of a graph
  Registered,  \* the registry when Compile runs
  Late,        \* folders a program may register after Compile: [type -> elements]
  Frames,      \* bound: frames of a ChatModel's stream
  MaxFaults    \* bound: node and stream failures

Copies == UNION {OfKind(x, "copy") : x \in Graphs}
Fans == Copies \cup UNION {OfKind(x, "merge") : x \in Graphs}
Keys == 1..MaxKey
Walkers == 0..MaxKey

EdgeRecord(x) == [from : NodesOf(x), port : Walkers, to : NodesOf(x), toPort : Walkers]

ASSUME StreamAssumption ==
  /\ MaxKey \in Nat /\ MaxFaults \in Nat /\ Frames \in Nat \ {0}
  /\ DOMAIN Late \cap DOMAIN Registered = {}

(* What the constructors give: ends in the graph, a key on every edge from  *)
(* a Copy; and no key twice.                                               *)
ASSUME GraphsAssumption ==
  \A x \in Graphs :
    /\ x.edges \in Seq(EdgeRecord(x)) /\ {x.entry, x.exit} \subseteq NodesOf(x)
    /\ Acyclic(x)
    /\ \A c \in OfKind(x, "copy") : Default \notin PortsOf(x, c)
    /\ \A e, f \in EdgesOf(x) :
         /\ e # f /\ e.port # Default => e.port # f.port
         /\ e # f /\ e.toPort # Default => e.toPort # f.toPort

(* The graphs on which the planners' reading agrees with the engine's:     *)
(* no fan-out kind in a branch-DAG plan, an exit that the route reaches, a  *)
(* merge whose sources have only passthroughs before them (fanInMerge feeds *)
(* each source the graph input), no edge lost by sharing a port, values     *)
(* copied only into folders for that very type, and Copy targets that do    *)
(* not meet again.                                                         *)
Upstream(x, n) ==
  {y \in NodesOf(x) \ {n} :
     n \in Reached(x, y, LAMBDA z : {e.to : e \in {f \in EdgesOf(x) : f.from = z}})}

Subtree(x, c, k) == Reached(x, Target(x, c, k), LAMBDA y : chainTargets(x, y))

SameReading(x, r, executor) ==
  /\ executor = "dag" => OfKind(x, "copy") \cup OfKind(x, "parallel") = {}
  /\ InvokeResult(x, r) # {}
  /\ executor = "graph" =>
       /\ \A m, j \in OfKind(x, "merge") : m = j
       /\ \A m \in OfKind(x, "merge") : \A s \in MergeSources(x, m) : Upstream(x, s) \subseteq OfKind(x, "pass")
       /\ \A e \in SharedPorts(x) : \E m \in OfKind(x, "merge") : e.to \in MergeSources(x, m)
       /\ \A c \in OfKind(x, "copy"), pred \in PredChoices(x) :
            \/ c \in streamEmittingNodes(x, pred)
            \/ \A n \in chainTargets(x, c) : Folds(Registered, x.inT[n], x.inT[c])
       /\ \A c \in OfKind(x, "copy") : \A j, k \in PortsOf(x, c) :
            j # k => Subtree(x, c, j) \cap Subtree(x, c, k) = {}

VARIABLES
  g, route, plan,   \* the graph, the route its branches take, the executor
  invoke,           \* what Invoke does: its result and runs, and SameReading
  leads,            \* the nodes for which subtreeReaches, evaluated once
  registry,         \* concatRegistry
  pc, at, car,      \* walkers: program counter, node, carrier (fold: the folder found takes its elements)
  live, open,       \* the liveSet; ChatModel streams not yet closed
  bpc, src, left, hand,   \* broadcasters: counter, what is teed, frames to come, frame in hand
  todo,             \* keys a broadcaster has to serve, or fanInMerge to collect
  buf, rclosed,     \* channel of each reader, readers closed
  closing,          \* streams closeAll has taken and not yet closed
  cancelled,        \* the root context
  cons, result,     \* the consumer; what its Next returned
  ran, cutRuns,     \* runs of each node; nodes run on a cut value while not cancelled
  faults

shape == <<g, route, plan, invoke, leads>>
walkVars == <<pc, at, car>>
teeVars == <<bpc, src, left, hand, todo, buf>>
consVars == <<cons, result>>
logVars == <<ran, cutRuns>>
vars == <<shape, registry, walkVars, live, open, teeVars, rclosed, closing,
          cancelled, consVars, logVars, faults>>

None == <<>>
Carrier(v) == [val |-> v, st |-> None, elem |-> ElemT, fold |-> FALSE]
Empty == Carrier({})
IsReader(s) == Len(s) = 1

Here(w) == g.kind[at[w]]
KeysOf(n) == PortsOf(g, n)
Ended(w) == pc[w] \in {"idle", "end", "err"}
Teed == {c \in Copies : bpc[c] # "idle"}
IsLeaf(w) == w # 0 /\ \E c \in Teed : w \in KeysOf(c)

(* The reader Stream returns owns the root context and the live set. *)
Wrapped == plan = "graph" /\ (Teed # {} \/ OfKind(g, "merge") # {})

Init ==
  /\ g \in Graphs /\ route \in Routes(g)
  /\ \E pred \in PredChoices(g) : plan = Compile(g, pred, Registered)
  /\ invoke = [result |-> InvokeResult(g, route), runs |-> InvokeRuns(g, route),
               same |-> SameReading(g, route, plan)]
  /\ leads = {n \in NodesOf(g) : subtreeReaches(g, n)}
  /\ registry = Registered
  /\ pc = [w \in Walkers |->
             CASE w # 0 \/ plan = "error" -> "idle"
               [] w = 0 /\ plan = "box" -> "invoke"
               [] w = 0 /\ plan = "graph" /\ OfKind(g, "merge") # {} -> "fanin"
               [] OTHER -> "walk"]
  /\ at = [w \in Walkers |-> g.entry]
  /\ car = [w \in Walkers |-> Carrier(Input)]
  /\ live = {} /\ open = {} /\ rclosed = {} /\ closing = {}
  /\ bpc = [c \in Copies |-> "idle"] /\ src = [c \in Copies |-> Empty]
  /\ left = [c \in Copies |-> 0] /\ hand = [c \in Copies |-> "frame"]
  /\ todo = [n \in Fans |-> {}] /\ buf = [k \in Keys |-> <<>>]
  /\ cancelled = FALSE /\ cons = "call" /\ result = Empty.val
  /\ ran = [n \in NodesOf(g) |-> 0] /\ cutRuns = {} /\ faults = 0

---------------------------------------------------------------------------
(* Failures.  A node or a stream may fail within the bound; under a         *)
(* cancelled context, or when its stream was closed, it may at any time.    *)

Fault(free) ==
  IF free THEN UNCHANGED faults ELSE faults < MaxFaults /\ faults' = faults + 1

(* Folding a ChatModel's stream in one go, with a folder that takes its     *)
(* elements or not: the whole value, an early end (only once the stream was *)
(* closed), or an error.  Every folder closes the stream it drains.         *)
FoldChat(c, takes, Whole(_), Failed) ==
  /\ open' = open \ {c.st}
  /\ \/ takes /\ Whole(c.val) /\ UNCHANGED faults
     \/ takes /\ c.st \notin open /\ Whole(Cut) /\ UNCHANGED faults
     \/ Fault(cancelled \/ c.st \notin open \/ ~takes) /\ Failed

---------------------------------------------------------------------------
(* walkChain, one step of walker w; runLinearStream and runStreamDAG take   *)
(* the same steps with a single stream in flight.                          *)

Boundary(w) == plan = "graph" /\ Here(w) \in {"copy", "merge"}

Goto(w, p, n, c) ==
  /\ pc' = [pc EXCEPT ![w] = p] /\ at' = [at EXCEPT ![w] = n] /\ car' = [car EXCEPT ![w] = c]

Stop(w, p) == pc' = [pc EXCEPT ![w] = p] /\ UNCHANGED <<at, car>>

Advance(w, c) ==
  IF Default \in PortsOf(g, at[w])
    THEN Goto(w, "walk", Target(g, at[w], Default), c)
    ELSE Goto(w, "sink", at[w], c)

(* Mutant of Unregister: the hand-over to the folder is forgotten. *)
UnregisterForgotten(w) ==
  /\ pc[w] = "walk" /\ ~Boundary(w) /\ car[w].st # None
  /\ Goto(w, "fold", at[w], [car[w] EXCEPT !.fold = TRUE])
  /\ UNCHANGED <<shape, registry, live, open, teeVars, rclosed, closing, cancelled, consVars, logVars, faults>>

(* A stream into the node: out of the live set, then look for its folder.   *)
(* When there is none the walk gives up without closing it.                *)
Unregister(w) ==
  /\ pc[w] = "walk" /\ ~Boundary(w) /\ car[w].st # None
  /\ live' = live \ {car[w].st}
  /\ Goto(w, IF Foldable(registry, g.inT[at[w]]) THEN "fold" ELSE "err", at[w],
          [car[w] EXCEPT !.fold = Folds(registry, g.inT[at[w]], car[w].elem)])
  /\ UNCHANGED <<shape, registry, open, teeVars, rclosed, closing, cancelled, consVars, logVars, faults>>

FoldStream(w) ==
  /\ pc[w] = "fold" /\ ~IsReader(car[w].st)
  /\ FoldChat(car[w], car[w].fold,
              LAMBDA v : Goto(w, "walk", at[w], Carrier(v)), Stop(w, "err"))
  /\ UNCHANGED <<shape, registry, live, teeVars, rclosed, closing, cancelled, consVars, logVars>>

(* Next on a reader of a Copy: it takes the reader's mutex, keeps it while  *)
(* it waits on the channel, and gives io.EOF at once on a closed reader.    *)
NextCall(w) ==
  /\ pc[w] = "fold" /\ IsReader(car[w].st)
  /\ IF car[w].st[1] \in rclosed
       THEN Goto(w, "walk", at[w], Carrier(Cut))
       ELSE Stop(w, "next")
  /\ UNCHANGED <<shape, registry, live, open, teeVars, rclosed, closing, cancelled, consVars, logVars, faults>>

Recv(w) ==
  LET k == car[w].st[1]
      item == Head(buf[k])
      bad == item = "err" \/ (item = "frame" /\ ~car[w].fold)
  IN  /\ pc[w] = "next" /\ buf[k] # <<>>
      /\ buf' = [buf EXCEPT ![k] = <<>>]
      /\ IF item = "frame" /\ ~bad
           THEN Stop(w, "fold") /\ UNCHANGED rclosed
           ELSE /\ rclosed' = rclosed \cup {k}       \* the folder closes what it drained
                /\ IF bad THEN Stop(w, "err")
                   ELSE Goto(w, "walk", at[w], Carrier(IF item = "cut" THEN Cut ELSE car[w].val))
      /\ UNCHANGED <<shape, registry, live, open, bpc, src, left, hand, todo, closing,
                     cancelled, consVars, logVars, faults>>

Logged(n, v) ==
  /\ ran' = [ran EXCEPT ![n] = @ + 1]
  /\ cutRuns' = IF IsCut(v) /\ ~cancelled THEN cutRuns \cup {n} ELSE cutRuns

(* Run, streamRun and the branch's choice.  A fan-out kind outside a        *)
(* stream-graph plan is run as a value node: it has nothing on portOut.     *)
Run(w) ==
  LET n == at[w]
      v == car[w].val
  IN  /\ pc[w] = "walk" /\ ~Boundary(w) /\ car[w].st = None
      /\ Logged(n, v)
      /\ \/ Fault(cancelled) /\ Stop(w, "err") /\ UNCHANGED open
         \/ /\ Here(w) \in {"value", "pass"} /\ Advance(w, Carrier(Apply(g, n, v)))
            /\ UNCHANGED <<open, faults>>
         \/ /\ Here(w) \in {"copy", "parallel"} /\ Goto(w, "sink", n, Empty)
            /\ UNCHANGED <<open, faults>>
         \/ /\ Here(w) = "chat" /\ open' = open \cup {<<w, n>>}
            /\ Goto(w, "reg", n, [Carrier(Apply(g, n, v)) EXCEPT !.st = <<w, n>>])
            /\ UNCHANGED faults
         \/ /\ Here(w) = "branch"
            /\ \E p \in PortsOf(g, n) :
                 (p = route[n] \/ IsCut(v)) /\ Goto(w, "walk", Target(g, n, p), Carrier(v))
            /\ UNCHANGED <<open, faults>>
      /\ UNCHANGED <<shape, registry, live, teeVars, rclosed, closing, cancelled, consVars>>

Register(w) ==
  /\ pc[w] = "reg"
  /\ live' = live \cup {car[w].st}
  /\ Advance(w, car[w])
  /\ UNCHANGED <<shape, registry, open, teeVars, rclosed, closing, cancelled, consVars, logVars, faults>>

---------------------------------------------------------------------------
(* fanOutCopy: tee the carrier and register every reader, then start a      *)
(* goroutine per target and go on with the first that leads to the exit.    *)

Tee(w) ==
  LET c == at[w]
      stream == car[w].st # None
  IN  /\ pc[w] = "walk" /\ Boundary(w) /\ Here(w) = "copy" /\ bpc[c] = "idle"
      /\ live' = (live \ {car[w].st}) \cup {<<k>> : k \in KeysOf(c)}
      /\ src' = [src EXCEPT ![c] = [car[w] EXCEPT !.elem = IF stream THEN @ ELSE g.inT[c]]]
      /\ left' = [left EXCEPT ![c] = IF stream THEN Frames ELSE 1]
      /\ bpc' = [bpc EXCEPT ![c] = "pull"]
      /\ Stop(w, "spawn")
      /\ UNCHANGED <<shape, registry, open, hand, todo, buf, rclosed, closing, cancelled,
                     consVars, logVars, faults>>

(* Mutant of TailKeys: the first target is taken for the tail. *)
AllKeys(c) == KeysOf(c)

TailKeys(c) == {k \in KeysOf(c) : Target(g, c, k) \in leads}

(* Mutants of Leaves: the walk goes down the tail alone; the tail is driven *)
(* by a goroutine of its own as well.                                      *)
TailOnly(c, tail) == {}
TailToo(c, tail) == KeysOf(c)

(* The targets that are driven concurrently with the tail. *)
Leaves(c, tail) == KeysOf(c) \ {tail}

Spawn(w) ==
  LET c == at[w]
      tail == Min(TailKeys(c))
      leaves == Leaves(c, tail)
      entry(k) == [src[c] EXCEPT !.st = <<k>>]
  IN  /\ pc[w] = "spawn"
      /\ IF TailKeys(c) = {}
           THEN /\ rclosed' = rclosed \cup KeysOf(c)
                /\ buf' = [k \in Keys |-> IF k \in KeysOf(c) THEN <<>> ELSE buf[k]]
                /\ Stop(w, "err")
           ELSE /\ pc' = [x \in Walkers |-> IF x = w \/ x \in leaves THEN "walk" ELSE pc[x]]
                /\ at' = [x \in Walkers |-> IF x = w THEN Target(g, c, tail)
                                            ELSE IF x \in leaves THEN Target(g, c, x) ELSE at[x]]
                /\ car' = [x \in Walkers |-> IF x = w THEN entry(tail)
                                             ELSE IF x \in leaves THEN entry(x) ELSE car[x]]
                /\ UNCHANGED <<buf, rclosed>>
      /\ UNCHANGED <<shape, registry, live, open, bpc, src, left, hand, todo, closing,
                     cancelled, consVars, logVars, faults>>

(* driveLeafSubtree: a leaf that ends on a stream drains and closes it. *)
LeafEnds(w) ==
  /\ pc[w] = "sink" /\ IsLeaf(w)
  /\ open' = open \ {car[w].st} /\ live' = live \ {car[w].st}
  /\ Stop(w, "end")
  /\ UNCHANGED <<shape, registry, teeVars, rclosed, closing, cancelled, consVars, logVars, faults>>

---------------------------------------------------------------------------
(* fanInMerge: walk every source from the graph input, wait for all, turn   *)
(* each into a reader in key order, then fold and combine.                 *)

FanIn ==
  \E m \in OfKind(g, "merge") :
    LET keys == KeysInto(g, m) \ {Default} IN
      /\ pc[0] = "fanin"
      /\ pc' = [w \in Walkers |-> IF w = 0 THEN "join" ELSE IF w \in keys THEN "walk" ELSE pc[w]]
      /\ at' = [w \in Walkers |-> IF w = 0 THEN m ELSE IF w \in keys THEN SourceAt(g, m, w) ELSE at[w]]
      /\ car' = [w \in Walkers |-> IF w = 0 THEN Empty ELSE Carrier(Input)]
      /\ todo' = [todo EXCEPT ![m] = keys]
      /\ UNCHANGED <<shape, registry, live, open, bpc, src, left, hand, buf, rclosed, closing,
                     cancelled, consVars, logVars, faults>>

(* A source chain is over at this merge, at a sink, or, with an error, at   *)
(* another merge.                                                          *)
SourceEnds(w) ==
  /\ w # 0 /\ ~IsLeaf(w)
  /\ \/ pc[w] = "sink" /\ Stop(w, "end")
     \/ pc[w] = "walk" /\ Boundary(w) /\ Stop(w, IF at[w] = at[0] THEN "end" ELSE "err")
  /\ UNCHANGED <<shape, registry, live, open, teeVars, rclosed, closing, cancelled, consVars, logVars, faults>>

Join ==
  /\ pc[0] = "join" /\ \A w \in todo[at[0]] : Ended(w)
  /\ Stop(0, "collect")
  /\ UNCHANGED <<shape, registry, live, open, teeVars, rclosed, closing, cancelled, consVars, logVars, faults>>

(* sourceReader: a value is boxed; a ChatModel's stream, whose elements are *)
(* not the merge's T, is folded to T and boxed.                            *)
Collect ==
  LET m == at[0]
      k == Min(todo[m])
      gathered(v) == Goto(0, "collect", m, Carrier(car[0].val \cup v))
  IN  /\ pc[0] = "collect" /\ todo[m] # {}
      /\ todo' = [todo EXCEPT ![m] = @ \ {k}]
      /\ live' = IF pc[k] = "err" THEN live ELSE live \ {car[k].st}
      /\ CASE pc[k] = "err" -> Stop(0, "err") /\ UNCHANGED <<open, faults>>
           [] pc[k] # "err" /\ car[k].st = None -> gathered(car[k].val) /\ UNCHANGED <<open, faults>>
           [] OTHER -> FoldChat(car[k], Folds(registry, g.inT[m], car[k].elem), gathered, Stop(0, "err"))
      /\ UNCHANGED <<shape, registry, bpc, src, left, hand, buf, rclosed, closing, cancelled,
                     consVars, logVars>>

Combine ==
  LET m == at[0] IN
    /\ pc[0] = "collect" /\ todo[m] = {}
    /\ Logged(m, car[0].val)
    /\ \/ Fault(cancelled) /\ Stop(0, "err")
       \/ Advance(0, Carrier(Apply(g, m, car[0].val))) /\ UNCHANGED faults
    /\ UNCHANGED <<shape, registry, live, open, teeVars, rclosed, closing, cancelled, consVars>>

(* A fan node after the merge is not supported. *)
SecondMerge ==
  /\ pc[0] = "walk" /\ Boundary(0) /\ Here(0) = "merge"
  /\ Stop(0, "err")
  /\ UNCHANGED <<shape, registry, live, open, teeVars, rclosed, closing, cancelled, consVars, logVars, faults>>

---------------------------------------------------------------------------
(* Close of a stream; a reader of a Copy drains its channel. *)
CloseStream(s) ==
  IF IsReader(s)
    THEN rclosed' = rclosed \cup {s[1]} /\ buf' = [buf EXCEPT ![s[1]] = <<>>] /\ UNCHANGED open
    ELSE open' = open \ {s} /\ UNCHANGED <<rclosed, buf>>

(* broadcastCopy, for Copy node c.  A closed reader drains its channel, so  *)
(* a send to it never waits.                                               *)

AllClosed(c) == KeysOf(c) \subseteq rclosed

Serve(c, frame) ==
  /\ hand' = [hand EXCEPT ![c] = frame]
  /\ bpc' = [bpc EXCEPT ![c] = "send"]
  /\ todo' = [todo EXCEPT ![c] = KeysOf(c)]

(* src.Next on a boxed value or a ChatModel's stream. *)
Pull(c) ==
  LET s == src[c].st
      shut == s # None /\ s \notin open
  IN  /\ bpc[c] = "pull" /\ ~IsReader(s)
      /\ \/ left[c] > 0 /\ Serve(c, "frame") /\ left' = [left EXCEPT ![c] = @ - 1] /\ UNCHANGED faults
         \/ left[c] = 0 /\ Serve(c, "eof") /\ UNCHANGED <<left, faults>>
         \/ left[c] > 0 /\ shut /\ Serve(c, "cut") /\ UNCHANGED <<left, faults>>
         \/ s # None /\ Fault(cancelled \/ shut) /\ Serve(c, "err") /\ UNCHANGED left
      /\ UNCHANGED <<shape, registry, walkVars, live, open, src, buf, rclosed, closing, cancelled,
                     consVars, logVars>>

(* src.Next on a reader of another Copy: with its mutex, until a frame is   *)
(* there.                                                                  *)
PullReader(c) ==
  LET k == src[c].st[1] IN
    /\ bpc[c] \in {"pull", "wait"} /\ IsReader(src[c].st)
    /\ CASE bpc[c] = "pull" /\ k \in rclosed -> Serve(c, "cut") /\ UNCHANGED buf
         [] bpc[c] = "pull" /\ k \notin rclosed ->
              bpc' = [bpc EXCEPT ![c] = "wait"] /\ UNCHANGED <<hand, todo, buf>>
         [] OTHER -> buf[k] # <<>> /\ Serve(c, Head(buf[k])) /\ buf' = [buf EXCEPT ![k] = <<>>]
    /\ UNCHANGED <<shape, registry, walkVars, live, open, src, left, rclosed, closing, cancelled,
                   consVars, logVars, faults>>

Send(c) ==
  LET k == Min(todo[c]) IN
    /\ bpc[c] = "send" /\ todo[c] # {}
    /\ \/ k \in rclosed /\ UNCHANGED buf
       \/ k \notin rclosed /\ buf[k] = <<>> /\ buf' = [buf EXCEPT ![k] = <<hand[c]>>]
    /\ todo' = [todo EXCEPT ![c] = @ \ {k}]
    /\ UNCHANGED <<shape, registry, walkVars, live, open, bpc, src, left, hand, rclosed, closing,
                   cancelled, consVars, logVars, faults>>

NextFrame(c) ==
  /\ bpc[c] = "send" /\ todo[c] = {} /\ hand[c] = "frame"
  /\ bpc' = [bpc EXCEPT ![c] = "pull"]
  /\ UNCHANGED <<shape, registry, walkVars, live, open, src, left, hand, todo, buf, rclosed,
                 closing, cancelled, consVars, logVars, faults>>

(* The terminal frame was sent to all, or every reader was closed. *)
BroadcastEnds(c) ==
  /\ bpc[c] = "send"
  /\ \/ todo[c] = {} /\ hand[c] # "frame"
     \/ todo[c] # {} /\ AllClosed(c)
  /\ bpc' = [bpc EXCEPT ![c] = "done"]
  /\ CloseStream(src[c].st)
  /\ UNCHANGED <<shape, registry, walkVars, live, src, left, hand, todo, closing, cancelled,
                 consVars, logVars, faults>>

---------------------------------------------------------------------------
(* The root: what Stream returns, the consumer's Next and Close. *)

InvokeAndBox ==
  /\ pc[0] = "invoke"
  /\ LET v == invoke.result IN
       \/ v # {} /\ Goto(0, "tail", g.exit, Carrier(v)) /\ cons' = "reader" /\ UNCHANGED faults
       \/ v = {} /\ Stop(0, "err") /\ UNCHANGED <<cons, faults>>
       \/ Fault(cancelled) /\ Stop(0, "err") /\ UNCHANGED cons
  /\ ran' = [n \in NodesOf(g) |-> IF n \in invoke.runs THEN 1 ELSE 0]
  /\ UNCHANGED <<shape, registry, live, open, teeVars, rclosed, closing, cancelled, result, cutRuns>>

(* materialiseTail.  A stream-graph walk that met no Copy cancels its       *)
(* context before it hands out the tail.                                   *)
materialiseTail ==
  /\ pc[0] = "sink"
  /\ live' = live \ {car[0].st}
  /\ IF IF car[0].st # None THEN Foldable(registry, g.O)
        ELSE car[0].val # {} /\ assignable(g.outT[at[0]], g.O)
       THEN /\ Goto(0, "tail", at[0], [car[0] EXCEPT !.fold = Folds(registry, g.O, car[0].elem)])
            /\ cons' = "reader" /\ UNCHANGED open
            /\ cancelled' = (cancelled \/ (plan = "graph" /\ ~Wrapped))
       ELSE /\ Stop(0, "err") /\ open' = open \ {car[0].st} /\ UNCHANGED <<cons, cancelled>>
  /\ UNCHANGED <<shape, registry, teeVars, rclosed, closing, result, logVars, faults>>

(* Mutant of closeAll: what is still live is forgotten. *)
closeNone == closing' = {} /\ live' = {}

closeAll == closing' = live /\ live' = {}

(* Mutant of StreamFails: the streams are closed under a live context. *)
FailsUncancelled ==
  /\ pc[0] = "err" /\ cons = "call"
  /\ closeAll /\ cons' = "failing"
  /\ UNCHANGED <<shape, registry, walkVars, open, teeVars, rclosed, cancelled, result, logVars, faults>>

StreamFails ==
  /\ pc[0] = "err" /\ cons = "call"
  /\ closeAll /\ cancelled' = (cancelled \/ plan = "graph")
  /\ cons' = "failing"
  /\ UNCHANGED <<shape, registry, walkVars, open, teeVars, rclosed, result, logVars, faults>>

(* boxReader and foldTailReader: the fold happens at the first Next. *)
ConsumerNext ==
  LET returned(v) == result' = v IN
    /\ cons = "reader"
    /\ IF car[0].st = None
         THEN returned(car[0].val) /\ UNCHANGED <<open, faults>>
         ELSE FoldChat(car[0], car[0].fold, returned, result' = {<<"error">>})
    /\ cons' = "got"
    /\ UNCHANGED <<shape, registry, walkVars, live, teeVars, rclosed, closing, cancelled, logVars>>

ConsumerClose ==
  /\ cons \in {"reader", "got"}
  /\ open' = open \ {car[0].st}
  /\ IF Wrapped THEN closeAll /\ cancelled' = TRUE ELSE UNCHANGED <<live, closing, cancelled>>
  /\ cons' = IF cons = "got" THEN "closing" ELSE "quitting"
  /\ UNCHANGED <<shape, registry, walkVars, teeVars, rclosed, result, logVars, faults>>

(* closeAll closes what it took, in some order; Close on a reader waits for *)
(* the Next that holds its mutex.                                          *)
CloseOne ==
  \E s \in closing :
    /\ \A w \in Walkers : pc[w] = "next" => car[w].st # s
    /\ \A c \in Copies : bpc[c] = "wait" => src[c].st # s
    /\ closing' = closing \ {s}
    /\ CloseStream(s)
    /\ UNCHANGED <<shape, registry, walkVars, live, bpc, src, left, hand, todo, cancelled,
                   consVars, logVars, faults>>

CloseReturns ==
  /\ cons \in {"failing", "closing", "quitting"} /\ closing = {}
  /\ cons' = CASE cons = "failing" -> "failed" [] cons = "closing" -> "closed" [] OTHER -> "quit"
  /\ UNCHANGED <<shape, registry, walkVars, live, open, teeVars, rclosed, closing, cancelled,
                 result, logVars, faults>>

(* The caller cancels the context it passed to Stream. *)
CallerCancels ==
  /\ cons \in {"call", "reader"} /\ plan # "error" /\ ~cancelled
  /\ cancelled' = TRUE
  /\ UNCHANGED <<shape, registry, walkVars, live, open, teeVars, rclosed, closing, consVars,
                 logVars, faults>>

(* RegisterConcatenator, called by the program after Compile, for a type    *)
(* that some input of the graph accepts (no other changes a lookup).        *)
RegisterConcatenator ==
  \E t \in DOMAIN Late \ DOMAIN registry :
    /\ \E n \in NodesOf(g) : assignable(t, g.inT[n])
    /\ registry' = [x \in DOMAIN registry \cup {t} |-> IF x = t THEN Late[t] ELSE registry[x]]
    /\ UNCHANGED <<shape, walkVars, live, open, teeVars, rclosed, closing, cancelled, consVars,
                   logVars, faults>>

---------------------------------------------------------------------------
Walker(w) ==
  \/ Unregister(w) \/ FoldStream(w) \/ NextCall(w) \/ Recv(w) \/ Run(w) \/ Register(w)
  \/ Tee(w) \/ Spawn(w) \/ LeafEnds(w) \/ SourceEnds(w)

Root == FanIn \/ Join \/ Collect \/ Combine \/ SecondMerge \/ InvokeAndBox \/ materialiseTail \/ StreamFails

Closer == ConsumerClose \/ CloseOne \/ CloseReturns

Broadcaster(c) == Pull(c) \/ PullReader(c) \/ Send(c) \/ NextFrame(c) \/ BroadcastEnds(c)

Next ==
  \/ \E w \in Walkers : Walker(w)
  \/ \E c \in Copies : Broadcaster(c)
  \/ Root \/ ConsumerNext \/ Closer
  \/ CallerCancels \/ RegisterConcatenator

Spec == Init /\ [][Next]_vars

(* Goroutines run; nodes and streams return; the consumer closes its reader *)
(* (Stream: "Consumers MUST Close the reader").                            *)
FairSpec ==
  /\ Spec
  /\ \A w \in Walkers : WF_vars(Walker(w))
  /\ \A c \in Copies : WF_vars(Broadcaster(c))
  /\ WF_vars(Root) /\ WF_vars(Closer)

---------------------------------------------------------------------------
(* Properties *)

Untroubled == faults = 0 /\ ~cancelled /\ registry = Registered

(* Stream gives what Invoke gives or an error, whatever the interleaving of *)
(* the subtrees and whichever node or stream fails; and an error only if    *)
(* something failed, the registry changed after Compile or the context was  *)
(* cancelled, be it by the walk itself when it met no Copy                  *)
(* (Runnable.Stream, "the result is identical to Invoke").                  *)
StreamAgrees ==
  invoke.same =>
    /\ cons \in {"got", "closing", "closed"} => result \in {invoke.result, {<<"error">>}}
    /\ Untroubled => pc[0] # "err" /\ result # {<<"error">>}

(* The nodes that run are the ones Invoke runs, each once, and when every   *)
(* goroutine is through without having been cancelled all of them have run: *)
(* a leaf subtree is driven to its end although nobody reads it.  Except    *)
(* behind a Copy none of whose targets leads to the exit (fanOutCopy); a    *)
(* Copy is teed, not run, and passthroughs before a merge are skipped.      *)
Quiet ==
  /\ cons = "got" /\ ~cancelled
  /\ \A w \in Keys : Ended(w)
  /\ \A c \in Copies : bpc[c] \in {"idle", "done"}

RunsAsInvoke ==
  invoke.same =>
    /\ \A n \in NodesOf(g) : ran[n] > 0 => ran[n] = 1 /\ (n \in invoke.runs \/ cancelled)
    /\ (Quiet /\ Untroubled /\ \A c \in Teed : TailKeys(c) # {}) =>
         \A n \in invoke.runs \ (OfKind(g, "copy") \cup OfKind(g, "pass")) : ran[n] = 1

(* A node runs on a value cut short only after the root context was        *)
(* cancelled: closeAll closes readers that a subtree has yet to fold, and a *)
(* closed copyReader ends with io.EOF, not with an error.                  *)
WholeInputs == cutRuns = {}

(* Hand-over of streams: a stream in use is read by one goroutine and is    *)
(* out of the live set, so that closeAll never closes it under its reader   *)
(* unless it took it before; and an open stream is registered, or about to  *)
(* be closed, or in the hands of a goroutine that goes on.  Except one that *)
(* no folder was found for: concatToValue fails after live.unregister.      *)
OpenStreams == open \cup {<<k>> : k \in (UNION {KeysOf(c) : c \in Teed}) \ rclosed}

Reading(s) == {w \in Walkers : car[w].st = s /\ pc[w] \in {"fold", "next"}}
Teeing(s) == {c \in Teed : src[c].st = s /\ bpc[c] # "done"}
Holding(s) == {w \in Walkers : car[w].st = s /\ ~Ended(w)}
Owned(s) == s \in live \cup closing \/ Teeing(s) # {} \/ Holding(s) # {}

Unfoldable ==
  {car[w].st : w \in {x \in Walkers : pc[x] = "err" /\ ~Boundary(x) /\ ~car[x].fold}}

OneOwner ==
  \A s \in OpenStreams :
    /\ Cardinality(Reading(s)) + Cardinality(Teeing(s)) <= 1
    /\ Reading(s) # {} \/ Teeing(s) # {} => s \notin live
    /\ Owned(s) \/ s \in Unfoldable

(* Stream returns: no subtree, source or broadcaster waits for ever on      *)
(* another.  Except behind a reader that was lost for want of a folder: the *)
(* broadcaster then waits for it and everyone for the broadcaster.          *)
Lost == OpenStreams \cap Unfoldable # {}

StreamReturns == <>(cons # "call" \/ plan = "error" \/ Lost)

(* Once the consumer closed its reader, or Stream failed, every goroutine   *)
(* ends and every stream and reader is closed, with the same exception.     *)
Released ==
  /\ cons \in {"failed", "closed", "quit"} \/ plan = "error"
  /\ OpenStreams = {}
  /\ \A w \in Keys : Ended(w)
  /\ \A c \in Copies : bpc[c] \in {"idle", "done"}

AllReleased == <>(Released \/ Lost)

(* The same without the exception: "every copyReader is registered          *)
(* independently so a subtree that errors before consuming its copyReader   *)
(* cannot wedge the broadcaster" (liveSet, streamexec.go:81-83).            *)
NeverWedged == <>(cons # "call" \/ plan = "error")
=============================================================================
