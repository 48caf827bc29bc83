--------------------------- MODULE FlowdRunProofs ---------------------------
(***************************************************************************)
(* The safety theorems of FlowdRun, for every flow, channel capacity and    *)
(* number of failing writes, whenever the client goes away.                *)
(***************************************************************************)
EXTENDS FlowdRun, SequenceTheorems, TLAPS

(***************************************************************************)
(* The inductive invariant.  Control ties the handler, the engine goroutine *)
(* and the row together; Tasks says where the node tasks of a layer can be; *)
(* Explained gives, for every event ever sent, what must have happened.     *)
(***************************************************************************)
Handling == {"persist", "forward", "note", "collect"}
Decided == {"final", "close", "closed"}

Control ==
  /\ IF cpc \in Handling THEN cur \in Events ELSE cur = NoEvent
  /\ cpc \in {"persist", "forward", "note"} => stream
  /\ cpc = "collect" => ~stream
  /\ cpc = "start" => epc = "none"
  /\ cpc = "finish" => epc = "closed"
  /\ cpc \in {"start", "finish", "returned"} => ch = << >>
  /\ cpc = "returned" => epc \in {"none", "closed"}
  /\ run = "none" <=> epc = "none"
  /\ run \in {"done", "failed"} => cpc = "returned"
  /\ outcome = "none" <=> epc \notin Decided

Tasks ==
  /\ epc \in {"skip", "fanout"} => layer <= NumLayers
  /\ epc \in {"none", "started"} => \A n \in Nodes : task[n] = "idle"
  /\ \A n \in Nodes : task[n] # "idle" =>
       LayerOf[n] <= layer /\ (epc = "layer" => LayerOf[n] < layer)
  /\ \A n \in Nodes : task[n] = "skip" => epc = "skip" /\ LayerOf[n] = layer
  /\ \A n \in Nodes : task[n] \in Waiting => epc \in {"skip", "fanout"} /\ LayerOf[n] = layer

(* What a node's task can be once it has sent an event of kind k.          *)
After(k) ==
  CASE k = "node_skipped" -> {"skipped"}
    [] k = "node_started" -> (Waiting \ {"queued"}) \cup {"ok", "err", "canceled"}
    [] OTHER -> {"ok", "err", "canceled"}

Explained(ev) ==
  /\ epc \notin {"none", "started"}
  /\ ev \in Terminal => epc \in {"close", "closed"} /\ ev = TerminalFor(outcome)
  /\ ev \in NodeEvents => task[ev.node] \in After(ev.kind)
AllExplained == \A i \in 1..Len(Sent) : Explained(Sent[i])

(* The terminal event, once it was sent, is the last one.                  *)
Closing ==
  epc \in {"close", "closed"} =>
    \/ Sent # << >> /\ Sent[Len(Sent)] = TerminalFor(outcome)
    \/ ctxDone /\ \A i \in 1..Len(Sent) : Sent[i] \notin Terminal

(* What the handler has noted of the terminal event, and written to the row. *)
Noted ==
  /\ final # "none" => final = outcome
  /\ final = "none" => \A i \in 1..Len(seen) : seen[i] \notin Terminal
Row ==
  cpc = "returned" /\ run # "none" => lost > 0 \/ run = StatusOf
RowFailed == run = "failed" => final = "err"

(* How many of the events sent may be in the log.                          *)
Logged == IF cpc \in {"forward", "note"} THEN Len(seen) + 1 ELSE Len(seen)
Drawn ==
  \A i \in 1..Len(log) : \E k \in 1..Logged :
    /\ Sent[k] = log[i]
    /\ \A j \in 1..(i - 1) : \E l \in 1..(k - 1) : Sent[l] = log[j]
(* The log and the client's frames while no write has failed.              *)
InStep ==
  /\ stream /\ lost = 0 =>
       /\ log = IF cpc \in {"forward", "note"} THEN Append(seen, cur) ELSE seen
       /\ sse = IF cpc = "note" THEN Append(seen, cur) ELSE seen
  /\ ~stream => /\ sse = << >>
                /\ cpc \notin {"finish", "returned"} => log = << >>
                /\ lost = 0 => log = << >> \/ (cpc \in {"finish", "returned"} /\ log = seen)

TypeInv == TypeOK /\ Control /\ Tasks

LEMMA Bounds ==
  /\ NumLayers \in Nat /\ ChanCap \in Nat /\ ChanCap > 0 /\ MaxLost \in Nat
  /\ \A n \in Nodes : LayerOf[n] \in Nat /\ 1 <= LayerOf[n] /\ LayerOf[n] <= NumLayers
BY FlowdAssumption

LEMMA EventTypes ==
  /\ NoEvent \notin Events /\ NoEvent = [kind |-> "none", node |-> Flow]
  /\ Event("flow_started", Flow) \in Events /\ Terminal \subseteq Events
  /\ \A o : TerminalFor(o) \in Terminal
  /\ \A n \in Nodes : /\ Event("node_started", n) \in NodeEvents
                      /\ Event("node_finished", n) \in NodeEvents
                      /\ Event("node_skipped", n) \in NodeEvents
  /\ NodeEvents \subseteq Events /\ Terminal \cap NodeEvents = {}
BY DEF NoEvent, Events, NodeEvents, FlowEvents, Terminal, TerminalFor, Event

(* emit sends the event or, the context being done, gives it up.           *)
LEMMA EmitShape ==
  ASSUME TypeOK, NEW ev \in Events, Emit(ev)
  PROVE  /\ ch' \in Seq(Events) /\ Len(ch') <= ChanCap
         /\ ch' = Append(ch, ev) \/ (ctxDone /\ ch' = ch)
<1>1. ch \in Seq(Events) /\ Len(ch) \in Nat /\ Len(ch) <= ChanCap
  BY DEF TypeOK
<1>2. Append(ch, ev) \in Seq(Events) /\ Len(Append(ch, ev)) = Len(ch) + 1
  BY <1>1, AppendProperties
<1>3. CASE HasRoom /\ ch' = Append(ch, ev)
  BY <1>1, <1>2, <1>3, Bounds DEF HasRoom
<1>4. QED
  BY <1>1, <1>3 DEF Emit

(* A store write is done, or lost within the bound.                        *)
LEMMA WriteShape == ASSUME TypeOK, Written \/ WriteFails PROVE lost' \in 0..MaxLost
BY Bounds DEF Written, WriteFails, TypeOK

LEMMA InitType == Init => TypeInv
<1> SUFFICES ASSUME Init PROVE TypeInv
  OBVIOUS
<1>1. TypeOK
  <2>1. ch \in Seq(Events) /\ Len(ch) = 0 /\ seen \in Seq(Events) /\ log \in Seq(Events) /\ sse \in Seq(Events)
    BY DEF Init
  <2>2. layer \in 1..(NumLayers + 1) /\ lost \in 0..MaxLost /\ Len(ch) <= ChanCap
    BY <2>1, Bounds DEF Init
  <2>3. QED
    BY <2>1, <2>2 DEF Init, TypeOK
<1>2. Control /\ Tasks
  BY DEF Init, Control, Tasks, Handling, Decided, Waiting
<1>3. QED
  BY <1>1, <1>2 DEF TypeInv

TaskState == Waiting \cup {"idle", "skip", "skipped", "ok", "err", "canceled"}

(* A node task moves one task and sends at most one event.                 *)
LEMMA NodeShape ==
  ASSUME TypeInv, NEW n \in Nodes, NodeStep(n)
  PROVE  /\ UNCHANGED <<epc, layer, outcome, ctxDone, stalled, handlerVars, storeVars, sse>>
         /\ epc \in {"skip", "fanout"} /\ LayerOf[n] = layer
         /\ ch' \in Seq(Events) /\ Len(ch') <= ChanCap
         /\ \E s \in TaskState \ {"idle", "skip", "queued"} :
              /\ task' = [task EXCEPT ![n] = s]
              /\ s \in Waiting => epc = "fanout"
<1>1. CASE EmitSkipped(n)
  <2>1. ch' \in Seq(Events) /\ Len(ch') <= ChanCap
    BY <1>1, EmitShape, EventTypes DEF EmitSkipped, TypeInv
  <2>2. "skipped" \in TaskState \ {"idle", "skip", "queued"} /\ "skipped" \notin Waiting
    BY DEF TaskState, Waiting
  <2>3. task' = [task EXCEPT ![n] = "skipped"] /\ epc = "skip" /\ LayerOf[n] = layer
    BY <1>1 DEF EmitSkipped, TypeInv, Tasks
  <2>4. UNCHANGED <<epc, layer, outcome, ctxDone, stalled, handlerVars, storeVars, sse>>
    BY <1>1 DEF EmitSkipped, others
  <2>5. QED
    BY <2>1, <2>2, <2>3, <2>4
<1>2. CASE StartNode(n)
  BY <1>2, EmitShape, EventTypes DEF StartNode, others, TypeInv, Tasks, TaskState, Waiting
<1>3. CASE GiveUpNode(n)
  BY <1>3 DEF GiveUpNode, others, TypeInv, TypeOK, Tasks, TaskState, Waiting
<1>4. CASE NodeReturns(n)
  BY <1>4 DEF NodeReturns, others, TypeInv, TypeOK, Tasks, TaskState, Waiting
<1>5. CASE EmitFinished(n)
  <2>1. task[n] \in Waiting /\ AfterEmit[task[n]] \in {"ok", "err", "canceled"}
    BY <1>5 DEF EmitFinished, AfterEmit, Waiting
  <2>2. QED
    BY <1>5, <2>1, EmitShape, EventTypes DEF EmitFinished, others, TypeInv, Tasks, TaskState, Waiting
<1>6. QED
  BY <1>1, <1>2, <1>3, <1>4, <1>5 DEF NodeStep

LEMMA NodeType == ASSUME TypeInv, NEW n \in Nodes, NodeStep(n) PROVE TypeInv'
<1>1. /\ UNCHANGED <<epc, layer, outcome, ctxDone, stalled, handlerVars, storeVars, sse>>
      /\ epc \in {"skip", "fanout"} /\ LayerOf[n] = layer
      /\ ch' \in Seq(Events) /\ Len(ch') <= ChanCap
  BY NodeShape
<1>2. PICK s \in TaskState \ {"idle", "skip", "queued"} :
        task' = [task EXCEPT ![n] = s] /\ (s \in Waiting => epc = "fanout")
  BY NodeShape
<1>3. TypeOK'
  BY <1>1, <1>2 DEF TypeInv, TypeOK, handlerVars, storeVars, TaskState
<1>4. Control'
  BY <1>1, Bounds DEF TypeInv, Control, handlerVars, storeVars
<1>5. Tasks'
  <2>1. task \in [Nodes -> TaskState] /\ layer \in Nat
    BY Bounds DEF TypeInv, TypeOK, TaskState
  <2>2. \A k \in Nodes : task'[k] = task[k] \/ (k = n /\ task'[k] = s)
    BY <1>2, <2>1
  <2>3. QED
    BY <1>1, <1>2, <2>1, <2>2 DEF TypeInv, Tasks
<1>6. QED
  BY <1>3, <1>4, <1>5 DEF TypeInv

LEMMA EngineType == ASSUME TypeInv, EngineStep PROVE TypeInv'
<1>1. CASE EmitStarted
  <2>1. ch' \in Seq(Events) /\ Len(ch') <= ChanCap
    BY <1>1, EmitShape, EventTypes DEF EmitStarted, TypeInv
  <2>2. QED
    BY <1>1, <2>1 DEF EmitStarted, others, Decide, TypeInv, TypeOK, Control, Tasks, handlerVars, storeVars,
       Decided, Waiting
<1>2. CASE BeginLayer
  <2>1. TypeOK'
    BY <1>2 DEF BeginLayer, others, Decide, TypeInv, TypeOK, handlerVars, storeVars, Waiting
  <2>2. Control'
    BY <1>2 DEF BeginLayer, others, Decide, TypeInv, Control, handlerVars, storeVars, Decided
  <2>3. Tasks'
    BY <1>2, Bounds DEF BeginLayer, Decide, TypeInv, TypeOK, Tasks, Waiting, LayerNodes
  <2>4. QED
    BY <2>1, <2>2, <2>3 DEF TypeInv
<1>3. CASE BeginFanout
  BY <1>3 DEF BeginFanout, others, TypeInv, TypeOK, Control, Tasks, handlerVars, storeVars, Decided, Waiting
<1>4. CASE Join
  <2>1. TypeOK'
    BY <1>4, Bounds DEF Join, others, Decide, TypeInv, TypeOK, Tasks, handlerVars, storeVars
  <2>2. Control'
    BY <1>4 DEF Join, others, Decide, TypeInv, Control, handlerVars, storeVars, Decided
  <2>3. Tasks'
    <3>1. \A n \in Nodes : task[n] \notin Waiting \cup {"skip"}
      BY <1>4 DEF Join, TasksEnded, LayerNodes, TypeInv, Tasks
    <3>2. task' = task /\ epc = "fanout" /\ epc' \in {"layer", "final"} /\ layer' \in {layer, layer + 1}
          /\ (epc' = "layer" => layer' = layer + 1)
      BY <1>4 DEF Join, Decide
    <3>3. layer \in Nat
      BY Bounds DEF TypeInv, TypeOK
    <3>4. QED
      BY <3>1, <3>2, <3>3, Bounds DEF TypeInv, Tasks
  <2>4. QED
    BY <2>1, <2>2, <2>3 DEF TypeInv
<1>5. CASE CollectOutputs
  BY <1>5, Bounds DEF CollectOutputs, others, Decide, TypeInv, TypeOK, Control, Tasks, handlerVars,
     storeVars, Decided
<1>6. CASE EmitTerminal
  <2>1. ch' \in Seq(Events) /\ Len(ch') <= ChanCap
    BY <1>6, EmitShape, EventTypes DEF EmitTerminal, TypeInv
  <2>2. QED
    BY <1>6, <2>1 DEF EmitTerminal, others, TypeInv, TypeOK, Control, Tasks, handlerVars, storeVars, Decided
<1>7. CASE Close
  BY <1>7 DEF Close, MustClose, others, TypeInv, TypeOK, Control, Tasks, handlerVars, storeVars, Decided
<1>8. QED
  BY <1>1, <1>2, <1>3, <1>4, <1>5, <1>6, <1>7 DEF EngineStep

LEMMA HandlerType == ASSUME TypeInv, HandlerStep PROVE TypeInv'
<1>1. CASE StartRun
  <2>1. TypeOK'
    BY <1>1 DEF StartRun, TypeInv, TypeOK
  <2>2. Control'
    BY <1>1 DEF StartRun, TypeInv, Control, Handling, Decided
  <2>3. Tasks'
    BY <1>1 DEF StartRun, TypeInv, Control, Tasks, Waiting
  <2>4. QED
    BY <2>1, <2>2, <2>3 DEF TypeInv
<1>2. CASE Receive
  <2>1. Head(ch) \in Events /\ Tail(ch) \in Seq(Events) /\ Len(Tail(ch)) <= ChanCap
    BY <1>2, Bounds DEF Receive, TypeInv, TypeOK
  <2>2. QED
    BY <1>2, <2>1 DEF Receive, AfterReceive, handlerFrame, engineVars, storeVars, TypeInv, TypeOK,
       Control, Tasks, Handling
<1>3. CASE Persist
  <2>1. log' \in Seq(Events) /\ lost' \in 0..MaxLost
    <3>1. log \in Seq(Events) /\ cur \in Events
      BY <1>3 DEF Persist, TypeInv, TypeOK, Control, Handling
    <3>2. QED
      BY <1>3, <3>1, WriteShape, AppendProperties DEF Persist, Appended, TypeInv
  <2>2. QED
    BY <1>3, <2>1 DEF Persist, handlerFrame, engineVars, TypeInv, TypeOK, Control, Tasks, Handling
<1>4. CASE Forward
  <2>1. sse' \in Seq(Events)
    BY <1>4 DEF Forward, TypeInv, TypeOK, Control, Handling
  <2>2. QED
    BY <1>4, <2>1 DEF Forward, handlerFrame, engineVars, storeVars, TypeInv, TypeOK, Control, Tasks, Handling
<1>5. CASE NoteTerminal
  <2>1. seen' \in Seq(Events) /\ final' \in {"none", "done", "err"}
    BY <1>5 DEF NoteTerminal, TypeInv, TypeOK, Control, Handling
  <2>2. QED
    BY <1>5, <2>1 DEF NoteTerminal, handlerFrame, engineVars, storeVars, TypeInv, TypeOK, Control,
       Tasks, Handling
<1>6. CASE Flush
  <2>1. log' \in Seq(Events) /\ lost' \in 0..MaxLost
    <3>1. log \in Seq(Events) /\ seen \in Seq(Events)
      BY DEF TypeInv, TypeOK
    <3>2. log \o seen \in Seq(Events)
      BY <3>1, ConcatProperties
    <3>3. QED
      BY <1>6, <3>1, <3>2, WriteShape DEF Flush, TypeInv
  <2>2. QED
    BY <1>6, <2>1 DEF Flush, handlerFrame, engineVars, TypeInv, TypeOK, Control, Tasks, Handling
<1>7. CASE PersistFinish
  <2>1. run' \in {"none", "running", "done", "failed"} /\ lost' \in 0..MaxLost /\ (run' = "none" <=> run = "none")
    BY <1>7, WriteShape DEF PersistFinish, StatusOf, TypeInv, TypeOK
  <2>2. QED
    BY <1>7, <2>1 DEF PersistFinish, handlerFrame, engineVars, TypeInv, TypeOK, Control, Tasks, Handling
<1>8. QED
  BY <1>1, <1>2, <1>3, <1>4, <1>5, <1>6, <1>7 DEF HandlerStep

LEMMA TypeStep == TypeInv /\ [Next]_vars => TypeInv'
<1> SUFFICES ASSUME TypeInv, [Next]_vars PROVE TypeInv'
  OBVIOUS
<1>1. CASE ClientStep
  <2>1. UNCHANGED <<engineVars, ch, handlerVars, storeVars, sse>> /\ ctxDone' \in BOOLEAN /\ stalled' \in BOOLEAN
    BY <1>1 DEF ClientStep, Disconnect, ClientStalls, ClientReadsOn, clientFrame, TypeInv, TypeOK
  <2>2. QED
    BY <2>1 DEF engineVars, handlerVars, storeVars, TypeInv, TypeOK, Control, Tasks
<1>2. CASE UNCHANGED vars
  BY <1>2 DEF vars, engineVars, handlerVars, storeVars, TypeInv, TypeOK, Control, Tasks
<1>3. QED
  BY <1>1, <1>2, NodeType, EngineType, HandlerType DEF Next

(***************************************************************************)
(* The events sent only ever grow at the end: handing them from the channel *)
(* to the handler moves nothing.                                           *)
(***************************************************************************)
LEMMA SentType ==
  ASSUME TypeInv
  PROVE  /\ ch \in Seq(Events) /\ seen \in Seq(Events) /\ InHand \in Seq(Events)
         /\ seen \o InHand \in Seq(Events) /\ Sent \in Seq(Events) /\ Len(Sent) \in Nat
<1>1. ch \in Seq(Events) /\ seen \in Seq(Events) /\ InHand \in Seq(Events)
  BY DEF TypeInv, TypeOK, InHand
<1>2. seen \o InHand \in Seq(Events)
  BY <1>1, ConcatProperties
<1>3. Sent \in Seq(Events)
  BY <1>1, <1>2, ConcatProperties DEF Sent
<1>4. QED
  BY <1>1, <1>2, <1>3

LEMMA SentAppends ==
  ASSUME TypeInv, NEW ev \in Events, Emit(ev), UNCHANGED <<seen, cur>>
  PROVE  Sent' = Append(Sent, ev) \/ (ctxDone /\ Sent' = Sent)
<1>1. InHand' = InHand /\ seen' = seen
  BY DEF InHand
<1>2. CASE ch' = Append(ch, ev)
  <2>1. Append(ch, ev) = ch \o <<ev>> /\ <<ev>> \in Seq(Events)
    BY SentType, AppendIsConcat
  <2>2. (seen \o InHand) \o (ch \o <<ev>>) = ((seen \o InHand) \o ch) \o <<ev>>
    BY <2>1, SentType, ConcatAssociative
  <2>3. Append(Sent, ev) = Sent \o <<ev>>
    BY SentType, AppendIsConcat
  <2>4. QED
    BY <1>1, <1>2, <2>1, <2>2, <2>3 DEF Sent
<1>3. CASE ctxDone /\ ch' = ch
  BY <1>1, <1>3 DEF Sent
<1>4. QED
  BY <1>2, <1>3, EmitShape DEF TypeInv

LEMMA SentKept == ASSUME TypeInv, HandlerStep PROVE Sent' = Sent
<1>1. CASE StartRun \/ Persist \/ Forward \/ Flush \/ PersistFinish
  BY <1>1 DEF StartRun, Persist, Forward, Flush, PersistFinish, Sent, InHand
<1>2. CASE Receive
  <2>1. /\ cur = NoEvent /\ cur' = Head(ch) /\ ch' = Tail(ch) /\ seen' = seen /\ ch # << >>
    BY <1>2 DEF Receive, TypeInv, Control, Handling
  <2>2. Head(ch) \in Events /\ Tail(ch) \in Seq(Events) /\ <<Head(ch)>> \in Seq(Events)
    BY <2>1, SentType, HeadTailProperties
  <2>3. InHand = << >> /\ InHand' = <<Head(ch)>>
    BY <2>1, <2>2, EventTypes DEF InHand
  <2>4. <<Head(ch)>> \o Tail(ch) = ch
    BY <2>1, SentType
  <2>5. seen \o << >> = seen
    BY SentType, ConcatEmptySeq
  <2>6. (seen \o <<Head(ch)>>) \o Tail(ch) = seen \o (<<Head(ch)>> \o Tail(ch))
    <3> DEFINE first == <<Head(ch)>>
               rest == Tail(ch)
    <3>1. first \in Seq(Events) /\ rest \in Seq(Events) /\ seen \in Seq(Events)
      BY <2>2, SentType
    <3> HIDE DEF first, rest
    <3>2. (seen \o first) \o rest = seen \o (first \o rest)
      BY <3>1, ConcatAssociative
    <3>3. QED
      BY <3>2 DEF first, rest
  <2>7. QED
    BY <2>1, <2>3, <2>4, <2>5, <2>6 DEF Sent
<1>3. CASE NoteTerminal
  <2>1. cur \in Events /\ cur' = NoEvent /\ ch' = ch /\ seen' = Append(seen, cur)
    BY <1>3 DEF NoteTerminal, TypeInv, Control, Handling
  <2>2. InHand = <<cur>> /\ InHand' = << >>
    BY <2>1, EventTypes DEF InHand
  <2>3. Append(seen, cur) = seen \o <<cur>> /\ Append(seen, cur) \in Seq(Events)
    BY <2>1, SentType, AppendIsConcat, AppendProperties
  <2>4. Append(seen, cur) \o << >> = Append(seen, cur)
    BY <2>3, ConcatEmptySeq
  <2>5. QED
    BY <2>1, <2>2, <2>3, <2>4 DEF Sent
<1>4. QED
  BY <1>1, <1>2, <1>3 DEF HandlerStep

(* Where the events the handler has seen, and the one in its hand, are.     *)
LEMMA SentAt ==
  ASSUME TypeInv
  PROVE  /\ Len(seen) \in Nat /\ Len(seen) <= Len(Sent)
         /\ \A i \in 1..Len(seen) : Sent[i] = seen[i]
         /\ cur # NoEvent => Len(seen) + 1 <= Len(Sent) /\ Sent[Len(seen) + 1] = cur
         /\ cur = NoEvent /\ ch = << >> => Sent = seen
<1> DEFINE s == seen \o InHand
<1>1. /\ Len(s) = Len(seen) + Len(InHand) /\ Len(seen) \in Nat /\ Len(InHand) \in Nat /\ Len(ch) \in Nat
      /\ \A i \in 1..(Len(seen) + Len(InHand)) :
           s[i] = IF i <= Len(seen) THEN seen[i] ELSE InHand[i - Len(seen)]
  BY SentType, ConcatProperties
<1>2. /\ Len(Sent) = Len(s) + Len(ch)
      /\ \A i \in 1..(Len(s) + Len(ch)) : Sent[i] = IF i <= Len(s) THEN s[i] ELSE ch[i - Len(s)]
  BY SentType, ConcatProperties DEF Sent
<1>3. cur = NoEvent /\ ch = << >> => Sent = seen
  <2> SUFFICES ASSUME cur = NoEvent, ch = << >> PROVE Sent = seen
    OBVIOUS
  <2>1. InHand = << >> /\ seen \o << >> = seen
    BY SentType, ConcatEmptySeq DEF InHand
  <2>2. QED
    BY <2>1 DEF Sent
<1> HIDE DEF s
<1>4. \A i \in 1..Len(seen) : Sent[i] = seen[i]
  BY <1>1, <1>2
<1>5. cur # NoEvent => Len(seen) + 1 <= Len(Sent) /\ Sent[Len(seen) + 1] = cur
  <2> SUFFICES ASSUME cur # NoEvent PROVE Len(seen) + 1 <= Len(Sent) /\ Sent[Len(seen) + 1] = cur
    OBVIOUS
  <2>1. InHand = <<cur>> /\ Len(InHand) = 1 /\ InHand[1] = cur
    BY DEF InHand
  <2>2. s[Len(seen) + 1] = cur /\ Len(s) = Len(seen) + 1
    BY <1>1, <2>1
  <2>3. QED
    BY <1>1, <1>2, <2>2
<1>6. QED
  BY <1>1, <1>2, <1>3, <1>4, <1>5

(***************************************************************************)
(* What was sent stays explained, and what is sent next follows it.        *)
(***************************************************************************)
LEMMA TaskSteps ==
  ASSUME TypeInv, Next, NEW n \in Nodes, NEW k \in {"node_started", "node_finished", "node_skipped"},
         task[n] \in After(k)
  PROVE  task'[n] \in After(k)
<1>1. CASE \E m \in Nodes : NodeStep(m)
  <2>1. PICK m \in Nodes : NodeStep(m)
    BY <1>1
  <2>2. task \in [Nodes -> TaskState]
    BY DEF TypeInv, TypeOK, TaskState
  <2>3. CASE m # n
    BY <2>1, <2>2, <2>3, NodeShape
  <2>4. CASE m = n
    BY <2>1, <2>2, <2>4 DEF NodeStep, EmitSkipped, StartNode, GiveUpNode, NodeReturns, EmitFinished,
       AfterEmit, After, Waiting
  <2>5. QED
    BY <2>3, <2>4
<1>2. CASE BeginLayer
  <2>1. epc = "layer" /\ layer \in Nat /\ LayerOf[n] \in Nat
    BY <1>2, Bounds DEF BeginLayer, TypeInv, TypeOK
  <2>2. task[n] # "idle"
    BY DEF After, Waiting
  <2>3. n \notin LayerNodes(layer)
    BY <2>1, <2>2 DEF TypeInv, Tasks, LayerNodes
  <2>4. QED
    BY <1>2, <2>3 DEF BeginLayer
<1>3. CASE ~BeginLayer /\ \A m \in Nodes : ~NodeStep(m)
  BY <1>3 DEF Next, EngineStep, EmitStarted, BeginFanout, Join, CollectOutputs, EmitTerminal, Close,
     HandlerStep, StartRun, Receive, Persist, Forward, NoteTerminal, Flush, PersistFinish, handlerFrame,
     ClientStep, Disconnect, ClientStalls, ClientReadsOn, clientFrame, engineVars
<1>4. QED
  BY <1>1, <1>2, <1>3

LEMMA PhaseSteps ==
  ASSUME TypeInv, Next
  PROVE  /\ epc \notin {"none", "started"} => epc' \notin {"none", "started"}
         /\ epc \in {"close", "closed"} => epc' \in {"close", "closed"}
         /\ epc \in Decided => epc' \in Decided /\ outcome' = outcome
         /\ ctxDone => ctxDone'
<1>1. CASE \E n \in Nodes : NodeStep(n)
  BY <1>1, NodeShape
<1>2. CASE EngineStep
  BY <1>2 DEF EngineStep, EmitStarted, BeginLayer, BeginFanout, Join, CollectOutputs, EmitTerminal,
     Close, MustClose, Decide, Decided, others
<1>3. CASE StartRun
  BY <1>3 DEF StartRun, TypeInv, Control, Decided
<1>4. CASE (HandlerStep /\ ~StartRun) \/ ClientStep
  BY <1>4 DEF HandlerStep, Receive, Persist, Forward, NoteTerminal, Flush, PersistFinish, handlerFrame,
     ClientStep, Disconnect, ClientStalls, ClientReadsOn, clientFrame, engineVars
<1>5. QED
  BY <1>1, <1>2, <1>3, <1>4 DEF Next

LEMMA ExplainedKept == ASSUME TypeInv, Next, NEW ev \in Events, Explained(ev) PROVE Explained(ev)'
<1>1. epc' \notin {"none", "started"}
  BY PhaseSteps DEF Explained
<1>2. ev \in Terminal => epc' \in {"close", "closed"} /\ ev = TerminalFor(outcome')
  BY PhaseSteps DEF Explained, Decided
<1>3. ev \in NodeEvents => task'[ev.node] \in After(ev.kind)
  BY TaskSteps DEF Explained, NodeEvents
<1>4. QED
  BY <1>1, <1>2, <1>3 DEF Explained

Follows(x, ev) ==
  /\ x # ev /\ ev.kind # "flow_started" /\ x \notin Terminal
  /\ x \in NodeEvents /\ ev \in NodeEvents =>
       /\ LayerOf[x.node] <= LayerOf[ev.node]
       /\ x.node = ev.node => x.kind = "node_started"

(* The event a step sends, if any.                                         *)
Sends(ev) ==
  /\ Sent' = Append(Sent, ev) /\ Explained(ev)' /\ epc \notin {"close", "closed"}
  /\ \A x \in Events : Explained(x) => Follows(x, ev)

LEMMA NodeSends ==
  ASSUME TypeInv, NEW n \in Nodes, NodeStep(n)
  PROVE  Sent' = Sent \/ \E ev \in Events : Sends(ev)
<1>1. /\ UNCHANGED <<epc, layer, outcome, ctxDone, seen, cur>>
      /\ epc \in {"skip", "fanout"} /\ LayerOf[n] = layer
  BY NodeShape DEF handlerVars
<1>2. task \in [Nodes -> TaskState]
  BY DEF TypeInv, TypeOK, TaskState
<1>3. ASSUME NEW k \in {"node_started", "node_finished", "node_skipped"}, Emit(Event(k, n)),
             task'[n] \in After(k),
             \A j \in {"node_started", "node_finished", "node_skipped"} :
               task[n] \in After(j) => j = "node_started" /\ k # "node_started"
      PROVE  Sent' = Sent \/ \E ev \in Events : Sends(ev)
  <2> DEFINE ev == Event(k, n)
  <2>1. ev \in NodeEvents /\ ev \in Events /\ ev.kind = k /\ ev.node = n /\ ev \notin Terminal
    BY EventTypes DEF Event
  <2>2. Explained(ev)'
    BY <1>1, <1>3, <2>1 DEF Explained
  <2>3. ASSUME NEW x \in Events, Explained(x) PROVE Follows(x, ev)
    <3>1. x \notin Terminal /\ ev.kind # "flow_started"
      BY <1>1, <2>1, <2>3 DEF Explained
    <3>2. ASSUME x \in NodeEvents PROVE /\ LayerOf[x.node] <= LayerOf[n]
                                        /\ x.node = n => x.kind = "node_started" /\ k # "node_started"
      <4>1. task[x.node] \in After(x.kind) /\ x.node \in Nodes
        BY <2>3, <3>2 DEF Explained, NodeEvents
      <4>2. task[x.node] # "idle"
        BY <4>1 DEF After, Waiting
      <4>3. QED
        BY <1>1, <1>3, <3>2, <4>1, <4>2 DEF TypeInv, Tasks, NodeEvents
    <3>3. x # ev
      BY <2>1, <3>2
    <3>4. QED
      BY <2>1, <3>1, <3>2, <3>3 DEF Follows
  <2>4. Sent' = Append(Sent, ev) \/ Sent' = Sent
    BY <1>1, <1>3, <2>1, SentAppends
  <2>5. QED
    BY <1>1, <2>1, <2>2, <2>3, <2>4 DEF Sends
<1>4. CASE EmitSkipped(n)
  <2>1. Emit(Event("node_skipped", n)) /\ task[n] = "skip" /\ task'[n] = "skipped"
    BY <1>2, <1>4 DEF EmitSkipped
  <2>2. QED
    BY <1>3, <2>1 DEF After, Waiting
<1>5. CASE StartNode(n)
  <2>1. Emit(Event("node_started", n)) /\ task[n] = "queued" /\ task'[n] = "running"
    BY <1>2, <1>5 DEF StartNode
  <2>2. QED
    BY <1>3, <2>1 DEF After, Waiting
<1>6. CASE EmitFinished(n)
  <2>1. /\ Emit(Event("node_finished", n)) /\ task[n] \in {"okEmit", "errEmit", "canceledEmit"}
        /\ task'[n] \in {"ok", "err", "canceled"}
    BY <1>2, <1>6 DEF EmitFinished, AfterEmit
  <2>2. QED
    BY <1>3, <2>1 DEF After, Waiting
<1>7. CASE GiveUpNode(n) \/ NodeReturns(n)
  BY <1>1, <1>7 DEF GiveUpNode, NodeReturns, Sent, InHand
<1>8. QED
  BY <1>4, <1>5, <1>6, <1>7 DEF NodeStep

LEMMA Sending ==
  ASSUME TypeInv, Next
  PROVE  Sent' = Sent \/ \E ev \in Events : Sends(ev)
<1>1. CASE EmitStarted
  <2> DEFINE ev == Event("flow_started", Flow)
  <2>1. Emit(ev) /\ UNCHANGED <<seen, cur>> /\ epc = "started" /\ epc' \in {"layer", "final"} /\ ev \in Events
    BY <1>1, EventTypes DEF EmitStarted, Decide, others, handlerVars
  <2>2. \A x \in Events : ~Explained(x)
    BY <2>1 DEF Explained
  <2>3. Explained(ev)' /\ ev \notin Terminal
    BY <2>1 DEF Explained, Event, Terminal, NodeEvents
  <2>4. QED
    BY <2>1, <2>2, <2>3, SentAppends DEF Sends
<1>2. CASE EmitTerminal
  <2> DEFINE ev == TerminalFor(outcome)
  <2>1. Emit(ev) /\ UNCHANGED <<seen, cur, outcome>> /\ epc = "final" /\ epc' = "close"
    BY <1>2 DEF EmitTerminal, others, handlerVars
  <2>2. ev \in Events /\ ev \in Terminal /\ ev \notin NodeEvents /\ ev.kind # "flow_started"
    BY EventTypes DEF TerminalFor, Event
  <2>3. Explained(ev)'
    BY <2>1, <2>2 DEF Explained
  <2>4. ASSUME NEW x \in Events, Explained(x) PROVE Follows(x, ev)
    BY <2>1, <2>2, <2>4 DEF Explained, Follows
  <2>5. QED
    BY <2>1, <2>2, <2>3, <2>4, SentAppends DEF Sends
<1>3. CASE BeginLayer \/ BeginFanout \/ Join \/ CollectOutputs \/ Close \/ ClientStep
  BY <1>3 DEF BeginLayer, BeginFanout, Join, CollectOutputs, Close, others, ClientStep, Disconnect,
     ClientStalls, ClientReadsOn, clientFrame, handlerVars, Sent, InHand
<1>4. QED
  BY <1>1, <1>2, <1>3, NodeSends, SentKept DEF Next, EngineStep

LEMMA SentGrows ==
  ASSUME TypeInv, Next
  PROVE  /\ Len(Sent) \in Nat /\ Len(Sent') \in Nat /\ Len(Sent) <= Len(Sent')
         /\ \A i \in 1..Len(Sent) : Sent'[i] = Sent[i] /\ Sent[i] \in Events
         /\ \A i \in 1..Len(Sent') :
              i \in 1..Len(Sent) \/ (i = Len(Sent) + 1 /\ \E ev \in Events : ev = Sent'[i] /\ Sends(ev))
<1>1. Sent \in Seq(Events) /\ Len(Sent) \in Nat /\ \A i \in 1..Len(Sent) : Sent[i] \in Events
  BY SentType
<1>2. CASE Sent' = Sent
  BY <1>1, <1>2
<1>3. CASE \E ev \in Events : Sends(ev)
  <2>1. PICK ev \in Events : Sends(ev)
    BY <1>3
  <2>2. Sent' = Append(Sent, ev)
    BY <2>1 DEF Sends
  <2>3. /\ Len(Append(Sent, ev)) = Len(Sent) + 1 /\ Append(Sent, ev)[Len(Sent) + 1] = ev
        /\ \A i \in 1..Len(Sent) : Append(Sent, ev)[i] = Sent[i]
    BY <1>1, AppendProperties
  <2>4. Len(Sent') = Len(Sent) + 1 /\ Sent'[Len(Sent) + 1] = ev
    BY <2>2, <2>3
  <2>5. \A i \in 1..Len(Sent) : Sent'[i] = Sent[i]
    BY <2>2, <2>3
  <2>6. \A i \in 1..Len(Sent') : i \in 1..Len(Sent) \/ i = Len(Sent) + 1
    BY <1>1, <2>4
  <2>7. QED
    BY <1>1, <2>1, <2>4, <2>5, <2>6
<1>4. QED
  BY <1>2, <1>3, Sending

LEMMA ExplainedStep == ASSUME TypeInv, AllExplained, Next PROVE AllExplained'
<1>1. ASSUME NEW i \in 1..Len(Sent') PROVE \E ev \in Events : ev = Sent'[i] /\ Explained(ev)'
  <2>1. CASE i \in 1..Len(Sent)
    <3>1. Sent'[i] = Sent[i] /\ Sent[i] \in Events /\ Explained(Sent[i])
      BY <2>1, SentGrows DEF AllExplained
    <3>2. PICK ev \in Events : ev = Sent[i]
      BY <3>1
    <3>3. Explained(ev)'
      BY <3>1, <3>2, ExplainedKept
    <3>4. QED
      BY <3>1, <3>2, <3>3
  <2>2. CASE \E ev \in Events : ev = Sent'[i] /\ Sends(ev)
    BY <2>2 DEF Sends
  <2>3. QED
    BY <1>1, <2>1, <2>2, SentGrows
<1>2. QED
  BY <1>1 DEF AllExplained, Explained

(* StreamOrder, event by event.                                            *)
LEMMA OrderIsFollows ==
  StreamOrder <=> \A i, j \in 1..Len(Sent) : i < j => Follows(Sent[i], Sent[j])
BY DEF StreamOrder, Follows

LEMMA OrderStep == ASSUME TypeInv, AllExplained, StreamOrder, Next PROVE StreamOrder'
<1>1. ASSUME NEW i \in 1..Len(Sent'), NEW j \in 1..Len(Sent'), i < j
      PROVE  Follows(Sent'[i], Sent'[j])
  <2>1. i \in 1..Len(Sent) /\ Sent'[i] = Sent[i] /\ Sent[i] \in Events
    BY <1>1, SentGrows
  <2>2. CASE j \in 1..Len(Sent)
    <3>1. Sent'[j] = Sent[j]
      BY <2>2, SentGrows
    <3>2. QED
      BY <1>1, <2>1, <2>2, <3>1, OrderIsFollows
  <2>3. CASE \E ev \in Events : ev = Sent'[j] /\ Sends(ev)
    BY <2>1, <2>3 DEF Sends, AllExplained
  <2>4. QED
    BY <1>1, <2>2, <2>3, SentGrows
<1>2. QED
  BY <1>1 DEF StreamOrder, Follows

LEMMA ClosingStep == ASSUME TypeInv, AllExplained, Closing, Next PROVE Closing'
<1> SUFFICES ASSUME epc' \in {"close", "closed"}
             PROVE  \/ Sent' # << >> /\ Sent'[Len(Sent')] = TerminalFor(outcome')
                    \/ ctxDone' /\ \A i \in 1..Len(Sent') : Sent'[i] \notin Terminal
  BY DEF Closing
<1>1. CASE epc \in {"close", "closed"}
  <2>1. Sent' = Sent
    BY <1>1, Sending DEF Sends
  <2>2. outcome' = outcome /\ (ctxDone => ctxDone')
    BY <1>1, PhaseSteps DEF Decided
  <2>3. QED
    BY <1>1, <2>1, <2>2 DEF Closing
<1>2. CASE epc \notin {"close", "closed"}
  <2>1. EmitTerminal
    <3>1. CASE \E n \in Nodes : NodeStep(n)
      BY <1>2, <3>1, NodeShape
    <3>2. CASE EngineStep
      BY <1>2, <3>2 DEF EngineStep, EmitStarted, BeginLayer, BeginFanout, Join, CollectOutputs, Close,
         MustClose, Decide
    <3>3. CASE HandlerStep \/ ClientStep
      BY <1>2, <3>3 DEF HandlerStep, StartRun, Receive, Persist, Forward, NoteTerminal, Flush,
         PersistFinish, handlerFrame, ClientStep, Disconnect, ClientStalls, ClientReadsOn, clientFrame,
         engineVars
    <3>4. QED
      BY <3>1, <3>2, <3>3 DEF Next
  <2>2. Emit(TerminalFor(outcome)) /\ UNCHANGED <<seen, cur, outcome, ctxDone>> /\ epc = "final"
    BY <2>1 DEF EmitTerminal, others, handlerVars
  <2>3. TerminalFor(outcome) \in Events
    BY EventTypes
  <2>4. CASE Sent' = Append(Sent, TerminalFor(outcome))
    <3>1. /\ Append(Sent, TerminalFor(outcome)) # << >>
          /\ Len(Append(Sent, TerminalFor(outcome))) = Len(Sent) + 1
          /\ Append(Sent, TerminalFor(outcome))[Len(Sent) + 1] = TerminalFor(outcome)
      BY <2>3, SentType, AppendProperties
    <3>2. QED
      BY <2>2, <2>4, <3>1
  <2>5. CASE ctxDone /\ Sent' = Sent
    BY <2>2, <2>5 DEF AllExplained, Explained
  <2>6. QED
    BY <2>2, <2>3, <2>4, <2>5, SentAppends
<1>3. QED
  BY <1>1, <1>2

(***************************************************************************)
(* The row.                                                                *)
(***************************************************************************)
(* The steps that are not the handler's leave it and the store alone.      *)
LEMMA HandlerFrame ==
  ASSUME TypeInv, Next, ~HandlerStep PROVE UNCHANGED <<handlerVars, storeVars, sse>>
<1>1. CASE \E n \in Nodes : NodeStep(n)
  BY <1>1, NodeShape
<1>2. CASE EngineStep \/ ClientStep
  BY <1>2 DEF EngineStep, EmitStarted, BeginLayer, BeginFanout, Join, CollectOutputs, EmitTerminal,
     Close, others, ClientStep, Disconnect, ClientStalls, ClientReadsOn, clientFrame
<1>3. QED
  BY <1>1, <1>2 DEF Next

LEMMA NotedStep == ASSUME TypeInv, AllExplained, Noted, Next PROVE Noted'
<1>1. final # "none" => outcome' = outcome
  <2>1. final # "none" => outcome # "none"
    BY DEF Noted
  <2>2. outcome # "none" => epc \in Decided
    BY DEF TypeInv, Control
  <2>3. QED
    BY <2>1, <2>2, PhaseSteps
<1>2. CASE UNCHANGED <<final, seen>>
  BY <1>1, <1>2 DEF Noted
<1>3. CASE NoteTerminal
  <2>1. /\ cur \in Events /\ cur # NoEvent /\ seen' = Append(seen, cur) /\ outcome' = outcome
        /\ seen \in Seq(Events)
    BY <1>3, EventTypes DEF NoteTerminal, handlerFrame, engineVars, TypeInv, TypeOK, Control, Handling
  <2>2. Explained(cur)
    <3>1. Len(seen) + 1 \in 1..Len(Sent) /\ Sent[Len(seen) + 1] = cur
      BY <2>1, SentAt, SentType
    <3>2. QED
      BY <3>1 DEF AllExplained
  <2>3. cur \in Terminal => cur = TerminalFor(outcome) /\ outcome \in {"done", "err"}
    BY <2>2 DEF Explained, TypeInv, TypeOK, Control, Decided
  <2>4. /\ cur.kind = "flow_done" <=> cur = Event("flow_done", Flow)
        /\ cur.kind = "flow_err" <=> cur = Event("flow_err", Flow)
    BY <2>1 DEF Events, NodeEvents, FlowEvents, Event
  <2>5. CASE cur = Event("flow_done", Flow)
    <3>1. outcome = "done"
      BY <2>3, <2>5 DEF Terminal, TerminalFor, Event
    <3>2. final' = "done"
      BY <1>3, <2>4, <2>5 DEF NoteTerminal
    <3>3. QED
      BY <2>1, <3>1, <3>2 DEF Noted
  <2>6. CASE cur = Event("flow_err", Flow)
    <3>1. outcome = "err"
      BY <2>3, <2>6 DEF Terminal, TerminalFor, Event
    <3>2. final' = "err"
      BY <1>3, <2>4, <2>6 DEF NoteTerminal, Event
    <3>3. QED
      BY <2>1, <3>1, <3>2 DEF Noted
  <2>7. CASE cur \notin Terminal
    <3>1. final' = final
      BY <1>3, <2>4, <2>7 DEF NoteTerminal, Terminal
    <3>2. \A i \in 1..Len(seen') : seen'[i] = cur \/ (i \in 1..Len(seen) /\ seen'[i] = seen[i])
      <4>1. /\ Len(Append(seen, cur)) = Len(seen) + 1 /\ Append(seen, cur)[Len(seen) + 1] = cur
            /\ \A i \in 1..Len(seen) : Append(seen, cur)[i] = seen[i]
        BY <2>1, AppendProperties
      <4>2. Len(seen) \in Nat
        BY <2>1
      <4>3. QED
        BY <2>1, <4>1, <4>2
    <3>3. QED
      BY <2>1, <2>7, <3>1, <3>2 DEF Noted
  <2>8. QED
    BY <2>5, <2>6, <2>7 DEF Terminal
<1>4. CASE HandlerStep /\ ~NoteTerminal
  BY <1>2, <1>4 DEF HandlerStep, StartRun, Receive, Persist, Forward, Flush, PersistFinish
<1>5. CASE ~HandlerStep
  BY <1>2, <1>5, HandlerFrame DEF handlerVars
<1>6. QED
  BY <1>3, <1>4, <1>5

LEMMA RowStep == ASSUME TypeInv, Row, RowFailed, Next PROVE Row' /\ RowFailed'
<1>1. CASE ~HandlerStep
  BY <1>1, HandlerFrame DEF handlerVars, storeVars, Row, RowFailed, StatusOf
<1>2. CASE PersistFinish
  <2>1. run = "running" /\ final' = final /\ lost \in Nat
    BY <1>2 DEF PersistFinish, TypeInv, TypeOK, Control
  <2>2. CASE lost' = lost /\ run' = StatusOf
    BY <2>1, <2>2 DEF Row, RowFailed, StatusOf
  <2>3. CASE lost' = lost + 1 /\ run' = run
    BY <2>1, <2>3 DEF Row, RowFailed
  <2>4. QED
    BY <1>2, <2>1, <2>2, <2>3 DEF PersistFinish, Written, WriteFails
<1>3. CASE StartRun
  BY <1>3 DEF StartRun, TypeInv, Control, Row, RowFailed
<1>4. CASE Receive \/ Persist \/ Forward \/ NoteTerminal \/ Flush
  <2>1. cpc # "returned" /\ cpc' # "returned" /\ run' = run
    BY <1>4 DEF Receive, AfterReceive, Persist, Forward, NoteTerminal, Flush, storeVars
  <2>2. run # "failed"
    BY <2>1 DEF TypeInv, Control
  <2>3. QED
    BY <2>1, <2>2 DEF Row, RowFailed
<1>5. QED
  BY <1>1, <1>2, <1>3, <1>4 DEF HandlerStep

(***************************************************************************)
(* The log and the client's frames.                                        *)
(***************************************************************************)
LEMMA LoggedBound ==
  ASSUME TypeInv
  PROVE  /\ Logged \in Nat /\ Logged <= Len(Sent) /\ Len(Sent) \in Nat /\ Len(seen) \in Nat
         /\ Len(seen) <= Logged
<1>1. cpc \in {"forward", "note"} => cur # NoEvent
  BY EventTypes DEF TypeInv, Control, Handling
<1>2. Len(seen) \in Nat /\ Len(Sent) \in Nat /\ Len(seen) <= Len(Sent)
  BY SentAt, SentType
<1>3. QED
  BY <1>1, <1>2, SentAt DEF Logged

LEMMA LoggedSteps ==
  ASSUME TypeInv, Next, TypeInv' PROVE Logged <= Logged'
<1>1. CASE NoteTerminal
  <2>1. Len(seen') = Len(seen) + 1
    <3>1. seen \in Seq(Events) /\ cur \in Events /\ seen' = Append(seen, cur)
      BY <1>1 DEF NoteTerminal, TypeInv, TypeOK, Control, Handling
    <3>2. QED
      BY <3>1, AppendProperties
  <2>2. cpc' = "range" /\ Len(seen) \in Nat
    BY <1>1, LoggedBound DEF NoteTerminal
  <2>3. QED
    BY <2>1, <2>2 DEF Logged
<1>2. CASE HandlerStep /\ ~NoteTerminal
  <2>1. seen' = seen /\ (cpc \in {"forward", "note"} => cpc' \in {"forward", "note"})
    BY <1>2 DEF HandlerStep, StartRun, Receive, Persist, Forward, Flush, PersistFinish
  <2>2. QED
    BY <2>1, LoggedBound DEF Logged
<1>3. CASE ~HandlerStep
  BY <1>3, HandlerFrame, LoggedBound DEF handlerVars, Logged
<1>4. QED
  BY <1>1, <1>2, <1>3

(* What was drawn from the events sent stays so.                           *)
LEMMA DrawnKept ==
  ASSUME TypeInv, TypeInv', Drawn, Next, NEW i \in 1..Len(log)
  PROVE  \E k \in 1..Logged : /\ k \in 1..Logged' /\ Sent'[k] = log[i]
                              /\ \A j \in 1..(i - 1) : \E l \in 1..(k - 1) : Sent'[l] = log[j]
<1>1. PICK k \in 1..Logged : /\ Sent[k] = log[i]
                             /\ \A j \in 1..(i - 1) : \E l \in 1..(k - 1) : Sent[l] = log[j]
  BY DEF Drawn
<1>2. \A l \in 1..k : l \in 1..Len(Sent) /\ Sent'[l] = Sent[l]
  <2>1. \A l \in 1..k : l \in 1..Len(Sent)
    BY <1>1, LoggedBound
  <2>2. QED
    BY <2>1, SentGrows
<1>3. k \in 1..Logged'
  <2>1. Logged \in Nat /\ Logged <= Logged'
    BY LoggedBound, LoggedSteps
  <2>2. Logged' \in Nat
    BY DEF TypeInv, TypeOK, Logged
  <2>3. QED
    BY <2>1, <2>2
<1>4. k \in Nat /\ k \in 1..k /\ \A l \in 1..(k - 1) : l \in 1..k
  OBVIOUS
<1>5. QED
  BY <1>1, <1>2, <1>3, <1>4

LEMMA DrawnStep == ASSUME TypeInv, TypeInv', Drawn, InStep, Next PROVE Drawn'
<1>1. CASE log' = log
  <2>1. ASSUME NEW i \in 1..Len(log)
        PROVE  \E k \in 1..Logged' : /\ Sent'[k] = log[i]
                 /\ \A j \in 1..(i - 1) : \E l \in 1..(k - 1) : Sent'[l] = log[j]
    BY DrawnKept
  <2>2. ASSUME NEW i \in 1..Len(log')
        PROVE  \E k \in 1..Logged' : /\ Sent'[k] = log'[i]
                 /\ \A j \in 1..(i - 1) : \E l \in 1..(k - 1) : Sent'[l] = log'[j]
    BY <1>1, <2>1
  <2>3. QED
    BY <2>2 DEF Drawn
<1>2. CASE Persist /\ log' = Appended
  <2>1. /\ cur \in Events /\ cur # NoEvent /\ log \in Seq(Events) /\ log' = Append(log, cur)
        /\ cpc' = "forward" /\ seen' = seen /\ cpc = "persist"
    BY <1>2, EventTypes DEF Persist, Appended, TypeInv, TypeOK, Control, Handling
  <2>2. /\ Len(log) \in Nat /\ Len(log') = Len(log) + 1 /\ log'[Len(log) + 1] = cur
        /\ \A i \in 1..Len(log) : log'[i] = log[i]
    BY <2>1, AppendProperties
  <2>3. Logged = Len(seen) /\ Logged' = Len(seen) + 1 /\ Len(seen) \in Nat
    BY <2>1, LoggedBound DEF Logged
  <2>4. Sent'[Len(seen) + 1] = cur
    <3>1. Len(seen) + 1 \in 1..Len(Sent) /\ Sent[Len(seen) + 1] = cur
      BY <2>1, SentAt, SentType
    <3>2. QED
      BY <3>1, SentGrows
  <2>5. ASSUME NEW i \in 1..Len(log')
        PROVE  \E k \in 1..Logged' : /\ Sent'[k] = log'[i]
                 /\ \A j \in 1..(i - 1) : \E l \in 1..(k - 1) : Sent'[l] = log'[j]
    <3>1. CASE i \in 1..Len(log)
      <4>1. log'[i] = log[i] /\ \A j \in 1..(i - 1) : log'[j] = log[j]
        BY <2>2, <3>1
      <4>2. \E k \in 1..Logged' : /\ Sent'[k] = log[i]
               /\ \A j \in 1..(i - 1) : \E l \in 1..(k - 1) : Sent'[l] = log[j]
        BY <3>1, DrawnKept
      <4>3. QED
        BY <4>1, <4>2
    <3>2. CASE i = Len(log) + 1
      <4>1. ASSUME NEW j \in 1..Len(log) PROVE \E l \in 1..Len(seen) : Sent'[l] = log'[j]
        BY <2>2, <2>3, DrawnKept
      <4>2. i - 1 = Len(log) /\ (Len(seen) + 1) - 1 = Len(seen)
        BY <2>2, <2>3, <3>2
      <4>3. Len(seen) + 1 \in 1..Logged'
        BY <2>3
      <4>4. \A j \in 1..(i - 1) : \E l \in 1..((Len(seen) + 1) - 1) : Sent'[l] = log'[j]
        BY <4>1, <4>2
      <4>5. Sent'[Len(seen) + 1] = log'[i]
        BY <2>2, <2>4, <3>2
      <4>6. QED
        BY <4>3, <4>4, <4>5
    <3>3. i \in 1..Len(log) \/ i = Len(log) + 1
      BY <2>2
    <3>4. QED
      BY <3>1, <3>2, <3>3
  <2>6. QED
    BY <2>5 DEF Drawn
<1>3. CASE Flush /\ ~stream /\ log' = log \o seen
  <2>1. log = << >> /\ seen \in Seq(Events)
    BY <1>3 DEF Flush, InStep, TypeInv, TypeOK
  <2>2. log' = seen /\ seen' = seen /\ cpc' = "finish"
    BY <1>3, <2>1, ConcatEmptySeq DEF Flush
  <2>3. Logged' = Len(seen) /\ Len(seen) \in Nat
    BY <2>2, LoggedBound DEF Logged
  <2>4. \A k \in 1..Len(seen) : Sent'[k] = seen[k]
    <3>1. \A k \in 1..Len(seen) : k \in 1..Len(Sent) /\ Sent[k] = seen[k]
      BY SentAt, SentType, LoggedBound
    <3>2. QED
      BY <3>1, SentGrows
  <2>5. \A i \in 1..Len(seen) : \A j \in 1..(i - 1) : j \in 1..Len(seen)
    BY <2>3
  <2>6. ASSUME NEW i \in 1..Len(seen)
        PROVE  \E k \in 1..Logged' : /\ Sent'[k] = log'[i]
                 /\ \A j \in 1..(i - 1) : \E l \in 1..(k - 1) : Sent'[l] = log'[j]
    BY <2>2, <2>3, <2>4, <2>5
  <2>7. QED
    BY <2>2, <2>6 DEF Drawn
<1>4. CASE HandlerStep
  BY <1>1, <1>2, <1>3, <1>4 DEF HandlerStep, StartRun, Receive, Persist, Forward, NoteTerminal, Flush,
     PersistFinish, storeVars
<1>5. CASE ~HandlerStep
  BY <1>1, <1>5, HandlerFrame DEF storeVars
<1>6. QED
  BY <1>4, <1>5

(* lost only grows: once a write has failed there is nothing to show.      *)
LEMMA InStepStep == ASSUME TypeInv, InStep, Next PROVE InStep'
<1> USE DEF InStep
<1>1. /\ lost \in Nat /\ seen \in Seq(Events) /\ log \in Seq(Events) /\ stream \in BOOLEAN
      /\ cpc \in {"start", "range", "persist", "forward", "collect", "note", "finish", "returned"}
  BY DEF TypeInv, TypeOK
<1>2. CASE ~HandlerStep
  BY <1>2, HandlerFrame DEF handlerVars, storeVars
<1>3. CASE StartRun
  BY <1>1, <1>3 DEF StartRun
<1>4. CASE Receive
  BY <1>1, <1>4 DEF Receive, AfterReceive, handlerFrame, storeVars
<1>5. CASE Persist
  <2>1. /\ cpc = "persist" /\ cpc' = "forward" /\ stream /\ stream' = stream
        /\ UNCHANGED <<cur, seen, sse>>
    BY <1>5 DEF Persist, handlerFrame, TypeInv, Control
  <2>2. CASE lost' = lost /\ log' = Append(log, cur)
    BY <2>1, <2>2
  <2>3. CASE lost' = lost + 1
    BY <1>1, <2>1, <2>3
  <2>4. QED
    BY <1>5, <2>2, <2>3 DEF Persist, Written, WriteFails, Appended
<1>6. CASE Forward
  <2>1. /\ cpc = "forward" /\ cpc' = "note" /\ stream /\ stream' = stream
        /\ UNCHANGED <<cur, seen, log, lost>> /\ sse' = Append(sse, cur)
    BY <1>6 DEF Forward, handlerFrame, storeVars, TypeInv, Control
  <2>2. QED
    BY <2>1
<1>7. CASE NoteTerminal
  <2>1. /\ cpc \in {"note", "collect"} /\ cpc' = "range" /\ seen' = Append(seen, cur)
        /\ UNCHANGED <<stream, log, lost, sse>>
    BY <1>7 DEF NoteTerminal, handlerFrame, storeVars
  <2>2. (cpc = "note" => stream) /\ (cpc = "collect" => ~stream)
    BY DEF TypeInv, Control
  <2>3. QED
    BY <1>1, <2>1, <2>2
<1>8. CASE Flush
  <2>1. cpc = "range" /\ cpc' = "finish" /\ UNCHANGED <<stream, cur, seen, sse>>
    BY <1>8 DEF Flush, handlerFrame
  <2>2. CASE stream
    BY <1>1, <1>8, <2>1, <2>2 DEF Flush, Written
  <2>3. CASE ~stream
    <3>1. log = << >> /\ log \o seen = seen
      BY <1>1, <2>1, <2>3, ConcatEmptySeq
    <3>2. CASE lost' = lost /\ log' = seen
      BY <2>1, <2>3, <3>2
    <3>3. CASE lost' = lost + 1
      BY <1>1, <2>1, <2>3, <3>3
    <3>4. QED
      BY <1>8, <2>3, <3>1, <3>2, <3>3 DEF Flush, Written, WriteFails
  <2>4. QED
    BY <2>2, <2>3
<1>9. CASE PersistFinish
  <2>1. cpc = "finish" /\ cpc' = "returned" /\ UNCHANGED <<stream, cur, seen, sse, log>>
    BY <1>9 DEF PersistFinish, handlerFrame
  <2>2. lost' = lost \/ lost' = lost + 1
    BY <1>9 DEF PersistFinish, Written, WriteFails
  <2>3. QED
    BY <1>1, <2>1, <2>2
<1>10. QED
  BY <1>2, <1>3, <1>4, <1>5, <1>6, <1>7, <1>8, <1>9 DEF HandlerStep

(***************************************************************************)
(* The theorems.                                                           *)
(***************************************************************************)
SafetyInv ==
  /\ TypeInv /\ AllExplained /\ StreamOrder /\ Closing
  /\ Noted /\ Row /\ RowFailed /\ Drawn /\ InStep

LEMMA InitSafety == Init => SafetyInv
<1> SUFFICES ASSUME Init PROVE SafetyInv
  OBVIOUS
<1>1. TypeInv
  BY InitType
<1>2. Sent = << >> /\ Len(Sent) = 0 /\ log = << >> /\ Len(log) = 0 /\ Len(seen) = 0
  <2>1. Sent = seen
    BY <1>1, SentAt DEF Init
  <2>2. QED
    BY <2>1 DEF Init
<1>3. AllExplained /\ StreamOrder /\ Drawn
  BY <1>2 DEF AllExplained, StreamOrder, Drawn
<1>4. Closing /\ Noted /\ Row /\ RowFailed
  BY <1>2 DEF Init, Closing, Noted, Row, RowFailed
<1>5. InStep
  BY DEF Init, InStep
<1>6. QED
  BY <1>1, <1>3, <1>4, <1>5 DEF SafetyInv

LEMMA StutterSafety == SafetyInv /\ UNCHANGED vars => SafetyInv'
<1> SUFFICES ASSUME SafetyInv, UNCHANGED vars PROVE SafetyInv'
  OBVIOUS
<1> USE DEF vars, engineVars, handlerVars, storeVars
<1>1. Sent' = Sent /\ Logged' = Logged
  BY DEF Sent, InHand, Logged
<1>2. TypeInv'
  BY DEF SafetyInv, TypeInv, TypeOK, Control, Tasks
<1>3. AllExplained' /\ StreamOrder' /\ Closing'
  <2>1. AllExplained'
    BY <1>1 DEF SafetyInv, AllExplained, Explained
  <2>2. StreamOrder'
    BY <1>1 DEF SafetyInv, StreamOrder
  <2>3. Closing'
    BY <1>1 DEF SafetyInv, Closing
  <2>4. QED
    BY <2>1, <2>2, <2>3
<1>4. Noted' /\ Row' /\ RowFailed' /\ InStep'
  BY DEF SafetyInv, Noted, Row, RowFailed, InStep, StatusOf
<1>5. Drawn'
  <2>1. log' = log /\ Drawn
    BY DEF SafetyInv
  <2>2. ASSUME NEW i \in 1..Len(log)
        PROVE  \E k \in 1..Logged : /\ Sent[k] = log[i]
                 /\ \A j \in 1..(i - 1) : \E l \in 1..(k - 1) : Sent[l] = log[j]
    BY <2>1 DEF Drawn
  <2>3. ASSUME NEW i \in 1..Len(log')
        PROVE  \E k \in 1..Logged' : /\ Sent'[k] = log'[i]
                 /\ \A j \in 1..(i - 1) : \E l \in 1..(k - 1) : Sent'[l] = log'[j]
    <3>1. PICK k \in 1..Logged : /\ Sent[k] = log[i]
            /\ \A j \in 1..(i - 1) : \E l \in 1..(k - 1) : Sent[l] = log[j]
      BY <2>1, <2>2
    <3>2. QED
      BY <1>1, <2>1, <3>1
  <2>4. QED
    BY <2>3 DEF Drawn
<1>6. QED
  BY <1>2, <1>3, <1>4, <1>5 DEF SafetyInv

LEMMA SafetyStep == SafetyInv /\ [Next]_vars => SafetyInv'
<1>1. ASSUME SafetyInv, Next PROVE SafetyInv'
  <2>1. TypeInv'
    BY <1>1, TypeStep DEF SafetyInv
  <2>2. AllExplained' /\ StreamOrder' /\ Closing'
    BY <1>1, ExplainedStep, OrderStep, ClosingStep DEF SafetyInv
  <2>3. Noted' /\ Row' /\ RowFailed'
    BY <1>1, NotedStep, RowStep DEF SafetyInv
  <2>4. Drawn' /\ InStep'
    BY <1>1, <2>1, DrawnStep, InStepStep DEF SafetyInv
  <2>5. QED
    BY <2>1, <2>2, <2>3, <2>4 DEF SafetyInv
<1>2. QED
  BY <1>1, StutterSafety

LEMMA AlwaysSafe == Spec => []SafetyInv
BY InitSafety, SafetyStep, PTL DEF Spec

(* The engine goroutine, its tasks, the handler and the row stay within     *)
(* their states, whatever the flow and the capacity: in particular the      *)
(* handler never ranges over a channel holding more than ChanCap events     *)
(* (runStream's make(chan Event, 16)).                                     *)
THEOREM RunTyped == Spec => []TypeOK
<1>1. SafetyInv => TypeOK
  BY DEF SafetyInv, TypeInv
<1>2. QED
  BY <1>1, AlwaysSafe, PTL

(* The events of RunStream come in the order flow/event.go promises for     *)
(* every layering of nodes, although the tasks of a layer run in parallel    *)
(* and a cancellation can drop any of their events: flow_started only       *)
(* first, a terminal event only last, none twice, no finish before its      *)
(* start, and no event of a layer after one of a later layer.              *)
THEOREM EventsInOrder == Spec => []StreamOrder
<1>1. SafetyInv => StreamOrder
  BY DEF SafetyInv
<1>2. QED
  BY <1>1, AlwaysSafe, PTL

(* RunStream closes the channel only after the terminal event of its        *)
(* outcome, or after giving that event up to a cancelled context.          *)
THEOREM ClosesAfterTerminal == Spec => []ClosedAfterTerminal
<1>1. SafetyInv => ClosedAfterTerminal
  BY DEF SafetyInv, Closing, ClosedAfterTerminal
<1>2. QED
  BY <1>1, AlwaysSafe, PTL

(* When runWithStore has returned and no write was lost, FinishRun has      *)
(* recorded the outcome RunStream decided, unless a cancellation kept the   *)
(* terminal event from the handler.                                        *)
THEOREM RecordsOutcome == Spec => []OutcomeRecorded
<1>1. SafetyInv => OutcomeRecorded
  <2> SUFFICES ASSUME SafetyInv, cpc = "returned", run # "none", ~(lost > 0), ~(ctxDone /\ final = "none")
               PROVE  run = IF outcome = "done" THEN "done" ELSE "failed"
    BY DEF OutcomeRecorded, FinalOutcomePersisted
  <2>1. run = StatusOf /\ epc = "closed" /\ ch = << >> /\ cur = NoEvent
    BY DEF SafetyInv, Row, TypeInv, Control, Handling
  <2>2. final # "none" => final = outcome
    BY DEF SafetyInv, Noted
  <2>3. final # "none"
    <3> SUFFICES ASSUME final = "none" PROVE FALSE
      OBVIOUS
    <3>1. Sent = seen /\ Len(Sent) \in Nat
      BY <2>1, SentAt DEF SafetyInv
    <3>2. \A i \in 1..Len(Sent) : Sent[i] \notin Terminal
      BY <3>1 DEF SafetyInv, Noted
    <3>3. Sent # << >> /\ Sent[Len(Sent)] = TerminalFor(outcome)
      BY <2>1 DEF SafetyInv, Closing
    <3>4. Len(Sent) \in 1..Len(Sent)
      <4>1. Sent \in Seq(Events)
        BY SentType DEF SafetyInv
      <4>2. QED
        BY <3>1, <3>3, <4>1, EmptySeq
    <3>5. QED
      BY <3>2, <3>3, <3>4, EventTypes
  <2>4. final \in {"done", "err"}
    BY <2>3 DEF SafetyInv, TypeInv, TypeOK
  <2>5. QED
    BY <2>1, <2>2, <2>3, <2>4 DEF StatusOf
<1>2. QED
  BY <1>1, AlwaysSafe, PTL

(* run_events never claims more than happened: it is drawn in order from    *)
(* what RunStream sent, whichever AppendRunEvent calls fail, it ends at a   *)
(* terminal event, which is the outcome's, and while none has failed the    *)
(* SSE client has seen a prefix of it.                                     *)
THEOREM TrailHonest == Spec => []TrailIsHonest
<1>1. SafetyInv => TrailIsHonest
  <2> SUFFICES ASSUME SafetyInv PROVE TrailIsHonest
    OBVIOUS
  <2>1. TypeInv /\ Sent \in Seq(Events) /\ Len(Sent) \in Nat /\ Len(log) \in Nat
    BY SentType DEF SafetyInv, TypeInv, TypeOK
  <2>2. Logged \in Nat /\ Logged <= Len(Sent)
    BY <2>1, LoggedBound
  <2>3. ASSUME lost = 0
        PROVE  /\ Len(sse) <= Len(log) /\ SubSeq(log, 1, Len(sse)) = sse
               /\ ~stream => sse = << >> /\ log \in {<< >>, seen}
    <3>1. /\ seen \in Seq(Events) /\ log \in Seq(Events) /\ stream \in BOOLEAN
          /\ cpc \in {"forward", "note"} => cur \in Events
      BY <2>1 DEF TypeInv, TypeOK, Control, Handling
    <3>2. CASE ~stream
      <4>1. sse = << >> /\ log \in {<< >>, seen}
        BY <2>3, <3>2 DEF SafetyInv, InStep
      <4>2. SubSeq(log, 1, 0) = << >>
        BY <3>1, SubSeqEmpty
      <4>3. QED
        BY <2>1, <4>1, <4>2
    <3>3. CASE stream /\ log = sse
      BY <2>1, <3>1, <3>3, SubSeqFull
    <3>4. CASE stream /\ cpc = "forward"
      <4>1. log = Append(seen, cur) /\ sse = seen
        BY <2>3, <3>4 DEF SafetyInv, InStep
      <4>2. /\ Len(Append(seen, cur)) = Len(seen) + 1 /\ Len(seen) \in Nat
            /\ \A i \in 1..Len(seen) : Append(seen, cur)[i] = seen[i]
        BY <3>1, <3>4, AppendProperties
      <4>3. Len(SubSeq(log, 1, Len(seen))) = Len(seen) /\ SubSeq(log, 1, Len(seen)) \in Seq(Events)
        BY <3>1, <4>1, <4>2, SubSeqProperties
      <4>4. \A i \in 1..Len(seen) : SubSeq(log, 1, Len(seen))[i] = seen[i]
        BY <3>1, <4>1, <4>2, SubSeqProperties
      <4>5. SubSeq(log, 1, Len(seen)) = seen
        BY <3>1, <4>3, <4>4, SeqEqual
      <4>6. QED
        BY <3>4, <4>1, <4>2, <4>5
    <3>5. QED
      BY <2>3, <3>1, <3>2, <3>3, <3>4 DEF SafetyInv, InStep
  <2>4. run = "failed" => outcome = "err"
    BY DEF SafetyInv, RowFailed, Noted
  <2>5. ASSUME NEW i \in 1..Len(log)
        PROVE  \E k \in 1..Len(Sent) :
                 /\ Sent[k] = log[i]
                 /\ \A j \in 1..(i - 1) : \E l \in 1..(k - 1) : Sent[l] = log[j]
    <3>1. PICK k \in 1..Logged : /\ Sent[k] = log[i]
                 /\ \A j \in 1..(i - 1) : \E l \in 1..(k - 1) : Sent[l] = log[j]
      BY DEF SafetyInv, Drawn
    <3>2. k \in 1..Len(Sent)
      BY <2>1, <2>2
    <3>3. QED
      BY <3>1, <3>2
  <2>6. ASSUME NEW i \in 1..Len(log), log[i] \in Terminal
        PROVE  i = Len(log) /\ log[i] = TerminalFor(outcome)
    <3>1. PICK k \in 1..Len(Sent) : Sent[k] = log[i]
      BY <2>5
    <3>2. log[i] = TerminalFor(outcome)
      BY <2>6, <3>1 DEF SafetyInv, AllExplained, Explained
    <3>3. i = Len(log)
      <4> SUFFICES ASSUME i # Len(log) PROVE FALSE
        OBVIOUS
      <4>1. i + 1 \in 1..Len(log) /\ i \in 1..((i + 1) - 1)
        BY <2>1
      <4>2. PICK m \in 1..Len(Sent) : \A j \in 1..((i + 1) - 1) : \E l \in 1..(m - 1) : Sent[l] = log[j]
        BY <2>5, <4>1
      <4>3. PICK l \in 1..(m - 1) : Sent[l] = log[i]
        BY <4>1, <4>2
      <4>4. l \in 1..Len(Sent) /\ l < m
        BY <2>1
      <4>5. QED
        BY <2>6, <4>3, <4>4 DEF SafetyInv, StreamOrder
    <3>4. QED
      BY <3>2, <3>3
  <2>7. QED
    BY <2>3, <2>4, <2>5, <2>6 DEF TrailIsHonest
<1>2. QED
  BY <1>1, AlwaysSafe, PTL
=============================================================================
