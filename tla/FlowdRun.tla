------------------------------ MODULE FlowdRun ------------------------------
(***************************************************************************)
(* One POST /flows/{id}/run or /run/stream of flowd: the v0.1 engine's      *)
(* RunStream goroutine and its node tasks (flow/engine.go) feeding a        *)
(* bounded event channel, and runWithStore (cmd/flowd/server/server.go)     *)
(* draining it into the run store and, when streaming, to the client.       *)
(*                                                                         *)
(* Which nodes are active, and whether a node, a condition or an output     *)
(* fails, is a free choice here; FlowEngine models how it is decided.       *)
(***************************************************************************)
EXTENDS Naturals, Sequences, FiniteSets

CONSTANTS
  Nodes, NumLayers, LayerOf,
  ChanCap,         \* capacity of the event channel (16 in the code)
  MayDisconnect,   \* the client may go away, which cancels r.Context()
  MaxLost          \* bound: store writes that fail, which the handler only logs

ASSUME FlowdAssumption ==
  /\ NumLayers \in Nat /\ LayerOf \in [Nodes -> 1..NumLayers]
  /\ ChanCap \in Nat \ {0} /\ MaxLost \in Nat /\ MayDisconnect \in BOOLEAN

VARIABLES
  epc,       \* the RunStream goroutine
  layer,     \* index of its layer
  task,      \* node tasks
  outcome,   \* what the engine has decided: none, done, err
  ch,        \* the event channel
  ctxDone,   \* r.Context() is cancelled
  stalled,   \* a client that is still connected does not read
  cpc,       \* the handler
  stream,    \* SSE requested
  cur,       \* event the handler has in hand
  seen,      \* events ranged over so far (syncBatch, on the sync path)
  final,     \* finalOutputs/finalErr: none, done, err
  run,       \* status column of the run's row
  log,       \* run_events of the run, in seq order
  lost,      \* number of writes that have failed; history only
  sse        \* frames written to the client

engineVars == <<epc, layer, task, outcome>>
handlerVars == <<cpc, stream, cur, seen, final>>
storeVars == <<run, log, lost>>
vars == <<engineVars, ch, ctxDone, stalled, handlerVars, storeVars, sse>>

Event(k, n) == [kind |-> k, node |-> n]
Flow == "flow"                        \* stands for "no node id"
NoEvent == Event("none", Flow)
NodeEvents == [kind : {"node_started", "node_finished", "node_skipped"}, node : Nodes]
FlowEvents == {Event(k, Flow) : k \in {"flow_started", "flow_done", "flow_err"}}
Events == NodeEvents \cup FlowEvents
Terminal == {Event("flow_done", Flow), Event("flow_err", Flow)}
TerminalFor(o) == IF o = "done" THEN Event("flow_done", Flow) ELSE Event("flow_err", Flow)

Waiting == {"queued", "running", "okEmit", "errEmit", "canceledEmit"}
LayerNodes(l) == {n \in Nodes : LayerOf[n] = l}

Init ==
  /\ epc = "none" /\ layer = 1 /\ task = [n \in Nodes |-> "idle"]
  /\ outcome = "none" /\ ch = << >> /\ ctxDone = FALSE /\ stalled = FALSE
  /\ cpc = "start" /\ stream \in BOOLEAN /\ cur = NoEvent /\ seen = << >>
  /\ final = "none" /\ run = "none" /\ log = << >> /\ lost = 0 /\ sse = << >>

(***************************************************************************)
(* emit: send under emitMu, or give up once ctx is done.  select picks      *)
(* either branch when both are ready.                                      *)
(***************************************************************************)
HasRoom == Len(ch) < ChanCap

(* Fault: a full channel drops the event.                                  *)
EmitOrDrop(ev) ==
  \/ HasRoom /\ ch' = Append(ch, ev)
  \/ ~HasRoom /\ UNCHANGED ch
Emit(ev) ==
  \/ HasRoom /\ ch' = Append(ch, ev)
  \/ ctxDone /\ UNCHANGED ch

others == <<ctxDone, stalled, handlerVars, storeVars, sse>>
Decide(o) == outcome' = o /\ epc' = "final"

(* FlowStarted, then the flow inputs: one may be missing.                  *)
EmitStarted ==
  /\ epc = "started"
  /\ Emit(Event("flow_started", Flow))
  /\ \/ epc' = "layer" /\ UNCHANGED outcome
     \/ Decide("err")
  /\ UNCHANGED <<layer, task, others>>

BeginLayer ==
  /\ epc = "layer" /\ layer <= NumLayers
  /\ \/ ctxDone /\ Decide("err") /\ UNCHANGED task
     \/ /\ ~ctxDone /\ epc' = "skip" /\ UNCHANGED outcome
        /\ \E active \in SUBSET LayerNodes(layer) :
             task' = [n \in Nodes |->
                        IF n \in active THEN "queued"
                        ELSE IF n \in LayerNodes(layer) THEN "skip" ELSE task[n]]
  /\ UNCHANGED <<layer, ch, others>>

EmitSkipped(n) ==
  /\ epc = "skip" /\ task[n] = "skip"
  /\ Emit(Event("node_skipped", n))
  /\ task' = [task EXCEPT ![n] = "skipped"]
  /\ UNCHANGED <<epc, layer, outcome, others>>

BeginFanout ==
  /\ epc = "skip" /\ \A n \in Nodes : task[n] # "skip"
  /\ epc' = "fanout"
  /\ UNCHANGED <<layer, task, outcome, ch, others>>

(* The node tasks under fanout.Run with fail-fast.                         *)
FanoutCanceled ==
  ctxDone \/ \E n \in LayerNodes(layer) : task[n] \in {"err", "canceled"}

StartNode(n) ==
  /\ epc = "fanout" /\ task[n] = "queued"
  /\ Emit(Event("node_started", n))
  /\ task' = [task EXCEPT ![n] = "running"]
  /\ UNCHANGED <<epc, layer, outcome, others>>

GiveUpNode(n) ==
  /\ epc = "fanout" /\ task[n] = "queued" /\ FanoutCanceled
  /\ task' = [task EXCEPT ![n] = "canceled"]
  /\ UNCHANGED <<epc, layer, outcome, ch, others>>

NodeReturns(n) ==
  /\ epc = "fanout" /\ task[n] = "running"
  /\ \E r \in {"okEmit", "errEmit"} \cup (IF FanoutCanceled THEN {"canceledEmit"} ELSE {}) :
       task' = [task EXCEPT ![n] = r]
  /\ UNCHANGED <<epc, layer, outcome, ch, others>>

AfterEmit == [okEmit |-> "ok", errEmit |-> "err", canceledEmit |-> "canceled"]

EmitFinished(n) ==
  /\ epc = "fanout" /\ task[n] \in DOMAIN AfterEmit
  /\ Emit(Event("node_finished", n))
  /\ task' = [task EXCEPT ![n] = AfterEmit[task[n]]]
  /\ UNCHANGED <<epc, layer, outcome, others>>

(* The scan of the results, then the edges of the layer: a condition may    *)
(* fail.                                                                   *)
LayerFailed ==
  \E n \in LayerNodes(layer) : task[n] = "err" \/ (task[n] = "canceled" /\ ctxDone)

(* Fault: fanout.Run is left while a task is still busy.                   *)
SomeTaskEnded == \E n \in LayerNodes(layer) : task[n] \notin Waiting
TasksEnded == \A n \in LayerNodes(layer) : task[n] \notin Waiting

Join ==
  /\ epc = "fanout" /\ TasksEnded
  /\ \/ (ctxDone \/ LayerFailed) /\ Decide("err") /\ UNCHANGED layer
     \/ /\ ~LayerFailed
        /\ \/ epc' = "layer" /\ layer' = layer + 1 /\ UNCHANGED outcome
           \/ Decide("err") /\ UNCHANGED layer
  /\ UNCHANGED <<task, ch, others>>

(* A declared output of an active node may be missing.                     *)
CollectOutputs ==
  /\ epc = "layer" /\ layer > NumLayers
  /\ Decide("done") \/ Decide("err")
  /\ UNCHANGED <<layer, task, ch, others>>

EmitTerminal ==
  /\ epc = "final"
  /\ Emit(TerminalFor(outcome))
  /\ epc' = "close"
  /\ UNCHANGED <<layer, task, outcome, others>>

(* Fault: the channel is never closed.                                     *)
CloseForgotten == epc = "never"
MustClose == epc = "close"

Close ==
  /\ MustClose
  /\ epc' = "closed"
  /\ UNCHANGED <<layer, task, outcome, ch, others>>

(***************************************************************************)
(* runWithStore.  StartRun uses the request's context, may fail and is      *)
(* reported to the client; the writes after it use a background context.   *)
(***************************************************************************)
StartRun ==
  /\ cpc = "start"
  /\ \/ /\ run' = "running" /\ cpc' = "range" /\ epc' = "started"
     \/ cpc' = "returned" /\ UNCHANGED <<run, epc>>
  /\ UNCHANGED <<layer, task, outcome, ch, ctxDone, stalled, stream, cur, seen, final, log, lost, sse>>

handlerFrame == <<engineVars, ctxDone, stalled, stream>>

Written == UNCHANGED lost
WriteFails == lost < MaxLost /\ lost' = lost + 1

AfterReceive == IF stream THEN "persist" ELSE "collect"

Receive ==
  /\ cpc = "range" /\ ch # << >>
  /\ cur' = Head(ch) /\ ch' = Tail(ch)
  /\ cpc' = AfterReceive
  /\ UNCHANGED <<handlerFrame, seen, final, storeVars, sse>>

(* Fault: an append is repeated.                                           *)
AppendedTwice == log \o <<cur, cur>>
Appended == Append(log, cur)

(* AppendRunEvent; its failure is logged and the event is gone.            *)
Persist ==
  /\ cpc = "persist"
  /\ \/ Written /\ log' = Appended
     \/ WriteFails /\ UNCHANGED log
  /\ cpc' = "forward"
  /\ UNCHANGED <<handlerFrame, ch, cur, seen, final, run, sse>>

(* writeSSE and Flush: the write waits for a connected client to read (no   *)
(* write timeout by default), fails at once when the client has gone, and   *)
(* nobody looks at whether the client got it.                              *)
WriteReturns == ~stalled \/ ctxDone

Forward ==
  /\ cpc = "forward" /\ WriteReturns
  /\ sse' = Append(sse, cur)
  /\ cpc' = "note"
  /\ UNCHANGED <<handlerFrame, ch, cur, seen, final, storeVars>>

(* The switch on ev.Kind at the end of the loop body.                      *)
NoteTerminal ==
  /\ cpc \in {"note", "collect"}
  /\ seen' = Append(seen, cur) /\ cur' = NoEvent
  /\ final' = CASE cur.kind = "flow_done" -> "done"
                [] cur.kind = "flow_err" -> "err"
                [] OTHER -> final
  /\ cpc' = "range"
  /\ UNCHANGED <<handlerFrame, ch, storeVars, sse>>

(* The channel is closed and drained: flush the sync batch in one           *)
(* transaction.                                                            *)
Flush ==
  /\ cpc = "range" /\ ch = << >> /\ epc = "closed"
  /\ \/ Written /\ log' = IF stream THEN log ELSE log \o seen
     \/ ~stream /\ WriteFails /\ UNCHANGED log
  /\ cpc' = "finish"
  /\ UNCHANGED <<handlerFrame, ch, cur, seen, final, run, sse>>

(* FinishRun: "failed" with an error message, "done" without one; only a    *)
(* row that is not terminal yet is touched.                                *)
(* Fault: the error is not handed to FinishRun.                            *)
DoneRegardless == "done"
StatusOf == IF final = "err" THEN "failed" ELSE "done"

PersistFinish ==
  /\ cpc = "finish"
  /\ \/ Written /\ run' = IF run = "running" THEN StatusOf ELSE run
     \/ WriteFails /\ UNCHANGED run
  /\ cpc' = "returned"
  /\ UNCHANGED <<handlerFrame, ch, cur, seen, final, log, sse>>

(***************************************************************************)
(* The client: net/http cancels the context of a connection that closes; a  *)
(* client that stays may stop reading its stream, and read on.             *)
(***************************************************************************)
clientFrame == <<engineVars, ch, handlerVars, storeVars, sse>>

Disconnect ==
  /\ MayDisconnect /\ ~ctxDone /\ cpc # "returned"
  /\ ctxDone' = TRUE
  /\ UNCHANGED <<stalled, clientFrame>>

ClientStalls ==
  /\ stream /\ ~stalled /\ ~ctxDone /\ cpc # "returned"
  /\ stalled' = TRUE
  /\ UNCHANGED <<ctxDone, clientFrame>>

ClientReadsOn ==
  /\ stalled
  /\ stalled' = FALSE
  /\ UNCHANGED <<ctxDone, clientFrame>>

NodeStep(n) ==
  EmitSkipped(n) \/ StartNode(n) \/ GiveUpNode(n) \/ NodeReturns(n) \/ EmitFinished(n)
EngineStep ==
  \/ EmitStarted \/ BeginLayer \/ BeginFanout \/ Join
  \/ CollectOutputs \/ EmitTerminal \/ Close
HandlerStep ==
  \/ StartRun \/ Receive \/ Persist \/ Forward \/ NoteTerminal
  \/ Flush \/ PersistFinish

ClientStep == Disconnect \/ ClientStalls \/ ClientReadsOn

Next == EngineStep \/ HandlerStep \/ ClientStep \/ \E n \in Nodes : NodeStep(n)

Spec == Init /\ [][Next]_vars
(* The engine goroutine and the handler are scheduled and node Runs return. *)
(* Nothing makes the client read or go away; a client that reads again and  *)
(* again does let a write through.                                         *)
FairSpec ==
  /\ Spec /\ WF_vars(EngineStep) /\ WF_vars(HandlerStep) /\ SF_vars(Forward)
  /\ \A n \in Nodes : WF_vars(NodeStep(n))

(***************************************************************************)
(* Properties.                                                             *)
(***************************************************************************)
(* The handler, the engine goroutine and the row stay within their states,  *)
(* and the channel within its capacity.                                    *)
TypeOK ==
  /\ epc \in {"none", "started", "layer", "skip", "fanout", "final", "close", "closed"}
  /\ layer \in 1..(NumLayers + 1)
  /\ task \in [Nodes -> Waiting \cup {"idle", "skip", "skipped", "ok", "err", "canceled"}]
  /\ outcome \in {"none", "done", "err"} /\ final \in {"none", "done", "err"}
  /\ ch \in Seq(Events) /\ Len(ch) <= ChanCap
  /\ ctxDone \in BOOLEAN /\ stalled \in BOOLEAN /\ stream \in BOOLEAN
  /\ cpc \in {"start", "range", "persist", "forward", "collect", "note", "finish", "returned"}
  /\ cur \in Events \cup {NoEvent}
  /\ seen \in Seq(Events) /\ log \in Seq(Events) /\ sse \in Seq(Events)
  /\ run \in {"none", "running", "done", "failed"} /\ lost \in 0..MaxLost

InHand == IF cur = NoEvent THEN << >> ELSE <<cur>>
(* Every event the engine managed to send, in order.                       *)
Sent == seen \o InHand \o ch

(* The ordering contract of flow/event.go, drops or not: flow_started can   *)
(* only come first and a terminal event only last, no event comes twice, a  *)
(* node never starts after it finished, and layers do not interleave.      *)
StreamOrder ==
  \A i, j \in 1..Len(Sent) : i < j =>
    /\ Sent[i] # Sent[j]
    /\ Sent[j].kind # "flow_started" /\ Sent[i] \notin Terminal
    /\ Sent[i] \in NodeEvents /\ Sent[j] \in NodeEvents =>
         /\ LayerOf[Sent[i].node] <= LayerOf[Sent[j].node]
         /\ Sent[i].node = Sent[j].node => Sent[i].kind = "node_started"

(* "The returned channel is closed after the terminal event (FlowDone or    *)
(* FlowErr)" (flow/engine.go): once closed, the last event ever sent is the *)
(* terminal event of the engine's outcome.  emit may give it up when the    *)
(* context is cancelled, and only then.                                    *)
ClosedAfterTerminal ==
  epc = "closed" =>
    \/ Sent # << >> /\ Sent[Len(Sent)] = TerminalFor(outcome)
    \/ ctxDone /\ \A i \in 1..Len(Sent) : Sent[i] \notin Terminal

(* "final outcome persisted on stream close" (README.md): when the handler  *)
(* returns, the run's row says done exactly if the engine's run succeeded.  *)
FinalOutcomePersisted ==
  cpc = "returned" /\ run # "none" =>
    run = (IF outcome = "done" THEN "done" ELSE "failed")

(* The row is wrong in no other case than a lost write or a terminal event  *)
(* that a cancellation made the engine give up: whenever the handler got    *)
(* the terminal event, and always while the client stays, the outcome is    *)
(* recorded as it was.                                                     *)
OutcomeRecorded ==
  FinalOutcomePersisted \/ lost > 0 \/ (ctxDone /\ final = "none")

(* The audit trail never claims more than happened, even with failing       *)
(* writes: it is drawn, in order, from what the engine sent, a run marked   *)
(* failed did fail, and a stored terminal event is the engine's outcome.    *)
(* And it never lags behind the client ("every event lands in run_events    *)
(* before being forwarded (in stream mode) to the SSE client", README.md):  *)
(* as long as no write has failed the frames are a prefix of the log, and   *)
(* on the sync path the log is written once, whole.                        *)
TrailIsHonest ==
  /\ lost = 0 =>
       /\ Len(sse) <= Len(log) /\ SubSeq(log, 1, Len(sse)) = sse
       /\ ~stream => sse = << >> /\ log \in {<< >>, seen}
  /\ run = "failed" => outcome = "err"
  /\ \A i \in 1..Len(log) :
        log[i] \in Terminal => i = Len(log) /\ log[i] = TerminalFor(outcome)
  /\ \A i \in 1..Len(log) : \E k \in 1..Len(Sent) :
        /\ Sent[k] = log[i]
        /\ \A j \in 1..(i - 1) : \E l \in 1..(k - 1) : Sent[l] = log[j]

(* The handler returns, the engine goroutine has ended by then, and unless  *)
(* a write was lost the row has left "running", unless the client stays     *)
(* connected and from some moment on never reads: that client holds the     *)
(* handler, and through the full channel the engine, for as long as it      *)
(* likes.  Going away, or reading now and then, sets both free.            *)
ClientHoldsOn == <>[](stalled /\ ~ctxDone)
HandlerReturns ==
  \/ ClientHoldsOn
  \/ (cpc = "range") ~> (cpc = "returned" /\ epc = "closed"
                          /\ (lost > 0 \/ run \in {"done", "failed"}))
=============================================================================
