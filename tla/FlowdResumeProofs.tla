-------------------------- MODULE FlowdResumeProofs --------------------------
(***************************************************************************)
(* The resume protocol of flowd, for any number of clients and interrupts.  *)
(*                                                                         *)
(* Two inductive invariants.  Order holds whatever happens: it ties the     *)
(* request that writes a table to what the other tables say by then.  Turn  *)
(* holds while the clients take turns and nothing fails: it describes the   *)
(* tables completely, by where the one busy request is.                    *)
(***************************************************************************)
EXTENDS FlowdResume, TLAPS

(* The requests that have reached an interrupt and not yet recorded it.     *)
Suspending == {"interrupted", "announce", "mark"}

Order ==
  \* no request is served before the row exists, and then it never vanishes
  /\ row = "none" => Resting /\ leg[Starter] = 0
  \* only the Starter's error ends a run as failed, only a resume deletes
  /\ \A r \in Requests : pc[r] \in {"err", "fail", "started"} => r = Starter
  /\ pc[Starter] \notin {"admit", "load", "delete"}
  \* SaveCheckpoint and SuspendRun name the same, existing interrupt
  /\ \A r \in Requests : pc[r] \in Suspending => leg[r] < MaxInterrupts
  \* a checkpoint is deleted only after FinishRun has closed the row
  /\ \A r \in Requests : At(r, "delete") => Finished \/ lost
  \* SuspendRun opens only what a checkpoint backs
  /\ \A r \in Requests : pc[r] \in Suspending /\ ~Finished => cp # 0 \/ lost
  /\ row = "suspended" => cp # 0 \/ lost

(* The legs before the checkpoint have fired once, those after it never.    *)
FiredUpToCp == \A k \in Legs : fired[k] < 2 /\ (k >= cp => fired[k] = 0)

(* Nothing has run: the state StartRun finds and leaves.                    *)
Untouched == node = 0 /\ cp = 0 /\ FiredUpToCp

(* The tables when no request is between its first and its last write.     *)
Settled ==
  /\ row # "running"
  /\ row = "none" => last = "none" /\ Untouched
  /\ row = "suspended" => last = "flow_suspended" /\ node = cp /\ FiredUpToCp
  /\ row = "done" => last = "flow_done"
  /\ row = "failed" => last = "flow_err"

(* A question that was asked is the pending one, or its leg has fired.      *)
PendingOrFired(k) == k # 0 => k = cp \/ fired[k] > 0
Questions == PendingOrFired(node) /\ \A r \in Requests : PendingOrFired(asked[r])

(* The tables while request r, alone, is at pc[r].                         *)
Busy(r) ==
  /\ pc[r] \in {"admit", "load"} => Settled
  /\ pc[r] = "load" => row = "suspended"
  /\ pc[r] = "started" => row = "running" /\ leg[r] = 0 /\ Untouched
  /\ pc[r] = "leg" => /\ row = (IF r = Starter THEN "running" ELSE "suspended")
                      /\ leg[r] = cp /\ FiredUpToCp
                      /\ r # Starter => Settled
  /\ pc[r] \in Suspending =>
       /\ row \in {"running", "suspended"} /\ cp = leg[r] + 1 /\ FiredUpToCp
       /\ pc[r] = "mark" => last = "flow_suspended"
  /\ pc[r] \in {"done", "finish"} => row \in {"running", "suspended"}
  /\ pc[r] \in {"done", "finish", "delete"} => fired[cp] > 0
  /\ pc[r] = "finish" => last = "flow_done"
  /\ pc[r] \in {"err", "fail"} => row = "running"
  /\ pc[r] = "fail" => last = "flow_err"
  /\ pc[r] = "delete" => row = "done" /\ last = "flow_done"

Turn ==
  calm =>
    /\ \A r, s \in Requests : pc[r] # "idle" /\ pc[s] # "idle" => r = s
    /\ AtMostOnce
    /\ Resting => Settled
    /\ Questions
    /\ \A r \in Requests : Busy(r)

ResumeInv == TypeOK /\ Order /\ Turn

(***************************************************************************)
(* Typing.                                                                 *)
(***************************************************************************)
RequestPhases ==
  {"idle", "started", "admit", "load", "leg", "interrupted",
   "announce", "mark", "done", "finish", "err", "fail", "delete"}

LEMMA LegFacts ==
  /\ MaxInterrupts \in Nat /\ 0 \in Legs /\ Legs \subseteq Nat
  /\ \A k \in Legs : k < MaxInterrupts => k + 1 \in Legs
BY ResumeAssumption DEF Legs

LEMMA InitResume == Init => ResumeInv
<1> SUFFICES ASSUME Init PROVE ResumeInv
  OBVIOUS
<1>1. TypeOK
  <2>1. fired \in [Legs -> 0..2]
    BY DEF Init
  <2>2. QED
    BY <2>1, LegFacts DEF Init, TypeOK
<1>2. Order
  BY DEF Init, Order, Resting, At, Requests, Suspending
<1>3. Turn
  BY ResumeAssumption DEF Init, Turn, AtMostOnce, Settled, Untouched, FiredUpToCp, Busy, Suspending,
     Questions, PendingOrFired, Legs
<1>4. QED
  BY <1>1, <1>2, <1>3 DEF ResumeInv

(* A request moves alone.                                                  *)
LEMMA GotoShape ==
  ASSUME TypeOK, NEW r \in Requests, NEW p \in RequestPhases, Goto(r, p)
  PROVE  /\ pc' \in [Requests -> RequestPhases]
         /\ pc'[r] = p /\ \A s \in Requests : s # r => pc'[s] = pc[s]
BY DEF Goto, TypeOK, RequestPhases

LEMMA HandlerType ==
  ASSUME TypeOK, Order, NEW r \in Requests, HandlerStep(r)
  PROVE  TypeOK'
<1>1. pc' \in [Requests -> RequestPhases]
  BY GotoShape DEF HandlerStep, LegFails, AfterFailed, LegInterrupts, LegDone, AppendEvent, StepAfter,
     SuspendRun, FinishRun, RequestPhases
<1>2. leg' = leg /\ asked' = asked /\ leg[r] \in Legs
  BY DEF HandlerStep, LegFails, LegInterrupts, LegDone, AppendEvent, SuspendRun, FinishRun, TypeOK
<1>3. last' \in {"none", "flow_started", "node_interrupted", "flow_suspended", "flow_done", "flow_err"}
  BY DEF HandlerStep, LegFails, LegInterrupts, LegDone, AppendEvent, EventAt, SuspendRun, FinishRun,
     TypeOK
<1>4. fired' \in [Legs -> 0..2]
  <2>1. CASE Fire(leg[r])
    BY <1>2, <2>1 DEF Fire, TypeOK
  <2>2. CASE UNCHANGED fired
    BY <2>2 DEF TypeOK
  <2>3. QED
    BY <2>1, <2>2 DEF HandlerStep, LegFails, LegInterrupts, LegDone, AppendEvent, SuspendRun, FinishRun
<1>5. cp' \in Legs
  BY <1>2, LegFacts DEF HandlerStep, LegFails, LegInterrupts, LegDone, AppendEvent, SuspendRun,
     FinishRun, Saved, InterruptOf, TypeOK
<1>6. /\ row' \in {"none", "running", "suspended", "done", "failed"}
      /\ node' \in Legs /\ (row' = "suspended" => node' # 0)
  <2>1. CASE SuspendRun(r)
    <3>1. leg[r] + 1 \in Legs /\ leg[r] + 1 # 0
      <4>1. leg[r] < MaxInterrupts
        BY <2>1 DEF SuspendRun, At, Order, Suspending
      <4>2. leg[r] \in 0..MaxInterrupts /\ MaxInterrupts \in Nat
        BY <1>2, ResumeAssumption DEF Legs
      <4>3. QED
        BY <4>1, <4>2 DEF Legs
    <3>2. QED
      BY <2>1, <3>1 DEF SuspendRun, InterruptOf, TypeOK
  <2>2. CASE ~SuspendRun(r)
    BY <2>2 DEF HandlerStep, LegFails, LegInterrupts, LegDone, AppendEvent, FinishRun, StatusOf, TypeOK
  <2>3. QED
    BY <2>1, <2>2
<1>7. lost' \in BOOLEAN /\ calm' \in BOOLEAN
  BY DEF HandlerStep, LegFails, LegInterrupts, LegDone, AppendEvent, SuspendRun, FinishRun, Written,
     WriteFails, TypeOK
<1>8. QED
  BY <1>1, <1>2, <1>3, <1>4, <1>5, <1>6, <1>7 DEF TypeOK, RequestPhases

LEMMA ResumerType ==
  ASSUME TypeOK, NEW r \in Resumers, ResumerStep(r)
  PROVE  TypeOK'
<1> r \in Requests
  BY DEF Requests
<1>1. pc' \in [Requests -> RequestPhases]
  BY GotoShape DEF ResumerStep, ReadQuestion, Post, Admit, Load, DeleteCheckpoint, TypeOK, RequestPhases
<1>2. leg' \in [Requests -> Legs] /\ asked' \in [Requests -> Legs] /\ cp' \in Legs
  BY LegFacts DEF ResumerStep, ReadQuestion, Post, Admit, Load, DeleteCheckpoint, TypeOK
<1>3. calm' \in BOOLEAN
  BY DEF ResumerStep, ReadQuestion, Post, Admit, Load, DeleteCheckpoint, Written, WriteFails, TypeOK
<1>4. UNCHANGED <<row, node, last, fired, lost>>
  BY DEF ResumerStep, ReadQuestion, Post, Admit, Load, DeleteCheckpoint
<1>5. QED
  BY <1>1, <1>2, <1>3, <1>4 DEF TypeOK, RequestPhases

LEMMA TypeStep == ASSUME TypeOK, Order, [Next]_vars PROVE TypeOK'
<1>1. CASE StartRun
  <2>1. pc' \in [Requests -> RequestPhases]
    BY <1>1, GotoShape DEF StartRun, Requests, RequestPhases
  <2>2. QED
    BY <1>1, <2>1 DEF StartRun, TypeOK, RequestPhases
<1>2. CASE Crash
  BY <1>2 DEF Crash, TypeOK
<1>3. CASE UNCHANGED vars
  BY <1>3 DEF vars, TypeOK
<1>4. QED
  BY <1>1, <1>2, <1>3, HandlerType, ResumerType DEF Next

(***************************************************************************)
(* What holds in every behaviour, crashes and overlaps included.           *)
(***************************************************************************)
LEMMA HandlerOrder ==
  ASSUME TypeOK, Order, NEW r \in Requests, HandlerStep(r)
  PROVE  Order'
<1>1. row # "none" /\ leg' = leg /\ leg[r] \in Nat
  BY LegFacts DEF HandlerStep, LegFails, LegInterrupts, LegDone, AppendEvent, SuspendRun, FinishRun,
     Order, Resting, At, TypeOK
<1>2. /\ row' # "none" /\ (Finished => row' = row) /\ (lost => lost')
  BY <1>1 DEF HandlerStep, LegFails, LegInterrupts, LegDone, AppendEvent, SuspendRun, FinishRun, Finished,
     StatusOf, Unfinished
<1>3. \A s \in Requests : s # r => pc'[s] = pc[s]
  BY DEF HandlerStep, LegFails, LegInterrupts, LegDone, AppendEvent, SuspendRun, FinishRun, Goto, TypeOK
<1>4. cp' # 0 \/ cp' = cp
  BY <1>1 DEF HandlerStep, LegFails, LegInterrupts, LegDone, AppendEvent, SuspendRun, FinishRun, Saved,
     InterruptOf
<1>5. /\ pc'[r] \in {"err", "fail", "started"} => r = Starter
      /\ pc'[r] \notin {"admit", "load"} /\ (pc'[r] = "delete" => r # Starter)
  BY DEF HandlerStep, LegFails, AfterFailed, LegInterrupts, LegDone, AppendEvent, StepAfter, SuspendRun,
     FinishRun, Goto, TypeOK, Order
<1>6. pc'[r] \in Suspending => leg[r] < MaxInterrupts /\ (cp' # 0 \/ pc[r] \in Suspending)
  <2>1. CASE LegInterrupts(r)
    BY <1>1, <2>1 DEF LegInterrupts, Saved, InterruptOf
  <2>2. CASE AppendEvent(r)
    BY <2>2 DEF AppendEvent, StepAfter, Goto, TypeOK, Order, Suspending
  <2>3. CASE LegFails(r) \/ LegDone(r) \/ SuspendRun(r) \/ FinishRun(r)
    BY <2>3 DEF LegFails, AfterFailed, LegDone, SuspendRun, FinishRun, Goto, TypeOK, Suspending
  <2>4. QED
    BY <2>1, <2>2, <2>3 DEF HandlerStep
<1>7. pc'[r] = "delete" => Finished' \/ lost'
  <2>1. CASE FinishRun(r)
    BY <1>1, <2>1 DEF FinishRun, Finished, Unfinished, StatusOf, TypeOK
  <2>2. CASE ~FinishRun(r)
    BY <2>2 DEF HandlerStep, LegFails, AfterFailed, LegInterrupts, LegDone, AppendEvent, StepAfter,
       SuspendRun, Goto, TypeOK
  <2>3. QED
    BY <2>1, <2>2
<1>8. row' = "suspended" => cp' # 0 \/ lost'
  <2>1. CASE SuspendRun(r)
    BY <2>1 DEF SuspendRun, At, Order, Suspending, Finished, Unfinished
  <2>2. CASE ~SuspendRun(r)
    <3>1. row' = "suspended" => row = "suspended"
      BY <2>2 DEF HandlerStep, LegFails, LegInterrupts, LegDone, AppendEvent, FinishRun, StatusOf
    <3>2. QED
      BY <1>2, <1>4, <3>1 DEF Order
  <2>3. QED
    BY <2>1, <2>2
<1>9. Finished => Finished'
  BY <1>2 DEF Finished
<1>10. pc'[Starter] \notin {"admit", "load", "delete"}
  BY <1>3, <1>5 DEF Order, Requests
<1>11. QED
  BY <1>1, <1>2, <1>3, <1>4, <1>5, <1>6, <1>7, <1>8, <1>9, <1>10 DEF Order, At

LEMMA ResumerOrder ==
  ASSUME TypeOK, Order, NEW r \in Resumers, ResumerStep(r)
  PROVE  Order'
<1> r \in Requests /\ r # Starter /\ Starter \in Requests
  BY ResumeAssumption DEF Requests
<1>1. row # "none" /\ UNCHANGED <<row, lost>>
  BY DEF ResumerStep, ReadQuestion, Post, Admit, Load, DeleteCheckpoint, Order, Resting, At
<1>2. /\ \A s \in Requests : s # r => pc'[s] = pc[s]
      /\ pc'[r] \in {"idle", "admit", "load", "leg"}
  BY DEF ResumerStep, ReadQuestion, Post, Admit, Load, DeleteCheckpoint, Goto, At, TypeOK
<1>3. \A s \in Requests : s # r => leg'[s] = leg[s]
  BY DEF ResumerStep, ReadQuestion, Post, Admit, Load, DeleteCheckpoint, TypeOK
<1>4. cp' = cp \/ Finished \/ lost
  BY DEF ResumerStep, ReadQuestion, Post, Admit, Load, DeleteCheckpoint, Order
<1>5. QED
  BY <1>1, <1>2, <1>3, <1>4 DEF Order, At, Suspending, Finished

LEMMA OrderStep == ASSUME TypeOK, Order, [Next]_vars PROVE Order'
<1>1. CASE StartRun
  <2>1. /\ \A s \in Requests : s # Starter => pc'[s] = "idle"
        /\ pc'[Starter] = "started" /\ row' = "running"
    BY <1>1 DEF StartRun, Goto, TypeOK, Order, Resting, At, Requests
  <2>2. QED
    BY <2>1 DEF Order, At, Suspending
<1>2. CASE Crash
  BY <1>2 DEF Crash, Order, Resting, At, Requests, Suspending, Finished
<1>3. CASE UNCHANGED vars
  BY <1>3 DEF vars, Order, Resting, At, Finished
<1>4. QED
  BY <1>1, <1>2, <1>3, HandlerOrder, ResumerOrder DEF Next

(***************************************************************************)
(* What holds while the clients take turns.                                *)
(***************************************************************************)
(* The tables are all that Settled and AtMostOnce look at.                 *)
LEMMA SameTables ==
  ASSUME UNCHANGED <<row, node, cp, last, fired>>
  PROVE  /\ (Settled' <=> Settled) /\ (FiredUpToCp' <=> FiredUpToCp)
         /\ (AtMostOnce' <=> AtMostOnce)
BY DEF Settled, FiredUpToCp, Untouched, AtMostOnce

(* While no question changes hands, Questions can only be disturbed by the  *)
(* checkpoint moving away from an interrupt whose leg has not fired.       *)
LEMMA QuestionsKept ==
  ASSUME TypeOK, Questions, UNCHANGED asked, node' \in {node, cp}, 0 \in Legs,
         \A k \in Legs : fired'[k] \in Nat /\ fired'[k] >= fired[k],
         cp' = cp \/ fired'[cp] > 0
  PROVE  Questions'
<1>1. fired \in [Legs -> 0..2] /\ node \in Legs /\ cp \in Legs /\ asked \in [Requests -> Legs]
  BY DEF TypeOK
<1>2. ASSUME NEW k \in Legs, PendingOrFired(k) PROVE k # 0 => k = cp' \/ fired'[k] > 0
  <2>1. fired'[k] >= fired[k] /\ fired[k] \in 0..2
    BY <1>1
  <2>2. CASE k = cp
    BY <2>2
  <2>3. CASE k # 0 /\ fired[k] > 0
    <3> DEFINE now == fired'[k]
    <3>1. now >= fired[k] /\ fired[k] \in Nat /\ fired[k] > 0
      BY <2>1, <2>3
    <3>2. QED
      BY <3>1
  <2>4. QED
    BY <1>2, <2>2, <2>3 DEF PendingOrFired
<1>3. node' # 0 => node' = cp' \/ fired'[node'] > 0
  BY <1>1, <1>2 DEF Questions, PendingOrFired
<1>4. \A r \in Requests : asked[r] # 0 => asked[r] = cp' \/ fired'[asked[r]] > 0
  BY <1>1, <1>2 DEF Questions
<1>5. QED
  BY <1>3, <1>4 DEF Questions, PendingOrFired

(* With r busy and taking its turn, every other request is idle.           *)
LEMMA Alone ==
  ASSUME Turn, calm, NEW r \in Requests, pc[r] # "idle", NEW s \in Requests, s # r
  PROVE  pc[s] = "idle"
BY DEF Turn

(* A step of the busy request keeps Turn if it keeps what the new place of  *)
(* that request asks for.                                                  *)
LEMMA OneMoves ==
  ASSUME TypeOK, Turn, NEW r \in Requests, pc[r] # "idle", calm' => calm,
         \A s \in Requests : s # r => pc'[s] = pc[s],
         calm' => AtMostOnce' /\ Questions' /\ Busy(r)' /\ (pc'[r] = "idle" => Settled')
  PROVE  Turn'
<1> SUFFICES ASSUME calm' PROVE /\ \A s, t \in Requests : pc'[s] # "idle" /\ pc'[t] # "idle" => s = t
                                /\ AtMostOnce' /\ Questions' /\ (Resting' => Settled')
                                /\ \A s \in Requests : Busy(s)'
  BY DEF Turn
<1>1. \A s \in Requests : s # r => pc'[s] = "idle"
  BY Alone
<1>2. \A s \in Requests : s # r => Busy(s)'
  BY <1>1 DEF Busy, Suspending
<1>3. QED
  BY <1>1, <1>2 DEF Resting, At

(* Firing a leg only counts up.                                            *)
LEMMA FiresLeg ==
  ASSUME fired \in [Legs -> 0..2], NEW c \in Legs,
         fired' = [fired EXCEPT ![c] = IF @ = 0 THEN 1 ELSE 2]
  PROVE  fired'[c] > 0 /\ \A k \in Legs : fired'[k] \in Nat /\ fired'[k] >= fired[k]
OBVIOUS

LEMMA LegTurn ==
  ASSUME TypeOK, Order, Turn, NEW r \in Requests, LegFails(r) \/ LegInterrupts(r) \/ LegDone(r)
  PROVE  Turn'
<1>1. /\ pc[r] = "leg" /\ calm' = calm /\ UNCHANGED <<row, node, last, leg, asked>>
      /\ \A s \in Requests : s # r => pc'[s] = pc[s]
  BY DEF LegFails, LegInterrupts, LegDone, Goto, At, TypeOK
<1>2. leg[r] \in Legs /\ Legs \subseteq Nat /\ cp \in Nat /\ fired \in [Legs -> 0..2]
  BY LegFacts DEF TypeOK
<1>3. ASSUME calm
      PROVE  /\ row = (IF r = Starter THEN "running" ELSE "suspended")
             /\ leg[r] = cp /\ FiredUpToCp /\ AtMostOnce /\ (r # Starter => Settled)
             /\ Questions
  BY <1>1, <1>3 DEF Turn, Busy
<1>4. ASSUME calm' PROVE AtMostOnce' /\ Questions' /\ Busy(r)' /\ (pc'[r] = "idle" => Settled')
  <2>1. CASE LegFails(r)
    <3>1. UNCHANGED <<row, node, cp, last, fired>> /\ pc'[r] = (IF r = Starter THEN "err" ELSE "idle")
      BY <2>1 DEF LegFails, AfterFailed, Goto, TypeOK
    <3>2. Questions'
      BY <1>1, <1>3, <1>4, <3>1 DEF Questions, PendingOrFired
    <3>3. QED
      BY <1>1, <1>3, <1>4, <3>1, <3>2, SameTables DEF Busy, Suspending
  <2>2. CASE LegInterrupts(r)
    <3>1. /\ pc'[r] = "interrupted" /\ cp' = cp + 1
          /\ fired' = [fired EXCEPT ![cp] = IF @ = 0 THEN 1 ELSE 2]
      BY <1>1, <1>3, <1>4, <2>2 DEF LegInterrupts, Saved, InterruptOf, Fire, Goto, TypeOK
    <3>2. \A k \in Legs : fired'[k] < 2 /\ (k >= cp' => fired'[k] = 0)
      <4> SUFFICES ASSUME NEW k \in Legs PROVE fired'[k] < 2 /\ (k >= cp' => fired'[k] = 0)
        OBVIOUS
      <4>1. fired[k] \in 0..2 /\ fired[k] < 2 /\ (k >= cp => fired[k] = 0) /\ k \in Nat /\ fired[cp] = 0
        BY <1>1, <1>2, <1>3, <1>4 DEF FiredUpToCp
      <4>2. fired'[k] = IF k = cp THEN 1 ELSE fired[k]
        BY <1>2, <3>1, <4>1
      <4>3. QED
        BY <1>2, <3>1, <4>1, <4>2
    <3>3. FiredUpToCp' /\ AtMostOnce'
      BY <3>2 DEF FiredUpToCp, AtMostOnce
    <3>4. Questions'
      BY <1>1, <1>2, <1>3, <1>4, <3>1, FiresLeg, QuestionsKept, LegFacts
    <3>5. QED
      BY <1>1, <1>3, <1>4, <3>1, <3>3, <3>4 DEF Busy, Suspending
  <2>3. CASE LegDone(r)
    <3>1. pc'[r] = "done" /\ fired' = [fired EXCEPT ![cp] = IF @ = 0 THEN 1 ELSE 2]
      BY <1>1, <1>3, <1>4, <2>3 DEF LegDone, Fire, Goto, TypeOK
    <3>2. AtMostOnce'
      BY <1>1, <1>2, <1>3, <1>4, <3>1 DEF FiredUpToCp, AtMostOnce
    <3>3. cp' = cp /\ fired'[cp] > 0 /\ \A k \in Legs : fired'[k] \in Nat /\ fired'[k] >= fired[k]
      BY <1>1, <1>2, <1>3, <1>4, <2>3, <3>1, FiresLeg DEF LegDone
    <3>4. Questions'
      BY <1>1, <1>3, <1>4, <3>3, QuestionsKept, LegFacts
    <3>5. QED
      BY <1>1, <1>3, <1>4, <3>1, <3>2, <3>3, <3>4 DEF Busy, Suspending
  <2>4. QED
    BY <2>1, <2>2, <2>3
<1>5. QED
  BY <1>1, <1>4, OneMoves

LEMMA RecordTurn ==
  ASSUME TypeOK, Order, Turn, NEW r \in Requests, AppendEvent(r) \/ SuspendRun(r) \/ FinishRun(r)
  PROVE  Turn'
<1>1. /\ pc[r] # "idle" /\ UNCHANGED <<cp, leg, asked, fired>>
      /\ \A s \in Requests : s # r => pc'[s] = pc[s]
  BY DEF AppendEvent, SuspendRun, FinishRun, Goto, At, TypeOK
<1>2. ASSUME calm' PROVE calm /\ ~WriteFails
  BY <1>2 DEF AppendEvent, SuspendRun, FinishRun, Written, WriteFails
<1>3. ASSUME calm' PROVE AtMostOnce' /\ Questions' /\ Busy(r)' /\ (pc'[r] = "idle" => Settled')
  <2>1. Busy(r) /\ AtMostOnce /\ Questions /\ calm /\ ~WriteFails
    BY <1>2, <1>3 DEF Turn
  <2>2. AtMostOnce' /\ (FiredUpToCp' <=> FiredUpToCp)
    BY <1>1, <2>1 DEF AtMostOnce, FiredUpToCp
  <2>3. CASE AppendEvent(r)
    <3>1. /\ pc[r] \in {"started", "interrupted", "announce", "done", "err"}
          /\ last' = EventAt(pc[r]) /\ pc'[r] = StepAfter(pc[r]) /\ UNCHANGED <<row, node>>
          /\ Questions'
      BY <1>1, <2>1, <2>3 DEF AppendEvent, Goto, TypeOK, Questions, PendingOrFired
    <3>2. CASE pc[r] = "started"
      BY <1>1, <2>1, <2>2, <3>1, <3>2 DEF EventAt, StepAfter, Busy, Untouched, Suspending, Order
    <3>3. CASE pc[r] \in {"interrupted", "announce"}
      BY <1>1, <2>1, <2>2, <3>1, <3>3 DEF EventAt, StepAfter, Busy, Suspending
    <3>4. CASE pc[r] \in {"done", "err"}
      BY <1>1, <2>1, <2>2, <3>1, <3>4 DEF EventAt, StepAfter, Busy, Suspending
    <3>5. QED
      BY <3>1, <3>2, <3>3, <3>4
  <2>4. CASE SuspendRun(r)
    <3>1. /\ pc[r] = "mark" /\ pc'[r] = "idle" /\ last' = last
          /\ row \in {"running", "suspended"} /\ cp = leg[r] + 1 /\ FiredUpToCp
          /\ last = "flow_suspended"
      BY <2>1, <2>4 DEF SuspendRun, Goto, At, TypeOK, Busy, Suspending
    <3>2. row' = "suspended" /\ node' = cp
      BY <2>1, <2>4, <3>1 DEF SuspendRun, Unfinished, InterruptOf
    <3>3. Settled'
      BY <1>1, <2>2, <3>1, <3>2 DEF Settled
    <3>4. Questions'
      BY <1>1, <2>1, <3>2 DEF Questions, PendingOrFired
    <3>5. QED
      BY <2>2, <3>1, <3>3, <3>4 DEF Busy, Suspending
  <2>5. CASE FinishRun(r)
    <3>1. /\ pc[r] \in {"finish", "fail"} /\ UNCHANGED <<node, last>>
          /\ pc'[r] = (IF r = Starter THEN "idle" ELSE "delete")
          /\ row \in {"running", "suspended"}
      BY <2>1, <2>5 DEF FinishRun, Goto, TypeOK, Busy
    <3>2. row' = StatusOf(pc[r])
      BY <2>1, <2>5, <3>1 DEF FinishRun, Unfinished
    <3>3. /\ row' = "done" => last' = "flow_done"
          /\ row' = "failed" => last' = "flow_err"
          /\ row' \in {"done", "failed"} /\ (r # Starter => row' = "done")
      BY <2>1, <3>1, <3>2 DEF StatusOf, Busy, Order
    <3>4. Questions'
      BY <1>1, <2>1, <3>1 DEF Questions, PendingOrFired
    <3>5. r # Starter => fired[cp] > 0
      BY <2>1, <3>1, <3>2, <3>3 DEF Busy, StatusOf
    <3>6. QED
      BY <1>1, <2>2, <3>1, <3>3, <3>4, <3>5 DEF Busy, Settled, Suspending
  <2>6. QED
    BY <2>3, <2>4, <2>5
<1>4. QED
  BY <1>1, <1>2, <1>3, OneMoves

LEMMA ResumerTurn ==
  ASSUME TypeOK, Order, Turn, NEW r \in Resumers, ResumerStep(r)
  PROVE  Turn'
<1> r \in Requests /\ r # Starter
  BY ResumeAssumption DEF Requests
<1>1. CASE Post(r)
  <2> SUFFICES ASSUME calm' PROVE /\ \A s, t \in Requests : pc'[s] # "idle" /\ pc'[t] # "idle" => s = t
                                  /\ AtMostOnce' /\ Questions' /\ (Resting' => Settled')
                                  /\ \A s \in Requests : Busy(s)'
    BY DEF Turn
  <2>1. calm /\ Resting /\ UNCHANGED <<row, node, cp, last, asked, fired>>
    BY <1>1 DEF Post
  <2>2. Settled /\ AtMostOnce /\ Questions
    BY <2>1 DEF Turn
  <2>3. Settled' /\ AtMostOnce'
    BY <2>1, <2>2, SameTables
  <2>4. pc'[r] = "admit" /\ Questions'
    BY <1>1, <2>1, <2>2 DEF Post, Goto, TypeOK, Questions, PendingOrFired
  <2>5. \A s \in Requests : s # r => pc'[s] = "idle"
    BY <1>1, <2>1 DEF Post, Goto, TypeOK, Resting, At
  <2>6. QED
    BY <2>3, <2>4, <2>5 DEF Busy, Suspending, Resting, At
<1>2. CASE ReadQuestion(r)
  <2>1. /\ UNCHANGED <<row, node, cp, last, pc, leg, fired, calm>>
        /\ \A s \in Requests : asked'[s] = asked[s] \/ asked'[s] = node
    BY <1>2 DEF ReadQuestion, TypeOK
  <2>2. Questions => Questions'
    BY <2>1 DEF Questions, PendingOrFired
  <2>3. \A s \in Requests : Busy(s) => Busy(s)'
    BY <2>1, SameTables DEF Busy, Untouched, Suspending
  <2>4. QED
    BY <2>1, <2>2, <2>3, SameTables DEF Turn, Resting, At
<1>3. CASE Admit(r) \/ Load(r) \/ DeleteCheckpoint(r)
  <2>1. /\ pc[r] # "idle" /\ UNCHANGED <<row, node, last, asked, fired>>
        /\ \A s \in Requests : s # r => pc'[s] = pc[s]
    BY <1>3 DEF Admit, Load, DeleteCheckpoint, Goto, At, TypeOK
  <2>2. ASSUME calm' PROVE calm /\ ~WriteFails
    BY <1>3, <2>2 DEF Admit, Load, DeleteCheckpoint, Written, WriteFails
  <2>3. ASSUME calm' PROVE AtMostOnce' /\ Questions' /\ Busy(r)' /\ (pc'[r] = "idle" => Settled')
    <3>1. Busy(r) /\ Questions /\ AtMostOnce /\ AtMostOnce'
      BY <2>1, <2>2, <2>3 DEF Turn, AtMostOnce
    <3>2. cp' = cp => Questions'
      BY <2>1, <3>1 DEF Questions, PendingOrFired
    <3>3. CASE Admit(r)
      <4>1. cp' = cp /\ pc'[r] = (IF row = "suspended" THEN "load" ELSE "idle") /\ pc[r] = "admit"
        BY <3>3 DEF Admit, Goto, At, TypeOK
      <4>2. QED
        BY <2>1, <3>1, <3>2, <4>1, SameTables DEF Busy, Suspending
    <3>4. CASE Load(r)
      <4>1. /\ cp' = cp /\ pc[r] = "load"
            /\ pc'[r] = "idle" \/ (pc'[r] = "leg" /\ leg'[r] = cp)
        BY <3>4 DEF Load, Goto, At, TypeOK
      <4>2. Settled /\ row = "suspended" /\ FiredUpToCp
        BY <3>1, <4>1 DEF Busy, Settled
      <4>3. QED
        BY <2>1, <3>1, <3>2, <4>1, <4>2, SameTables DEF Busy, Suspending
    <3>5. CASE DeleteCheckpoint(r)
      <4>1. /\ pc[r] = "delete" /\ pc'[r] = "idle" /\ row = "done" /\ last = "flow_done"
            /\ fired[cp] > 0
        BY <3>1, <3>5 DEF DeleteCheckpoint, Goto, At, TypeOK, Busy
      <4>2. \A k \in Legs : fired'[k] \in Nat /\ fired'[k] >= fired[k]
        BY <2>1 DEF TypeOK
      <4>3. Questions'
        BY <2>1, <3>1, <4>1, <4>2, QuestionsKept, LegFacts
      <4>4. QED
        BY <2>1, <3>1, <4>1, <4>3 DEF Busy, Settled, Suspending
    <3>6. QED
      BY <1>3, <3>3, <3>4, <3>5
  <2>4. QED
    BY <2>1, <2>2, <2>3, OneMoves
<1>4. QED
  BY <1>1, <1>2, <1>3 DEF ResumerStep

LEMMA TurnStep == ASSUME TypeOK, Order, Turn, [Next]_vars PROVE Turn'
<1>1. CASE StartRun
  <2>1. Resting /\ UNCHANGED <<node, cp, fired, leg>> /\ calm' = calm /\ row = "none" /\ row' = "running"
    BY <1>1 DEF StartRun, Order
  <2>2. pc'[Starter] = "started" /\ \A s \in Requests : s # Starter => pc'[s] = "idle"
    BY <1>1, <2>1 DEF StartRun, Goto, TypeOK, Resting, At, Requests
  <2>3. ASSUME calm' PROVE Settled /\ AtMostOnce /\ AtMostOnce' /\ Untouched' /\ Questions'
    BY <1>1, <2>1, <2>3 DEF StartRun, Turn, Settled, Untouched, AtMostOnce, FiredUpToCp, Questions,
       PendingOrFired
  <2>4. ASSUME calm' PROVE Busy(Starter)'
    BY <2>1, <2>2, <2>3, <2>4 DEF Busy, Suspending, Order
  <2>5. ASSUME calm' PROVE \A s \in Requests : Busy(s)'
    BY <2>2, <2>4, <2>5 DEF Busy, Suspending
  <2>6. ~Resting'
    BY <2>2 DEF Resting, At, Requests
  <2>7. QED
    BY <2>2, <2>3, <2>5, <2>6 DEF Turn
<1>2. CASE Crash
  BY <1>2 DEF Crash, Turn
<1>3. CASE UNCHANGED vars
  <2>1. /\ UNCHANGED <<pc, leg, asked, calm, row, node, cp, last, fired>>
        /\ (Settled' <=> Settled) /\ (FiredUpToCp' <=> FiredUpToCp) /\ (AtMostOnce' <=> AtMostOnce)
        /\ (Questions' <=> Questions)
    BY <1>3, SameTables DEF vars, Questions, PendingOrFired
  <2>2. \A s \in Requests : Busy(s) => Busy(s)'
    BY <2>1 DEF Busy, Untouched
  <2>3. QED
    BY <2>1, <2>2 DEF Turn, Resting, At
<1>4. QED
  BY <1>1, <1>2, <1>3, LegTurn, RecordTurn, ResumerTurn DEF Next, HandlerStep

LEMMA ResumeInvariant == Spec => []ResumeInv
<1>1. ResumeInv /\ [Next]_vars => ResumeInv'
  BY TypeStep, OrderStep, TurnStep DEF ResumeInv
<1>2. QED
  BY <1>1, InitResume, PTL DEF Spec

(***************************************************************************)
(* What follows.                                                           *)
(***************************************************************************)
(* The tables and the requests of a resumable run stay well typed.         *)
THEOREM ResumeTyped == Spec => []TypeOK
<1>1. ResumeInv => TypeOK
  BY DEF ResumeInv
<1>2. QED
  BY <1>1, ResumeInvariant, PTL

(* The status guard of handleResumeRun suffices for clients that take       *)
(* turns: no leg of the run is completed twice, over any number of clients  *)
(* and of interrupts.                                                      *)
THEOREM LegsFireOnceInTurn == Spec => []OnceInTurn
<1>1. ResumeInv => OnceInTurn
  BY DEF ResumeInv, Turn, OnceInTurn
<1>2. QED
  BY <1>1, ResumeInvariant, PTL

(* Between clients that take turns, an answer reaches another question than *)
(* its own only when its own has been answered already: the token names     *)
(* only the run, so a late or repeated answer does go astray, and no other. *)
THEOREM AnswersMissOnlyLate == Spec => []OnlyLateAnswersMiss
<1>1. ResumeInv => OnlyLateAnswersMiss
  <2> SUFFICES ASSUME ResumeInv, calm, NEW r \in Resumers, At(r, "leg")
               PROVE  asked[r] \in {0, leg[r]} \/ fired[asked[r]] > 0
    BY DEF OnlyLateAnswersMiss
  <2>1. r \in Requests /\ leg[r] = cp
    BY DEF Requests, ResumeInv, Turn, Busy, At
  <2>2. PendingOrFired(asked[r])
    BY <2>1 DEF ResumeInv, Turn, Questions
  <2>3. QED
    BY <2>1, <2>2 DEF PendingOrFired
<1>2. QED
  BY <1>1, ResumeInvariant, PTL

(* Between requests that take turns, the newest run event and the run's row *)
(* tell the same story.                                                    *)
THEOREM TrailAgrees == Spec => []TrailMatchesRow
<1>1. ResumeInv => TrailMatchesRow
  BY DEF ResumeInv, TypeOK, Turn, Settled, TrailMatchesRow
<1>2. QED
  BY <1>1, ResumeInvariant, PTL

(* A suspended run has its checkpoint, in every behaviour but one where a   *)
(* FinishRun was lost: crashes and overlapping resumes never strand a run,  *)
(* because the checkpoint is saved before SuspendRun and deleted after      *)
(* FinishRun.                                                              *)
THEOREM NeverStranded == Spec => []StrandedOnlyByLostFinish
<1>1. ResumeInv => StrandedOnlyByLostFinish
  BY DEF ResumeInv, Order, StrandedOnlyByLostFinish
<1>2. QED
  BY <1>1, ResumeInvariant, PTL

(* A row that says done or failed is never written again.                  *)
THEOREM FinishedStays == Spec => TerminalStays
<1>1. [Next]_vars => [Finished => row' = row]_vars
  BY DEF Next, vars, StartRun, Crash, HandlerStep, LegFails, LegInterrupts, LegDone, AppendEvent,
     SuspendRun, FinishRun, ResumerStep, ReadQuestion, Post, Admit, Load, DeleteCheckpoint, Finished,
     Unfinished
<1>2. QED
  BY <1>1, PTL DEF Spec, TerminalStays
=============================================================================
