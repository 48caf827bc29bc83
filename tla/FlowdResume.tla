---------------------------- MODULE FlowdResume ----------------------------
(***************************************************************************)
(* A resumable (human-in-the-loop) run in flowd: POST /flows/{id}/run with  *)
(* resumable set (runResumableV2) and the POST /runs/{id}/resume requests   *)
(* that follow (handleResumeRun), over the runs table and the checkpoints   *)
(* table of one database.  FlowEngine says what a leg computes; here leg k  *)
(* is what runs once the k-th interrupt is answered (0: the first leg), and *)
(* every store access is a step that other requests and a crash may         *)
(* precede.                                                                *)
(***************************************************************************)
EXTENDS Naturals, FiniteSets

CONSTANTS
  Starter,        \* the request that starts the run
  Resumers,       \* clients that resume it, each again and again
  MaxInterrupts,  \* bound: interrupts along one run
  Concurrent,     \* a client may send while another request is served
  MayCrash,       \* the process may die and be restarted
  StoreMayFail    \* a store write may fail, and is then only logged

ASSUME ResumeAssumption ==
  /\ MaxInterrupts \in Nat /\ Starter \notin Resumers
  /\ {Concurrent, MayCrash, StoreMayFail} \subseteq BOOLEAN

VARIABLES
  row,      \* runs.status; "none" before StartRun
  node,     \* runs.interrupt_node: which interrupt; 0 = none
  cp,       \* the checkpoint saved for the run: at which interrupt; 0 = none
  last,     \* kind of the newest run event
  pc,       \* where each request is
  leg,      \* the leg a request runs
  asked,    \* the interrupt whose question the client was last shown; 0 = none
  fired,    \* fired[k]: times leg k has completed, 2 = more than once; history
  lost,     \* a FinishRun has failed; history only
  calm      \* no overlapping request, crash or failed write so far; history only

vars == <<row, node, cp, last, pc, leg, asked, fired, lost, calm>>

Requests == {Starter} \cup Resumers
Legs == 0..MaxInterrupts
At(r, p) == pc[r] = p
Goto(r, p) == pc' = [pc EXCEPT ![r] = p]
Resting == \A r \in Requests : At(r, "idle")

Init ==
  /\ row = "none" /\ node = 0 /\ cp = 0 /\ last = "none"
  /\ pc = [r \in Requests |-> "idle"]
  /\ leg = [r \in Requests |-> 0] /\ asked = [r \in Requests |-> 0]
  /\ fired = [k \in Legs |-> 0] /\ lost = FALSE /\ calm = TRUE

(***************************************************************************)
(* Requests up to the engine call.                                         *)
(***************************************************************************)
StartRun ==
  /\ At(Starter, "idle") /\ row = "none"
  /\ row' = "running" /\ Goto(Starter, "started")
  /\ UNCHANGED <<node, cp, last, leg, asked, fired, lost, calm>>

(* The client reads the suspended run and is shown the pending question.    *)
ReadQuestion(r) ==
  /\ At(r, "idle") /\ row = "suspended"
  /\ asked' = [asked EXCEPT ![r] = node]
  /\ UNCHANGED <<row, node, cp, last, pc, leg, fired, lost, calm>>

(* It posts an answer, whenever it likes and as often as it likes: late, or *)
(* again when the response to an earlier one was lost.  The request names   *)
(* the run, never the question.                                            *)
Post(r) ==
  /\ At(r, "idle") /\ row # "none"
  /\ Concurrent \/ Resting
  /\ calm' = (calm /\ Resting)
  /\ Goto(r, "admit")
  /\ UNCHANGED <<row, node, cp, last, leg, asked, fired, lost>>

(* GetRun and the status guard; 409 otherwise.                             *)
Admit(r) ==
  /\ At(r, "admit")
  /\ Goto(r, IF row = "suspended" THEN "load" ELSE "idle")
  /\ UNCHANGED <<row, node, cp, last, leg, asked, fired, lost, calm>>

(* engineForV2, then Resume's LoadCheckpoint under the token, which is the  *)
(* run id.  Either may fail, and the engine's own guards may refuse.       *)
Load(r) ==
  /\ At(r, "load")
  /\ \/ cp # 0 /\ leg' = [leg EXCEPT ![r] = cp] /\ Goto(r, "leg")
     \/ UNCHANGED leg /\ Goto(r, "idle")
  /\ UNCHANGED <<row, node, cp, last, asked, fired, lost, calm>>

(***************************************************************************)
(* The engine call: RunResumable or Resume.                                *)
(***************************************************************************)
(* Fault: a resume consumes the checkpoint even when its leg fails.        *)
AfterFailedConsume(r) == IF r = Starter THEN "err" ELSE "delete"
AfterFailed(r) == IF r = Starter THEN "err" ELSE "idle"

(* A failed resume changes nothing: the run stays suspended.               *)
LegFails(r) ==
  /\ At(r, "leg") /\ Goto(r, AfterFailed(r))
  /\ UNCHANGED <<row, node, cp, last, leg, asked, fired, lost, calm>>

Fire(k) == fired' = [fired EXCEPT ![k] = IF @ = 0 THEN 1 ELSE 2]

(* The interrupt at which leg k suspends.                                  *)
InterruptOf(k) == k + 1

(* Fault: INSERT OR IGNORE where the store does INSERT OR REPLACE.         *)
SavedFirst(k) == IF cp = 0 THEN InterruptOf(k) ELSE cp
Saved(k) == InterruptOf(k)

(* The leg reaches the next interrupt and SaveCheckpoint succeeds.         *)
LegInterrupts(r) ==
  /\ At(r, "leg") /\ leg[r] < MaxInterrupts
  /\ cp' = Saved(leg[r]) /\ Fire(leg[r]) /\ Goto(r, "interrupted")
  /\ UNCHANGED <<row, node, last, leg, asked, lost, calm>>

LegDone(r) ==
  /\ At(r, "leg")
  /\ Fire(leg[r]) /\ Goto(r, "done")
  /\ UNCHANGED <<row, node, cp, last, leg, asked, lost, calm>>

(***************************************************************************)
(* What the handlers record, each write a step, each failure only logged.  *)
(***************************************************************************)
Written == UNCHANGED calm
WriteFails == StoreMayFail /\ calm' = FALSE

(* appendV2Event: kind of the event appended at p, and the next step.      *)
EventAt(p) ==
  CASE p = "started" -> "flow_started"
    [] p = "interrupted" -> "node_interrupted"
    [] p = "announce" -> "flow_suspended"
    [] p = "done" -> "flow_done"
    [] p = "err" -> "flow_err"
StepAfter(p) ==
  CASE p = "started" -> "leg"
    [] p = "interrupted" -> "announce"
    [] p = "announce" -> "mark"
    [] p = "done" -> "finish"
    [] p = "err" -> "fail"

AppendEvent(r) ==
  /\ pc[r] \in {"started", "interrupted", "announce", "done", "err"}
  /\ \/ Written /\ last' = EventAt(pc[r])
     \/ WriteFails /\ UNCHANGED last
  /\ Goto(r, StepAfter(pc[r]))
  /\ UNCHANGED <<row, node, cp, leg, asked, fired, lost>>

(* Fault: the updates without their status condition.                      *)
AnyRow == TRUE
(* WHERE status IN ('running', 'suspended'), of SuspendRun and FinishRun.  *)
Unfinished == row \in {"running", "suspended"}

(* SuspendRun; a finished row is left alone.                               *)
SuspendRun(r) ==
  /\ At(r, "mark")
  /\ \/ Written /\ Unfinished /\ row' = "suspended" /\ node' = InterruptOf(leg[r])
     \/ (WriteFails \/ (Written /\ ~Unfinished)) /\ UNCHANGED <<row, node>>
  /\ Goto(r, "idle")
  /\ UNCHANGED <<cp, last, leg, asked, fired, lost>>

(* Fault: the error message is not looked at.                              *)
AlwaysDone(p) == "done"
StatusOf(p) == IF p = "finish" THEN "done" ELSE "failed"

FinishRun(r) ==
  /\ pc[r] \in {"finish", "fail"}
  /\ \/ Written /\ Unfinished /\ row' = StatusOf(pc[r]) /\ UNCHANGED lost
     \/ Written /\ ~Unfinished /\ UNCHANGED <<row, lost>>
     \/ WriteFails /\ lost' = TRUE /\ UNCHANGED row
  /\ Goto(r, IF r = Starter THEN "idle" ELSE "delete")
  /\ UNCHANGED <<node, cp, last, leg, asked, fired>>

DeleteCheckpoint(r) ==
  /\ At(r, "delete")
  /\ \/ Written /\ cp' = 0
     \/ WriteFails /\ UNCHANGED cp
  /\ Goto(r, "idle")
  /\ UNCHANGED <<row, node, last, leg, asked, fired, lost>>

(* Every request dies with the process; the tables stay.                   *)
Crash ==
  /\ MayCrash /\ ~Resting
  /\ pc' = [r \in Requests |-> "idle"] /\ calm' = FALSE
  /\ UNCHANGED <<row, node, cp, last, leg, asked, fired, lost>>

HandlerStep(r) ==
  \/ LegFails(r) \/ LegInterrupts(r) \/ LegDone(r)
  \/ AppendEvent(r) \/ SuspendRun(r) \/ FinishRun(r)

ResumerStep(r) ==
  ReadQuestion(r) \/ Post(r) \/ Admit(r) \/ Load(r) \/ DeleteCheckpoint(r)

Next ==
  \/ StartRun \/ Crash
  \/ \E r \in Requests : HandlerStep(r)
  \/ \E r \in Resumers : ResumerStep(r)

Spec == Init /\ [][Next]_vars

(***************************************************************************)
(* Properties.                                                             *)
(***************************************************************************)
Finished == row \in {"done", "failed"}

(* The tables and the requests stay in their states, and a row says         *)
(* suspended only together with an interrupt node.                         *)
TypeOK ==
  /\ row \in {"none", "running", "suspended", "done", "failed"}
  /\ node \in Legs /\ cp \in Legs /\ (row = "suspended" => node # 0)
  /\ last \in {"none", "flow_started", "node_interrupted", "flow_suspended",
               "flow_done", "flow_err"}
  /\ pc \in [Requests -> {"idle", "started", "admit", "load", "leg", "interrupted",
                          "announce", "mark", "done", "finish", "err", "fail", "delete"}]
  /\ leg \in [Requests -> Legs] /\ asked \in [Requests -> Legs]
  /\ fired \in [Legs -> 0..2] /\ lost \in BOOLEAN /\ calm \in BOOLEAN

(* "without this guard a second resume would re-run the post-interrupt      *)
(* nodes (side-effect double-fire)" (handleResumeRun): no leg of a run      *)
(* completes twice.                                                        *)
AtMostOnce == \A k \in Legs : fired[k] < 2

(* The status guard keeps that promise to clients that take turns, as long  *)
(* as the process and the store do not fail, over any number of interrupts. *)
OnceInTurn == calm => AtMostOnce

(* Even between clients that take turns an answer may reach another         *)
(* question than the one it was given to: a retry after a lost response     *)
(* answers the next interrupt.  It is only ever a late answer that does: as *)
(* long as its own question is unanswered, it cannot be spent on another,   *)
(* which takes the row and the checkpoint moving together.                 *)
OnlyLateAnswersMiss ==
  calm => \A r \in Resumers : At(r, "leg") =>
            asked[r] \in {0, leg[r]} \/ fired[asked[r]] > 0

(* Between requests of such clients the newest event of the trail and the   *)
(* status of the row tell the same story: /replay and GET /runs/{id} agree. *)
TrailMatchesRow ==
  calm /\ Resting => CASE row = "none" -> last = "none"
                       [] row = "suspended" -> last = "flow_suspended"
                       [] row = "done" -> last = "flow_done"
                       [] row = "failed" -> last = "flow_err"
                       [] OTHER -> FALSE

(* A run shown as suspended can be resumed: its checkpoint is there, across *)
(* concurrent resumes and crashes, unless the FinishRun that should have    *)
(* ended it failed before the checkpoint was deleted.                      *)
StrandedOnlyByLostFinish == row = "suspended" /\ cp = 0 => lost

(* A finished run stays as it is, whatever a late or concurrent resume,     *)
(* suspension or failure still writes.                                     *)
TerminalStays == [][Finished => row' = row]_vars
=============================================================================
