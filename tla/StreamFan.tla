----------------------------- MODULE StreamFan -----------------------------
(***************************************************************************)
(* The stream combinators of v2/flow/graph/combinators.go on one network: a *)
(* source teed by Copy, some of its readers consumed directly, the others   *)
(* (and some sources of their own) interleaved by Merge or roundRobinMerge. *)
(*                                                                         *)
(* Goroutines: the broadcaster, a puller per merged source, one consumer    *)
(* per direct reader, the consumer of the merge, and the drains that Close  *)
(* starts.  A reader's Next holds its mutex while it waits, so a Close from *)
(* wherever it comes takes place between two Nexts.                        *)
(***************************************************************************)
EXTENDS Naturals, Sequences, FiniteSets, FiniteSetsExt

CONSTANTS
  Direct,    \* readers of the Copy that a consumer reads
  Sources,   \* sources of the merge
  Wirings,   \* which of them may be readers of the Copy too
  BufSize,   \* copyBufSize and mergeBufSize (both 1 in the code)
  MaxLen     \* bound: frames of a source

(* Readers and sources are numbered: Copy serves its readers, and Merge     *)
(* takes its arguments, in that order.  0 is the source of the Copy.       *)
Src == 0

ASSUME FanAssumption ==
  /\ Direct \cup Sources \subseteq Nat \ {0} /\ IsFiniteSet(Direct \cup Sources)
  /\ Direct \cap Sources = {} /\ Direct # {} /\ Sources # {}
  /\ Wirings \subseteq SUBSET Sources
  /\ BufSize \in Nat \ {0} /\ MaxLen \in Nat

VARIABLES
  teed,        \* the sources of the merge that are readers of the Copy
  len, end,    \* what a source yields: frames 1..len[x], then the error end[x]
  ordered,     \* roundRobinMerge rather than Merge
  bpc,         \* the broadcaster
  pulled,      \* calls of src.Next
  sending,     \* readers the frame in hand has still to be sent to
  buf,         \* buf[i]: channel of reader i
  closed,      \* readers that were closed
  remaining,   \* copyShared.remaining
  canceled,    \* the Copy's context
  fin,         \* fin[i]: terminal error reader i surfaced ("none": r.done is false)
  got,         \* got[i]: values reader i returned
  ppc, hand,   \* pullers: where they are, the frame they hold
  pos,         \* pos[s]: frames a solo source has yielded
  mbuf,        \* channels of the merge, by source; Merge's one channel is at 0
  mclosed,     \* the merge reader was closed, its context cancelled
  cur, exhausted,  \* cursor of the round robin, sources it has given up
  mout, mend   \* what the merge reader returned: [src, v], and its first error

copyVars == <<bpc, pulled, sending, buf, closed, remaining, canceled, fin, got>>
pullVars == <<ppc, hand, pos>>
readVars == <<mclosed, cur, exhausted, mout, mend>>
shape == <<teed, len, end, ordered>>
vars == <<shape, copyVars, pullVars, mbuf, readVars>>

Readers == Direct \cup teed
Solo == Sources \ teed

Errors == {"EOF", "failure"}
Value(k) == [v |-> k, err |-> "none"]
Failed(e) == [v |-> 0, err |-> e]
Nothing == Failed("none")
Frames == {Value(k) : k \in 1..MaxLen} \cup {Failed(e) : e \in Errors}
(* What the k-th Next of source x returns.                                 *)
FrameOf(x, k) == IF k <= len[x] THEN Value(k) ELSE Failed(end[x])

MergeChan(s) == IF ordered THEN s ELSE 0
MergeChans == Sources \cup {0}

Init ==
  /\ teed \in Wirings
  /\ len \in [Solo \cup {Src} -> 0..MaxLen] /\ end \in [Solo \cup {Src} -> Errors]
  /\ ordered \in BOOLEAN
  /\ bpc = "pull" /\ pulled = 0 /\ sending = {}
  /\ buf = [i \in Readers |-> << >>] /\ closed = {}
  /\ remaining = Cardinality(Readers) /\ canceled = FALSE
  /\ fin = [i \in Readers |-> "none"] /\ got = [i \in Readers |-> << >>]
  /\ ppc = [s \in Sources |-> "next"] /\ hand = [s \in Sources |-> Nothing]
  /\ pos = [s \in Solo |-> 0]
  /\ mbuf = [c \in MergeChans |-> << >>]
  /\ mclosed = FALSE /\ cur = Min(Sources) /\ exhausted = {}
  /\ mout = << >> /\ mend = "none"

(***************************************************************************)
(* broadcastCopy.                                                          *)
(***************************************************************************)
(* Fault: a send does not wait for a slow reader.                          *)
RoomForOneMore(ch) == Len(ch) <= BufSize
HasRoom(ch) == Len(ch) < BufSize

readerFrame == <<shape, closed, remaining, canceled, fin, got, pullVars, mbuf, readVars>>

Pull ==
  /\ bpc = "pull"
  /\ pulled' = pulled + 1 /\ sending' = Readers /\ bpc' = "send"
  /\ UNCHANGED <<buf, readerFrame>>

(* A terminal frame delivered to all ends the loop.                        *)
AfterFrame == IF FrameOf(Src, pulled).err = "none" THEN "pull" ELSE "release"

(* select: the send or, once every reader is closed, the return.           *)
Send ==
  /\ bpc = "send"
  /\ LET i == Min(sending) IN
     \/ /\ HasRoom(buf[i])
        /\ buf' = [buf EXCEPT ![i] = Append(@, FrameOf(Src, pulled))]
        /\ sending' = sending \ {i}
        /\ bpc' = IF sending' # {} THEN "send" ELSE AfterFrame
     \/ canceled /\ bpc' = "release" /\ sending' = {} /\ UNCHANGED buf
  /\ UNCHANGED <<pulled, readerFrame>>

(* The deferred src.Close, then the deferred close of every channel.       *)
ReleaseSource ==
  /\ bpc = "release" /\ bpc' = "exited"
  /\ UNCHANGED <<pulled, sending, buf, readerFrame>>

(***************************************************************************)
(* copyReader.                                                             *)
(***************************************************************************)
broadcasterFrame == <<shape, bpc, pulled, sending>>

(* Next of reader i returns f.  A closed channel reads as a clean end.      *)
CopyNext(i, f) ==
  /\ i \notin closed /\ fin[i] = "none"
  /\ \/ buf[i] # << >> /\ f = Head(buf[i]) /\ buf' = [buf EXCEPT ![i] = Tail(@)]
     \/ buf[i] = << >> /\ bpc = "exited" /\ f = Failed("EOF") /\ UNCHANGED buf
  /\ fin' = [fin EXCEPT ![i] = f.err]
  /\ got' = IF f.err = "none" THEN [got EXCEPT ![i] = Append(@, f.v)] ELSE got
  /\ UNCHANGED <<broadcasterFrame, closed, remaining, canceled>>

(* Fault: the first Close stops the broadcaster.                           *)
AnyGone(left) == left < Cardinality(Readers)
AllGone(left) == left = 0

(* Close: consumerClosed, and from here on a drain of the channel.         *)
CopyClose(i) ==
  /\ closed' = closed \cup {i}
  /\ remaining' = IF i \in closed THEN remaining ELSE remaining - 1
  /\ canceled' = (canceled \/ AllGone(remaining'))
  /\ UNCHANGED <<broadcasterFrame, buf, fin, got>>

(* Fault: Close starts no drain.                                           *)
NoDrain(i) == FALSE
Draining(i) == i \in closed

Drain(i) ==
  /\ Draining(i) /\ buf[i] # << >>
  /\ buf' = [buf EXCEPT ![i] = Tail(@)]
  /\ UNCHANGED <<broadcasterFrame, closed, remaining, canceled, fin, got, pullVars, mbuf, readVars>>

(* The consumer of a direct reader: Next until an error, Close at any time. *)
ReadDirect(i) ==
  /\ \E f \in Frames : CopyNext(i, f)
  /\ UNCHANGED <<pullVars, mbuf, readVars>>

CloseDirect(i) ==
  /\ i \notin closed /\ CopyClose(i)
  /\ UNCHANGED <<pullVars, mbuf, readVars>>

(***************************************************************************)
(* pullMerge and pullRoundRobin: the same loop into another channel.       *)
(***************************************************************************)
(* Next of source s returns f.                                             *)
SourceNext(s, f) ==
  \/ s \in teed /\ CopyNext(s, f) /\ UNCHANGED pos
  \/ /\ s \in Solo /\ f = FrameOf(s, pos[s] + 1)
     /\ pos' = [pos EXCEPT ![s] = @ + 1]
     /\ UNCHANGED <<shape, copyVars>>

PullNext(s) ==
  /\ ppc[s] = "next"
  /\ \E f \in Frames :
       /\ SourceNext(s, f)
       /\ \/ f.err = "EOF" /\ ppc' = [ppc EXCEPT ![s] = "exit"] /\ UNCHANGED hand
          \/ /\ f.err # "EOF" /\ ppc' = [ppc EXCEPT ![s] = "send"]
             /\ hand' = [hand EXCEPT ![s] = f]
  /\ UNCHANGED <<mbuf, readVars>>

PullSend(s) ==
  /\ ppc[s] = "send"
  /\ \/ /\ HasRoom(mbuf[MergeChan(s)])
        /\ mbuf' = [mbuf EXCEPT ![MergeChan(s)] = Append(@, [src |-> s, frame |-> hand[s]])]
        /\ ppc' = [ppc EXCEPT ![s] = IF hand[s].err = "none" THEN "next" ELSE "exit"]
     \/ mclosed /\ ppc' = [ppc EXCEPT ![s] = "exit"] /\ UNCHANGED mbuf
  /\ hand' = [hand EXCEPT ![s] = Nothing]
  /\ UNCHANGED <<shape, copyVars, pos, readVars>>

(* The deferred src.Close and the end of the goroutine.                    *)
PullExit(s) ==
  /\ ppc[s] = "exit" /\ ppc' = [ppc EXCEPT ![s] = "exited"]
  /\ \/ s \in teed /\ CopyClose(s)
     \/ s \in Solo /\ UNCHANGED <<shape, copyVars>>
  /\ UNCHANGED <<hand, pos, mbuf, readVars>>

(***************************************************************************)
(* mergeReader and roundRobinReader.                                       *)
(***************************************************************************)
(* Fault: the first puller to end closes the shared channel.               *)
AnyFeederGone(c) == \E s \in Sources : MergeChan(s) = c /\ ppc[s] = "exited"
(* A channel is closed once nobody sends to it any more: by its puller, or  *)
(* by Merge's closer after wg.Wait.                                        *)
ChanClosed(c) == \A s \in Sources : MergeChan(s) = c => ppc[s] = "exited"

(* Fault: the cursor stays on the source that was served.                  *)
CursorKept(s) == s
CursorAfter(s) == s + 1

(* The channel Next waits on: of the first source not exhausted, from the   *)
(* cursor on and round; or the shared one.                                 *)
Unexhausted == Sources \ exhausted
Picked ==
  IF ~ordered THEN 0
  ELSE IF \E s \in Unexhausted : s >= cur THEN Min({s \in Unexhausted : s >= cur})
  ELSE Min(Unexhausted)

mergeFrame == <<shape, copyVars, pullVars, mclosed>>

Take(c) ==
  LET item == Head(mbuf[c]) IN
  /\ mbuf[c] # << >>
  /\ mbuf' = [mbuf EXCEPT ![c] = Tail(@)]
  /\ cur' = IF ordered THEN CursorAfter(c) ELSE cur
  /\ \/ item.frame.err = "none"
        /\ mout' = Append(mout, [src |-> item.src, v |-> item.frame.v]) /\ UNCHANGED mend
     \/ item.frame.err # "none" /\ mend' = item.frame.err /\ UNCHANGED mout
  /\ UNCHANGED exhausted

(* The picked source is done: the round robin goes on without it.          *)
Skip(c) ==
  /\ ordered /\ mbuf[c] = << >> /\ ChanClosed(c)
  /\ exhausted' = exhausted \cup {c} /\ cur' = c
  /\ UNCHANGED <<mbuf, mout, mend>>

CleanEnd ==
  /\ mend' = "EOF"
  /\ UNCHANGED <<mbuf, cur, exhausted, mout>>

(* The consumer reads until the first error.                               *)
MergeNext ==
  /\ ~mclosed /\ mend = "none"
  /\ \/ ordered /\ Unexhausted = {} /\ CleanEnd
     \/ ~ordered /\ mbuf[0] = << >> /\ ChanClosed(0) /\ CleanEnd
     \/ (ordered => Unexhausted # {}) /\ (Take(Picked) \/ Skip(Picked))
  /\ UNCHANGED mergeFrame

MergeClose ==
  /\ ~mclosed /\ mclosed' = TRUE
  /\ UNCHANGED <<shape, copyVars, pullVars, mbuf, cur, exhausted, mout, mend>>

MergeDrain(c) ==
  /\ mclosed /\ mbuf[c] # << >>
  /\ mbuf' = [mbuf EXCEPT ![c] = Tail(@)]
  /\ UNCHANGED <<shape, copyVars, pullVars, readVars>>

Broadcaster == Pull \/ Send \/ ReleaseSource
Puller(s) == PullNext(s) \/ PullSend(s) \/ PullExit(s)
Consumer(i) == ReadDirect(i) \/ CloseDirect(i)
MergeConsumer == MergeNext \/ MergeClose

Next ==
  \/ Broadcaster \/ MergeConsumer
  \/ \E s \in Sources : Puller(s)
  \/ \E i \in Direct : Consumer(i)
  \/ \E i \in Direct \cup Sources : Drain(i)
  \/ \E c \in MergeChans : MergeDrain(c)

Spec == Init /\ [][Next]_vars
(* Goroutines are scheduled, a source's Next returns, and a consumer reads  *)
(* on or closes, as the package demands of it.                             *)
FairSpec ==
  /\ Spec /\ WF_vars(Broadcaster) /\ WF_vars(MergeConsumer)
  /\ \A s \in Sources : WF_vars(Puller(s))
  /\ \A i \in Direct : WF_vars(Consumer(i))
  /\ \A i \in Direct \cup Sources : WF_vars(Drain(i))
  /\ \A c \in MergeChans : WF_vars(MergeDrain(c))

(***************************************************************************)
(* Properties.                                                             *)
(***************************************************************************)
(* The merge channels stay within their buffer, every goroutine in its      *)
(* states, and remaining counts the readers not closed.                    *)
TypeOK ==
  /\ bpc \in {"pull", "send", "release", "exited"}
  /\ pulled \in 0..(MaxLen + 1) /\ sending \subseteq Readers
  /\ buf \in [Readers -> Seq(Frames)]
  /\ \A c \in MergeChans : Len(mbuf[c]) <= BufSize
  /\ closed \subseteq Readers /\ remaining = Cardinality(Readers \ closed)
  /\ canceled \in BOOLEAN /\ mclosed \in BOOLEAN
  /\ fin \in [Readers -> Errors \cup {"none"}] /\ mend \in Errors \cup {"none"}
  /\ ppc \in [Sources -> {"next", "send", "exit", "exited"}]
  /\ hand \in [Sources -> Frames \cup {Nothing}] /\ exhausted \subseteq Sources

LenOf(s) == IF s \in teed THEN len[Src] ELSE len[s]
EndOf(s) == IF s \in teed THEN end[Src] ELSE end[s]

(* "each yielding every element of src in order followed by the same        *)
(* terminal error" (Copy): a reader returns a prefix of the source, and one *)
(* that sees an end has seen everything and the source's own error, however *)
(* its siblings read, lag or close.                                        *)
TeeDelivers ==
  \A i \in Readers :
    /\ got[i] = [k \in 1..Len(got[i]) |-> k]
    /\ fin[i] # "none" => Len(got[i]) = len[Src] /\ fin[i] = end[Src]

(* "it returns a clean io.EOF only after EVERY source has hit io.EOF"       *)
(* (Merge): nothing of any source is missing then, and an error the merge   *)
(* returns is one a source had.                                            *)
MergeDelivers ==
  /\ mend = "EOF" => \A s \in Sources :
       /\ EndOf(s) = "EOF"
       /\ \A k \in 1..LenOf(s) : \E j \in 1..Len(mout) : mout[j] = [src |-> s, v |-> k]
  /\ mend = "failure" => \E s \in Sources : EndOf(s) = "failure"

(* Turn order: frame index first, then source index.                       *)
TurnBefore(a, b) == a.v < b.v \/ (a.v = b.v /\ a.src < b.src)

(* Per source, frames come out in order and once; of roundRobinMerge, "the  *)
(* merged sequence is reproducible": by frame, then by source, whatever the *)
(* arrival times, and with nothing passed over.                            *)
MergeOrder ==
  \A j \in 1..Len(mout) :
    /\ \A k \in 1..(j - 1) : (mout[k].src = mout[j].src \/ ordered) => TurnBefore(mout[k], mout[j])
    /\ \A s \in Sources, n \in 1..MaxLen :
         /\ n <= LenOf(s)
         /\ ordered \/ s = mout[j].src
         /\ TurnBefore([src |-> s, v |-> n], mout[j])
         => \E k \in 1..(j - 1) : mout[k] = [src |-> s, v |-> n]

(* Shared-rate backpressure: the broadcaster is never further ahead of an   *)
(* open reader than the frame in its hand and the reader's buffer.         *)
Backpressure ==
  \A i \in Readers \ closed : fin[i] = "none" => pulled <= Len(got[i]) + 1 + BufSize

(* "NO goroutine may block forever once its consumer stops and Closes":     *)
(* whichever consumers close, and in whatever order, the broadcaster and    *)
(* all pullers end, their sources are released and the drains run dry.     *)
AllReleased ==
  <>[](/\ bpc = "exited" /\ \A s \in Sources : ppc[s] = "exited"
       /\ \A i \in closed : buf[i] = << >>)
=============================================================================
