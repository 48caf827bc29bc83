-------------------------- MODULE StreamFanProofs --------------------------
(***************************************************************************)
(* The safety theorems of StreamFan, for every number of readers, sources   *)
(* and frames, every buffer size and every way to wire the Copy into the    *)
(* merge.                                                                  *)
(***************************************************************************)
EXTENDS StreamFan, FiniteSetTheorems, SequenceTheorems, WellFoundedInduction, TLAPS

(***************************************************************************)
(* The Copy.  A reader that is still read has returned or buffers exactly   *)
(* the frames the broadcaster has handed it, in order; a closed one keeps   *)
(* what it returned.                                                       *)
(***************************************************************************)
Shape ==
  /\ teed \subseteq Sources /\ ordered \in BOOLEAN
  /\ len \in [Solo \cup {Src} -> 0..MaxLen] /\ end \in [Solo \cup {Src} -> Errors]

CopyType ==
  /\ bpc \in {"pull", "send", "release", "exited"}
  /\ pulled \in Nat /\ sending \subseteq Readers
  /\ buf \in [Readers -> Seq(Frames)]
  /\ closed \subseteq Readers /\ remaining = Cardinality(Readers \ closed)
  /\ canceled \in BOOLEAN /\ fin \in [Readers -> Errors \cup {"none"}]
  /\ got \in [Readers -> Seq(Nat)]

Broadcast ==
  /\ bpc = "pull" => pulled <= len[Src] /\ sending = {}
  /\ bpc = "send" => pulled \in 1..(len[Src] + 1) /\ sending # {}
  /\ bpc \in {"release", "exited"} => sending = {} /\ (pulled = len[Src] + 1 \/ canceled)
  /\ pulled <= len[Src] + 1
  /\ canceled => closed = Readers

Delivered(i) == IF i \in sending THEN pulled - 1 ELSE pulled
Reading(i) ==
  /\ Len(got[i]) <= len[Src] /\ \A k \in 1..Len(got[i]) : got[i][k] = k
  /\ fin[i] # "none" => Len(got[i]) = len[Src] /\ fin[i] = end[Src]
  /\ i \notin closed /\ fin[i] = "none" =>
       /\ Len(got[i]) + Len(buf[i]) = Delivered(i) /\ Len(buf[i]) <= BufSize
       /\ \A k \in 1..Len(buf[i]) : buf[i][k] = FrameOf(Src, Len(got[i]) + k)

CopyInv == Shape /\ CopyType /\ Broadcast /\ \A i \in Readers : Reading(i)

(***************************************************************************)
(* The merge.  Up to its Close, every value a source has yielded is in the  *)
(* puller's hand, queued or returned, and they are queued in order.        *)
(***************************************************************************)
MergeItems == [src : Sources, frame : Frames]
Out(s, n) == [src |-> s, v |-> n]
Item(s, n) == [src |-> s, frame |-> Value(n)]
Failure(s) == [src |-> s, frame |-> Failed("failure")]

MergeType ==
  /\ ppc \in [Sources -> {"next", "send", "exit", "exited"}]
  /\ hand \in [Sources -> Frames \cup {Nothing}] /\ pos \in [Solo -> Nat]
  /\ mbuf \in [MergeChans -> Seq(MergeItems)]
  /\ \A c \in MergeChans : Len(mbuf[c]) <= BufSize
  /\ mclosed \in BOOLEAN /\ mend \in Errors \cup {"none"}
  /\ cur \in Nat /\ exhausted \subseteq Sources
  /\ mout \in Seq([src : Sources, v : Nat])

(* What may be queued, and where.                                          *)
Labelled(c, it) ==
  \E s \in Sources :
    /\ MergeChan(s) = c
    /\ \/ \E n \in 1..MaxLen : it = Item(s, n)
       \/ it = Failure(s) /\ EndOf(s) = "failure"
Labels == \A c \in MergeChans : \A p \in 1..Len(mbuf[c]) : Labelled(c, mbuf[c][p])

Yielded(s) ==
  IF s \in teed THEN Len(got[s]) ELSE IF pos[s] <= len[s] THEN pos[s] ELSE len[s]
Ended(s) == IF s \in teed THEN fin[s] # "none" ELSE pos[s] > len[s]
Passed(s) == IF ppc[s] = "send" /\ hand[s].err = "none" THEN Yielded(s) - 1 ELSE Yielded(s)
Queue(s) == mbuf[MergeChan(s)]

Pulling(s) ==
  /\ s \in teed /\ ppc[s] # "exited" => s \notin closed
  /\ ppc[s] = "next" => ~Ended(s)
  /\ ppc[s] = "send" => \/ hand[s] = Value(Yielded(s)) /\ Yielded(s) >= 1 /\ ~Ended(s)
                        \/ hand[s] = Failed("failure") /\ EndOf(s) = "failure" /\ Ended(s)
  /\ ppc[s] \in {"exit", "exited"} /\ ~mclosed =>
       /\ Ended(s)
       /\ \/ EndOf(s) = "EOF" \/ mend = "failure"
          \/ \E p \in 1..Len(Queue(s)) : Queue(s)[p] = Failure(s)

Came(s, n) == \E j \in 1..Len(mout) : mout[j] = Out(s, n)
Queued(s, n, k) == \E p \in 1..k : Queue(s)[p] = Item(s, n)

Passing(s) ==
  /\ \A n \in 1..Passed(s) : Came(s, n) \/ Queued(s, n, Len(Queue(s)))
  /\ \A n \in Nat : Came(s, n) => n \in 1..Passed(s)
  /\ \A p \in 1..Len(Queue(s)), v \in 1..MaxLen : Queue(s)[p] = Item(s, v) =>
       /\ v <= Passed(s)
       /\ \A n \in 1..(v - 1) : Came(s, n) \/ Queued(s, n, p - 1)
       /\ \A n \in Nat : Came(s, n) => n < v
       /\ \A q \in 1..(p - 1), w \in 1..MaxLen : Queue(s)[q] = Item(s, w) => w < v

(* The round robin has returned r frames of every source, and one more of   *)
(* those before k, as far as they have them.                               *)
Wheel(r, k) ==
  \A s \in Sources : \A n \in 1..LenOf(s) : Came(s, n) <=> (n <= r \/ (n = r + 1 /\ s < k))

Turning ==
  ~mclosed /\ mend = "none" =>
    /\ ordered => \E r \in Nat : Wheel(r, cur)
    /\ \A s \in exhausted : ordered /\ ppc[s] = "exited" /\ mbuf[s] = << >>

MergeInv ==
  /\ MergeType /\ Labels /\ \A s \in Sources : Pulling(s)
  /\ ~mclosed => \A s \in Sources : Passing(s)
  /\ Turning

(***************************************************************************)
(* Facts about the constants and operators.                                *)
(***************************************************************************)
LEMMA Bounds ==
  /\ BufSize \in Nat /\ BufSize >= 1 /\ MaxLen \in Nat
  /\ Direct \subseteq Nat \ {0} /\ Sources \subseteq Nat \ {0} /\ Direct # {} /\ Sources # {}
  /\ Direct \cap Sources = {} /\ IsFiniteSet(Direct \cup Sources)
BY FanAssumption

LEMMA MinIs ==
  ASSUME NEW S \in SUBSET Nat, S # {}
  PROVE  Min(S) \in S /\ \A y \in S : Min(S) <= y
<1>1. PICK x \in S : \A y \in S : ~(<<y, x>> \in OpToRel(<, Nat))
  BY WFMin, NatLessThanWellFounded, Zenon
<1>2. \A y \in S : x <= y
  <2> SUFFICES ASSUME NEW y \in S, ~(x <= y) PROVE FALSE
    OBVIOUS
  <2>1. y < x /\ y \in Nat /\ x \in Nat
    OBVIOUS
  <2>2. <<y, x>> \in OpToRel(<, Nat)
    BY <2>1, Zenon DEF OpToRel
  <2>3. QED
    BY <1>1, <2>2, Zenon
<1>3. QED
  BY <1>2 DEF Min

LEMMA FrameFacts ==
  /\ \A k : Value(k).v = k /\ Value(k).err = "none"
  /\ \A e : Failed(e).err = e /\ Failed(e).v = 0
  /\ \A f \in Frames : /\ f.err \in Errors \cup {"none"}
                       /\ f.err = "none" => f.v \in 1..MaxLen /\ f = Value(f.v)
                       /\ f.err # "none" => f = Failed(f.err)
  /\ "none" \notin Errors /\ Errors = {"EOF", "failure"}
BY DEF Value, Failed, Frames, Errors

LEMMA ShapeFacts ==
  ASSUME Shape
  PROVE  /\ len[Src] \in Nat /\ len[Src] <= MaxLen /\ end[Src] \in Errors
         /\ \A s \in Solo : len[s] \in Nat /\ len[s] <= MaxLen /\ end[s] \in Errors
         /\ Readers \subseteq Nat \ {0} /\ IsFiniteSet(Readers) /\ Direct \subseteq Readers
         /\ Readers # {} /\ teed \subseteq Readers
<1>1. Readers \subseteq Direct \cup Sources /\ Direct \subseteq Readers /\ teed \subseteq Readers
  BY DEF Shape, Readers
<1>2. IsFiniteSet(Readers)
  BY <1>1, Bounds, FS_Subset
<1>3. /\ len[Src] \in 0..MaxLen /\ end[Src] \in Errors
      /\ \A s \in Solo : len[s] \in 0..MaxLen /\ end[s] \in Errors
  BY DEF Shape
<1>4. /\ len[Src] \in Nat /\ len[Src] <= MaxLen
      /\ \A s \in Solo : len[s] \in Nat /\ len[s] <= MaxLen
  BY <1>3, Bounds
<1>5. Readers \subseteq Nat \ {0} /\ Readers # {}
  BY <1>1, Bounds
<1>6. QED
  BY <1>1, <1>2, <1>3, <1>4, <1>5

(* What the k-th Next of the Copy's source gives.                          *)
LEMMA SrcFrames ==
  ASSUME Shape, NEW k \in Nat, k >= 1
  PROVE  /\ FrameOf(Src, k) \in Frames
         /\ k <= len[Src] => FrameOf(Src, k) = Value(k) /\ FrameOf(Src, k).err = "none"
         /\ k > len[Src] => FrameOf(Src, k) = Failed(end[Src]) /\ FrameOf(Src, k).err \in Errors
<1>1. k <= len[Src] => k \in 1..MaxLen
  BY ShapeFacts, Bounds
<1>2. k <= len[Src] => Value(k) \in Frames
  BY <1>1 DEF Frames
<1>3. Failed(end[Src]) \in Frames
  BY ShapeFacts DEF Frames
<1>4. QED
  BY <1>2, <1>3, ShapeFacts, FrameFacts DEF FrameOf

LEMMA ShapeKept ==
  ASSUME UNCHANGED shape
  PROVE  /\ Readers' = Readers /\ Solo' = Solo /\ Shape' = Shape
         /\ len'[Src] = len[Src] /\ end'[Src] = end[Src]
         /\ \A x, k : FrameOf(x, k)' = FrameOf(x, k)
BY DEF shape, Readers, Solo, Shape, FrameOf

(***************************************************************************)
(* The steps, as the Copy sees them.                                       *)
(***************************************************************************)
CopyStep ==
  \/ Pull \/ Send \/ ReleaseSource
  \/ \E i \in Readers, f \in Frames : CopyNext(i, f)
  \/ \E i \in Readers : CopyClose(i)
  \/ \E i \in Readers : Drain(i)
  \/ UNCHANGED <<shape, copyVars>>

LEMMA CopySteps == ASSUME Shape, CopyType, [Next]_vars PROVE CopyStep
<1>1. CASE Broadcaster
  BY <1>1 DEF Broadcaster, CopyStep
<1>2. CASE MergeConsumer \/ (\E c \in MergeChans : MergeDrain(c)) \/ UNCHANGED vars
  BY <1>2 DEF MergeConsumer, MergeNext, mergeFrame, MergeClose, MergeDrain, vars, CopyStep
<1>3. CASE \E s \in Sources : Puller(s)
  <2>1. PICK s \in Sources : Puller(s)
    BY <1>3
  <2>2. CASE PullNext(s)
    BY <2>2, ShapeFacts DEF PullNext, SourceNext, CopyStep
  <2>3. CASE PullSend(s)
    BY <2>3 DEF PullSend, CopyStep
  <2>4. CASE PullExit(s)
    BY <2>4, ShapeFacts DEF PullExit, CopyStep
  <2>5. QED
    BY <2>1, <2>2, <2>3, <2>4 DEF Puller
<1>4. CASE \E i \in Direct : Consumer(i)
  <2>1. PICK i \in Direct : Consumer(i)
    BY <1>4
  <2>2. i \in Readers
    BY ShapeFacts
  <2>3. QED
    BY <2>1, <2>2 DEF Consumer, ReadDirect, CloseDirect, CopyStep
<1>5. CASE \E i \in Direct \cup Sources : Drain(i)
  BY <1>5 DEF Drain, Draining, CopyType, CopyStep
<1>6. QED
  BY <1>1, <1>2, <1>3, <1>4, <1>5 DEF Next

LEMMA CopyShape == ASSUME CopyStep PROVE UNCHANGED shape
BY DEF CopyStep, Pull, Send, ReleaseSource, readerFrame, CopyNext, CopyClose, Drain, broadcasterFrame

(* A reader whose own state a step leaves alone.                           *)
LEMMA ReadingKept ==
  ASSUME UNCHANGED shape, NEW i, Reading(i),
         got'[i] = got[i], fin'[i] = fin[i], i \in closed => i \in closed',
         i \notin closed => buf'[i] = buf[i] /\ (Delivered(i) = Delivered(i)')
  PROVE  Reading(i)'
<1>1. len'[Src] = len[Src] /\ end'[Src] = end[Src] /\ \A x, k : FrameOf(x, k)' = FrameOf(x, k)
  BY ShapeKept
<1>2. QED
  BY <1>1 DEF Reading

LEMMA CopyPull == ASSUME CopyInv, Pull PROVE CopyInv'
<1>1. UNCHANGED <<shape, buf, closed, remaining, canceled, fin, got>>
  BY DEF Pull, readerFrame
<1>2. /\ bpc = "pull" /\ pulled' = pulled + 1 /\ sending' = Readers /\ bpc' = "send"
      /\ pulled \in Nat /\ sending = {} /\ pulled <= len[Src] /\ Readers # {} /\ len[Src] \in Nat
  BY ShapeFacts DEF Pull, CopyInv, CopyType, Broadcast
<1>3. Shape' /\ Readers' = Readers /\ len'[Src] = len[Src]
  BY <1>1, ShapeKept DEF CopyInv
<1>4. CopyType'
  BY <1>1, <1>2, <1>3 DEF CopyInv, CopyType
<1>5. Broadcast'
  BY <1>1, <1>2, <1>3 DEF CopyInv, Broadcast
<1>6. ASSUME NEW i \in Readers PROVE Reading(i)'
  <2>1. Delivered(i) = Delivered(i)'
    BY <1>2 DEF Delivered
  <2>2. QED
    BY <1>1, <2>1, ReadingKept DEF CopyInv
<1>7. QED
  BY <1>3, <1>4, <1>5, <1>6 DEF CopyInv

LEMMA CopySend == ASSUME CopyInv, Send PROVE CopyInv'
<1>1. UNCHANGED <<shape, pulled, closed, remaining, canceled, fin, got>> /\ bpc = "send"
  BY DEF Send, readerFrame
<1>2. Shape' /\ Readers' = Readers /\ len'[Src] = len[Src] /\ len[Src] \in Nat
  BY <1>1, ShapeKept, ShapeFacts DEF CopyInv
<1>3. pulled \in Nat /\ pulled >= 1 /\ pulled <= len[Src] + 1 /\ sending # {} /\ sending \subseteq Readers
  BY <1>1, <1>2 DEF CopyInv, CopyType, Broadcast
<1>4. CASE canceled /\ bpc' = "release" /\ sending' = {} /\ buf' = buf
  <2>1. CopyType'
    BY <1>1, <1>2, <1>4 DEF CopyInv, CopyType
  <2>2. Broadcast'
    BY <1>1, <1>2, <1>4 DEF CopyInv, Broadcast
  <2>3. ASSUME NEW i \in Readers PROVE Reading(i)'
    <3>1. i \in closed
      BY <1>4 DEF CopyInv, Broadcast
    <3>2. QED
      BY <1>1, <3>1, ReadingKept DEF CopyInv
  <2>4. QED
    BY <1>2, <2>1, <2>2, <2>3 DEF CopyInv
<1>5. ASSUME ~(canceled /\ bpc' = "release" /\ sending' = {} /\ buf' = buf) PROVE CopyInv'
  <2> DEFINE f == FrameOf(Src, pulled)
  <2>1. PICK m \in Readers : m = Min(sending) /\ m \in sending
    <3>1. sending \in SUBSET Nat
      BY <1>3, ShapeFacts DEF CopyInv
    <3>2. QED
      BY <1>3, <3>1, MinIs
  <2>2. /\ HasRoom(buf[m]) /\ buf' = [buf EXCEPT ![m] = Append(@, f)]
        /\ sending' = sending \ {m} /\ bpc' = IF sending' # {} THEN "send" ELSE AfterFrame
    BY <1>5, <2>1 DEF Send
  <2>3. f \in Frames /\ (f.err = "none" => pulled <= len[Src]) /\ (f.err # "none" => pulled = len[Src] + 1)
    <3>1. pulled <= len[Src] \/ (pulled > len[Src] /\ pulled = len[Src] + 1)
      BY <1>2, <1>3
    <3>2. QED
      BY <1>3, <3>1, SrcFrames, FrameFacts DEF CopyInv
  <2> HIDE DEF f
  <2>4. /\ buf[m] \in Seq(Frames) /\ Len(buf[m]) \in Nat /\ Len(buf[m]) < BufSize
        /\ buf'[m] = Append(buf[m], f) /\ \A i \in Readers : i # m => buf'[i] = buf[i]
        /\ buf' \in [Readers -> Seq(Frames)]
    BY <2>1, <2>2, <2>3, AppendProperties DEF CopyInv, CopyType, HasRoom
  <2>5. bpc' \in {"send", "pull", "release"} /\ (bpc' = "send" <=> sending' # {})
        /\ (bpc' = "pull" => pulled <= len[Src]) /\ (bpc' = "release" => pulled = len[Src] + 1)
    BY <2>2, <2>3 DEF AfterFrame, f
  <2>6. CopyType'
    BY <1>1, <1>2, <2>2, <2>4, <2>5 DEF CopyInv, CopyType
  <2>7. Broadcast'
    BY <1>1, <1>2, <1>3, <2>2, <2>5 DEF CopyInv, Broadcast
  <2>8. ASSUME NEW i \in Readers, i # m PROVE Reading(i)'
    <3>1. Delivered(i) = Delivered(i)'
      BY <1>1, <2>2, <2>8 DEF Delivered
    <3>2. QED
      BY <1>1, <2>4, <2>8, <3>1, ReadingKept DEF CopyInv
  <2>9. Reading(m)'
    <3>1. CASE m \in closed \/ fin[m] # "none"
      BY <1>1, <1>2, <2>1, <3>1, ShapeKept DEF CopyInv, Reading
    <3>2. CASE m \notin closed /\ fin[m] = "none"
      <4>1. /\ Len(got[m]) + Len(buf[m]) = pulled - 1 /\ Len(got[m]) \in Nat
            /\ \A k \in 1..Len(buf[m]) : buf[m][k] = FrameOf(Src, Len(got[m]) + k)
        <5>1. Reading(m) /\ Delivered(m) = pulled - 1 /\ got[m] \in Seq(Nat)
          BY <2>1 DEF CopyInv, CopyType, Delivered
        <5>2. Len(got[m]) \in Nat
          BY <5>1
        <5>3. /\ Len(got[m]) + Len(buf[m]) = Delivered(m)
              /\ \A k \in 1..Len(buf[m]) : buf[m][k] = FrameOf(Src, Len(got[m]) + k)
          BY <3>2, <5>1 DEF Reading
        <5>4. QED
          BY <5>1, <5>2, <5>3
      <4>2. /\ Len(buf'[m]) = Len(buf[m]) + 1 /\ buf'[m][Len(buf[m]) + 1] = f
            /\ \A k \in 1..Len(buf[m]) : buf'[m][k] = buf[m][k]
        BY <2>3, <2>4, AppendProperties
      <4>3. Len(got[m]) + Len(buf'[m]) = pulled /\ Len(buf'[m]) <= BufSize
            /\ Len(got[m]) + (Len(buf[m]) + 1) = pulled
        <5>1. /\ Len(buf'[m]) = Len(buf[m]) + 1 /\ Len(got[m]) + Len(buf[m]) = pulled - 1
              /\ Len(buf[m]) \in Nat /\ Len(got[m]) \in Nat /\ Len(buf[m]) < BufSize /\ pulled \in Nat
              /\ BufSize \in Nat
          BY <1>3, <2>4, <4>1, <4>2, Bounds
        <5>2. Len(buf'[m]) \in Nat /\ Len(buf'[m]) <= BufSize
          BY <5>1
        <5>3. Len(got[m]) + (Len(buf[m]) + 1) = pulled
          <6>1. PICK b \in Nat : b = Len(buf[m])
            BY <5>1
          <6>2. PICK g \in Nat : g = Len(got[m])
            BY <5>1
          <6>3. g + b = pulled - 1 /\ pulled \in Nat
            BY <5>1, <6>1, <6>2
          <6>4. g + (b + 1) = pulled
            BY <6>3
          <6>5. QED
            BY <6>1, <6>2, <6>4
        <5>4. QED
          BY <5>1, <5>2, <5>3
      <4>4. \A k \in 1..Len(buf'[m]) : buf'[m][k] = FrameOf(Src, Len(got[m]) + k)
        <5> SUFFICES ASSUME NEW k \in 1..Len(buf'[m]) PROVE buf'[m][k] = FrameOf(Src, Len(got[m]) + k)
          OBVIOUS
        <5>1. CASE k \in 1..Len(buf[m])
          BY <4>1, <4>2, <5>1
        <5>2. CASE k = Len(buf[m]) + 1
          BY <4>2, <4>3, <5>2 DEF f
        <5>3. QED
          BY <2>4, <4>2, <5>1, <5>2
      <4>5. Delivered(m)' = pulled
        BY <1>1, <2>2 DEF Delivered
      <4>6. \A k : FrameOf(Src, k)' = FrameOf(Src, k)
        BY <1>1, ShapeKept
      <4>7. QED
        BY <1>1, <1>2, <2>1, <3>2, <4>3, <4>4, <4>5, <4>6 DEF CopyInv, Reading
    <3>3. QED
      BY <3>1, <3>2
  <2>10. QED
    BY <1>2, <2>6, <2>7, <2>8, <2>9 DEF CopyInv
<1>6. QED
  BY <1>4, <1>5

LEMMA CopyRelease == ASSUME CopyInv, ReleaseSource PROVE CopyInv'
<1>1. /\ UNCHANGED <<shape, pulled, sending, buf, closed, remaining, canceled, fin, got>>
      /\ bpc = "release" /\ bpc' = "exited"
  BY DEF ReleaseSource, readerFrame
<1>2. Shape' /\ Readers' = Readers /\ len'[Src] = len[Src]
  BY <1>1, ShapeKept DEF CopyInv
<1>3. CopyType' /\ Broadcast'
  BY <1>1, <1>2 DEF CopyInv, CopyType, Broadcast
<1>4. ASSUME NEW i \in Readers PROVE Reading(i)'
  <2>1. Delivered(i) = Delivered(i)'
    BY <1>1 DEF Delivered
  <2>2. QED
    BY <1>1, <2>1, ReadingKept DEF CopyInv
<1>5. QED
  BY <1>2, <1>3, <1>4 DEF CopyInv

(* Next of a reader gives the frame after those it returned; the clean end   *)
(* a closed channel reads as is never what it comes to.                    *)
LEMMA NextGives ==
  ASSUME CopyInv, NEW i \in Readers, NEW f \in Frames, CopyNext(i, f)
  PROVE  /\ f = FrameOf(Src, Len(got[i]) + 1) /\ buf[i] # << >>
         /\ buf' = [buf EXCEPT ![i] = Tail(@)]
<1>1. /\ i \notin closed /\ fin[i] = "none" /\ Reading(i) /\ buf[i] \in Seq(Frames) /\ got[i] \in Seq(Nat)
      /\ pulled \in Nat /\ len[Src] \in Nat
  BY ShapeFacts DEF CopyNext, CopyInv, CopyType
<1>2. CASE buf[i] # << >> /\ f = Head(buf[i]) /\ buf' = [buf EXCEPT ![i] = Tail(@)]
  <2>1. Len(buf[i]) >= 1 /\ Len(buf[i]) \in Nat /\ f = buf[i][1]
    BY <1>1, <1>2, EmptySeq
  <2>2. QED
    BY <1>1, <1>2, <2>1 DEF Reading
<1>3. CASE buf[i] = << >> /\ bpc = "exited"
  <2>1. sending = {} /\ pulled = len[Src] + 1
    BY <1>1, <1>3 DEF CopyInv, Broadcast
  <2>2. Delivered(i) = len[Src] + 1
    BY <2>1 DEF Delivered
  <2>3. Len(buf[i]) = 0 /\ Len(got[i]) \in Nat
    BY <1>1, <1>3
  <2>4. Len(got[i]) = len[Src] + 1 /\ Len(got[i]) <= len[Src]
    BY <1>1, <2>2, <2>3 DEF Reading
  <2>5. QED
    BY <1>1, <2>4
<1>4. QED
  BY <1>2, <1>3 DEF CopyNext

LEMMA CopyReads ==
  ASSUME CopyInv, NEW i \in Readers, NEW f \in Frames, CopyNext(i, f)
  PROVE  CopyInv'
<1>1. /\ UNCHANGED <<shape, bpc, pulled, sending, closed, remaining, canceled>>
      /\ i \notin closed /\ fin[i] = "none" /\ fin' = [fin EXCEPT ![i] = f.err]
      /\ got' = IF f.err = "none" THEN [got EXCEPT ![i] = Append(@, f.v)] ELSE got
  BY DEF CopyNext, broadcasterFrame
<1>2. Shape' /\ Readers' = Readers /\ len'[Src] = len[Src] /\ end'[Src] = end[Src] /\ len[Src] \in Nat
  BY <1>1, ShapeKept, ShapeFacts DEF CopyInv
<1>3. /\ f = FrameOf(Src, Len(got[i]) + 1) /\ buf[i] # << >> /\ buf' = [buf EXCEPT ![i] = Tail(@)]
  BY NextGives
<1>4. /\ Reading(i) /\ buf \in [Readers -> Seq(Frames)] /\ got \in [Readers -> Seq(Nat)]
      /\ fin \in [Readers -> Errors \cup {"none"}]
  BY DEF CopyInv, CopyType
<1>5. PICK g \in Nat : g = Len(got[i])
  BY <1>4
<1>6. PICK b \in Nat : b = Len(buf[i]) /\ b >= 1
  BY <1>3, <1>4, EmptySeq
<1>7. /\ g + b = Delivered(i) /\ b <= BufSize /\ g <= len[Src] /\ \A k \in 1..g : got[i][k] = k
      /\ \A k \in 1..b : buf[i][k] = FrameOf(Src, g + k)
  BY <1>1, <1>4, <1>5, <1>6 DEF Reading
<1>8. /\ Tail(buf[i]) \in Seq(Frames) /\ Len(Tail(buf[i])) = b - 1
      /\ \A k \in 1..(b - 1) : Tail(buf[i])[k] = buf[i][k + 1]
  <2>1. buf[i] \in Seq(Frames)
    BY <1>4
  <2>2. PICK t \in Seq(Frames) : t = buf[i]
    BY <2>1
  <2>3. Tail(t) \in Seq(Frames) /\ Len(Tail(t)) = Len(t) - 1 /\ \A k \in 1..Len(Tail(t)) : Tail(t)[k] = t[k + 1]
    BY <1>3, <2>2, HeadTailProperties
  <2>4. QED
    BY <1>6, <2>2, <2>3
<1>9. CASE f.err = "none"
  <2>1. g + 1 <= len[Src] /\ f.v = g + 1
    BY <1>2, <1>3, <1>5, <1>9, SrcFrames, FrameFacts DEF CopyInv
  <2>2. got'[i] = Append(got[i], g + 1) /\ got' = [got EXCEPT ![i] = Append(@, g + 1)]
    BY <1>1, <1>4, <1>9, <2>1
  <2>3. /\ got'[i] \in Seq(Nat) /\ Len(got'[i]) = g + 1 /\ got'[i][g + 1] = g + 1
        /\ \A k \in 1..g : got'[i][k] = k
    <3>1. /\ Append(got[i], g + 1) \in Seq(Nat) /\ Len(Append(got[i], g + 1)) = Len(got[i]) + 1
          /\ Append(got[i], g + 1)[Len(got[i]) + 1] = g + 1
          /\ \A k \in 1..Len(got[i]) : Append(got[i], g + 1)[k] = got[i][k]
      BY <1>4, AppendProperties
    <3>2. QED
      BY <1>5, <1>7, <2>2, <3>1
  <2>4. CopyType'
    <3>1. buf' \in [Readers -> Seq(Frames)] /\ got' \in [Readers -> Seq(Nat)]
      BY <1>3, <1>4, <1>8, <2>2, <2>3
    <3>2. fin' \in [Readers -> Errors \cup {"none"}]
      BY <1>1, <1>4, <1>9
    <3>3. QED
      BY <1>1, <1>2, <3>1, <3>2 DEF CopyInv, CopyType
  <2>5. \A k \in 1..(g + 1) : got'[i][k] = k
    BY <2>3
  <2>6. g + 1 + (b - 1) = Delivered(i)' /\ b - 1 <= BufSize
    <3>1. Delivered(i)' = Delivered(i)
      BY <1>1 DEF Delivered
    <3>2. QED
      BY <1>7, <3>1, Bounds
  <2>7. \A k \in 1..(b - 1) : buf'[i][k] = FrameOf(Src, (g + 1) + k)
    <3> SUFFICES ASSUME NEW k \in 1..(b - 1) PROVE buf'[i][k] = FrameOf(Src, (g + 1) + k)
      OBVIOUS
    <3>1. buf'[i][k] = buf[i][k + 1] /\ k + 1 \in 1..b /\ g + (k + 1) = (g + 1) + k
      BY <1>3, <1>4, <1>8
    <3>2. QED
      BY <1>7, <3>1
  <2>8. Reading(i)'
    <3>1. fin'[i] = "none" /\ Len(got'[i]) = g + 1 /\ Len(buf'[i]) = b - 1
      BY <1>1, <1>3, <1>4, <1>8, <1>9, <2>3
    <3>2. \A k : FrameOf(Src, k)' = FrameOf(Src, k)
      BY <1>1, ShapeKept
    <3>3. QED
      BY <1>2, <2>1, <2>5, <2>6, <2>7, <3>1, <3>2 DEF Reading
  <2>9. \A j \in Readers : j # i => got'[j] = got[j]
    BY <1>4, <2>2
  <2>10. QED
    <3>1. ASSUME NEW j \in Readers, j # i PROVE Reading(j)'
      <4>1. Delivered(j)' = Delivered(j) /\ buf'[j] = buf[j] /\ fin'[j] = fin[j] /\ closed' = closed
        BY <1>1, <1>3, <1>4, <3>1 DEF Delivered
      <4>2. QED
        BY <1>1, <2>9, <3>1, <4>1, ReadingKept DEF CopyInv
    <3>2. Broadcast'
      BY <1>1, <1>2 DEF CopyInv, Broadcast
    <3>3. QED
      BY <1>2, <2>4, <2>8, <3>1, <3>2 DEF CopyInv
<1>10. CASE f.err # "none"
  <2>1. g = len[Src] /\ f.err = end[Src]
    <3>1. ~(g + 1 <= len[Src])
      BY <1>3, <1>5, <1>10, SrcFrames DEF CopyInv
    <3>2. g + 1 > len[Src] /\ g = len[Src]
      BY <1>2, <1>7, <3>1
    <3>3. QED
      BY <1>3, <1>5, <3>2, SrcFrames, FrameFacts DEF CopyInv
  <2>2. got' = got /\ fin'[i] = f.err /\ f.err \in Errors
    BY <1>1, <1>4, <1>10, FrameFacts
  <2>3. CopyType'
    <3>1. buf' \in [Readers -> Seq(Frames)] /\ fin' \in [Readers -> Errors \cup {"none"}]
      BY <1>1, <1>3, <1>4, <1>8, <2>2
    <3>2. QED
      BY <1>1, <1>2, <2>2, <3>1 DEF CopyInv, CopyType
  <2>4. Reading(i)'
    BY <1>2, <1>5, <1>7, <1>10, <2>1, <2>2 DEF Reading
  <2>5. ASSUME NEW j \in Readers, j # i PROVE Reading(j)'
    <3>1. Delivered(j)' = Delivered(j) /\ buf'[j] = buf[j] /\ fin'[j] = fin[j] /\ closed' = closed
      BY <1>1, <1>3, <1>4, <2>5 DEF Delivered
    <3>2. QED
      BY <1>1, <2>2, <2>5, <3>1, ReadingKept DEF CopyInv
  <2>6. Broadcast'
    BY <1>1, <1>2 DEF CopyInv, Broadcast
  <2>7. QED
    BY <1>2, <2>3, <2>4, <2>5, <2>6 DEF CopyInv
<1>11. QED
  BY <1>9, <1>10

LEMMA CopyCloses == ASSUME CopyInv, NEW i \in Readers, CopyClose(i) PROVE CopyInv'
<1>1. /\ UNCHANGED <<shape, bpc, pulled, sending, buf, fin, got>> /\ closed' = closed \cup {i}
      /\ remaining' = IF i \in closed THEN remaining ELSE remaining - 1
      /\ canceled' = (canceled \/ remaining' = 0)
  BY DEF CopyClose, AllGone, broadcasterFrame
<1>2. Shape' /\ Readers' = Readers /\ len'[Src] = len[Src] /\ IsFiniteSet(Readers)
  BY <1>1, ShapeKept, ShapeFacts DEF CopyInv
<1>3. remaining' = Cardinality(Readers \ closed') /\ IsFiniteSet(Readers \ closed')
  <2>1. IsFiniteSet(Readers \ closed) /\ Readers \ closed' = (Readers \ closed) \ {i}
    BY <1>1, <1>2, FS_Subset
  <2>2. i \in Readers \ closed <=> i \notin closed
    OBVIOUS
  <2>3. remaining = Cardinality(Readers \ closed)
    BY DEF CopyInv, CopyType
  <2>4. /\ IsFiniteSet((Readers \ closed) \ {i})
        /\ Cardinality((Readers \ closed) \ {i}) =
             IF i \in Readers \ closed THEN Cardinality(Readers \ closed) - 1 ELSE Cardinality(Readers \ closed)
    BY <2>1, FS_RemoveElement
  <2>5. QED
    BY <1>1, <2>1, <2>2, <2>3, <2>4
<1>4. CopyType'
  BY <1>1, <1>2, <1>3 DEF CopyInv, CopyType
<1>5. remaining' = 0 => closed' = Readers
  <2>1. closed' \subseteq Readers
    BY <1>1 DEF CopyInv, CopyType
  <2>2. QED
    BY <1>3, <2>1, FS_EmptySet
<1>6. Broadcast'
  BY <1>1, <1>2, <1>5 DEF CopyInv, Broadcast
<1>7. ASSUME NEW j \in Readers PROVE Reading(j)'
  <2>1. Delivered(j)' = Delivered(j)
    BY <1>1 DEF Delivered
  <2>2. QED
    BY <1>1, <2>1, ReadingKept DEF CopyInv
<1>8. QED
  BY <1>2, <1>4, <1>6, <1>7 DEF CopyInv

LEMMA CopyDrains == ASSUME CopyInv, NEW i \in Readers, Drain(i) PROVE CopyInv'
<1>1. /\ UNCHANGED <<shape, bpc, pulled, sending, closed, remaining, canceled, fin, got>>
      /\ i \in closed /\ buf[i] # << >> /\ buf' = [buf EXCEPT ![i] = Tail(@)]
  BY DEF Drain, Draining, broadcasterFrame
<1>2. Shape' /\ Readers' = Readers /\ len'[Src] = len[Src]
  BY <1>1, ShapeKept DEF CopyInv
<1>3. buf' \in [Readers -> Seq(Frames)] /\ \A j \in Readers : j # i => buf'[j] = buf[j]
  <2>1. buf[i] \in Seq(Frames) /\ buf \in [Readers -> Seq(Frames)]
    BY DEF CopyInv, CopyType
  <2>2. Tail(buf[i]) \in Seq(Frames)
    BY <1>1, <2>1
  <2>3. QED
    BY <1>1, <2>1, <2>2
<1>4. CopyType' /\ Broadcast'
  BY <1>1, <1>2, <1>3 DEF CopyInv, CopyType, Broadcast
<1>5. ASSUME NEW j \in Readers PROVE Reading(j)'
  <2>1. Delivered(j)' = Delivered(j)
    BY <1>1 DEF Delivered
  <2>2. QED
    BY <1>1, <1>3, <2>1, ReadingKept DEF CopyInv
<1>6. QED
  BY <1>2, <1>4, <1>5 DEF CopyInv

LEMMA CopyInvStep == CopyInv /\ [Next]_vars => CopyInv'
<1> SUFFICES ASSUME CopyInv, [Next]_vars PROVE CopyInv'
  OBVIOUS
<1>1. CopyStep
  BY CopySteps DEF CopyInv
<1>2. CASE UNCHANGED <<shape, copyVars>>
  <2>1. Shape' /\ Readers' = Readers /\ len'[Src] = len[Src]
    BY <1>2, ShapeKept DEF CopyInv
  <2>2. CopyType' /\ Broadcast'
    BY <1>2, <2>1 DEF copyVars, CopyInv, CopyType, Broadcast
  <2>3. ASSUME NEW j \in Readers PROVE Reading(j)'
    <3>1. Delivered(j)' = Delivered(j)
      BY <1>2 DEF Delivered, copyVars
    <3>2. QED
      BY <1>2, <3>1, ReadingKept DEF CopyInv, copyVars
  <2>4. QED
    BY <2>1, <2>2, <2>3 DEF CopyInv
<1>3. QED
  BY <1>1, <1>2, CopyPull, CopySend, CopyRelease, CopyReads, CopyCloses, CopyDrains DEF CopyStep

LEMMA CopyInvInit == Init => CopyInv
<1> SUFFICES ASSUME Init PROVE CopyInv
  OBVIOUS
<1>1. Shape
  BY FanAssumption DEF Init, Shape
<1>2. /\ len[Src] \in Nat /\ \A i \in Readers : buf[i] = << >> /\ got[i] = << >> /\ fin[i] = "none"
      /\ pulled = 0 /\ sending = {} /\ closed = {} /\ bpc = "pull" /\ canceled = FALSE
  BY <1>1, ShapeFacts DEF Init
<1>3. CopyType
  <2>1. Readers \ closed = Readers
    BY <1>2
  <2>2. buf \in [Readers -> Seq(Frames)] /\ got \in [Readers -> Seq(Nat)]
    BY DEF Init
  <2>3. fin \in [Readers -> Errors \cup {"none"}] /\ remaining = Cardinality(Readers)
    BY DEF Init
  <2>4. QED
    BY <1>2, <2>1, <2>2, <2>3 DEF CopyType
<1>4. Broadcast
  BY <1>2 DEF Broadcast
<1>5. ASSUME NEW i \in Readers PROVE Reading(i)
  <2>1. Len(buf[i]) = 0 /\ Len(got[i]) = 0 /\ fin[i] = "none" /\ Delivered(i) = 0
    BY <1>2 DEF Delivered
  <2>2. QED
    BY <1>2, <2>1, Bounds DEF Reading
<1>6. QED
  BY <1>1, <1>3, <1>4, <1>5 DEF CopyInv

(***************************************************************************)
(* The merge: facts about a source.                                        *)
(***************************************************************************)
LEMMA SourceFacts ==
  ASSUME CopyInv, MergeType, NEW s \in Sources
  PROVE  /\ Yielded(s) \in Nat /\ LenOf(s) \in Nat /\ Yielded(s) <= LenOf(s) /\ LenOf(s) <= MaxLen
         /\ EndOf(s) \in Errors /\ (Ended(s) => Yielded(s) = LenOf(s))
         /\ MergeChan(s) \in MergeChans /\ Queue(s) \in Seq(MergeItems)
<1>1. MergeChan(s) \in MergeChans /\ Queue(s) \in Seq(MergeItems)
  BY DEF MergeChan, MergeChans, Queue, MergeType
<1>2. CASE s \in teed
  <2>1. s \in Readers /\ Reading(s) /\ got[s] \in Seq(Nat)
    BY <1>2 DEF Readers, CopyInv, CopyType
  <2>2. LenOf(s) = len[Src] /\ EndOf(s) = end[Src] /\ len[Src] \in Nat /\ len[Src] <= MaxLen /\ end[Src] \in Errors
    BY <1>2, ShapeFacts DEF LenOf, EndOf, CopyInv
  <2>3. Yielded(s) = Len(got[s]) /\ Len(got[s]) \in Nat /\ Ended(s) = (fin[s] # "none")
    BY <1>2, <2>1 DEF Yielded, Ended
  <2>4. Len(got[s]) <= len[Src] /\ (fin[s] # "none" => Len(got[s]) = len[Src])
    BY <2>1 DEF Reading
  <2>5. QED
    BY <1>1, <2>2, <2>3, <2>4
<1>3. CASE s \notin teed
  <2>1. s \in Solo /\ pos[s] \in Nat
    BY <1>3 DEF Solo, MergeType
  <2>2. len[s] \in Nat /\ len[s] <= MaxLen /\ end[s] \in Errors
    BY <2>1, ShapeFacts DEF CopyInv
  <2>3. QED
    BY <1>1, <1>3, <2>1, <2>2 DEF Yielded, LenOf, EndOf, Ended
<1>4. QED
  BY <1>2, <1>3

LEMMA StepShape == ASSUME CopyInv, [Next]_vars PROVE UNCHANGED shape
BY CopySteps, CopyShape DEF CopyInv

LEMMA SourceShape ==
  ASSUME UNCHANGED shape
  PROVE  \A s : LenOf(s)' = LenOf(s) /\ EndOf(s)' = EndOf(s) /\ MergeChan(s)' = MergeChan(s)
BY DEF shape, LenOf, EndOf, MergeChan

(* Only its own puller reads a source, and only its own puller closes it.  *)
LEMMA SourceKept ==
  ASSUME CopyInv, MergeType, [Next]_vars, NEW s \in Sources, ~PullNext(s)
  PROVE  Yielded(s)' = Yielded(s) /\ Ended(s)' = Ended(s)
<1>1. UNCHANGED <<teed, len>>
  BY StepShape DEF shape
<1>2. s \notin Direct
  BY Bounds
<1>3. s \in teed => got'[s] = got[s] /\ fin'[s] = fin[s]
  <2> SUFFICES ASSUME s \in teed PROVE got'[s] = got[s] /\ fin'[s] = fin[s]
    OBVIOUS
  <2>1. s \in Readers /\ got \in [Readers -> Seq(Nat)] /\ fin \in [Readers -> Errors \cup {"none"}]
    BY DEF Readers, CopyInv, CopyType
  <2>2. ASSUME NEW i \in Readers, NEW f \in Frames, CopyNext(i, f), i # s
        PROVE  got'[s] = got[s] /\ fin'[s] = fin[s]
    BY <2>1, <2>2 DEF CopyNext
  <2>3. CASE Broadcaster \/ MergeConsumer \/ (\E c \in MergeChans : MergeDrain(c)) \/ UNCHANGED vars
    BY <2>3 DEF Broadcaster, Pull, Send, ReleaseSource, readerFrame, MergeConsumer, MergeNext, mergeFrame,
       MergeClose, MergeDrain, vars, copyVars
  <2>4. CASE \E t \in Sources : PullNext(t)
    <3>1. PICK t \in Sources : PullNext(t)
      BY <2>4
    <3>2. PICK f \in Frames : SourceNext(t, f)
      BY <3>1 DEF PullNext
    <3>3. t # s
      BY <3>1
    <3>4. CASE t \in teed /\ CopyNext(t, f)
      <4>1. t \in Readers
        BY <3>4 DEF Readers
      <4>2. QED
        BY <2>2, <3>3, <3>4, <4>1
    <3>5. QED
      BY <3>2, <3>4 DEF SourceNext, copyVars
  <2>5. CASE \E t \in Sources : PullSend(t) \/ PullExit(t)
    BY <2>5 DEF PullSend, PullExit, CopyClose, copyVars
  <2>6. CASE \E i \in Direct : Consumer(i)
    <3>1. PICK i \in Direct : Consumer(i)
      BY <2>6
    <3>2. i # s /\ i \in Readers
      BY <1>2 DEF Readers
    <3>3. QED
      BY <2>2, <3>1, <3>2 DEF Consumer, ReadDirect, CloseDirect, CopyClose
  <2>7. CASE \E i \in Direct \cup Sources : Drain(i)
    BY <2>7 DEF Drain
  <2>8. QED
    BY <2>3, <2>4, <2>5, <2>6, <2>7 DEF Next, Puller
<1>4. s \notin teed => pos'[s] = pos[s]
  <2> SUFFICES ASSUME s \notin teed PROVE pos'[s] = pos[s]
    OBVIOUS
  <2>1. s \in Solo /\ pos \in [Solo -> Nat]
    BY DEF Solo, MergeType
  <2>2. CASE \E t \in Sources : PullNext(t)
    <3>1. PICK t \in Sources : PullNext(t)
      BY <2>2
    <3>2. t # s
      BY <3>1
    <3>3. QED
      BY <2>1, <3>1, <3>2 DEF PullNext, SourceNext
  <2>3. CASE ~\E t \in Sources : PullNext(t)
    BY <2>3 DEF Next, Broadcaster, Pull, Send, ReleaseSource, readerFrame, MergeConsumer, MergeNext,
       mergeFrame, MergeClose, MergeDrain, vars, pullVars, Puller, PullSend, PullExit, Consumer,
       ReadDirect, CloseDirect, Drain
  <2>4. QED
    BY <2>2, <2>3
<1>5. QED
  BY <1>1, <1>3, <1>4 DEF Yielded, Ended

LEMMA StaysOpen ==
  ASSUME CopyInv, [Next]_vars, NEW s \in teed, s \in Sources, s \notin closed, ~PullExit(s)
  PROVE  s \notin closed'
<1>1. s \notin Direct
  BY Bounds
<1>2. CASE \E t \in Sources : Puller(t)
  <2>1. PICK t \in Sources : Puller(t)
    BY <1>2
  <2>2. CASE PullExit(t)
    <3>1. t # s
      BY <2>2
    <3>2. closed' \in {closed, closed \cup {t}}
      BY <2>2 DEF PullExit, CopyClose, copyVars
    <3>3. QED
      BY <3>1, <3>2
  <2>3. CASE PullNext(t) \/ PullSend(t)
    BY <2>3 DEF PullNext, SourceNext, CopyNext, PullSend, copyVars
  <2>4. QED
    BY <2>1, <2>2, <2>3 DEF Puller
<1>3. CASE \E i \in Direct : Consumer(i)
  BY <1>1, <1>3 DEF Consumer, ReadDirect, CopyNext, CloseDirect, CopyClose
<1>4. CASE ~(\E t \in Sources : Puller(t)) /\ ~(\E i \in Direct : Consumer(i))
  BY <1>4 DEF Next, Broadcaster, Pull, Send, ReleaseSource, readerFrame, MergeConsumer, MergeNext,
     mergeFrame, MergeClose, MergeDrain, vars, copyVars, Drain
<1>5. QED
  BY <1>2, <1>3, <1>4

(***************************************************************************)
(* What the merge has returned and what it still queues.                   *)
(***************************************************************************)
LEMMA OutIs == \A s, n, t, m : Out(s, n) = Out(t, m) => s = t /\ n = m
BY DEF Out

LEMMA ItemIs == \A s, n, t, m : Item(s, n) = Item(t, m) => s = t /\ n = m
BY DEF Item, Value

LEMMA CameAppend ==
  ASSUME MergeType, NEW u \in Sources, NEW v \in Nat, mout' = Append(mout, Out(u, v))
  PROVE  \A s, n : Came(s, n)' <=> Came(s, n) \/ (s = u /\ n = v)
<1>1. Len(mout) \in Nat /\ Out(u, v) \in [src : Sources, v : Nat] /\ mout \in Seq([src : Sources, v : Nat])
  BY DEF MergeType, Out
<1>2. /\ Len(mout') = Len(mout) + 1 /\ mout'[Len(mout) + 1] = Out(u, v)
      /\ \A j \in 1..Len(mout) : mout'[j] = mout[j]
  BY <1>1, AppendProperties
<1>3. ASSUME NEW s, NEW n PROVE Came(s, n)' <=> Came(s, n) \/ (s = u /\ n = v)
  <2>1. ASSUME Came(s, n)' PROVE Came(s, n) \/ (s = u /\ n = v)
    <3>1. PICK j \in 1..Len(mout') : mout'[j] = Out(s, n)
      BY <2>1 DEF Came
    <3>2. CASE j \in 1..Len(mout)
      BY <1>2, <3>1, <3>2 DEF Came
    <3>3. CASE j = Len(mout) + 1
      BY <1>2, <3>1, <3>3, OutIs
    <3>4. QED
      BY <1>1, <1>2, <3>2, <3>3
  <2>2. ASSUME Came(s, n) PROVE Came(s, n)'
    <3>1. PICK j \in 1..Len(mout) : mout[j] = Out(s, n)
      BY <2>2 DEF Came
    <3>2. j \in 1..Len(mout') /\ mout'[j] = Out(s, n)
      BY <1>1, <1>2, <3>1
    <3>3. QED
      BY <3>2 DEF Came
  <2>3. ASSUME s = u, n = v PROVE Came(s, n)'
    <3>1. Len(mout) + 1 \in 1..Len(mout')
      BY <1>1, <1>2
    <3>2. QED
      BY <1>2, <2>3, <3>1 DEF Came
  <2>4. QED
    BY <2>1, <2>2, <2>3
<1>4. QED
  BY <1>3

LEMMA CameKept == ASSUME mout' = mout PROVE \A s, n : Came(s, n)' = Came(s, n)
BY DEF Came

LEMMA PassingKept ==
  ASSUME NEW s, Passing(s), Passed(s)' = Passed(s), Queue(s)' = Queue(s),
         \A n : Came(s, n)' = Came(s, n)
  PROVE  Passing(s)'
<1>1. \A n, k : Queued(s, n, k)' = Queued(s, n, k)
  BY DEF Queued
<1>2. QED
  BY <1>1 DEF Passing

(* A queue that grows.                                                     *)
LEMMA PassingGrows ==
  ASSUME CopyInv, MergeType, NEW s \in Sources, Passing(s), NEW it \in MergeItems, mout' = mout,
         Passed(s) \in Nat, Queue(s)' = Append(Queue(s), it),
         \/ Passed(s)' = Passed(s) /\ \A n \in 1..MaxLen : it # Item(s, n)
         \/ Passed(s)' = Passed(s) + 1 /\ it = Item(s, Passed(s) + 1)
  PROVE  Passing(s)'
<1>1. PICK q \in Seq(MergeItems), k \in Nat, P \in Nat : q = Queue(s) /\ k = Len(q) /\ P = Passed(s)
  BY SourceFacts
<1>2. /\ Len(Queue(s)') = k + 1 /\ Queue(s)'[k + 1] = it
      /\ \A p \in 1..k : Queue(s)'[p] = q[p]
  <2>1. /\ Len(Append(q, it)) = k + 1 /\ Append(q, it)[k + 1] = it
        /\ \A p \in 1..k : Append(q, it)[p] = q[p]
    BY <1>1, AppendProperties
  <2>2. QED
    BY <1>1, <2>1
<1>3. \A n : Came(s, n)' = Came(s, n)
  BY CameKept
<1>4. Passed(s)' \in {P, P + 1}
  BY <1>1
<1>5. \A j, n : j \in 0..k => (Queued(s, n, j)' <=> Queued(s, n, j))
  <2> SUFFICES ASSUME NEW j \in 0..k, NEW n PROVE Queued(s, n, j)' <=> Queued(s, n, j)
    OBVIOUS
  <2>1. \A p \in 1..j : p \in 1..k
    BY <1>1
  <2>2. QED
    BY <1>1, <1>2, <2>1 DEF Queued
<1>6. \A n : Queued(s, n, k) => Queued(s, n, k + 1)'
  <2> SUFFICES ASSUME NEW n, NEW p \in 1..k, q[p] = Item(s, n) PROVE Queued(s, n, k + 1)'
    BY <1>1 DEF Queued
  <2>1. p \in 1..(k + 1)
    BY <1>1
  <2>2. QED
    BY <1>1, <1>2, <2>1 DEF Queued
<1>7. ASSUME NEW n \in 1..Passed(s)' PROVE Came(s, n)' \/ Queued(s, n, k + 1)'
  <2>1. CASE n \in 1..P
    BY <1>1, <1>3, <1>6, <2>1 DEF Passing
  <2>2. CASE n = P + 1 /\ it = Item(s, P + 1)
    <3>1. k + 1 \in 1..(k + 1)
      BY <1>1
    <3>2. QED
      BY <1>2, <2>2, <3>1 DEF Queued
  <2>3. QED
    BY <1>1, <1>7, <2>1, <2>2
<1>8. \A n \in Nat : Came(s, n)' => n \in 1..Passed(s)'
  <2>1. \A n \in Nat : Came(s, n) => n \in 1..P
    BY <1>1 DEF Passing
  <2>2. QED
    BY <1>3, <1>4, <2>1
<1>9. ASSUME NEW p \in 1..Len(Queue(s)'), NEW v \in 1..MaxLen, Queue(s)'[p] = Item(s, v)
      PROVE  /\ v <= Passed(s)'
             /\ \A n \in 1..(v - 1) : Came(s, n)' \/ Queued(s, n, p - 1)'
             /\ \A n \in Nat : Came(s, n)' => n < v
             /\ \A r \in 1..(p - 1), w \in 1..MaxLen : Queue(s)'[r] = Item(s, w) => w < v
  <2>1. CASE p \in 1..k
    <3>1. q[p] = Item(s, v) /\ p - 1 \in 0..k /\ \A r \in 1..(p - 1) : r \in 1..k
      BY <1>1, <1>2, <1>9, <2>1
    <3>2. /\ v <= P /\ \A n \in 1..(v - 1) : Came(s, n) \/ Queued(s, n, p - 1)
          /\ \A n \in Nat : Came(s, n) => n < v
          /\ \A r \in 1..(p - 1), w \in 1..MaxLen : q[r] = Item(s, w) => w < v
      BY <1>1, <2>1, <3>1 DEF Passing
    <3>3. v <= Passed(s)'
      BY <1>4, <3>2
    <3>4. \A r \in 1..(p - 1), w \in 1..MaxLen : Queue(s)'[r] = Item(s, w) => w < v
      BY <1>2, <3>1, <3>2
    <3>5. QED
      BY <1>3, <1>5, <3>1, <3>2, <3>3, <3>4
  <2>2. CASE p = k + 1
    <3>1. Item(s, v) = it /\ it = Item(s, P + 1) /\ Passed(s)' = P + 1
      BY <1>1, <1>2, <1>9, <2>2
    <3>2. v = P + 1
      BY <3>1, ItemIs
    <3>3. p - 1 = k /\ k \in 0..k
      BY <1>1, <2>2
    <3>4. \A n \in 1..(v - 1) : Came(s, n)' \/ Queued(s, n, p - 1)'
      <4>1. \A n \in 1..P : Came(s, n) \/ Queued(s, n, k)
        BY <1>1 DEF Passing
      <4>2. v - 1 = P
        BY <3>2
      <4>3. QED
        BY <1>3, <1>5, <3>3, <4>1, <4>2
    <3>5. \A n \in Nat : Came(s, n)' => n < v
      <4>1. \A n \in Nat : Came(s, n) => n \in 1..P
        BY <1>1 DEF Passing
      <4>2. QED
        BY <1>3, <3>2, <4>1
    <3>6. \A r \in 1..(p - 1), w \in 1..MaxLen : Queue(s)'[r] = Item(s, w) => w < v
      <4>1. \A r \in 1..k, w \in 1..MaxLen : q[r] = Item(s, w) => w <= P
        BY <1>1 DEF Passing
      <4>2. \A r \in 1..k, w \in 1..MaxLen : Queue(s)'[r] = Item(s, w) => w <= P
        BY <1>2, <4>1
      <4>3. \A w \in 1..MaxLen : w <= P => w < v
        BY <3>2
      <4>4. QED
        BY <3>3, <4>2, <4>3
    <3>7. QED
      BY <3>1, <3>2, <3>4, <3>5, <3>6
  <2>3. QED
    BY <1>1, <1>2, <2>1, <2>2
<1>10. QED
  BY <1>2, <1>7, <1>8, <1>9 DEF Passing

(* A queue whose head is taken, and returned if it is a value of s.        *)
LEMMA PassingShrinks ==
  ASSUME CopyInv, MergeType, NEW s \in Sources, Passing(s), Passed(s) \in Nat, Passed(s) <= MaxLen,
         Passed(s)' = Passed(s), Queue(s) # << >>, Queue(s)' = Tail(Queue(s)),
         \A n \in Nat : Came(s, n)' <=> Came(s, n) \/ (n \in 1..MaxLen /\ Head(Queue(s)) = Item(s, n))
  PROVE  Passing(s)'
<1>1. PICK q \in Seq(MergeItems), k \in Nat, P \in Nat :
        q = Queue(s) /\ k = Len(q) /\ P = Passed(s) /\ k >= 1 /\ P <= MaxLen
  BY SourceFacts, EmptySeq
<1>2. /\ Head(q) = q[1] /\ Len(Queue(s)') = k - 1
      /\ \A p \in 1..(k - 1) : Queue(s)'[p] = q[p + 1]
  <2>1. q # << >>
    BY <1>1
  <2>2. Head(q) = q[1] /\ Len(Tail(q)) = Len(q) - 1 /\ \A p \in 1..Len(Tail(q)) : Tail(q)[p] = q[p + 1]
    BY <2>1, HeadTailProperties
  <2>3. QED
    BY <1>1, <2>2
<1>3. \A n \in Nat : Came(s, n)' <=> Came(s, n) \/ (n \in 1..MaxLen /\ q[1] = Item(s, n))
  BY <1>1, <1>2
<1>4. ASSUME NEW p \in 1..k, NEW n \in 1..MaxLen, q[p] = Item(s, n), NEW j \in 0..(k - 1), p <= j + 1
      PROVE  Came(s, n)' \/ Queued(s, n, j)'
  <2>1. CASE p = 1
    BY <1>3, <1>4, <2>1
  <2>2. CASE p # 1
    <3>1. p - 1 \in 1..j /\ p - 1 \in 1..(k - 1) /\ (p - 1) + 1 = p
      BY <1>1, <1>4, <2>2
    <3>2. Queue(s)'[p - 1] = Item(s, n)
      BY <1>2, <1>4, <3>1
    <3>3. QED
      BY <3>1, <3>2 DEF Queued
  <2>3. QED
    BY <2>1, <2>2
<1>5. ASSUME NEW n \in 1..P PROVE Came(s, n)' \/ Queued(s, n, k - 1)'
  <2>1. n \in Nat /\ n \in 1..MaxLen
    BY <1>1, Bounds
  <2>2. CASE Came(s, n)
    BY <1>3, <2>1, <2>2
  <2>3. CASE Queued(s, n, k)
    <3>1. PICK p \in 1..k : q[p] = Item(s, n)
      BY <1>1, <2>3 DEF Queued
    <3>2. k - 1 \in 0..(k - 1) /\ p <= (k - 1) + 1
      BY <1>1
    <3>3. QED
      BY <1>4, <2>1, <3>1, <3>2
  <2>4. QED
    BY <1>1, <2>2, <2>3 DEF Passing
<1>6. \A n \in 1..MaxLen : q[1] = Item(s, n) => n <= P
  BY <1>1 DEF Passing
<1>7. \A n \in Nat : Came(s, n)' => n \in 1..P
  <2>1. \A n \in Nat : Came(s, n) => n \in 1..P
    BY <1>1 DEF Passing
  <2>2. QED
    BY <1>1, <1>3, <1>6, <2>1
<1>8. ASSUME NEW p \in 1..(k - 1), NEW v \in 1..MaxLen, Queue(s)'[p] = Item(s, v)
      PROVE  /\ v <= P
             /\ \A n \in 1..(v - 1) : Came(s, n)' \/ Queued(s, n, p - 1)'
             /\ \A n \in Nat : Came(s, n)' => n < v
             /\ \A r \in 1..(p - 1), w \in 1..MaxLen : Queue(s)'[r] = Item(s, w) => w < v
  <2>1. p + 1 \in 1..k /\ q[p + 1] = Item(s, v) /\ (p + 1) - 1 = p
    BY <1>1, <1>2, <1>8
  <2>2. /\ v <= P /\ \A n \in 1..(v - 1) : Came(s, n) \/ Queued(s, n, p)
        /\ \A n \in Nat : Came(s, n) => n < v
        /\ \A r \in 1..p, w \in 1..MaxLen : q[r] = Item(s, w) => w < v
    BY <1>1, <2>1 DEF Passing
  <2>3. ASSUME NEW n \in 1..(v - 1) PROVE Came(s, n)' \/ Queued(s, n, p - 1)'
    <3>1. n \in Nat /\ n \in 1..MaxLen
      BY Bounds
    <3>2. CASE Came(s, n)
      BY <1>3, <3>1, <3>2
    <3>3. CASE Queued(s, n, p)
      <4>1. PICK r \in 1..p : q[r] = Item(s, n)
        BY <1>1, <3>3 DEF Queued
      <4>2. r \in 1..k /\ p - 1 \in 0..(k - 1) /\ r <= (p - 1) + 1
        BY <1>1, <2>1
      <4>3. QED
        BY <1>4, <3>1, <4>1, <4>2
    <3>4. QED
      BY <2>2, <3>2, <3>3
  <2>4. \A n \in Nat : Came(s, n)' => n < v
    <3>1. 1 \in 1..p
      OBVIOUS
    <3>2. QED
      BY <1>3, <2>2, <3>1
  <2>5. ASSUME NEW r \in 1..(p - 1), NEW w \in 1..MaxLen, Queue(s)'[r] = Item(s, w) PROVE w < v
    <3>1. r \in 1..(k - 1) /\ r + 1 \in 1..p
      BY <1>1
    <3>2. QED
      BY <1>2, <2>2, <2>5, <3>1
  <2>6. QED
    BY <2>2, <2>3, <2>4, <2>5
<1>9. QED
  BY <1>1, <1>2, <1>5, <1>7, <1>8 DEF Passing

(***************************************************************************)
(* The pullers.                                                            *)
(***************************************************************************)
LEMMA PassedFacts ==
  ASSUME CopyInv, MergeType, NEW s \in Sources, Pulling(s)
  PROVE  Passed(s) \in Nat /\ Passed(s) <= MaxLen
<1>1. Yielded(s) \in Nat /\ Yielded(s) <= MaxLen
  <2>1. Yielded(s) \in Nat /\ LenOf(s) \in Nat /\ Yielded(s) <= LenOf(s) /\ LenOf(s) <= MaxLen
    BY SourceFacts
  <2>2. QED
    BY <2>1, Bounds
<1>2. ppc[s] = "send" /\ hand[s].err = "none" => Yielded(s) >= 1
  BY FrameFacts DEF Pulling
<1>3. QED
  BY <1>1, <1>2, Bounds DEF Passed

LEMMA PullNextShape ==
  ASSUME CopyInv, MergeType, NEW s \in Sources, Pulling(s), PullNext(s)
  PROVE  /\ UNCHANGED <<shape, mbuf, readVars>> /\ ppc[s] = "next"
         /\ \/ /\ ppc' = [ppc EXCEPT ![s] = "send"] /\ hand' = [hand EXCEPT ![s] = Value(Yielded(s) + 1)]
               /\ Yielded(s)' = Yielded(s) + 1 /\ ~Ended(s)' /\ Yielded(s) + 1 <= LenOf(s)
            \/ /\ Yielded(s)' = Yielded(s) /\ Ended(s)'
               /\ \/ ppc' = [ppc EXCEPT ![s] = "exit"] /\ hand' = hand /\ EndOf(s) = "EOF"
                  \/ /\ ppc' = [ppc EXCEPT ![s] = "send"] /\ EndOf(s) = "failure"
                     /\ hand' = [hand EXCEPT ![s] = Failed("failure")]
<1>1. PICK f \in Frames :
        /\ SourceNext(s, f)
        /\ \/ f.err = "EOF" /\ ppc' = [ppc EXCEPT ![s] = "exit"] /\ hand' = hand
           \/ f.err # "EOF" /\ ppc' = [ppc EXCEPT ![s] = "send"] /\ hand' = [hand EXCEPT ![s] = f]
  BY DEF PullNext
<1>2. UNCHANGED <<shape, mbuf, readVars>> /\ ppc[s] = "next" /\ ~Ended(s)
  BY <1>1 DEF PullNext, SourceNext, CopyNext, broadcasterFrame, Pulling
<1>3. PICK y \in Nat : y = Yielded(s) /\ y <= LenOf(s)
  BY SourceFacts
<1>4. LenOf(s) \in Nat /\ EndOf(s) \in Errors
  BY SourceFacts
<1>5. \/ f = Value(y + 1) /\ y + 1 <= LenOf(s) /\ Yielded(s)' = y + 1 /\ ~Ended(s)'
      \/ f = Failed(EndOf(s)) /\ Yielded(s)' = y /\ Ended(s)'
  <2>1. CASE s \in teed
    <3>1. s \in Readers /\ CopyNext(s, f) /\ teed' = teed
      BY <1>1, <1>2, <2>1 DEF SourceNext, Solo, Readers, shape
    <3>2. /\ f = FrameOf(Src, Len(got[s]) + 1) /\ y = Len(got[s]) /\ LenOf(s) = len[Src] /\ EndOf(s) = end[Src]
          /\ got \in [Readers -> Seq(Nat)] /\ fin \in [Readers -> Errors \cup {"none"}]
      BY <1>3, <2>1, <3>1, NextGives DEF Yielded, LenOf, EndOf, CopyInv, CopyType
    <3>3. CASE y + 1 <= len[Src]
      <4>1. f = Value(y + 1) /\ f.err = "none" /\ f.v = y + 1
        BY <3>2, <3>3, SrcFrames, FrameFacts DEF CopyInv
      <4>2. fin'[s] = "none" /\ got'[s] = Append(got[s], y + 1)
        BY <3>1, <3>2, <4>1 DEF CopyNext
      <4>3. Len(got'[s]) = y + 1
        BY <3>1, <3>2, <4>2, AppendProperties
      <4>4. QED
        BY <2>1, <3>1, <3>2, <3>3, <4>1, <4>2, <4>3 DEF Yielded, Ended
    <3>4. CASE ~(y + 1 <= len[Src])
      <4>1. y + 1 > len[Src]
        BY <1>4, <3>2, <3>4
      <4>2. f = Failed(end[Src]) /\ f.err \in Errors
        BY <3>2, <4>1, SrcFrames DEF CopyInv
      <4>3. fin'[s] # "none" /\ got' = got
        BY <3>1, <3>2, <4>2, FrameFacts DEF CopyNext
      <4>4. QED
        BY <2>1, <3>1, <3>2, <4>2, <4>3 DEF Yielded, Ended
    <3>5. QED
      BY <3>3, <3>4
  <2>2. CASE s \notin teed
    <3>1. /\ s \in Solo /\ f = FrameOf(s, pos[s] + 1) /\ pos' = [pos EXCEPT ![s] = @ + 1]
          /\ pos \in [Solo -> Nat] /\ teed' = teed /\ len' = len
      BY <1>1, <1>2, <2>2 DEF SourceNext, Solo, MergeType, shape
    <3>2. pos[s] \in Nat /\ pos[s] <= len[s] /\ y = pos[s] /\ LenOf(s) = len[s] /\ EndOf(s) = end[s]
      <4>1. LenOf(s) = len[s] /\ EndOf(s) = end[s] /\ pos[s] \in Nat
        BY <2>2, <3>1 DEF LenOf, EndOf
      <4>2. pos[s] <= len[s]
        BY <1>2, <1>4, <2>2, <4>1 DEF Ended
      <4>3. QED
        BY <1>3, <2>2, <4>1, <4>2 DEF Yielded
    <3>3. pos'[s] = y + 1
      BY <3>1, <3>2
    <3>4. CASE y + 1 <= len[s]
      <4>1. pos'[s] <= len[s] /\ ~(pos'[s] > len[s]) /\ f = Value(y + 1)
        BY <1>4, <3>1, <3>2, <3>3, <3>4 DEF FrameOf
      <4>2. QED
        BY <2>2, <3>1, <3>2, <3>3, <3>4, <4>1 DEF Yielded, Ended
    <3>5. CASE ~(y + 1 <= len[s])
      <4>1. y = len[s] /\ pos'[s] > len[s] /\ ~(pos'[s] <= len[s]) /\ f = Failed(end[s])
        BY <1>4, <3>1, <3>2, <3>3, <3>5 DEF FrameOf
      <4>2. QED
        BY <2>2, <3>1, <3>2, <4>1 DEF Yielded, Ended
    <3>6. QED
      BY <3>4, <3>5
  <2>3. QED
    BY <2>1, <2>2
<1>6. CASE f = Value(y + 1) /\ y + 1 <= LenOf(s) /\ Yielded(s)' = y + 1 /\ ~Ended(s)'
  BY <1>1, <1>2, <1>3, <1>6, FrameFacts
<1>7. CASE f = Failed(EndOf(s)) /\ Yielded(s)' = y /\ Ended(s)'
  <2>1. f.err = EndOf(s)
    BY <1>7, FrameFacts
  <2>2. CASE EndOf(s) = "EOF"
    BY <1>1, <1>2, <1>3, <1>7, <2>1, <2>2
  <2>3. CASE EndOf(s) = "failure"
    BY <1>1, <1>2, <1>3, <1>7, <2>1, <2>3
  <2>4. QED
    BY <1>4, <2>2, <2>3, FrameFacts
<1>8. QED
  BY <1>5, <1>6, <1>7

(* A puller whose own state a step leaves alone.                           *)
LEMMA PullingKept ==
  ASSUME NEW s \in Sources, Pulling(s), ppc'[s] = ppc[s], hand'[s] = hand[s], teed' = teed,
         Yielded(s)' = Yielded(s), Ended(s)' = Ended(s), EndOf(s)' = EndOf(s),
         s \in teed /\ ppc[s] # "exited" /\ s \notin closed => s \notin closed',
         ~mclosed' => ~mclosed, mend = "failure" => mend' = "failure",
         ~mclosed' /\ (\E p \in 1..Len(Queue(s)) : Queue(s)[p] = Failure(s)) =>
            mend' = "failure" \/ \E p \in 1..Len(Queue(s)') : Queue(s)'[p] = Failure(s)
  PROVE  Pulling(s)'
BY DEF Pulling

LEMMA OutKept ==
  ASSUME MergeOrder, MergeDelivers, UNCHANGED <<shape, mout, mend>>
  PROVE  MergeOrder' /\ MergeDelivers'
<1>1. \A s : LenOf(s)' = LenOf(s) /\ EndOf(s)' = EndOf(s)
  BY SourceShape
<1>2. UNCHANGED <<ordered, mout, mend>>
  BY DEF shape
<1>3. MergeOrder'
  BY <1>1, <1>2 DEF MergeOrder, TurnBefore
<1>4. MergeDelivers'
  BY <1>1, <1>2 DEF MergeDelivers
<1>5. QED
  BY <1>3, <1>4

LEMMA LabelShape ==
  ASSUME UNCHANGED shape PROVE \A c, it : Labelled(c, it)' = Labelled(c, it)
BY SourceShape DEF Labelled

LEMMA QueueShape ==
  ASSUME UNCHANGED shape, NEW s, mbuf'[MergeChan(s)] = mbuf[MergeChan(s)] PROVE Queue(s)' = Queue(s)
BY SourceShape DEF Queue

(* Turning is about what came, the exhausted sources and their channels.   *)
LEMMA TurningKept ==
  ASSUME Turning, UNCHANGED <<shape, mout, cur, exhausted>>, ~mclosed' => ~mclosed,
         mend' = "none" => mend = "none",
         \A s \in exhausted : ordered /\ ppc[s] = "exited" /\ mbuf[s] = << >> =>
                                ppc'[s] = "exited" /\ mbuf'[s] = << >>
  PROVE  Turning'
<1>1. \A s : LenOf(s)' = LenOf(s)
  BY SourceShape
<1>2. \A s, n : Came(s, n)' = Came(s, n)
  BY CameKept
<1>3. \A r : Wheel(r, cur)' <=> Wheel(r, cur)
  BY <1>1, <1>2 DEF Wheel
<1>4. ordered' = ordered
  BY DEF shape
<1>5. QED
  BY <1>3, <1>4 DEF Turning

MergeSafe == MergeInv /\ MergeOrder /\ MergeDelivers

(* Steps of the Copy and its readers.                                      *)
LEMMA QuietStep ==
  ASSUME CopyInv, MergeSafe, [Next]_vars, UNCHANGED <<ppc, hand, pos, mbuf, readVars>>
  PROVE  MergeSafe'
<1>1. UNCHANGED <<shape, teed, mclosed, cur, exhausted, mout, mend>>
  BY StepShape DEF shape, readVars
<1>2. Solo' = Solo /\ MergeType /\ Labels
  BY <1>1, ShapeKept DEF MergeSafe, MergeInv
<1>3. MergeType'
  BY <1>1, <1>2 DEF MergeType
<1>4. Labels'
  BY <1>1, <1>2, LabelShape DEF Labels
<1>5. ASSUME NEW s \in Sources
      PROVE  /\ Yielded(s)' = Yielded(s) /\ Ended(s)' = Ended(s) /\ Queue(s)' = Queue(s)
             /\ EndOf(s)' = EndOf(s) /\ (s \in teed /\ s \notin closed => s \notin closed')
  <2>1. ~PullNext(s) /\ ~PullExit(s)
    BY <1>2 DEF PullNext, PullExit, MergeType
  <2>2. Yielded(s)' = Yielded(s) /\ Ended(s)' = Ended(s)
    BY <1>2, <2>1, SourceKept
  <2>3. s \in teed /\ s \notin closed => s \notin closed'
    BY <2>1, StaysOpen
  <2>4. QED
    BY <1>1, <2>2, <2>3, QueueShape, SourceShape
<1>6. ASSUME NEW s \in Sources PROVE Pulling(s)'
  BY <1>1, <1>5, PullingKept DEF MergeSafe, MergeInv
<1>7. ASSUME ~mclosed', NEW s \in Sources PROVE Passing(s)'
  <2>1. Passed(s)' = Passed(s)
    BY <1>5 DEF Passed
  <2>2. Passing(s) /\ \A n : Came(s, n)' = Came(s, n)
    BY <1>1, <1>7, CameKept DEF MergeSafe, MergeInv
  <2>3. QED
    BY <1>5, <2>1, <2>2, PassingKept
<1>8. Turning'
  BY <1>1, TurningKept DEF MergeSafe, MergeInv
<1>9. MergeOrder' /\ MergeDelivers'
  BY <1>1, OutKept DEF MergeSafe
<1>10. QED
  BY <1>3, <1>4, <1>6, <1>7, <1>8, <1>9 DEF MergeSafe, MergeInv

LEMMA PullNextStep ==
  ASSUME CopyInv, MergeSafe, Next, NEW s \in Sources, PullNext(s) PROVE MergeSafe'
<1> USE DEF MergeSafe, MergeInv
<1>1. /\ UNCHANGED <<shape, teed, mbuf, mclosed, cur, exhausted, mout, mend>> /\ ppc[s] = "next"
      /\ MergeType /\ Labels /\ Pulling(s)
  BY PullNextShape DEF shape, readVars
<1>2. PICK y \in Nat : y = Yielded(s) /\ y <= LenOf(s)
  BY <1>1, SourceFacts
<1>3. LenOf(s) \in Nat /\ LenOf(s) <= MaxLen /\ MaxLen \in Nat /\ EndOf(s)' = EndOf(s)
  BY <1>1, SourceFacts, SourceShape, Bounds
<1>4. /\ ppc' \in [Sources -> {"next", "send", "exit", "exited"}]
      /\ hand' \in [Sources -> Frames \cup {Nothing}]
      /\ \A t \in Sources : t # s => ppc'[t] = ppc[t] /\ hand'[t] = hand[t]
      /\ ppc'[s] \in {"send", "exit"}
  <2>1. y + 1 <= LenOf(s) => Value(y + 1) \in Frames
    BY <1>2, <1>3 DEF Frames
  <2>2. Failed("failure") \in Frames
    BY DEF Frames, Errors
  <2>3. ppc \in [Sources -> {"next", "send", "exit", "exited"}] /\ hand \in [Sources -> Frames \cup {Nothing}]
    BY <1>1 DEF MergeType
  <2>4. QED
    BY <1>1, <1>2, <2>1, <2>2, <2>3, PullNextShape
<1>5. Pulling(s)' /\ Passed(s)' = Passed(s)
  <2>1. s \in teed => s \notin closed'
    <3>1. ~PullExit(s)
      BY <1>1 DEF PullExit
    <3>2. s \in teed => s \notin closed
      BY <1>1 DEF Pulling
    <3>3. QED
      BY <3>1, <3>2, StaysOpen
  <2>2. Passed(s) = y /\ ppc \in [Sources -> {"next", "send", "exit", "exited"}]
        /\ hand \in [Sources -> Frames \cup {Nothing}]
    BY <1>1, <1>2 DEF Passed, MergeType
  <2>3. CASE /\ ppc' = [ppc EXCEPT ![s] = "send"] /\ hand' = [hand EXCEPT ![s] = Value(Yielded(s) + 1)]
             /\ Yielded(s)' = Yielded(s) + 1 /\ ~Ended(s)'
    <3>1. ppc'[s] = "send" /\ hand'[s] = Value(y + 1) /\ Yielded(s)' = y + 1 /\ y + 1 >= 1 /\ (y + 1) - 1 = y
      BY <1>2, <2>2, <2>3
    <3>2. hand'[s].err = "none"
      BY <3>1, FrameFacts
    <3>3. QED
      BY <1>1, <2>1, <2>2, <2>3, <3>1, <3>2 DEF Pulling, Passed
  <2>4. CASE ppc' = [ppc EXCEPT ![s] = "exit"] /\ Yielded(s)' = Yielded(s) /\ Ended(s)' /\ EndOf(s) = "EOF"
    BY <1>1, <1>2, <1>3, <2>1, <2>2, <2>4 DEF Pulling, Passed
  <2>5. CASE /\ ppc' = [ppc EXCEPT ![s] = "send"] /\ EndOf(s) = "failure"
             /\ hand' = [hand EXCEPT ![s] = Failed("failure")] /\ Yielded(s)' = Yielded(s) /\ Ended(s)'
    <3>1. ppc'[s] = "send" /\ hand'[s] = Failed("failure") /\ hand'[s].err # "none"
      BY <2>2, <2>5, FrameFacts
    <3>2. QED
      BY <1>1, <1>2, <1>3, <2>1, <2>2, <2>5, <3>1 DEF Pulling, Passed
  <2>6. QED
    BY <1>1, <2>3, <2>4, <2>5, PullNextShape
<1>6. MergeType' /\ Labels'
  <2>1. pos' \in [Solo' -> Nat]
    <3>1. pos \in [Solo -> Nat] /\ Solo' = Solo
      BY <1>1, ShapeKept DEF MergeType
    <3>2. pos' = pos \/ (s \in Solo /\ pos' = [pos EXCEPT ![s] = @ + 1])
      BY DEF PullNext, SourceNext
    <3>3. pos[s] \in Nat \/ s \notin Solo
      BY <3>1
    <3>4. QED
      BY <3>1, <3>2, <3>3
  <2>2. MergeType'
    BY <1>1, <1>4, <2>1 DEF MergeType
  <2>3. QED
    BY <1>1, <2>2, LabelShape DEF Labels
<1>7. ASSUME NEW t \in Sources, t # s
      PROVE  Pulling(t)' /\ Passed(t)' = Passed(t)
  <2>1. ~PullNext(t) /\ ~PullExit(t)
    BY <1>1, <1>4, <1>7 DEF PullNext, PullExit, MergeType
  <2>2. Yielded(t)' = Yielded(t) /\ Ended(t)' = Ended(t)
    BY <1>1, <2>1, SourceKept
  <2>3. t \in teed /\ t \notin closed => t \notin closed'
    BY <2>1, StaysOpen
  <2>4. Queue(t)' = Queue(t) /\ EndOf(t)' = EndOf(t)
    BY <1>1, QueueShape, SourceShape
  <2>5. Pulling(t)'
    BY <1>1, <1>4, <1>7, <2>2, <2>3, <2>4, PullingKept
  <2>6. QED
    BY <1>4, <1>7, <2>2, <2>5 DEF Passed
<1>8. ASSUME ~mclosed', NEW t \in Sources PROVE Passing(t)'
  <2>1. Passed(t)' = Passed(t)
    BY <1>5, <1>7
  <2>2. Queue(t)' = Queue(t) /\ Passing(t) /\ \A n : Came(t, n)' = Came(t, n)
    BY <1>1, <1>8, QueueShape, CameKept
  <2>3. QED
    BY <2>1, <2>2, PassingKept
<1>9. Turning'
  <2>1. \A t \in exhausted : ppc[t] = "exited" => ppc'[t] = "exited"
    BY <1>1, <1>4 DEF MergeType
  <2>2. QED
    BY <1>1, <2>1, TurningKept
<1>10. MergeOrder' /\ MergeDelivers'
  BY <1>1, OutKept
<1>11. QED
  BY <1>5, <1>6, <1>7, <1>8, <1>9, <1>10

LEMMA ItemTypes ==
  /\ \A s \in Sources : \A n \in 1..MaxLen : Item(s, n) \in MergeItems
  /\ \A s \in Sources : Failure(s) \in MergeItems
  /\ \A s, t, n : Failure(s) # Item(t, n) /\ (Failure(s) = Failure(t) => s = t)
BY DEF Item, Failure, MergeItems, Frames, Failed, Value, Errors

(* The frame in hand is sent.                                              *)
LEMMA PullSendStep ==
  ASSUME CopyInv, MergeSafe, Next, NEW s \in Sources, PullSend(s) PROVE MergeSafe'
<1> USE DEF MergeSafe, MergeInv
<1>1. /\ UNCHANGED <<shape, teed, ordered, pos, mclosed, cur, exhausted, mout, mend, closed>> /\ ppc[s] = "send"
      /\ MergeType /\ Labels /\ Pulling(s) /\ hand' = [hand EXCEPT ![s] = Nothing]
  BY DEF PullSend, shape, readVars, copyVars
<1>2. /\ ppc \in [Sources -> {"next", "send", "exit", "exited"}] /\ hand \in [Sources -> Frames \cup {Nothing}]
      /\ mbuf \in [MergeChans -> Seq(MergeItems)] /\ \A c \in MergeChans : Len(mbuf[c]) <= BufSize
  BY <1>1 DEF MergeType
<1>3. PICK y \in Nat : y = Yielded(s) /\ y <= MaxLen
  <2>1. Yielded(s) \in Nat /\ LenOf(s) \in Nat /\ Yielded(s) <= LenOf(s) /\ LenOf(s) <= MaxLen
    BY <1>1, SourceFacts
  <2>2. QED
    BY <2>1, Bounds
<1>4. PICK it \in MergeItems : /\ it = [src |-> s, frame |-> hand[s]]
                               /\ \/ it = Item(s, y) /\ y >= 1 /\ ~Ended(s) /\ hand[s].err = "none"
                                  \/ it = Failure(s) /\ EndOf(s) = "failure" /\ Ended(s) /\ hand[s].err # "none"
  <2>1. CASE hand[s] = Value(Yielded(s)) /\ Yielded(s) >= 1 /\ ~Ended(s)
    <3>1. y \in 1..MaxLen
      BY <1>3, <2>1, Bounds
    <3>2. [src |-> s, frame |-> hand[s]] = Item(s, y) /\ hand[s].err = "none"
      BY <1>3, <2>1, FrameFacts DEF Item
    <3>3. QED
      BY <1>3, <2>1, <3>1, <3>2, ItemTypes
  <2>2. CASE hand[s] = Failed("failure") /\ EndOf(s) = "failure" /\ Ended(s)
    <3>1. [src |-> s, frame |-> hand[s]] = Failure(s) /\ hand[s].err # "none"
      BY <2>2, FrameFacts DEF Failure
    <3>2. QED
      BY <2>2, <3>1, ItemTypes
  <2>3. QED
    BY <1>1, <2>1, <2>2 DEF Pulling
<1>5. MergeChan(s) \in MergeChans /\ (s \in teed => s \notin closed)
  BY <1>1, SourceFacts DEF Pulling
<1>6. /\ hand' \in [Sources -> Frames \cup {Nothing}] /\ hand'[s] = Nothing
      /\ \A t \in Sources : t # s => hand'[t] = hand[t] /\ ppc'[t] = ppc[t]
      /\ ppc' \in [Sources -> {"next", "send", "exit", "exited"}] /\ ppc'[s] \in {"next", "exit"}
  BY <1>1, <1>2 DEF PullSend
<1>7. ASSUME NEW t \in Sources
      PROVE  /\ Yielded(t)' = Yielded(t) /\ Ended(t)' = Ended(t) /\ EndOf(t)' = EndOf(t)
             /\ MergeChan(t)' = MergeChan(t) /\ (t # s => Passed(t)' = Passed(t))
  <2>1. ~PullNext(t)
    BY <1>1, <1>2, <1>6 DEF PullNext
  <2>2. Yielded(t)' = Yielded(t) /\ Ended(t)' = Ended(t)
    BY <1>1, <2>1, SourceKept
  <2>3. QED
    BY <1>1, <1>6, <2>2, SourceShape DEF Passed
<1>8. Passed(s)' = y
  BY <1>3, <1>6, <1>7 DEF Passed
<1>9. \A t, n : Came(t, n)' = Came(t, n)
  BY <1>1, CameKept
<1>10. MergeOrder' /\ MergeDelivers'
  BY <1>1, OutKept
<1>11. CASE mclosed /\ ppc' = [ppc EXCEPT ![s] = "exit"] /\ mbuf' = mbuf
  <2>1. MergeType' /\ Labels'
    <3>1. Solo' = Solo
      BY <1>1, ShapeKept
    <3>2. QED
      BY <1>1, <1>6, <1>11, <3>1, LabelShape DEF MergeType, Labels
  <2>2. Pulling(s)'
    BY <1>1, <1>2, <1>5, <1>11 DEF Pulling
  <2>3. ASSUME NEW t \in Sources, t # s PROVE Pulling(t)'
    BY <1>1, <1>6, <1>7, <1>11, <2>3, PullingKept
  <2>4. Turning'
    BY <1>1, <1>11 DEF Turning
  <2>5. QED
    BY <1>1, <1>10, <1>11, <2>1, <2>2, <2>3, <2>4
<1>12. CASE /\ HasRoom(mbuf[MergeChan(s)])
            /\ mbuf' = [mbuf EXCEPT ![MergeChan(s)] = Append(@, it)]
            /\ ppc' = [ppc EXCEPT ![s] = IF hand[s].err = "none" THEN "next" ELSE "exit"]
  <2>1. PICK c \in MergeChans : c = MergeChan(s)
    BY <1>5
  <2>2. PICK q \in Seq(MergeItems), k \in Nat : q = mbuf[c] /\ k = Len(q) /\ k < BufSize
    BY <1>2, <1>12, <2>1 DEF HasRoom
  <2>3. /\ Append(q, it) \in Seq(MergeItems) /\ Len(Append(q, it)) = k + 1 /\ Append(q, it)[k + 1] = it
        /\ \A p \in 1..k : Append(q, it)[p] = q[p]
    BY <2>2, AppendProperties
  <2>4. mbuf'[c] = Append(q, it) /\ \A d \in MergeChans : d # c => mbuf'[d] = mbuf[d]
    BY <1>2, <1>12, <2>1, <2>2
  <2>5. MergeType'
    <3>1. mbuf' \in [MergeChans -> Seq(MergeItems)]
      BY <1>2, <1>12, <2>1, <2>2, <2>3
    <3>2. ASSUME NEW d \in MergeChans PROVE Len(mbuf'[d]) <= BufSize
      BY <1>2, <2>2, <2>3, <2>4, Bounds
    <3>3. Solo' = Solo
      BY <1>1, ShapeKept
    <3>4. QED
      BY <1>1, <1>6, <3>1, <3>2, <3>3 DEF MergeType
  <2>6. Labels'
    <3>1. Labelled(c, it)
      <4>1. y >= 1 => y \in 1..MaxLen
        BY <1>3, Bounds
      <4>2. QED
        BY <1>4, <2>1, <4>1 DEF Labelled
    <3>2. ASSUME NEW d \in MergeChans, NEW p \in 1..Len(mbuf'[d]) PROVE Labelled(d, mbuf'[d][p])
      <4>1. CASE d # c
        BY <1>1, <2>4, <4>1 DEF Labels
      <4>2. CASE d = c /\ p \in 1..k
        BY <1>1, <2>2, <2>3, <2>4, <4>2 DEF Labels
      <4>3. CASE d = c /\ p = k + 1
        BY <2>3, <2>4, <3>1, <4>3
      <4>4. d = c => p \in 1..k \/ p = k + 1
        BY <2>3, <2>4
      <4>5. QED
        BY <4>1, <4>2, <4>3, <4>4
    <3>3. QED
      BY <1>1, <3>2, LabelShape DEF Labels
  <2>7. ASSUME NEW t \in Sources
        PROVE  \/ MergeChan(t) = c /\ Queue(t) = q /\ Queue(t)' = Append(q, it)
               \/ MergeChan(t) # c /\ Queue(t)' = Queue(t) /\ t # s
    <3>1. MergeChan(t) \in MergeChans /\ MergeChan(t)' = MergeChan(t)
      BY <1>1, <1>7, SourceFacts
    <3>2. QED
      BY <2>1, <2>2, <2>4, <3>1 DEF Queue
  <2>8. ASSUME NEW t \in Sources, NEW p \in 1..Len(Queue(t)), Queue(t)[p] = Failure(t)
        PROVE  \E r \in 1..Len(Queue(t)') : Queue(t)'[r] = Failure(t)
    <3>1. CASE Queue(t) = q /\ Queue(t)' = Append(q, it)
      <4>1. p \in 1..k /\ p \in 1..(k + 1)
        BY <2>2, <3>1
      <4>2. QED
        BY <2>3, <2>8, <3>1, <4>1
    <3>2. QED
      BY <2>7, <2>8, <3>1
  <2>9. ASSUME NEW t \in Sources, t # s PROVE Pulling(t)'
    BY <1>1, <1>6, <1>7, <2>8, <2>9, PullingKept
  <2>10. Pulling(s)'
    <3>1. CASE hand[s].err = "none"
      BY <1>1, <1>2, <1>4, <1>5, <1>7, <1>12, <3>1 DEF Pulling
    <3>2. CASE hand[s].err # "none"
      <4>1. ppc'[s] = "exit" /\ it = Failure(s) /\ Ended(s)'
        BY <1>2, <1>4, <1>7, <1>12, <3>2
      <4>2. k + 1 \in 1..Len(Queue(s)') /\ Queue(s)'[k + 1] = Failure(s)
        BY <2>1, <2>2, <2>3, <2>7, <4>1
      <4>3. QED
        BY <1>1, <1>5, <4>1, <4>2 DEF Pulling
    <3>3. QED
      BY <3>1, <3>2
  <2>11. ASSUME ~mclosed', NEW t \in Sources PROVE Passing(t)'
    <3>1. Passing(t) /\ Passed(t) \in Nat
      BY <1>1, <2>11, PassedFacts
    <3>2. CASE MergeChan(t) # c
      <4>1. Queue(t)' = Queue(t) /\ Passed(t)' = Passed(t)
        BY <1>7, <2>7, <3>2
      <4>2. QED
        BY <1>9, <3>1, <4>1, PassingKept
    <3>3. CASE MergeChan(t) = c
      <4>1. Queue(t)' = Append(Queue(t), it)
        BY <2>7, <3>3
      <4>2. \/ Passed(t)' = Passed(t) /\ \A n \in 1..MaxLen : it # Item(t, n)
            \/ Passed(t)' = Passed(t) + 1 /\ it = Item(t, Passed(t) + 1)
        <5>1. CASE t # s
          BY <1>4, <1>7, <5>1, ItemIs, ItemTypes
        <5>2. CASE t = s /\ hand[s].err = "none"
          <6>1. Passed(s) = y - 1 /\ Passed(s)' = y /\ (y - 1) + 1 = y
            BY <1>1, <1>3, <1>8, <5>2 DEF Passed
          <6>2. QED
            BY <1>4, <5>2, <6>1
        <5>3. CASE t = s /\ hand[s].err # "none"
          BY <1>3, <1>4, <1>8, <5>3, ItemTypes DEF Passed
        <5>4. QED
          BY <5>1, <5>2, <5>3
      <4>3. QED
        BY <1>1, <3>1, <4>1, <4>2, PassingGrows
    <3>4. QED
      BY <3>2, <3>3
  <2>12. Turning'
    <3>1. ASSUME NEW t \in exhausted, ordered, ppc[t] = "exited", mbuf[t] = << >>
          PROVE  ppc'[t] = "exited" /\ mbuf'[t] = << >>
      <4>1. t \in Sources /\ t # s /\ t \in MergeChans
        BY <1>1, <3>1 DEF MergeType, MergeChans
      <4>2. c = s
        BY <2>1, <3>1 DEF MergeChan
      <4>3. QED
        BY <1>6, <2>4, <3>1, <4>1, <4>2
    <3>2. QED
      BY <1>1, <3>1, TurningKept
  <2>13. QED
    BY <1>1, <1>10, <2>5, <2>6, <2>9, <2>10, <2>11, <2>12
<1>13. QED
  BY <1>4, <1>11, <1>12 DEF PullSend

LEMMA PullExitStep ==
  ASSUME CopyInv, MergeSafe, Next, NEW s \in Sources, PullExit(s) PROVE MergeSafe'
<1> USE DEF MergeSafe, MergeInv
<1>1. /\ UNCHANGED <<shape, teed, hand, pos, mbuf, mclosed, cur, exhausted, mout, mend>>
      /\ ppc[s] = "exit" /\ MergeType /\ Labels /\ Pulling(s) /\ ppc' = [ppc EXCEPT ![s] = "exited"]
  BY StepShape DEF PullExit, shape, readVars
<1>2. /\ ppc' \in [Sources -> {"next", "send", "exit", "exited"}] /\ ppc'[s] = "exited"
      /\ \A t \in Sources : t # s => ppc'[t] = ppc[t]
  BY <1>1 DEF MergeType
<1>3. MergeType' /\ Labels'
  <2>1. Solo' = Solo
    BY <1>1, ShapeKept
  <2>2. QED
    BY <1>1, <1>2, <2>1, LabelShape DEF MergeType, Labels
<1>4. ASSUME NEW t \in Sources
      PROVE  /\ Yielded(t)' = Yielded(t) /\ Ended(t)' = Ended(t) /\ EndOf(t)' = EndOf(t)
             /\ Queue(t)' = Queue(t) /\ Passed(t)' = Passed(t)
  <2>1. ~PullNext(t)
    BY <1>1, <1>2 DEF PullNext, MergeType
  <2>2. Yielded(t)' = Yielded(t) /\ Ended(t)' = Ended(t)
    BY <1>1, <2>1, SourceKept
  <2>3. Queue(t)' = Queue(t) /\ EndOf(t)' = EndOf(t)
    BY <1>1, QueueShape, SourceShape
  <2>4. QED
    BY <1>1, <1>2, <2>2, <2>3 DEF Passed
<1>5. Pulling(s)'
  BY <1>1, <1>2, <1>4 DEF Pulling
<1>6. ASSUME NEW t \in Sources, t # s PROVE Pulling(t)'
  <2>1. ~PullExit(t)
    BY <1>2, <1>6 DEF PullExit, MergeType
  <2>2. t \in teed /\ t \notin closed => t \notin closed'
    BY <2>1, StaysOpen
  <2>3. QED
    BY <1>1, <1>2, <1>4, <1>6, <2>2, PullingKept
<1>7. ASSUME ~mclosed', NEW t \in Sources PROVE Passing(t)'
  <2>1. Passing(t) /\ \A n : Came(t, n)' = Came(t, n)
    BY <1>1, <1>7, CameKept
  <2>2. QED
    BY <1>4, <2>1, PassingKept
<1>8. Turning'
  <2>1. \A t \in exhausted : ppc[t] = "exited" => ppc'[t] = "exited"
    BY <1>1, <1>2 DEF MergeType
  <2>2. QED
    BY <1>1, <2>1, TurningKept
<1>9. MergeOrder' /\ MergeDelivers'
  BY <1>1, OutKept
<1>10. QED
  BY <1>3, <1>5, <1>6, <1>7, <1>8, <1>9

(* The head of a channel is taken.                                         *)
LEMMA TailQueues ==
  ASSUME MergeType, Labels, UNCHANGED shape, NEW c \in MergeChans, mbuf[c] # << >>,
         mbuf' = [mbuf EXCEPT ![c] = Tail(@)]
  PROVE  /\ mbuf' \in [MergeChans -> Seq(MergeItems)] /\ \A d \in MergeChans : Len(mbuf'[d]) <= BufSize
         /\ Labels' /\ Labelled(c, Head(mbuf[c]))
         /\ mbuf'[c] = Tail(mbuf[c]) /\ \A d \in MergeChans : d # c => mbuf'[d] = mbuf[d]
         /\ \A p \in 1..Len(mbuf[c]) : mbuf[c][p] = Head(mbuf[c]) \/ \E r \in 1..Len(mbuf'[c]) : mbuf'[c][r] = mbuf[c][p]
<1>1. mbuf \in [MergeChans -> Seq(MergeItems)]
  BY DEF MergeType
<1>2. PICK q \in Seq(MergeItems), k \in Nat : q = mbuf[c] /\ k = Len(q) /\ k <= BufSize /\ k >= 1
  BY <1>1, EmptySeq DEF MergeType
<1>3. /\ Tail(q) \in Seq(MergeItems) /\ Len(Tail(q)) = k - 1 /\ \A p \in 1..(k - 1) : Tail(q)[p] = q[p + 1]
      /\ Head(q) = q[1]
  <2>1. q # << >>
    BY <1>2
  <2>2. Tail(q) \in Seq(MergeItems) /\ Len(Tail(q)) = Len(q) - 1 /\ Head(q) = q[1]
        /\ \A p \in 1..Len(Tail(q)) : Tail(q)[p] = q[p + 1]
    BY <2>1, HeadTailProperties
  <2>3. QED
    BY <1>2, <2>2
<1>4. mbuf'[c] = Tail(q) /\ \A d \in MergeChans : d # c => mbuf'[d] = mbuf[d]
  BY <1>1, <1>2
<1>5. mbuf' \in [MergeChans -> Seq(MergeItems)]
  BY <1>1, <1>2, <1>3
<1>6. ASSUME NEW d \in MergeChans PROVE Len(mbuf'[d]) <= BufSize
  BY <1>2, <1>3, <1>4, Bounds DEF MergeType
<1>7. \A p \in 1..k : Labelled(c, q[p])
  BY <1>2 DEF Labels
<1>8. Labels'
  <2>1. ASSUME NEW d \in MergeChans, NEW p \in 1..Len(mbuf'[d]) PROVE Labelled(d, mbuf'[d][p])
    <3>1. CASE d # c
      BY <1>4, <3>1 DEF Labels
    <3>2. CASE d = c
      <4>1. Len(mbuf'[d]) = k - 1
        BY <1>3, <1>4, <3>2
      <4>2. p \in 1..(k - 1)
        BY <4>1
      <4>3. p + 1 \in 1..k
        BY <1>2, <4>2
      <4>4. QED
        BY <1>3, <1>4, <1>7, <3>2, <4>2, <4>3
    <3>3. QED
      BY <3>1, <3>2
  <2>2. QED
    BY <2>1, LabelShape DEF Labels
<1>9. ASSUME NEW p \in 1..k, p # 1 PROVE \E r \in 1..Len(mbuf'[c]) : mbuf'[c][r] = q[p]
  <2>1. p - 1 \in 1..(k - 1) /\ (p - 1) + 1 = p
    BY <1>2, <1>9
  <2>2. Len(mbuf'[c]) = k - 1 /\ mbuf'[c][p - 1] = q[p]
    BY <1>3, <1>4, <2>1
  <2>3. QED
    BY <2>1, <2>2
<1>10. QED
  BY <1>2, <1>3, <1>4, <1>5, <1>6, <1>7, <1>8, <1>9

(* Close of the merge, and its drains: what was returned stands.           *)
LEMMA MergeStops ==
  ASSUME CopyInv, MergeSafe, Next, MergeClose \/ \E c \in MergeChans : MergeDrain(c) PROVE MergeSafe'
<1> USE DEF MergeSafe, MergeInv
<1>1. /\ UNCHANGED <<shape, teed, ppc, hand, pos, cur, exhausted, mout, mend, closed>> /\ mclosed' = TRUE
      /\ MergeType /\ Labels
      /\ mbuf' = mbuf \/ \E c \in MergeChans : mbuf[c] # << >> /\ mbuf' = [mbuf EXCEPT ![c] = Tail(@)]
  BY DEF MergeClose, MergeDrain, shape, copyVars, pullVars, readVars, MergeType
<1>2. mbuf \in [MergeChans -> Seq(MergeItems)] /\ Solo' = Solo
  BY <1>1, ShapeKept DEF MergeType
<1>3. MergeType' /\ Labels'
  <2>1. CASE mbuf' = mbuf
    BY <1>1, <1>2, <2>1, LabelShape DEF MergeType, Labels
  <2>2. ASSUME NEW c \in MergeChans, mbuf[c] # << >>, mbuf' = [mbuf EXCEPT ![c] = Tail(@)]
        PROVE  MergeType' /\ Labels'
    BY <1>1, <1>2, <2>2, TailQueues DEF MergeType
  <2>3. QED
    BY <1>1, <2>1, <2>2
<1>4. ASSUME NEW s \in Sources PROVE Pulling(s)'
  <2>1. ~PullNext(s)
    BY <1>1 DEF PullNext, MergeType
  <2>2. Yielded(s)' = Yielded(s) /\ Ended(s)' = Ended(s) /\ EndOf(s)' = EndOf(s)
    BY <1>1, <2>1, SourceKept, SourceShape
  <2>3. QED
    BY <1>1, <2>2, PullingKept
<1>5. Turning' /\ MergeOrder' /\ MergeDelivers'
  BY <1>1, OutKept DEF Turning
<1>6. QED
  BY <1>1, <1>3, <1>4, <1>5

(***************************************************************************)
(* The reader of the merge.                                                *)
(***************************************************************************)
(* All of a source whose puller has gone and whose queue is empty came out. *)
LEMMA AllCame ==
  ASSUME CopyInv, MergeSafe, ~mclosed, mend = "none", NEW s \in Sources,
         ppc[s] = "exited", Queue(s) = << >>
  PROVE  EndOf(s) = "EOF" /\ \A n \in 1..LenOf(s) : Came(s, n)
<1>1. MergeType /\ Pulling(s) /\ Passing(s)
  BY DEF MergeSafe, MergeInv
<1>2. Len(Queue(s)) = 0
  OBVIOUS
<1>3. Ended(s) /\ EndOf(s) = "EOF"
  BY <1>1, <1>2 DEF Pulling
<1>4. Passed(s) = LenOf(s)
  BY <1>1, <1>3, SourceFacts DEF Passed
<1>5. \A n : ~Queued(s, n, 0)
  BY DEF Queued
<1>6. QED
  BY <1>1, <1>2, <1>3, <1>4, <1>5 DEF Passing

LEMMA PickedIs ==
  ASSUME MergeType, ordered => Unexhausted # {}
  PROVE  /\ Picked \in MergeChans /\ (~ordered => Picked = 0)
         /\ ordered => /\ Picked \in Sources \ exhausted
                       /\ \/ Picked >= cur /\ \A s \in Sources : cur <= s /\ s < Picked => s \in exhausted
                          \/ /\ \A s \in Sources : s >= cur => s \in exhausted
                             /\ \A s \in Sources : s < Picked => s \in exhausted
<1>1. Sources \subseteq Nat /\ cur \in Nat
  BY Bounds DEF MergeType
<1>2. CASE ~ordered
  BY <1>2 DEF Picked, MergeChans
<1>3. CASE ordered /\ \E s \in Unexhausted : s >= cur
  <2> DEFINE S == {s \in Unexhausted : s >= cur}
  <2>1. S \in SUBSET Nat /\ S # {} /\ Picked = Min(S)
    BY <1>1, <1>3 DEF Unexhausted, Picked
  <2>2. PICK m \in S : m = Min(S) /\ \A y \in S : m <= y
    BY <2>1, MinIs
  <2>3. ASSUME NEW s \in Sources, cur <= s, s < m PROVE s \in exhausted
    <3> SUFFICES ASSUME s \notin exhausted PROVE FALSE
      OBVIOUS
    <3>1. s \in S
      BY <1>1, <2>3 DEF Unexhausted
    <3>2. m <= s /\ s \in Nat /\ m \in Nat
      BY <1>1, <2>2, <3>1 DEF Unexhausted
    <3>3. QED
      BY <2>3, <3>2
  <2>4. QED
    BY <1>3, <2>1, <2>2, <2>3 DEF Unexhausted, MergeChans
<1>4. CASE ordered /\ ~\E s \in Unexhausted : s >= cur
  <2>1. Unexhausted \in SUBSET Nat /\ Unexhausted # {} /\ Picked = Min(Unexhausted)
    BY <1>1, <1>4 DEF Unexhausted, Picked
  <2>2. PICK m \in Unexhausted : m = Min(Unexhausted) /\ \A y \in Unexhausted : m <= y
    BY <2>1, MinIs
  <2>3. ASSUME NEW s \in Sources, s < m PROVE s \in exhausted
    <3> SUFFICES ASSUME s \notin exhausted PROVE FALSE
      OBVIOUS
    <3>1. m <= s /\ s \in Nat /\ m \in Nat
      BY <1>1, <2>2 DEF Unexhausted
    <3>2. QED
      BY <2>3, <3>1
  <2>4. \A s \in Sources : s >= cur => s \in exhausted
    BY <1>4 DEF Unexhausted
  <2>5. QED
    BY <1>4, <2>1, <2>2, <2>3, <2>4 DEF Unexhausted, MergeChans
<1>5. QED
  BY <1>2, <1>3, <1>4

(* Turning the wheel to the picked source passes over nothing: the sources   *)
(* on the way have given all they had.                                     *)
LEMMA WheelTurns ==
  ASSUME CopyInv, MergeSafe, ~mclosed, mend = "none", ordered, Unexhausted # {}
  PROVE  \E r \in Nat : Wheel(r, Picked)
<1>1. MergeType /\ Turning
  BY DEF MergeSafe, MergeInv
<1>2. PICK r \in Nat : Wheel(r, cur)
  BY <1>1 DEF Turning
<1>3. PICK c \in Sources : c = Picked
  BY <1>1, PickedIs
<1>4. cur \in Nat /\ Sources \subseteq Nat
  BY <1>1, Bounds DEF MergeType
<1>5. ASSUME NEW s \in exhausted PROVE s \in Sources /\ \A n \in 1..LenOf(s) : Came(s, n)
  <2>1. s \in Sources /\ ppc[s] = "exited" /\ mbuf[s] = << >>
    BY <1>1 DEF MergeType, Turning
  <2>2. Queue(s) = << >>
    BY <2>1 DEF Queue, MergeChan
  <2>3. QED
    BY <2>1, <2>2, AllCame
<1>6. \A s \in Sources : LenOf(s) \in Nat
  BY <1>1, SourceFacts
<1>7. CASE c >= cur /\ \A s \in Sources : cur <= s /\ s < c => s \in exhausted
  <2>1. ASSUME NEW s \in Sources, NEW n \in 1..LenOf(s)
        PROVE  Came(s, n) <=> (n <= r \/ (n = r + 1 /\ s < c))
    <3>1. Came(s, n) <=> (n <= r \/ (n = r + 1 /\ s < cur))
      BY <1>2 DEF Wheel
    <3>2. CASE s < cur \/ s >= c
      BY <1>3, <1>4, <1>7, <3>1, <3>2
    <3>3. CASE cur <= s /\ s < c
      <4>1. Came(s, n)
        BY <1>5, <1>7, <3>3
      <4>2. QED
        BY <1>4, <3>1, <3>3, <4>1
    <3>4. QED
      BY <1>3, <1>4, <3>2, <3>3
  <2>2. QED
    BY <1>3, <2>1 DEF Wheel
<1>8. CASE (\A s \in Sources : s >= cur => s \in exhausted) /\ \A s \in Sources : s < c => s \in exhausted
  <2>1. ASSUME NEW s \in Sources, NEW n \in 1..LenOf(s)
        PROVE  Came(s, n) <=> (n <= r + 1 \/ (n = (r + 1) + 1 /\ s < c))
    <3>1. Came(s, n) <=> (n <= r \/ (n = r + 1 /\ s < cur))
      BY <1>2 DEF Wheel
    <3>2. s \in Nat /\ n \in Nat
      BY <1>4, <1>6
    <3>3. CASE s >= cur
      <4>1. Came(s, n)
        BY <1>5, <1>8, <3>3
      <4>2. n <= r
        BY <1>4, <3>1, <3>2, <3>3, <4>1
      <4>3. QED
        BY <3>2, <4>1, <4>2
    <3>4. CASE s < cur /\ s < c
      <4>1. Came(s, n)
        BY <1>5, <1>8, <3>4
      <4>2. QED
        BY <3>1, <3>2, <4>1
    <3>5. CASE s < cur /\ ~(s < c)
      BY <3>1, <3>2, <3>5
    <3>6. QED
      BY <1>4, <3>2, <3>3, <3>4, <3>5
  <2>2. r + 1 \in Nat
    OBVIOUS
  <2>3. QED
    BY <1>3, <2>1, <2>2 DEF Wheel
<1>9. QED
  BY <1>1, <1>3, <1>7, <1>8, PickedIs

LEMMA ReaderFrame ==
  ASSUME MergeNext
  PROVE  /\ UNCHANGED <<shape, teed, ordered, ppc, hand, pos, closed, mclosed>> /\ ~mclosed /\ mend = "none"
         /\ \A s : /\ Yielded(s)' = Yielded(s) /\ Ended(s)' = Ended(s) /\ Passed(s)' = Passed(s)
                   /\ LenOf(s)' = LenOf(s) /\ EndOf(s)' = EndOf(s) /\ MergeChan(s)' = MergeChan(s)
<1>1. UNCHANGED <<shape, teed, len, ordered, ppc, hand, pos, closed, got, fin, mclosed>> /\ ~mclosed /\ mend = "none"
  BY DEF MergeNext, mergeFrame, shape, copyVars, pullVars
<1>2. \A s : Yielded(s)' = Yielded(s) /\ Ended(s)' = Ended(s)
  BY <1>1 DEF Yielded, Ended
<1>3. \A s : Passed(s)' = Passed(s)
  BY <1>1, <1>2 DEF Passed
<1>4. QED
  BY <1>1, <1>2, <1>3, SourceShape

(* A new last value keeps the order if it follows all it has to follow.    *)
LEMMA OrderAppend ==
  ASSUME MergeType, MergeOrder, UNCHANGED shape, NEW u \in Sources, NEW v \in Nat,
         mout' = Append(mout, Out(u, v)),
         \A s \in Sources, n \in Nat : Came(s, n) /\ (s = u \/ ordered) => TurnBefore(Out(s, n), Out(u, v)),
         \A s \in Sources, n \in 1..MaxLen :
           n <= LenOf(s) /\ (ordered \/ s = u) /\ TurnBefore(Out(s, n), Out(u, v)) => Came(s, n)
  PROVE  MergeOrder'
<1>1. PICK L \in Nat : L = Len(mout)
  BY DEF MergeType
<1>2. mout \in Seq([src : Sources, v : Nat]) /\ Out(u, v) \in [src : Sources, v : Nat]
  BY DEF MergeType, Out
<1>3. Len(mout') = L + 1 /\ mout'[L + 1] = Out(u, v) /\ \A j \in 1..L : mout'[j] = mout[j]
  BY <1>1, <1>2, AppendProperties
<1>4. ordered' = ordered /\ \A s : LenOf(s)' = LenOf(s)
  BY SourceShape DEF shape
<1>5. ASSUME NEW j \in 1..(L + 1)
      PROVE  /\ \A k \in 1..(j - 1) : (mout'[k].src = mout'[j].src \/ ordered) => TurnBefore(mout'[k], mout'[j])
             /\ \A s \in Sources, n \in 1..MaxLen :
                  /\ n <= LenOf(s)
                  /\ ordered \/ s = mout'[j].src
                  /\ TurnBefore([src |-> s, v |-> n], mout'[j])
                  => \E k \in 1..(j - 1) : mout'[k] = [src |-> s, v |-> n]
  <2>1. CASE j \in 1..L
    <3>1. mout'[j] = mout[j] /\ \A k \in 1..(j - 1) : mout'[k] = mout[k]
      BY <1>1, <1>3, <2>1
    <3>2. QED
      BY <1>1, <2>1, <3>1 DEF MergeOrder
  <2>2. CASE j = L + 1
    <3>1. mout'[j] = Out(u, v) /\ j - 1 = L /\ \A k \in 1..L : mout'[k] = mout[k]
      BY <1>1, <1>3, <2>2
    <3>2. ASSUME NEW k \in 1..L, mout[k].src = u \/ ordered PROVE TurnBefore(mout[k], Out(u, v))
      <4>0. mout[k] \in [src : Sources, v : Nat]
        BY <1>1, <1>2, ElementOfSeq
      <4>1. PICK s \in Sources, n \in Nat : mout[k] = Out(s, n) /\ mout[k].src = s
        BY <4>0 DEF Out
      <4>2. Came(s, n)
        BY <1>1, <4>1 DEF Came
      <4>3. s = u \/ ordered
        BY <3>2, <4>1, Zenon
      <4>4. TurnBefore(Out(s, n), Out(u, v))
        BY <4>2, <4>3, Zenon
      <4>5. QED
        BY <4>1, <4>4, Zenon
    <3>3. ASSUME NEW s \in Sources, NEW n \in 1..MaxLen, n <= LenOf(s), ordered \/ s = u,
                 TurnBefore([src |-> s, v |-> n], Out(u, v))
          PROVE  \E k \in 1..L : mout[k] = [src |-> s, v |-> n]
      BY <1>1, <3>3 DEF Came, Out
    <3>4. Out(u, v).src = u
      BY DEF Out
    <3>5. \A k \in 1..(j - 1) : (mout'[k].src = mout'[j].src \/ ordered) => TurnBefore(mout'[k], mout'[j])
      BY <3>1, <3>2, <3>4
    <3>6. ASSUME NEW s \in Sources, NEW n \in 1..MaxLen, n <= LenOf(s), ordered \/ s = mout'[j].src,
                 TurnBefore([src |-> s, v |-> n], mout'[j])
          PROVE  \E k \in 1..(j - 1) : mout'[k] = [src |-> s, v |-> n]
      <4>1. ordered \/ s = u
        BY <3>1, <3>4, <3>6, Zenon
      <4>2. TurnBefore([src |-> s, v |-> n], Out(u, v))
        BY <3>1, <3>6, Zenon
      <4>3. PICK k \in 1..L : mout[k] = [src |-> s, v |-> n]
        BY <3>3, <3>6, <4>1, <4>2, Zenon
      <4>4. QED
        BY <3>1, <4>3
    <3>7. QED
      BY <3>5, <3>6
  <2>3. QED
    BY <1>1, <2>1, <2>2
<1>6. QED
  BY <1>3, <1>4, <1>5 DEF MergeOrder, TurnBefore

(* The value at the head of a source's queue is its next one.              *)
LEMMA HeadIsNext ==
  ASSUME CopyInv, MergeSafe, ~mclosed, NEW u \in Sources, NEW v \in 1..MaxLen,
         Queue(u) # << >>, Head(Queue(u)) = Item(u, v)
  PROVE  v <= LenOf(u) /\ \A n \in Nat : n >= 1 => (Came(u, n) <=> n < v)
<1>1. MergeType /\ Pulling(u) /\ Passing(u)
  BY DEF MergeSafe, MergeInv
<1>2. Queue(u) \in Seq(MergeItems)
  BY <1>1, SourceFacts
<1>3. 1 \in 1..Len(Queue(u)) /\ Queue(u)[1] = Item(u, v)
  BY <1>2, EmptySeq
<1>4. /\ v <= Passed(u) /\ \A n \in 1..(v - 1) : Came(u, n) \/ Queued(u, n, 1 - 1)
      /\ \A n \in Nat : Came(u, n) => n < v
  BY <1>1, <1>3 DEF Passing
<1>5. \A n : ~Queued(u, n, 1 - 1)
  BY DEF Queued
<1>6. Passed(u) \in Nat /\ Passed(u) <= LenOf(u) /\ LenOf(u) \in Nat
  <2>1. Yielded(u) \in Nat /\ LenOf(u) \in Nat /\ Yielded(u) <= LenOf(u)
    BY <1>1, SourceFacts
  <2>2. Passed(u) \in Nat
    BY <1>1, PassedFacts
  <2>3. Passed(u) = Yielded(u) \/ Passed(u) = Yielded(u) - 1
    BY DEF Passed
  <2>4. QED
    BY <2>1, <2>2, <2>3
<1>7. v <= LenOf(u)
  BY <1>4, <1>6
<1>8. \A n \in Nat : n >= 1 => (Came(u, n) <=> n < v)
  <2> SUFFICES ASSUME NEW n \in Nat, n >= 1 PROVE Came(u, n) <=> n < v
    OBVIOUS
  <2>1. n < v => n \in 1..(v - 1)
    OBVIOUS
  <2>2. QED
    BY <1>4, <1>5, <2>1
<1>9. QED
  BY <1>7, <1>8

(* A Next that takes nothing from the queues.                              *)
LEMMA NothingTaken ==
  ASSUME CopyInv, MergeSafe, MergeNext, UNCHANGED <<mbuf, mout>>,
         cur' \in Nat, exhausted' \subseteq Sources, mend' \in Errors \cup {"none"}
  PROVE  MergeType' /\ Labels' /\ \A s \in Sources : Pulling(s)' /\ Passing(s)'
<1> USE DEF MergeSafe, MergeInv
<1>1. /\ UNCHANGED <<shape, teed, ordered, ppc, hand, pos, closed, mclosed>> /\ ~mclosed /\ mend = "none"
      /\ MergeType /\ Labels
  BY ReaderFrame
<1>2. Solo' = Solo
  BY <1>1, ShapeKept
<1>3. MergeType' /\ Labels'
  BY <1>1, <1>2, LabelShape DEF MergeType, Labels
<1>4. ASSUME NEW s \in Sources PROVE Pulling(s)' /\ Passing(s)'
  <2>1. Queue(s)' = Queue(s) /\ Pulling(s) /\ Passing(s) /\ \A n : Came(s, n)' = Came(s, n)
    BY <1>1, QueueShape, CameKept
  <2>2. Passing(s)'
    BY <2>1, ReaderFrame, PassingKept
  <2>3. Pulling(s)'
    BY <1>1, <2>1, ReaderFrame, PullingKept
  <2>4. QED
    BY <2>2, <2>3
<1>5. QED
  BY <1>3, <1>4

LEMMA SkipStep ==
  ASSUME CopyInv, MergeSafe, MergeNext, ordered, Unexhausted # {}, Skip(Picked) PROVE MergeSafe'
<1> USE DEF MergeSafe, MergeInv
<1>1. /\ UNCHANGED <<shape, teed, ordered, ppc, mclosed>> /\ ~mclosed /\ mend = "none" /\ MergeType
  BY ReaderFrame
<1>2. PICK c \in Sources \ exhausted : c = Picked
  BY <1>1, PickedIs
<1>3. /\ UNCHANGED <<mbuf, mout, mend>> /\ cur' = c /\ exhausted' = exhausted \cup {c}
      /\ mbuf[c] = << >> /\ ppc[c] = "exited"
  BY <1>2 DEF Skip, ChanClosed, MergeChan
<1>4. c \in Nat /\ exhausted' \subseteq Sources
  BY <1>1, <1>2, <1>3, Bounds DEF MergeType
<1>5. MergeType' /\ Labels' /\ \A s \in Sources : Pulling(s)' /\ Passing(s)'
  BY <1>1, <1>3, <1>4, NothingTaken DEF MergeType
<1>6. Turning'
  <2>1. PICK r \in Nat : Wheel(r, c)
    BY <1>1, <1>2, WheelTurns
  <2>2. Wheel(r, cur)'
    <3>1. \A s, n : Came(s, n)' = Came(s, n) /\ LenOf(s)' = LenOf(s)
      BY <1>3, CameKept, ReaderFrame
    <3>2. QED
      BY <1>3, <2>1, <3>1 DEF Wheel
  <2>3. \A s \in exhausted' : ordered' /\ ppc'[s] = "exited" /\ mbuf'[s] = << >>
    BY <1>1, <1>3 DEF Turning
  <2>4. QED
    BY <2>2, <2>3 DEF Turning
<1>7. MergeOrder' /\ MergeDelivers'
  BY <1>1, <1>3, OutKept
<1>8. QED
  BY <1>5, <1>6, <1>7

(* The clean end: every channel is closed and empty.                       *)
LEMMA EndStep ==
  ASSUME CopyInv, MergeSafe, MergeNext, CleanEnd,
         (ordered /\ Unexhausted = {}) \/ (~ordered /\ mbuf[0] = << >> /\ ChanClosed(0))
  PROVE  MergeSafe'
<1> USE DEF MergeSafe, MergeInv
<1>1. /\ UNCHANGED <<shape, teed, ordered, mclosed>> /\ ~mclosed /\ mend = "none" /\ MergeType /\ Turning
      /\ UNCHANGED <<mbuf, cur, exhausted, mout>> /\ mend' = "EOF"
  BY ReaderFrame DEF CleanEnd
<1>2. MergeType' /\ Labels' /\ \A s \in Sources : Pulling(s)' /\ Passing(s)'
  BY <1>1, NothingTaken DEF MergeType, Errors
<1>3. ASSUME NEW s \in Sources PROVE ppc[s] = "exited" /\ Queue(s) = << >>
  <2>1. CASE ordered /\ Unexhausted = {}
    BY <1>1, <1>3, <2>1 DEF Turning, Unexhausted, Queue, MergeChan
  <2>2. CASE ~ordered /\ mbuf[0] = << >> /\ ChanClosed(0)
    BY <1>3, <2>2 DEF ChanClosed, Queue, MergeChan
  <2>3. QED
    BY <2>1, <2>2
<1>4. MergeDelivers'
  <2>1. \A s \in Sources : EndOf(s)' = "EOF" /\ LenOf(s)' = LenOf(s) /\ \A n \in 1..LenOf(s) : Came(s, n)
    BY <1>1, <1>3, AllCame, ReaderFrame
  <2>2. QED
    BY <1>1, <2>1 DEF MergeDelivers, Came, Out
<1>5. MergeOrder'
  <2>1. \A s : LenOf(s)' = LenOf(s)
    BY ReaderFrame
  <2>2. QED
    BY <1>1, <2>1 DEF MergeOrder, TurnBefore
<1>6. QED
  BY <1>1, <1>2, <1>4, <1>5 DEF Turning

(* What a Next that takes the head of channel c leaves of the sources.     *)
LEMMA HeadTaken ==
  ASSUME CopyInv, MergeSafe, MergeNext, NEW c \in MergeChans, mbuf[c] # << >>,
         mbuf' = [mbuf EXCEPT ![c] = Tail(@)],
         \A s, n : Came(s, n)' <=> Came(s, n) \/ (n \in 1..MaxLen /\ Head(mbuf[c]) = Item(s, n)),
         NEW u \in Sources, MergeChan(u) = c,
         (\E v \in 1..MaxLen : Head(mbuf[c]) = Item(u, v)) \/ (Head(mbuf[c]) = Failure(u) /\ mend' = "failure")
  PROVE  \A s \in Sources : Pulling(s)' /\ Passing(s)'
<1> USE DEF MergeSafe, MergeInv
<1>1. /\ UNCHANGED <<shape, teed, ordered, ppc, hand, pos, closed, mclosed>> /\ ~mclosed /\ mend = "none"
      /\ MergeType /\ Labels
  BY ReaderFrame
<1>2. SUFFICES ASSUME NEW s \in Sources PROVE Pulling(s)' /\ Passing(s)'
  OBVIOUS
<1>tail. /\ mbuf'[c] = Tail(mbuf[c]) /\ \A d \in MergeChans : d # c => mbuf'[d] = mbuf[d]
      /\ \A p \in 1..Len(mbuf[c]) : mbuf[c][p] = Head(mbuf[c]) \/ \E r \in 1..Len(mbuf'[c]) : mbuf'[c][r] = mbuf[c][p]
  BY <1>1, TailQueues
<1>3. Pulling(s) /\ Passing(s) /\ MergeChan(s) \in MergeChans /\ Passed(s) \in Nat /\ Passed(s) <= MaxLen
  BY <1>1, SourceFacts, PassedFacts
<1>4. MergeChan(s)' = MergeChan(s) /\ Passed(s)' = Passed(s) /\ EndOf(s)' = EndOf(s)
      /\ Yielded(s)' = Yielded(s) /\ Ended(s)' = Ended(s)
  BY ReaderFrame
<1>5. CASE MergeChan(s) = c
  <2>1. Queue(s) = mbuf[c] /\ Queue(s)' = Tail(mbuf[c])
    BY <1>tail, <1>4, <1>5 DEF Queue
  <2>2. Passing(s)'
    BY <1>1, <1>3, <1>4, <2>1, PassingShrinks
  <2>3. ASSUME NEW p \in 1..Len(Queue(s)), Queue(s)[p] = Failure(s)
        PROVE  mend' = "failure" \/ \E q \in 1..Len(Queue(s)') : Queue(s)'[q] = Failure(s)
    <3>1. mbuf'[c] = Tail(mbuf[c])
      BY <1>tail
    <3>2. mbuf[c][p] = Head(mbuf[c]) \/ \E q \in 1..Len(mbuf'[c]) : mbuf'[c][q] = mbuf[c][p]
      BY <1>tail, <2>1, <2>3
    <3>3. Head(mbuf[c]) = Failure(s) => mend' = "failure"
      BY ItemTypes
    <3>4. QED
      BY <2>1, <2>3, <3>1, <3>2, <3>3
  <2>4. Pulling(s)'
    BY <1>1, <1>3, <1>4, <2>3, PullingKept
  <2>5. QED
    BY <2>2, <2>4
<1>6. CASE MergeChan(s) # c
  <2>1. Queue(s)' = Queue(s)
    BY <1>tail, <1>3, <1>4, <1>6 DEF Queue
  <2>2. \A n : Head(mbuf[c]) # Item(s, n)
    BY <1>6, ItemIs, ItemTypes
  <2>3. \A n : Came(s, n)' = Came(s, n)
    BY <2>2 DEF Came
  <2>4. Passing(s)'
    BY <1>3, <1>4, <2>1, <2>3, PassingKept
  <2>5. Pulling(s)'
    BY <1>1, <1>3, <1>4, <2>1, PullingKept
  <2>6. QED
    BY <2>4, <2>5
<1>7. QED
  BY <1>5, <1>6

LEMMA TakeFailure ==
  ASSUME CopyInv, MergeSafe, MergeNext, NEW c \in MergeChans, mbuf[c] # << >>,
         mbuf' = [mbuf EXCEPT ![c] = Tail(@)], cur' \in Nat, exhausted' = exhausted,
         mend' = "failure", mout' = mout,
         NEW u \in Sources, MergeChan(u) = c, Head(mbuf[c]) = Failure(u), EndOf(u) = "failure"
  PROVE  MergeSafe'
<1> USE DEF MergeSafe, MergeInv
<1>1. /\ UNCHANGED <<shape, teed, ordered, ppc, hand, pos, closed, mclosed>> /\ ~mclosed /\ mend = "none"
      /\ MergeType /\ Labels
  BY ReaderFrame
<1>2. Solo' = Solo
  BY <1>1, ShapeKept
<1>3. MergeType' /\ Labels'
  BY <1>1, <1>2, TailQueues DEF MergeType, Errors
<1>4. \A s \in Sources : Pulling(s)' /\ Passing(s)'
  <2>1. \A s, n : Head(mbuf[c]) # Item(s, n)
    BY ItemTypes
  <2>2. \A s, n : Came(s, n)' = Came(s, n)
    BY CameKept
  <2>3. \A s, n : Came(s, n)' <=> Came(s, n) \/ (n \in 1..MaxLen /\ Head(mbuf[c]) = Item(s, n))
    BY <2>1, <2>2
  <2>4. QED
    BY <1>1, <2>3, HeadTaken
<1>5. MergeDelivers' /\ Turning'
  <2>1. EndOf(u)' = "failure"
    BY ReaderFrame
  <2>2. QED
    BY <2>1 DEF MergeDelivers, Turning
<1>6. MergeOrder'
  <2>1. \A s : LenOf(s)' = LenOf(s)
    BY ReaderFrame
  <2>2. QED
    BY <1>1, <2>1 DEF MergeOrder, TurnBefore
<1>7. QED
  BY <1>3, <1>4, <1>5, <1>6

(* What came out of a source is within its frames.                         *)
LEMMA CameIsFrame ==
  ASSUME CopyInv, MergeSafe, ~mclosed, NEW s \in Sources, NEW n \in Nat, Came(s, n)
  PROVE  n \in 1..LenOf(s)
<1>1. MergeType /\ Pulling(s) /\ Passing(s)
  BY DEF MergeSafe, MergeInv
<1>2. n \in 1..Passed(s)
  BY <1>1 DEF Passing
<1>3. Yielded(s) \in Nat /\ LenOf(s) \in Nat /\ Yielded(s) <= LenOf(s)
  BY <1>1, SourceFacts
<1>4. Passed(s) \in Nat
  BY <1>1, PassedFacts
<1>5. Passed(s) = Yielded(s) \/ Passed(s) = Yielded(s) - 1
  BY DEF Passed
<1>6. QED
  BY <1>2, <1>3, <1>4, <1>5

(* The round robin takes the frame whose turn it is.                       *)
LEMMA TurnIsNext ==
  ASSUME NEW u \in Sources, NEW v \in Nat, v >= 1, NEW r \in Nat, Wheel(r, u), LenOf(u) \in Nat,
         v <= LenOf(u), \A n \in Nat : n >= 1 => (Came(u, n) <=> n < v)
  PROVE  v = r + 1
<1>1. u \in Nat
  BY Bounds
<1>2. ~(v <= r)
  BY <1>1 DEF Wheel
<1>3. v - 1 <= r
  <2>1. CASE v = 1
    BY <2>1
  <2>2. CASE v # 1
    <3>1. v - 1 \in 1..LenOf(u) /\ v - 1 \in Nat /\ v - 1 >= 1 /\ v - 1 < v
      BY <2>2
    <3>2. Came(u, v - 1)
      BY <3>1
    <3>3. v - 1 <= r \/ (v - 1 = r + 1 /\ u < u)
      BY <3>1, <3>2 DEF Wheel
    <3>4. QED
      BY <1>1, <3>3
  <2>3. QED
    BY <2>1, <2>2
<1>4. QED
  BY <1>2, <1>3

LEMMA TakeValue ==
  ASSUME CopyInv, MergeSafe, MergeNext, NEW c \in MergeChans, mbuf[c] # << >>,
         mbuf' = [mbuf EXCEPT ![c] = Tail(@)], cur' = (IF ordered THEN c + 1 ELSE cur), exhausted' = exhausted,
         c = Picked, ordered => Unexhausted # {},
         NEW u \in Sources, NEW v \in 1..MaxLen, MergeChan(u) = c, Head(mbuf[c]) = Item(u, v),
         mend' = mend, mout' = Append(mout, Out(u, v))
  PROVE  MergeSafe'
<1> USE DEF MergeSafe, MergeInv
<1>1. /\ UNCHANGED <<shape, teed, ordered, ppc, hand, pos, closed, mclosed>> /\ ~mclosed /\ mend = "none"
      /\ MergeType /\ Labels /\ Turning /\ MergeOrder
  BY ReaderFrame
<1>2. v \in Nat /\ v >= 1 /\ u \in Nat /\ c \in Nat /\ Solo' = Solo /\ LenOf(u) \in Nat /\ cur \in Nat
  <2>1. c \in Nat
    BY Bounds DEF MergeChans
  <2>2. v \in Nat /\ v >= 1 /\ u \in Nat
    BY Bounds
  <2>3. LenOf(u) \in Nat /\ Solo' = Solo /\ cur \in Nat
    BY <1>1, SourceFacts, ShapeKept DEF MergeType
  <2>4. QED
    BY <2>1, <2>2, <2>3
<1>3. MergeType' /\ Labels'
  <2>1. mout' \in Seq([src : Sources, v : Nat])
    <3>1. mout \in Seq([src : Sources, v : Nat]) /\ Out(u, v) \in [src : Sources, v : Nat]
      BY <1>1, <1>2 DEF MergeType, Out
    <3>2. QED
      BY <3>1, AppendProperties
  <2>2. cur' \in Nat
    BY <1>2
  <2>3. QED
    BY <1>1, <1>2, <2>1, <2>2, TailQueues DEF MergeType
<1>4. \A s, n : Came(s, n)' <=> Came(s, n) \/ (s = u /\ n = v)
  BY <1>1, <1>2, CameAppend
<1>5. \A s \in Sources : Pulling(s)' /\ Passing(s)'
  <2>1. \A s, n : Head(mbuf[c]) = Item(s, n) <=> s = u /\ n = v
    BY ItemIs
  <2>2. \A s, n : Came(s, n)' <=> Came(s, n) \/ (n \in 1..MaxLen /\ Head(mbuf[c]) = Item(s, n))
    BY <1>4, <2>1
  <2>3. QED
    BY <1>1, <2>2, HeadTaken
<1>6. v <= LenOf(u) /\ \A n \in Nat : n >= 1 => (Came(u, n) <=> n < v)
  <2>1. Queue(u) = mbuf[c]
    BY DEF Queue
  <2>2. QED
    BY <1>1, <2>1, HeadIsNext
<1>7. ASSUME ordered PROVE \E r \in Nat : Wheel(r, u) /\ v = r + 1
  <2>1. Picked = u
    BY <1>7 DEF MergeChan
  <2>2. PICK r \in Nat : Wheel(r, u)
    BY <1>1, <1>7, <2>1, WheelTurns
  <2>3. v = r + 1
    BY <1>2, <1>6, <2>2, TurnIsNext
  <2>4. QED
    BY <2>2, <2>3
<1>8. \A s \in Sources : s \in Nat /\ LenOf(s) \in Nat
  BY <1>1, SourceFacts, Bounds
<1>9. MergeOrder'
  <2>1. ASSUME NEW s \in Sources, NEW n \in Nat, Came(s, n), s = u \/ ordered
        PROVE  TurnBefore(Out(s, n), Out(u, v))
    <3>1. n \in 1..LenOf(s) /\ n >= 1
      BY <1>1, <1>8, <2>1, CameIsFrame
    <3>2. n < v \/ (n = v /\ s < u)
      <4>1. CASE s = u
        BY <1>6, <2>1, <3>1, <4>1
      <4>2. CASE ordered
        <5>1. PICK r \in Nat : Wheel(r, u) /\ v = r + 1
          BY <1>7, <4>2
        <5>2. n <= r \/ (n = r + 1 /\ s < u)
          BY <2>1, <3>1, <5>1 DEF Wheel
        <5>3. QED
          BY <5>1, <5>2
      <4>3. QED
        BY <2>1, <4>1, <4>2
    <3>3. QED
      BY <3>2 DEF TurnBefore, Out
  <2>2. ASSUME NEW s \in Sources, NEW n \in 1..MaxLen, n <= LenOf(s), ordered \/ s = u,
               TurnBefore(Out(s, n), Out(u, v))
        PROVE  Came(s, n)
    <3>1. n \in Nat /\ n >= 1 /\ n \in 1..LenOf(s)
      BY <1>8, <2>2, Bounds
    <3>2. n < v \/ (n = v /\ s < u)
      BY <2>2 DEF TurnBefore, Out
    <3>3. CASE s = u
      <4>1. n < v
        BY <1>2, <3>2, <3>3
      <4>2. QED
        BY <1>6, <3>1, <3>3, <4>1
    <3>4. CASE ordered
      <4>1. PICK r \in Nat : Wheel(r, u) /\ v = r + 1
        BY <1>7, <3>4
      <4>2. n <= r \/ (n = r + 1 /\ s < u)
        BY <3>1, <3>2, <4>1
      <4>3. QED
        BY <3>1, <4>1, <4>2 DEF Wheel
    <3>5. QED
      BY <2>2, <3>3, <3>4
  <2>3. QED
    BY <1>1, <1>2, <2>1, <2>2, OrderAppend
<1>10. Turning'
  <2>1. ASSUME ordered PROVE \E r \in Nat : Wheel(r, cur)'
    <3>1. PICK r \in Nat : Wheel(r, u) /\ v = r + 1
      BY <1>7, <2>1
    <3>2. cur' = u + 1
      BY <2>1 DEF MergeChan
    <3>3. ASSUME NEW s \in Sources, NEW n \in 1..LenOf(s)
          PROVE  Came(s, n)' <=> (n <= r \/ (n = r + 1 /\ s < u + 1))
      <4>1. s < u + 1 <=> s < u \/ s = u
        BY <1>2, <1>8
      <4>2. Came(s, n) <=> (n <= r \/ (n = r + 1 /\ s < u))
        BY <3>1 DEF Wheel
      <4>3. QED
        BY <1>4, <3>1, <4>1, <4>2
    <3>4. \A s : LenOf(s)' = LenOf(s)
      BY ReaderFrame
    <3>5. Wheel(r, cur)'
      BY <3>2, <3>3, <3>4 DEF Wheel
    <3>6. QED
      BY <3>5
  <2>2. ASSUME NEW s \in exhausted PROVE ordered /\ ppc'[s] = "exited" /\ mbuf'[s] = << >>
    <3>1. ordered /\ ppc[s] = "exited" /\ mbuf[s] = << >> /\ s \in MergeChans
      BY <1>1 DEF Turning, MergeType, MergeChans
    <3>2. s # c
      BY <3>1
    <3>3. QED
      BY <1>1, <3>1, <3>2, TailQueues
  <2>3. QED
    BY <1>1, <2>1, <2>2 DEF Turning
<1>11. MergeDelivers'
  BY <1>1 DEF MergeDelivers
<1>12. QED
  BY <1>3, <1>5, <1>9, <1>10, <1>11

LEMMA MergeNextStep == ASSUME CopyInv, MergeSafe, MergeNext PROVE MergeSafe'
<1>1. MergeType /\ Labels /\ UNCHANGED shape
  BY ReaderFrame DEF MergeSafe, MergeInv
<1>2. CASE ordered /\ Unexhausted = {} /\ CleanEnd
  BY <1>2, EndStep
<1>3. CASE ~ordered /\ mbuf[0] = << >> /\ ChanClosed(0) /\ CleanEnd
  BY <1>3, EndStep
<1>4. CASE (ordered => Unexhausted # {}) /\ Skip(Picked)
  <2>1. ordered
    BY <1>4 DEF Skip
  <2>2. QED
    BY <1>4, <2>1, SkipStep
<1>5. CASE (ordered => Unexhausted # {}) /\ Take(Picked)
  <2>1. PICK c \in MergeChans : c = Picked
    BY <1>1, <1>5, PickedIs
  <2>2. /\ mbuf[c] # << >> /\ mbuf' = [mbuf EXCEPT ![c] = Tail(@)] /\ exhausted' = exhausted
        /\ cur' = IF ordered THEN c + 1 ELSE cur
    BY <1>5, <2>1 DEF Take, CursorAfter
  <2>3. \/ /\ Head(mbuf[c]).frame.err = "none" /\ mend' = mend
           /\ mout' = Append(mout, Out(Head(mbuf[c]).src, Head(mbuf[c]).frame.v))
        \/ /\ Head(mbuf[c]).frame.err # "none" /\ mend' = Head(mbuf[c]).frame.err /\ mout' = mout
    BY <1>5, <2>1 DEF Take, Out
  <2>4. PICK u \in Sources :
          /\ MergeChan(u) = c
          /\ \/ \E n \in 1..MaxLen : Head(mbuf[c]) = Item(u, n)
             \/ Head(mbuf[c]) = Failure(u) /\ EndOf(u) = "failure"
    <3>1. Labelled(c, Head(mbuf[c]))
      BY <1>1, <2>2, TailQueues
    <3>2. QED
      BY <3>1 DEF Labelled
  <2>5. ASSUME NEW n \in 1..MaxLen, Head(mbuf[c]) = Item(u, n) PROVE MergeSafe'
    <3>1. mend' = mend /\ mout' = Append(mout, Out(u, n))
      BY <2>3, <2>5, FrameFacts DEF Item
    <3>2. QED
      BY <1>5, <2>1, <2>2, <2>4, <2>5, <3>1, TakeValue
  <2>6. CASE Head(mbuf[c]) = Failure(u) /\ EndOf(u) = "failure"
    <3>1. mend' = "failure" /\ mout' = mout
      BY <2>3, <2>6, FrameFacts DEF Failure
    <3>2. cur' \in Nat
      BY <1>1, <2>1, <2>2, Bounds DEF MergeType, MergeChans
    <3>3. QED
      BY <2>2, <2>4, <2>6, <3>1, <3>2, TakeFailure
  <2>7. QED
    BY <2>4, <2>5, <2>6
<1>6. QED
  BY <1>2, <1>3, <1>4, <1>5 DEF MergeNext

(***************************************************************************)
(* The invariant.                                                          *)
(***************************************************************************)
FanInv == CopyInv /\ MergeSafe

LEMMA FanInvInit == Init => FanInv
<1> SUFFICES ASSUME Init PROVE FanInv
  OBVIOUS
<1>1. CopyInv
  BY CopyInvInit
<1>2. /\ ppc = [s \in Sources |-> "next"] /\ hand = [s \in Sources |-> Nothing] /\ pos = [s \in Solo |-> 0]
      /\ mbuf = [c \in MergeChans |-> << >>] /\ mclosed = FALSE /\ cur = Min(Sources) /\ exhausted = {}
      /\ mout = << >> /\ mend = "none" /\ fin = [i \in Readers |-> "none"] /\ got = [i \in Readers |-> << >>]
      /\ closed = {}
  BY DEF Init
<1>3. Len(<< >>) = 0 /\ Min(Sources) \in Sources /\ Sources \subseteq Nat /\ Sources # {} /\ BufSize \in Nat
  BY MinIs, Bounds
<1>4. MergeType
  <2>1. /\ ppc \in [Sources -> {"next", "send", "exit", "exited"}] /\ hand \in [Sources -> Frames \cup {Nothing}]
        /\ pos \in [Solo -> Nat] /\ cur \in Nat /\ exhausted \subseteq Sources
        /\ mclosed \in BOOLEAN /\ mend \in Errors \cup {"none"}
    BY <1>2, <1>3
  <2>2. << >> \in Seq(MergeItems) /\ mout \in Seq([src : Sources, v : Nat])
    BY <1>2, EmptySeq
  <2>3. mbuf \in [MergeChans -> Seq(MergeItems)] /\ \A c \in MergeChans : Len(mbuf[c]) <= BufSize
    BY <1>2, <1>3, <2>2
  <2>4. QED
    BY <2>1, <2>2, <2>3 DEF MergeType
<1>5. Labels /\ \A s, n : ~Came(s, n)
  BY <1>2, <1>3 DEF Labels, Came
<1>6. ASSUME NEW s \in Sources PROVE Pulling(s) /\ Passing(s)
  <2>1. Yielded(s) = 0 /\ ~Ended(s) /\ ppc[s] = "next"
    <3>1. CASE s \in teed
      BY <1>2, <1>3, <3>1 DEF Yielded, Ended, Readers
    <3>2. CASE s \notin teed
      <4>0. s \in Solo
        BY <3>2 DEF Solo
      <4>1. pos[s] = 0 /\ len[s] \in Nat
        BY <1>1, <1>2, <4>0, ShapeFacts DEF CopyInv
      <4>2. pos[s] <= len[s] /\ ~(pos[s] > len[s])
        BY <4>1
      <4>3. Yielded(s) = pos[s]
        BY <3>2, <4>2 DEF Yielded
      <4>4. ~Ended(s)
        BY <3>2, <4>2 DEF Ended
      <4>5. QED
        BY <4>1, <4>3, <4>4, <1>2
    <3>3. QED
      BY <1>2, <3>1, <3>2
  <2>2. Passed(s) = 0
    BY <2>1 DEF Passed
  <2>3. Queue(s) = << >>
    BY <1>1, <1>2, <1>4, SourceFacts DEF Queue
  <2>4. QED
    BY <1>2, <1>3, <1>5, <2>1, <2>2, <2>3 DEF Pulling, Passing
<1>7. Turning
  <2>1. Wheel(0, cur)
    <3>1. ASSUME NEW s \in Sources, NEW n \in 1..LenOf(s)
          PROVE  ~(n <= 0 \/ (n = 0 + 1 /\ s < cur))
      <4>1. cur <= s /\ cur \in Nat /\ s \in Nat
        BY <1>2, <1>3, MinIs
      <4>2. LenOf(s) \in Nat
        BY <1>1, <1>4, SourceFacts
      <4>3. QED
        BY <4>1, <4>2
    <3>2. QED
      BY <1>5, <3>1 DEF Wheel
  <2>2. QED
    BY <1>2, <2>1 DEF Turning
<1>8. MergeOrder /\ MergeDelivers
  BY <1>2, <1>3 DEF MergeOrder, MergeDelivers
<1>9. QED
  BY <1>1, <1>4, <1>5, <1>6, <1>7, <1>8 DEF FanInv, MergeSafe, MergeInv

LEMMA FanInvStep == FanInv /\ [Next]_vars => FanInv'
<1> SUFFICES ASSUME CopyInv, MergeSafe, [Next]_vars PROVE MergeSafe'
  BY CopyInvStep DEF FanInv
<1>1. CASE UNCHANGED vars
  <2>1. UNCHANGED <<ppc, hand, pos, mbuf, readVars>>
    BY <1>1 DEF vars, pullVars
  <2>2. QED
    BY <2>1, QuietStep
<1>2. CASE Next
  <2>1. CASE Broadcaster
    <3>1. UNCHANGED <<ppc, hand, pos, mbuf, readVars>>
      BY <2>1 DEF Broadcaster, Pull, Send, ReleaseSource, readerFrame, pullVars
    <3>2. QED
      BY <3>1, QuietStep
  <2>2. ASSUME NEW i \in Direct, Consumer(i) PROVE MergeSafe'
    <3>1. UNCHANGED <<ppc, hand, pos, mbuf, readVars>>
      BY <2>2 DEF Consumer, ReadDirect, CloseDirect, pullVars
    <3>2. QED
      BY <3>1, QuietStep
  <2>3. ASSUME NEW i \in Direct \cup Sources, Drain(i) PROVE MergeSafe'
    <3>1. UNCHANGED <<ppc, hand, pos, mbuf, readVars>>
      BY <2>3 DEF Drain, pullVars
    <3>2. QED
      BY <3>1, QuietStep
  <2>4. ASSUME NEW s \in Sources, Puller(s) PROVE MergeSafe'
    BY <1>2, <2>4, PullNextStep, PullSendStep, PullExitStep DEF Puller
  <2>5. CASE MergeConsumer
    BY <1>2, <2>5, MergeNextStep, MergeStops DEF MergeConsumer
  <2>6. CASE \E c \in MergeChans : MergeDrain(c)
    BY <1>2, <2>6, MergeStops
  <2>7. QED
    BY <1>2, <2>1, <2>2, <2>3, <2>4, <2>5, <2>6 DEF Next
<1>3. QED
  BY <1>1, <1>2

LEMMA FanInvAlways == Spec => []FanInv
BY FanInvInit, FanInvStep, PTL DEF Spec

(***************************************************************************)
(* The theorems.                                                           *)
(***************************************************************************)
(* The broadcaster, the pullers and both kinds of reader stay in their      *)
(* states, the merge channels within mergeBufSize, the source is asked at   *)
(* most once past its last frame, and copyShared.remaining counts the       *)
(* readers not closed.                                                     *)
THEOREM FanTyped == Spec => []TypeOK
<1>1. FanInv => TypeOK
  <2> SUFFICES ASSUME CopyInv, MergeSafe PROVE TypeOK
    BY DEF FanInv
  <2>1. Shape /\ CopyType /\ Broadcast /\ MergeType
    BY DEF CopyInv, MergeSafe, MergeInv
  <2>2. pulled \in 0..(MaxLen + 1)
    <3>1. pulled \in Nat /\ len[Src] \in Nat /\ len[Src] <= MaxLen /\ pulled <= len[Src] + 1 /\ MaxLen \in Nat
      BY <2>1, ShapeFacts, Bounds DEF CopyType, Broadcast
    <3>2. QED
      BY <3>1
  <2>3. QED
    BY <2>1, <2>2 DEF CopyType, MergeType, TypeOK
<1>2. QED
  BY <1>1, FanInvAlways, PTL

(* Copy: every reader returns a prefix of the source, and one that sees an  *)
(* end has seen all of it and the source's own error, for any number of     *)
(* readers and however the siblings read, lag or close.                    *)
THEOREM TeeComplete == Spec => []TeeDelivers
<1>1. FanInv => TeeDelivers
  <2> SUFFICES ASSUME CopyInv, NEW i \in Readers
               PROVE  /\ got[i] = [k \in 1..Len(got[i]) |-> k]
                      /\ fin[i] # "none" => Len(got[i]) = len[Src] /\ fin[i] = end[Src]
    BY DEF FanInv, TeeDelivers
  <2>1. Reading(i) /\ got[i] \in Seq(Nat)
    BY DEF CopyInv, CopyType
  <2>2. PICK q \in Seq(Nat) : q = got[i] /\ \A k \in 1..Len(q) : q[k] = k
    BY <2>1 DEF Reading
  <2>3. q = [k \in 1..Len(q) |-> q[k]]
    BY LenProperties
  <2>4. q = [k \in 1..Len(q) |-> k]
    BY <2>2, <2>3
  <2>5. QED
    BY <2>1, <2>2, <2>4 DEF Reading
<1>2. QED
  BY <1>1, FanInvAlways, PTL

(* broadcastCopy is never further ahead of an open reader than the frame in *)
(* its hand and that reader's copyBufSize frames, for every buffer size.   *)
THEOREM SharedRate == Spec => []Backpressure
<1>1. FanInv => Backpressure
  <2> SUFFICES ASSUME CopyInv, NEW i \in Readers \ closed, fin[i] = "none"
               PROVE  pulled <= Len(got[i]) + 1 + BufSize
    BY DEF FanInv, Backpressure
  <2>1. Reading(i) /\ got[i] \in Seq(Nat) /\ buf[i] \in Seq(Frames) /\ pulled \in Nat
    BY DEF CopyInv, CopyType
  <2>2. PICK g \in Nat, b \in Nat : g = Len(got[i]) /\ b = Len(buf[i])
    BY <2>1, LenProperties
  <2>3. g + b = Delivered(i) /\ b <= BufSize
    BY <2>1, <2>2 DEF Reading
  <2>4. Delivered(i) = pulled \/ Delivered(i) = pulled - 1
    BY DEF Delivered
  <2>5. pulled <= g + 1 + BufSize
    BY <2>1, <2>3, <2>4, Bounds
  <2>6. QED
    BY <2>2, <2>5
<1>2. QED
  BY <1>1, FanInvAlways, PTL

(* Merge and roundRobinMerge end in a clean io.EOF only when every source   *)
(* has, with nothing of any of them missing; an error they return is one a  *)
(* source had.                                                             *)
THEOREM MergeComplete == Spec => []MergeDelivers
<1>1. FanInv => MergeDelivers
  BY DEF FanInv, MergeSafe
<1>2. QED
  BY <1>1, FanInvAlways, PTL

(* Each source's frames come out of the merge in order and once, and those  *)
(* of roundRobinMerge in turn order with nothing passed over, whatever the  *)
(* arrival times.                                                          *)
THEOREM MergeReproducible == Spec => []MergeOrder
<1>1. FanInv => MergeOrder
  BY DEF FanInv, MergeSafe
<1>2. QED
  BY <1>1, FanInvAlways, PTL
=============================================================================
