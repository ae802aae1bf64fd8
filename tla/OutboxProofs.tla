---------------------------- MODULE OutboxProofs ----------------------------
(***************************************************************************)
(* WritePath implements Outbox.                                            *)
(***************************************************************************)
EXTENDS WriteOrderProofs

\* Only stream frames are ever queued, and a flush is never empty.
StreamInv ==
  /\ \A i \in DOMAIN segments : segments[i].op \in StreamOps
  /\ \A i \in DOMAIN flushSegments : flushSegments[i].op \in StreamOps
  /\ Writing => flushSegments # <<>>

LEMMA StreamInvStep == TypeOK /\ QueueInv /\ LockInv /\ StreamInv /\ [Next]_vars => StreamInv'
<1> SUFFICES ASSUME TypeOK, QueueInv, LockInv, StreamInv, [Next]_vars
             PROVE  StreamInv'
  OBVIOUS
<1>1. CASE UNCHANGED <<segments, flushSegments>> /\ (Writing' => Writing)
  BY <1>1 DEF StreamInv
<1>2. CASE Aside \/ \E t \in Writers : Encodes(t) \/ IoLock(t) \/ IoDone(t)
  <2>1. CASE UNCHANGED <<segments, flushSegments, run>>
    BY <1>1, <2>1 DEF Writing
  <2>2. CASE Aside
    BY <2>1, <2>2 DEF Aside
  <2>3. CASE \E t \in Writers : Encodes(t)
    BY <2>1, <2>3 DEF Encodes, Encode, queue
  <2>4. CASE \E t \in Writers : IoLock(t) \/ IoDone(t)
    BY <2>1, <2>4 DEF IoLock, IoDone, queue
  <2>5. QED
    BY <1>2, <2>2, <2>3, <2>4
<1>3. ASSUME NEW t \in Writers, Enqueue(t) PROVE StreamInv'
  <2>1. flushSegments' = flushSegments /\ (segments' = segments \/ segments' = Append(segments, frame[t]))
    BY Zenon, <1>3 DEF Enqueue, queue
  <2>2. Writing' => Writing
    <3>1. \A r \in Runners : run'[r] \in {"iolock", "io"} => run'[r] = run[r]
      BY Zenon, <1>3 DEF Enqueue, StartWriter, queue, TypeOK
    <3>2. QED
      BY <3>1 DEF Writing
  <2>3. frame[t].op \in StreamOps /\ frame[t] \in Frames /\ segments \in Seq(Frames)
    BY <1>3 DEF Enqueue, LockInv, HolderOK, Holding, TypeOK
  <2>4. CASE segments' = Append(segments, frame[t])
    <3>1. Len(segments) \in Nat /\ DOMAIN segments = 1..Len(segments) /\ DOMAIN segments' = 1..(Len(segments) + 1)
      BY <2>3, <2>4, AppendProperties, LenProperties
    <3>2. /\ \A i \in 1..Len(segments) : segments'[i] = segments[i]
          /\ segments'[Len(segments) + 1] = frame[t]
      BY <2>3, <2>4, AppendProperties
    <3>3. \A i \in DOMAIN segments' : i \in DOMAIN segments \/ i = Len(segments) + 1
      BY <3>1
    <3>4. QED
      BY <2>1, <2>2, <2>3, <3>1, <3>2, <3>3 DEF StreamInv
  <2>5. QED
    BY <1>1, <2>1, <2>2, <2>4
<1>4. ASSUME NEW r \in Runners, RunExit(r) \/ FlushLock(r) \/ Flush(r) PROVE StreamInv'
  <2>1. Writing' => Writing
    BY <1>4 DEF RunExit, FlushLock, Flush, Writing, TypeOK
  <2>2. QED
    BY <1>1, <1>4, <2>1 DEF RunExit, FlushLock, Flush
<1>5. ASSUME NEW r \in Runners, RunTake(r) PROVE StreamInv'
  BY <1>5 DEF RunTake, StreamInv
<1>6. ASSUME NEW r \in Runners, RunAfter(r) PROVE StreamInv'
  <2>1. flushSegments' = <<>> /\ (segments' = <<>> \/ segments' = segments)
    BY <1>6 DEF RunAfter
  <2>2. ~Writing'
    <3>1. \A q \in Runners : q # r => run[q] = "none"
      BY <1>6 DEF RunAfter, QueueInv, OneWriter
    <3>2. run'[r] \in {"none", "top"} /\ \A q \in Runners : q # r => run'[q] = run[q]
      BY <1>6 DEF RunAfter, TypeOK
    <3>3. QED
      BY <3>1, <3>2 DEF Writing
  <2>3. QED
    BY <2>1, <2>2 DEF StreamInv
<1>7. QED
  BY <1>2, <1>3, <1>4, <1>5, <1>6, StepShape

LEMMA StreamInvariant == Spec => []StreamInv
<1>1. Init => StreamInv
  BY DEF Init, StreamInv, Writing
<1>2. QED
  BY <1>1, StreamInvStep, TypeCorrect, QueueInvariant, LockInvariant, PTL DEF Spec
-----------------------------------------------------------------------------
\* Facts about sequences of frames.

LEMMA AppendIsLast ==
  ASSUME NEW s \in Seq(Frames), NEW f \in Frames
  PROVE  /\ Append(s, f) # <<>> /\ s = SubSeq(Append(s, f), 1, Len(Append(s, f)) - 1)
         /\ Append(s, f)[Len(Append(s, f))] = f
<1> DEFINE w == Append(s, f)
<1>1. /\ w \in Seq(Frames) /\ w # <<>> /\ Len(w) = Len(s) + 1 /\ Len(s) \in Nat
      /\ \A i \in 1..Len(s) : w[i] = s[i]
      /\ w[Len(s) + 1] = f
  BY AppendProperties, LenProperties
<1> HIDE DEF w
<1>2. Len(w) - 1 = Len(s) /\ \A i \in 1..Len(s) : w[i] \in Frames
  BY <1>1
<1>3. /\ SubSeq(w, 1, Len(s)) \in Seq(Frames)
      /\ Len(SubSeq(w, 1, Len(s))) = Len(s)
      /\ \A i \in 1..Len(s) : SubSeq(w, 1, Len(s))[i] = w[i]
  BY <1>1, <1>2, SubSeqProperties
<1>4. s = SubSeq(w, 1, Len(s))
  BY <1>1, <1>3, SeqEqual
<1>5. QED
  BY <1>1, <1>2, <1>4 DEF w

LEMMA ConcatAppend ==
  ASSUME NEW s \in Seq(Frames), NEW u \in Seq(Frames), NEW f \in Frames
  PROVE  s \o Append(u, f) = Append(s \o u, f)
<1>1. <<f>> \in Seq(Frames) /\ s \o u \in Seq(Frames)
  BY ConcatProperties
<1>2. Append(u, f) = u \o <<f>> /\ Append(s \o u, f) = (s \o u) \o <<f>>
  BY <1>1, AppendIsConcat
<1>3. (s \o u) \o <<f>> = s \o (u \o <<f>>)
  BY <1>1, ConcatAssociative
<1>4. QED
  BY <1>2, <1>3

LEMMA PrefixOfConcat ==
  ASSUME NEW s \in Seq(Frames), NEW u \in Seq(Frames), NEW k \in 0..Len(s)
  PROVE  SubSeq(s \o u, 1, k) = SubSeq(s, 1, k)
<1>1. Len(s) \in Nat
  BY LenProperties
<1>2. CASE k = 0
  BY <1>2, SubSeqEmpty
<1>3. CASE k # 0
  BY <1>1, <1>3, SubSeqOfConcat1
<1>4. QED
  BY <1>2, <1>3

LEMMA SuffixOfConcat ==
  ASSUME NEW s \in Seq(Frames), NEW u \in Seq(Frames)
  PROVE  SubSeq(s \o u, Len(s) + 1, Len(s \o u)) = u
<1>1. Len(s) \in Nat /\ Len(u) \in Nat /\ Len(s \o u) = Len(s) + Len(u)
  BY LenProperties, ConcatProperties
<1>2. CASE u = <<>>
  <2>1. Len(u) = 0
    BY <1>2
  <2>2. QED
    BY <1>1, <1>2, <2>1, SubSeqEmpty
<1>3. CASE u # <<>>
  <2>1. Len(u) > 0
    BY <1>1, <1>3, EmptySeq
  <2>2. SubSeq(s \o u, Len(s) + 1, Len(s) + Len(u)) = SubSeq(u, Len(s) + 1 - Len(s), Len(s) + Len(u) - Len(s))
    BY <1>1, <2>1, SubSeqOfConcat2
  <2>3. Len(s) + 1 - Len(s) = 1 /\ Len(s) + Len(u) - Len(s) = Len(u)
    BY <1>1
  <2>4. QED
    BY <1>1, <2>2, <2>3, SubSeqFull
<1>4. QED
  BY <1>2, <1>3
-----------------------------------------------------------------------------
\* The refinement mapping, case by case.
LEMMA Mapping ==
  ASSUME TypeOK
  PROVE  /\ failedBar \in BOOLEAN /\ pendingBar \in Seq(Frames)
         /\ failedBar => pendingBar = <<>>
         /\ ~failedBar /\ Writing => pendingBar = flushSegments \o segments
         /\ ~failedBar /\ ~Writing => pendingBar = segments
<1>1. err \in BOOLEAN /\ segments \in Seq(Frames) /\ flushSegments \in Seq(Frames) /\ <<>> \in Seq(Frames)
  BY DEF TypeOK
<1>2. failedBar \in BOOLEAN
  BY <1>1 DEF failedBar
<1>3. <<>> \o segments = segments /\ flushSegments \o segments \in Seq(Frames)
  BY <1>1, ConcatEmptySeq, ConcatProperties
<1>4. CASE failedBar
  BY <1>1, <1>2, <1>4 DEF pendingBar
<1>5. CASE ~failedBar /\ Writing
  BY Zenon, <1>2, <1>3, <1>5 DEF pendingBar, beingFlushed, Writing
<1>6. CASE ~failedBar /\ ~Writing
  BY <1>1, <1>2, <1>3, <1>6 DEF pendingBar, beingFlushed, Writing
<1>7. QED
  BY <1>2, <1>4, <1>5, <1>6

\* A step that changes neither the wire nor the queue's contents nor the part of
\* the writer's state the mapping looks at.
LEMMA Stutter ==
  ASSUME UNCHANGED <<wire, err, segments, flushSegments>>,
         \A r \in Runners : (run'[r] = "failed" <=> run[r] = "failed"),
         Writing' <=> Writing
  PROVE  UNCHANGED Abstract!outbox
<1>1. (\E r \in Runners : run'[r] = "failed") = (\E r \in Runners : run[r] = "failed")
  OBVIOUS
<1>2. failedBar' = failedBar
  BY <1>1 DEF failedBar
<1>3. beingFlushed' = beingFlushed
  BY DEF beingFlushed, Writing
<1>4. pendingBar' = pendingBar
  BY <1>2, <1>3 DEF pendingBar
<1>5. QED
  BY <1>2, <1>4 DEF Abstract!outbox

LEMMA RunnersAlone ==
  ASSUME TypeOK, QueueInv, NEW r \in Runners, run[r] # "none"
  PROVE  /\ ~err /\ hasQueue /\ \A q \in Runners : q # r => run[q] = "none"
         /\ Writing <=> run[r] \in {"iolock", "io"}
         /\ failedBar <=> run[r] = "failed"
<1>1. ~err /\ hasQueue /\ \A q \in Runners : q # r => run[q] = "none"
  BY DEF QueueInv, OneWriter
<1>2. QED
  BY <1>1 DEF Writing, failedBar

\* Enqueue submits its frame, unless a failed flush has yet to be recorded.
LEMMA EnqueueSubmits ==
  ASSUME TypeOK, TypeOK', QueueInv, LockInv, OrderInv, StreamInv, NoSendClose, NEW t \in Writers, Enqueue(t)
  PROVE  Abstract!Submit \/ UNCHANGED Abstract!outbox
<1>1. CASE ~Accepts
  <2>1. UNCHANGED <<wire, err, segments, flushSegments, run>>
    BY Zenon, <1>1 DEF Enqueue, queue
  <2>2. Writing' <=> Writing
    BY <2>1 DEF Writing
  <2>3. QED
    BY <2>1, <2>2, Stutter
<1>2. CASE Accepts
  <2>1. /\ segments' = Append(segments, frame[t]) /\ ~err /\ StartWriter
        /\ UNCHANGED <<wire, flushSegments, err>>
    BY Zenon, <1>2 DEF Enqueue, Accepts
  <2>2. \A r \in Runners : run'[r] # run[r] => run'[r] = "top" /\ run[r] = "none"
    BY <2>1 DEF StartWriter, TypeOK
  <2>3. (Writing' <=> Writing) /\ (failedBar' <=> failedBar)
    BY <2>1, <2>2 DEF Writing, failedBar
  <2>4. /\ failedBar \in BOOLEAN /\ failedBar' \in BOOLEAN /\ failedBar' = failedBar
        /\ pendingBar \in Seq(Frames)
    BY Zenon, <2>3, Mapping DEF failedBar, TypeOK
  <2>5. CASE failedBar
    BY <2>1, <2>4, <2>5 DEF pendingBar, Abstract!outbox
  <2>6. CASE ~failedBar
    <3>0. frame[t] \in Frames /\ segments \in Seq(Frames) /\ flushSegments \in Seq(Frames) /\ wire \in Seq(Frames)
      BY DEF TypeOK
    <3>1. pendingBar' = Append(pendingBar, frame[t])
      <4>1. CASE Writing
        <5>1. pendingBar = flushSegments \o segments
          BY <2>6, <4>1, Mapping
        <5>2. pendingBar' = flushSegments \o segments'
          BY Zenon, <2>1, <2>3, <2>6, <4>1 DEF pendingBar, beingFlushed, Writing
        <5>3. QED
          BY <2>1, <3>0, <5>1, <5>2, ConcatAppend
      <4>2. CASE ~Writing
        <5>1. pendingBar = segments
          BY <2>6, <4>2, Mapping
        <5>2. pendingBar' = <<>> \o segments'
          BY Zenon, <2>3, <2>6, <4>2 DEF pendingBar, beingFlushed, Writing
        <5>3. <<>> \o segments' = segments'
          BY ConcatEmptySeq DEF TypeOK
        <5>4. QED
          BY <2>1, <5>1, <5>2, <5>3
      <4>3. QED
        BY <4>1, <4>2
    <3>2. Abstract!NewLast(pendingBar, pendingBar') /\ pendingBar'[Len(pendingBar')] = frame[t]
      BY <2>4, <3>0, <3>1, AppendIsLast DEF Abstract!NewLast
    <3>3. frame[t].op \in StreamOps /\ Kept(frame[t]) /\ FrameOK(t) /\ pc[t] \in Holding
      BY DEF Enqueue, LockInv, HolderOK, OrderInv, Holding, Kept, StreamOps
    <3>4. ASSUME NEW s \in Seq(Frames), Ahead(s, <<frame[t]>>), NEW i \in DOMAIN s, s[i].op \in StreamOps
          PROVE  s[i].id < frame[t].id
      <4>1. Follows(s[i], frame[t])
        BY <3>4 DEF Ahead
      <4>2. QED
        BY <3>3, <3>4, <4>1 DEF Follows, Kept, StreamOps
    <3>5. ASSUME NEW i \in DOMAIN pendingBar PROVE pendingBar[i].id < frame[t].id
      <4>1. CASE Writing
        <5>1. pendingBar = flushSegments \o segments
          BY <2>6, <4>1, Mapping
        <5>2. /\ Len(flushSegments) \in Nat /\ Len(segments) \in Nat
              /\ DOMAIN flushSegments = 1..Len(flushSegments) /\ DOMAIN segments = 1..Len(segments)
              /\ DOMAIN pendingBar = 1..(Len(flushSegments) + Len(segments))
          BY <2>4, <3>0, <5>1, LenProperties, ConcatProperties
        <5>3. \/ i \in DOMAIN flushSegments /\ pendingBar[i] = flushSegments[i]
              \/ i - Len(flushSegments) \in DOMAIN segments /\ pendingBar[i] = segments[i - Len(flushSegments)]
          BY <3>0, <5>1, <5>2, ConcatProperties
        <5>4. QED
          BY <3>0, <3>3, <3>4, <5>3 DEF FrameOK, StreamInv
      <4>2. CASE ~Writing
        BY <2>6, <3>0, <3>3, <3>4, <3>5, <4>2, Mapping DEF FrameOK, StreamInv
      <4>3. QED
        BY <4>1, <4>2
    <3>6. Abstract!Fresh(frame[t])
      <4>1. ASSUME NEW i \in DOMAIN wire, wire[i].op \in {"data", "cont", "close"} PROVE wire[i].id < frame[t].id
        BY <3>0, <3>3, <3>4, <4>1 DEF FrameOK, StreamOps
      <4>2. QED
        BY <3>0, <3>3, <3>5, <4>1 DEF Abstract!Fresh, StreamOps
    <3>7. QED
      BY <2>1, <2>4, <2>6, <3>2, <3>6 DEF Abstract!Submit
  <2>7. QED
    BY <2>5, <2>6
<1>3. QED
  BY <1>1, <1>2

\* What a failed write of one frame leaves: nothing, or a torn frame.
LEMMA LeftoversOfOne ==
  ASSUME NEW f \in Frames, NEW part \in Leftovers(<<f>>)
  PROVE  part = <<>> \/ part = <<Torn(f)>>
<1>1. <<f>> \in Seq(Frames) /\ Len(<<f>>) = 1 /\ <<f>>[1] = f
  OBVIOUS
<1>2. PICK k \in 0..(Len(<<f>>) - 1) :
        part = SubSeq(<<f>>, 1, k) \/ part = Append(SubSeq(<<f>>, 1, k), Torn(<<f>>[k + 1]))
  BY Zenon DEF Leftovers, Torn
<1>3. k = 0 /\ k + 1 = 1
  BY <1>1, <1>2
<1>4. SubSeq(<<f>>, 1, k) = <<>>
  BY <1>3, SubSeqEmpty
<1>5. Append(<<>>, Torn(f)) = <<Torn(f)>>
  OBVIOUS
<1>6. QED
  BY <1>1, <1>2, <1>3, <1>4, <1>5

\* A direct write: a message on a connection without a queue, or a ping or pong.
LEMMA IoDoneWrites ==
  ASSUME TypeOK, QueueInv, LockInv, OrderInv, NoSendClose, NEW t \in Writers, IoDone(t)
  PROVE  Abstract!Direct \/ Abstract!Bypass \/ UNCHANGED Abstract!outbox
<1>0. frame[t] \in Frames /\ wire \in Seq(Frames) /\ HolderOK(t) /\ FrameOK(t) /\ pc[t] \in Holding /\ pc[t] = "io"
  BY DEF TypeOK, LockInv, OrderInv, IoDone, Holding
<1>1. UNCHANGED <<err, segments, flushSegments, run>>
  BY DEF IoDone, queue
<1>2. UNCHANGED <<pendingBar, failedBar>>
  BY <1>1 DEF pendingBar, failedBar, beingFlushed
<1>3. Torn(frame[t]) \in Frames /\ Torn(frame[t]).op = "torn"
  BY Zenon, <1>0 DEF Torn, Frames, FrameOps
<1>4. ASSUME NEW f \in Frames, wire' = wire \o <<f>>
      PROVE  Abstract!NewLast(wire, wire') /\ wire'[Len(wire')] = f
  <2>1. wire' = Append(wire, f)
    BY <1>0, <1>4, AppendIsConcat
  <2>2. QED
    BY <1>0, <2>1, AppendIsLast DEF Abstract!NewLast
<1>5. PICK ok \in BOOLEAN : Transport(<<frame[t]>>, ok)
  BY DEF IoDone
<1>6. CASE ~ok
  <2>1. PICK part \in Leftovers(<<frame[t]>>) : wire' = wire \o part
    BY <1>5, <1>6 DEF Transport
  <2>2. CASE part = <<>>
    BY <1>0, <1>2, <2>1, <2>2, ConcatEmptySeq DEF Abstract!outbox
  <2>3. CASE part = <<Torn(frame[t])>>
    BY <1>2, <1>3, <1>4, <2>1, <2>3 DEF Abstract!Bypass
  <2>4. QED
    BY <1>0, <2>2, <2>3, LeftoversOfOne
<1>7. CASE ok /\ ~Kept(frame[t])
  <2>1. wire' = wire \o <<frame[t]>>
    BY <1>5, <1>7 DEF Transport
  <2>2. frame[t].op \in {"ping", "pong"}
    BY <1>0, <1>7 DEF HolderOK, Kept, Frames, FrameOps
  <2>3. QED
    BY <1>0, <1>2, <1>4, <2>1, <2>2 DEF Abstract!Bypass
<1>8. CASE ok /\ Kept(frame[t])
  <2>1. wire' = wire \o <<frame[t]>>
    BY <1>5, <1>8 DEF Transport
  <2>2. ~hasQueue
    BY <1>0, <1>8 DEF HolderOK
  <2>3. ~err /\ segments = <<>> /\ \A r \in Runners : run[r] = "none"
    BY <2>2 DEF QueueInv, LockInv, OneWriter
  <2>4. pendingBar = <<>> /\ failedBar = FALSE
    <3>1. ~failedBar /\ ~Writing
      BY <2>3 DEF failedBar, Writing
    <3>2. QED
      BY <2>3, <3>1, Mapping
  <2>5. frame[t].op \in {"data", "cont", "close"}
    BY <1>8 DEF Kept
  <2>6. ASSUME NEW i \in DOMAIN wire, wire[i].op \in {"data", "cont", "close"} PROVE wire[i].id < frame[t].id
    <3>1. Follows(wire[i], frame[t])
      BY <1>0 DEF FrameOK, Ahead
    <3>2. QED
      BY <1>8, <2>6, <3>1 DEF Follows, Kept
  <2>7. Abstract!Fresh(frame[t])
    BY <1>0, <2>4, <2>5, <2>6 DEF Abstract!Fresh
  <2>8. QED
    BY <1>0, <1>2, <1>4, <2>1, <2>4, <2>7 DEF Abstract!Direct
<1>9. QED
  BY <1>5, <1>6, <1>7, <1>8

\* A flush delivers what was taken, or fails with a part of it.
LEMMA FlushDelivers ==
  ASSUME TypeOK, TypeOK', QueueInv, StreamInv, NEW r \in Runners, Flush(r)
  PROVE  Abstract!Deliver \/ Abstract!Fail
<1>0. /\ wire \in Seq(Frames) /\ flushSegments \in Seq(Frames) /\ segments \in Seq(Frames)
      /\ Len(flushSegments) \in Nat /\ Len(segments) \in Nat
  BY LenProperties DEF TypeOK
<1>1. PICK ok \in BOOLEAN : /\ Transport(flushSegments, ok)
                            /\ run' = [run EXCEPT ![r] = IF ok THEN "wrote" ELSE "failed"]
  BY Zenon DEF Flush
<1>2. UNCHANGED <<err, segments, flushSegments>> /\ run[r] = "io"
  BY DEF Flush
<1>3. ~err /\ Writing /\ ~failedBar /\ \A q \in Runners : q # r => run[q] = "none"
  BY <1>2, RunnersAlone
<1>4. pendingBar = flushSegments \o segments /\ failedBar = FALSE
  BY <1>3, Mapping
<1>5. Len(flushSegments) > 0 /\ Len(pendingBar) = Len(flushSegments) + Len(segments)
  <2>1. flushSegments # <<>>
    BY <1>3 DEF StreamInv
  <2>2. Len(flushSegments) \in Nat \ {0}
    BY <1>0, <2>1, EmptySeq
  <2>3. Len(flushSegments \o segments) = Len(flushSegments) + Len(segments)
    BY <1>0, ConcatProperties
  <2>4. QED
    BY <1>4, <2>2, <2>3
<1>6. run'[r] = (IF ok THEN "wrote" ELSE "failed") /\ \A q \in Runners : q # r => run'[q] = "none"
  BY <1>1, <1>3 DEF TypeOK
<1>7. ~Writing' /\ (failedBar' <=> ~ok)
  BY <1>2, <1>3, <1>6 DEF Writing, failedBar
<1>8. CASE ok
  <2>1. wire' = wire \o flushSegments
    BY <1>1, <1>8 DEF Transport
  <2>2. pendingBar' = segments /\ failedBar' = failedBar
    <3>1. pendingBar' = <<>> \o segments'
      BY <1>7, <1>8 DEF pendingBar, beingFlushed, Writing
    <3>2. <<>> \o segments = segments
      BY <1>0, ConcatEmptySeq
    <3>3. failedBar' \in BOOLEAN
      BY DEF failedBar, TypeOK
    <3>4. QED
      BY Zenon, <1>2, <1>4, <1>7, <1>8, <3>1, <3>2, <3>3
  <2>3. SubSeq(pendingBar, 1, Len(flushSegments)) = flushSegments
    <3>1. SubSeq(pendingBar, 1, Len(flushSegments)) = SubSeq(flushSegments, 1, Len(flushSegments))
      BY <1>0, <1>4, PrefixOfConcat
    <3>2. QED
      BY <1>0, <3>1, SubSeqFull
  <2>4. SubSeq(pendingBar, Len(flushSegments) + 1, Len(pendingBar)) = segments
    BY <1>0, <1>4, SuffixOfConcat
  <2>5. Len(flushSegments) \in 1..Len(pendingBar)
    BY <1>0, <1>5
  <2>6. Abstract!Deliver
    BY Zenon, <1>3, <2>1, <2>2, <2>3, <2>4, <2>5 DEF Abstract!Deliver
  <2>7. QED
    BY <2>6
<1>9. CASE ~ok
  <2>1. PICK part \in Leftovers(flushSegments) : wire' = wire \o part
    BY <1>1, <1>9 DEF Transport
  <2>2. PICK k \in 0..(Len(flushSegments) - 1) :
          \/ part = SubSeq(flushSegments, 1, k)
          \/ part = Append(SubSeq(flushSegments, 1, k), Torn(flushSegments[k + 1]))
    BY Zenon, <2>1 DEF Leftovers, Torn
  <2>3. pendingBar' = <<>> /\ failedBar' = TRUE
    <3>1. failedBar' \in BOOLEAN
      BY DEF failedBar, TypeOK
    <3>2. QED
      BY <1>7, <1>9, <3>1 DEF pendingBar
  <2>4. SubSeq(pendingBar, 1, k) = SubSeq(flushSegments, 1, k)
    <3>1. k \in 0..Len(flushSegments)
      BY <1>0, <2>2
    <3>2. QED
      BY <1>0, <1>4, <3>1, PrefixOfConcat
  <2>5. k \in 0..(Len(pendingBar) - 1)
    BY <1>0, <1>5, <2>2
  <2>6. SubSeq(flushSegments, 1, k) \in Seq(Frames) /\ Torn(flushSegments[k + 1]) \in Frames
                                                    /\ Torn(flushSegments[k + 1]).op = "torn"
    <3>1. k + 1 \in 1..Len(flushSegments) /\ k \in Int /\ \A i \in 1..k : i \in 1..Len(flushSegments)
      BY <1>0, <2>2
    <3>2. flushSegments[k + 1] \in Frames /\ \A i \in 1..k : flushSegments[i] \in Frames
      BY <1>0, <3>1
    <3>3. SubSeq(flushSegments, 1, k) \in Seq(Frames)
      BY <3>1, <3>2, SubSeqProperties
    <3>4. QED
      BY <3>2, <3>3 DEF Torn, Frames, FrameOps
  <2> DEFINE sent == wire \o SubSeq(pendingBar, 1, k)
             torn == Torn(flushSegments[k + 1])
  <2>7. wire' = sent \/ (wire' = Append(sent, torn) /\ sent \in Seq(Frames))
    <3>1. CASE part = SubSeq(flushSegments, 1, k)
      BY <2>1, <2>4, <3>1
    <3>2. CASE part = Append(SubSeq(flushSegments, 1, k), torn)
      <4> DEFINE whole == SubSeq(flushSegments, 1, k)
      <4>1. whole \in Seq(Frames) /\ torn \in Frames /\ sent = wire \o whole
        BY <2>4, <2>6
      <4>2. wire' = wire \o Append(whole, torn)
        BY <2>1, <3>2
      <4> HIDE DEF whole, torn, sent
      <4>3. wire \o Append(whole, torn) = Append(wire \o whole, torn) /\ wire \o whole \in Seq(Frames)
        BY <1>0, <4>1, ConcatAppend, ConcatProperties
      <4>4. QED
        BY <4>1, <4>2, <4>3
    <3>3. QED
      BY <2>2, <3>1, <3>2
  <2>8. wire' = sent \/ (Abstract!NewLast(sent, wire') /\ wire'[Len(wire')] = torn)
    <3> HIDE DEF sent, torn
    <3>1. torn \in Frames
      BY <2>6 DEF torn
    <3>2. QED
      BY <2>7, <3>1, AppendIsLast DEF Abstract!NewLast
  <2>9. wire' = sent \/ (Abstract!NewLast(sent, wire') /\ wire'[Len(wire')] \in {f \in Frames : f.op \in {"ping", "pong", "torn"}})
    BY <2>6, <2>8
  <2>10. Abstract!Fail
    BY <1>3, <2>3, <2>5, <2>9 DEF Abstract!Fail
  <2>11. QED
    BY <2>10
<1>10. QED
  BY <1>1, <1>8, <1>9

\* The writer's other steps change nothing Outbox can see.
LEMMA RunStutters ==
  ASSUME TypeOK, TypeOK', QueueInv, NEW r \in Runners, RunExit(r) \/ RunTake(r) \/ FlushLock(r) \/ RunAfter(r)
  PROVE  UNCHANGED Abstract!outbox
<1>0. run[r] # "none" /\ segments \in Seq(Frames) /\ flushSegments \in Seq(Frames)
  BY DEF RunExit, RunTake, FlushLock, RunAfter, TypeOK
<1>1. ~err /\ \A q \in Runners : q # r => run[q] = "none" /\ run'[q] = "none"
  <2>1. ~err /\ \A q \in Runners : q # r => run[q] = "none"
    BY <1>0, RunnersAlone
  <2>2. \A q \in Runners : q # r => run'[q] = run[q]
    BY DEF RunExit, RunTake, FlushLock, RunAfter, TypeOK
  <2>3. QED
    BY <2>1, <2>2
<1>2. (Writing <=> run[r] \in {"iolock", "io"}) /\ (Writing' <=> run'[r] \in {"iolock", "io"})
  BY <1>1 DEF Writing
<1>3. CASE RunExit(r) \/ FlushLock(r)
  <2>1. UNCHANGED <<wire, err, segments, flushSegments>>
    BY <1>3 DEF RunExit, FlushLock
  <2>2. (run'[r] \in {"iolock", "io"} <=> run[r] \in {"iolock", "io"}) /\ run[r] # "failed" /\ run'[r] # "failed"
    BY <1>3 DEF RunExit, FlushLock, TypeOK
  <2>3. QED
    BY <1>1, <1>2, <2>1, <2>2, Stutter
<1>4. failedBar \in BOOLEAN /\ failedBar' \in BOOLEAN
  BY DEF failedBar, TypeOK
<1>5. CASE RunTake(r)
  <2>1. /\ flushSegments' = segments /\ segments' = <<>> /\ UNCHANGED <<wire, err>>
        /\ run[r] = "top" /\ run'[r] = "iolock"
    BY <1>5 DEF RunTake, TypeOK
  <2>2. ~failedBar /\ ~failedBar' /\ ~Writing /\ Writing'
    BY Zenon, <1>1, <1>2, <2>1 DEF failedBar
  <2>3. pendingBar = segments
    BY <2>2, Mapping
  <2>4. pendingBar' = segments \o <<>>
    BY Zenon, <2>1, <2>2 DEF pendingBar, beingFlushed, Writing
  <2>5. pendingBar' = pendingBar
    BY <1>0, <2>3, <2>4, ConcatEmptySeq
  <2>6. QED
    BY <1>4, <2>1, <2>2, <2>5 DEF Abstract!outbox
<1>6. CASE RunAfter(r)
  <2>1. /\ wire' = wire /\ err' = (err \/ run[r] = "failed") /\ run[r] \in {"wrote", "failed"}
        /\ run'[r] = (IF run[r] = "failed" THEN "none" ELSE "top")
        /\ run[r] # "failed" => segments' = segments
    BY <1>6 DEF RunAfter, TypeOK
  <2>2. CASE run[r] = "failed"
    <3>1. failedBar /\ failedBar'
      BY Zenon, <2>1, <2>2 DEF failedBar
    <3>2. QED
      BY <1>4, <2>1, <3>1 DEF pendingBar, Abstract!outbox
  <2>3. CASE run[r] = "wrote"
    <3>1. ~failedBar /\ ~failedBar' /\ ~Writing /\ ~Writing'
      BY Zenon, <1>1, <1>2, <2>1, <2>3 DEF failedBar
    <3>2. pendingBar' = pendingBar
      BY <2>1, <2>3, <3>1 DEF pendingBar, beingFlushed, Writing
    <3>3. QED
      BY Zenon, <1>4, <2>1, <3>1, <3>2 DEF Abstract!outbox
  <2>4. QED
    BY <2>1, <2>2, <2>3
<1>7. QED
  BY <1>3, <1>5, <1>6

\* ws/queue.go:11-21, conn_write.go:238-244: for any number of goroutines the
\* write side implements Outbox, where no protocol failure makes the reader send
\* a close past the queue.
THEOREM Refinement ==
  ASSUME NoSendClose
  PROVE  Spec => ImplementsOutbox
<1>1. Init => Abstract!Init
  <2>1. Init => failedBar = FALSE
    BY DEF Init, failedBar
  <2>2. Init => pendingBar = <<>> \o <<>>
    BY <2>1 DEF Init, pendingBar, beingFlushed
  <2>3. <<>> \o <<>> = <<>>
    OBVIOUS
  <2>4. QED
    BY <2>1, <2>2, <2>3 DEF Init, Abstract!Init
<1>2. TypeOK /\ TypeOK' /\ QueueInv /\ LockInv /\ OrderInv /\ StreamInv /\ [Next]_vars
        => [Abstract!Next]_(Abstract!outbox)
  <2> SUFFICES ASSUME TypeOK, TypeOK', QueueInv, LockInv, OrderInv, StreamInv, [Next]_vars
               PROVE  [Abstract!Next]_(Abstract!outbox)
    OBVIOUS
  <2>1. CASE UNCHANGED <<wire, err, segments, flushSegments, run>>
    <3>1. Writing' <=> Writing
      BY <2>1 DEF Writing
    <3>2. QED
      BY <2>1, <3>1, Stutter
  <2>2. CASE Aside
    BY <2>1, <2>2 DEF Aside
  <2>3. CASE \E t \in Writers : Encodes(t)
    BY <2>1, <2>3 DEF Encodes, Encode, queue
  <2>4. CASE \E t \in Writers : IoLock(t)
    BY <2>1, <2>4 DEF IoLock, queue
  <2>5. CASE \E t \in Writers : Enqueue(t)
    BY <2>5, EnqueueSubmits DEF Abstract!Next
  <2>6. CASE \E t \in Writers : IoDone(t)
    BY <2>6, IoDoneWrites DEF Abstract!Next
  <2>7. CASE \E r \in Runners : Flush(r)
    BY <2>7, FlushDelivers DEF Abstract!Next
  <2>8. CASE \E r \in Runners : RunExit(r) \/ RunTake(r) \/ FlushLock(r) \/ RunAfter(r)
    BY <2>8, RunStutters
  <2>9. QED
    BY <2>2, <2>3, <2>4, <2>5, <2>6, <2>7, <2>8, StepShape
<1>3. QED
  BY <1>1, <1>2, TypeCorrect, QueueInvariant, LockInvariant, OrderInvariant, StreamInvariant, PTL
     DEF Spec, ImplementsOutbox, Abstract!Spec
=============================================================================
