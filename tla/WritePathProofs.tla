-------------------------- MODULE WritePathProofs --------------------------
(***************************************************************************)
(* Proofs about WritePath, for any set of goroutines, any payload sizes,   *)
(* any limits and any bounds.                                              *)
(***************************************************************************)
EXTENDS WritePath, SequenceTheorems, TLAPS

LocalsOK ==
  /\ pc \in [Writers -> {"idle", "from", "lock", "enqueue", "await", "asleep", "iolock", "io"}]
  /\ call \in [Writers -> Calls] /\ frame \in [Writers -> Frames]
  /\ seq \in [Writers -> Nat] /\ rest \in [Writers -> {"none", "loop", "last"}]
  /\ due \in [Writers -> SUBSET Nat] /\ acked \in SUBSET Nat

ConnOK == closeSent \in BOOLEAN /\ fragOpen \in BOOLEAN /\ fragFirst \in BOOLEAN

\* The shared helpers of the actions preserve types.
LEMMA ReturnType ==
  ASSUME TypeOK, NEW t \in Writers, NEW ok \in BOOLEAN, NEW ids \in SUBSET Nat,
         Return(t, ok, ids)
  PROVE  LocalsOK'
<1>1. NoFrame \in Frames /\ NoCall \in Calls
  BY DEF NoFrame, Frames, FrameOps, NoCall, Calls, Names
<1>2. QED
  BY <1>1 DEF TypeOK, Return, LocalsOK

LEMMA EnterType ==
  ASSUME TypeOK, NEW t \in Writers, NEW c \in Calls, NEW r \in {"none", "loop", "last"},
         Enter(t, c, r)
  PROVE  TypeOK'
BY DEF TypeOK, Enter, conn, queue

LEMMA RefuseType ==
  ASSUME TypeOK, NEW t \in Writers, Refuse(t), ConnOK'
  PROVE  TypeOK'
<1>1. LocalsOK'
  BY Zenon, ReturnType DEF Refuse
<1>2. QED
  BY <1>1 DEF TypeOK, Refuse, LocalsOK, ConnOK, queue

LEMMA EncodeType ==
  ASSUME TypeOK, NEW t \in Writers, NEW op \in FrameOps, NEW fin \in BOOLEAN, NEW ext \in BOOLEAN,
         NEW next \in {"enqueue", "iolock"}, Encode(t, op, fin, ext, next)
  PROVE  TypeOK'
<1>1. [id |-> encoded + 1, op |-> op, fin |-> fin, len |-> Header + call[t].n, ext |-> ext] \in Frames
  <2>1. encoded + 1 \in Nat /\ call[t] \in Calls
    BY DEF TypeOK
  <2>2. Header + call[t].n \in Nat
    BY <2>1, ConstantsAssumption DEF Calls
  <2>3. QED
    BY <2>1, <2>2 DEF Frames
<1>2. QED
  BY <1>1 DEF TypeOK, Encode, queue

Torn(f) == [f EXCEPT !.op = "torn"]

\* A failed write leaves a prefix, the last frame of which may be torn.
LEMMA LeftoversAre ==
  ASSUME NEW fs \in Seq(Frames), NEW part \in Leftovers(fs)
  PROVE  /\ part \in Seq(Frames) /\ Len(part) <= Len(fs)
         /\ \A i \in 1..Len(part) : part[i] = fs[i] \/ part[i] = Torn(fs[i])
<1>1. PICK k \in 0..(Len(fs) - 1) :
        part = SubSeq(fs, 1, k) \/ part = Append(SubSeq(fs, 1, k), Torn(fs[k + 1]))
  BY Zenon DEF Leftovers, Torn
<1>2. k \in Int /\ k + 1 \in 1..Len(fs) /\ Len(fs) \in Nat
  OBVIOUS
<1>3. \A i \in 1..k : fs[i] \in Frames
  BY <1>2
<1>4. /\ SubSeq(fs, 1, k) \in Seq(Frames)
      /\ Len(SubSeq(fs, 1, k)) = k
      /\ \A i \in 1..k : SubSeq(fs, 1, k)[i] = fs[i]
  BY <1>2, <1>3, SubSeqProperties
<1>5. Torn(fs[k + 1]) \in Frames
  <2>1. fs[k + 1] \in Frames
    BY <1>2
  <2>2. QED
    BY Zenon, <2>1 DEF Torn, Frames, FrameOps
<1>6. CASE part = SubSeq(fs, 1, k)
  BY <1>2, <1>4, <1>6
<1>7. CASE part = Append(SubSeq(fs, 1, k), Torn(fs[k + 1]))
  <2> DEFINE sub == SubSeq(fs, 1, k)
  <2>1. /\ Append(sub, Torn(fs[k + 1])) \in Seq(Frames)
        /\ Len(Append(sub, Torn(fs[k + 1]))) = Len(sub) + 1
        /\ \A i \in 1..Len(sub) : Append(sub, Torn(fs[k + 1]))[i] = sub[i]
        /\ Append(sub, Torn(fs[k + 1]))[Len(sub) + 1] = Torn(fs[k + 1])
    BY <1>4, <1>5, AppendProperties
  <2>2. QED
    BY <1>2, <1>4, <1>7, <2>1
<1>8. QED
  BY <1>1, <1>6, <1>7

\* What a transport write does to the wire, frame by frame.
LEMMA TransportEffect ==
  ASSUME NEW fs \in Seq(Frames), NEW ok \in BOOLEAN, wire \in Seq(Frames), failures \in Nat,
         Transport(fs, ok)
  PROVE  /\ wire' \in Seq(Frames) /\ failures' \in Nat
         /\ Len(wire) <= Len(wire') /\ Len(wire') <= Len(wire) + Len(fs)
         /\ \A i \in 1..Len(wire) : wire'[i] = wire[i]
         /\ \A i \in 1..Len(wire') : i > Len(wire) =>
              \/ wire'[i] = fs[i - Len(wire)]
              \/ wire'[i] = Torn(fs[i - Len(wire)])
         /\ ok => /\ Len(wire') = Len(wire) + Len(fs)
                  /\ \A i \in 1..Len(fs) : wire'[Len(wire) + i] = fs[i]
<1>1. ASSUME NEW part \in Seq(Frames), Len(part) <= Len(fs), wire' = wire \o part,
             \A i \in 1..Len(part) : part[i] = fs[i] \/ part[i] = Torn(fs[i])
      PROVE  /\ wire' \in Seq(Frames)
             /\ Len(wire) <= Len(wire') /\ Len(wire') <= Len(wire) + Len(fs)
             /\ Len(wire') = Len(wire) + Len(part)
             /\ \A i \in 1..Len(wire) : wire'[i] = wire[i]
             /\ \A i \in 1..Len(part) : wire'[Len(wire) + i] = part[i]
             /\ \A i \in 1..Len(wire') : i > Len(wire) =>
                  \/ wire'[i] = fs[i - Len(wire)]
                  \/ wire'[i] = Torn(fs[i - Len(wire)])
  <2>1. /\ wire \o part \in Seq(Frames)
        /\ Len(wire \o part) = Len(wire) + Len(part)
        /\ \A i \in 1..Len(wire) + Len(part) :
             (wire \o part)[i] = IF i <= Len(wire) THEN wire[i] ELSE part[i - Len(wire)]
    BY <1>1, ConcatProperties
  <2>2. Len(wire) \in Nat /\ Len(part) \in Nat /\ Len(fs) \in Nat
    BY LenProperties
  <2>3. QED
    BY <1>1, <2>1, <2>2
<1>2. CASE ok
  <2>1. wire' = wire \o fs /\ failures' = failures
    BY <1>2 DEF Transport
  <2>2. Len(fs) \in Nat
    BY LenProperties
  <2>3. QED
    BY <1>1, <1>2, <2>1, <2>2
<1>3. CASE ~ok
  <2>1. PICK part \in Leftovers(fs) : wire' = wire \o part
    BY Zenon, <1>3 DEF Transport
  <2>2. failures' \in Nat
    BY <1>3 DEF Transport
  <2>3. /\ part \in Seq(Frames) /\ Len(part) <= Len(fs)
        /\ \A i \in 1..Len(part) : part[i] = fs[i] \/ part[i] = Torn(fs[i])
    BY LeftoversAre
  <2>4. QED
    BY <1>1, <1>3, <2>1, <2>2, <2>3
<1>4. QED
  BY <1>2, <1>3

LEMMA EndFragmentType ==
  ASSUME TypeOK, NEW t \in Writers, NEW ok \in BOOLEAN, EndFragment(t, ok)
  PROVE  ConnOK'
BY DEF TypeOK, EndFragment, ConnOK

\* Every variable keeps its type.
THEOREM TypeCorrect == Spec => []TypeOK
<1>1. Init => TypeOK
  <2>1. NoFrame \in Frames /\ NoCall \in Calls
    BY DEF NoFrame, Frames, FrameOps, NoCall, Calls, Names
  <2>2. \A n \in Limits : EffectiveLimit(n) \in Nat
    BY ConstantsAssumption DEF EffectiveLimit
  <2>3. <<>> \in Seq(Frames)
    BY EmptySeq
  <2>4. Init => limit \in Nat
    BY <2>2 DEF Init
  <2>5. Init => hasQueue \in BOOLEAN
    BY Zenon DEF Init
  <2>6. Init => LocalsOK
    BY <2>1 DEF Init, LocalsOK
  <2>7. Init => ConnOK /\ running \in BOOLEAN /\ err \in BOOLEAN /\ cur \in BOOLEAN /\ flushing \in BOOLEAN
    BY Zenon DEF Init, ConnOK
  <2>8. Init => /\ segments \in Seq(Frames) /\ flushSegments \in Seq(Frames) /\ wire \in Seq(Frames)
                /\ run \in [Runners -> {"none", "top", "iolock", "io", "wrote", "failed"}]
    BY <2>3 DEF Init
  <2>9. Init => /\ size \in Nat /\ enqueued \in Nat /\ written \in Nat /\ encoded \in Nat
                /\ calls \in Nat /\ failures \in Nat /\ accepted \in SUBSET Nat
                /\ wmu \in Writers \cup {NoOne} /\ iomu \in Writers \cup Runners \cup {NoOne}
    BY DEF Init
  <2>10. QED
    BY <2>4, <2>5, <2>6, <2>7, <2>8, <2>9 DEF TypeOK, LocalsOK, ConnOK
<1>2. TypeOK /\ [Next]_vars => TypeOK'
  <2> SUFFICES ASSUME TypeOK, [Next]_vars
               PROVE  TypeOK'
    OBVIOUS
  <2>1. ASSUME NEW t \in Writers, Start(t) PROVE TypeOK'
    <3> PICK c \in Ops : Call(t, c) \/ Wait(t, c) \/ WriteFrom(t, c)
      BY <2>1 DEF Start
    <3>0. c \in Calls
      BY OpsAssumption
    <3>1. CASE Call(t, c)
      BY <3>0, <3>1, EnterType DEF Call
    <3>2. CASE Wait(t, c)
      BY <3>2 DEF Wait, TypeOK, conn, queue
    <3>3. CASE WriteFrom(t, c)
      <4>1. /\ [c EXCEPT !.name = "Write"] \in Calls
            /\ [c EXCEPT !.name = "BeginMessage"] \in Calls
        BY <3>0 DEF Calls, Names
      <4>2. QED
        BY <3>3, <4>1, EnterType DEF WriteFrom
    <3>4. QED
      BY <3>1, <3>2, <3>3
  <2>2. ASSUME NEW t \in Writers, ReadAhead(t) PROVE TypeOK'
    <3>1. /\ [name |-> "WriteChunk", n |-> FragmentSize] \in Calls
          /\ [name |-> "LastChunk", n |-> FragmentSize] \in Calls
      BY ConstantsAssumption DEF Calls, Names
    <3>2. CASE \E r \in {"loop", "last"} : Enter(t, [name |-> "WriteChunk", n |-> FragmentSize], r)
      BY <3>1, <3>2, EnterType
    <3>3. CASE Enter(t, [name |-> "LastChunk", n |-> FragmentSize], "none")
      BY <3>1, <3>3, EnterType
    <3>4. CASE /\ pc' = [pc EXCEPT ![t] = "idle"]
               /\ rest' = [rest EXCEPT ![t] = "none"]
               /\ UNCHANGED <<wmu, iomu, conn, queue, call, frame, seq, due, acked,
                              wire, encoded, calls, failures>>
      BY <3>4 DEF TypeOK, conn, queue
    <3>5. QED
      BY <2>2, <3>2, <3>3, <3>4 DEF ReadAhead
  <2>3. ASSUME NEW t \in Writers, UnderWmu(t) PROVE TypeOK'
    <3>0. UNCHANGED conn => ConnOK'
      BY DEF conn, ConnOK, TypeOK
    <3>1. SendFrame \in {"enqueue", "iolock"}
      BY DEF SendFrame
    <3>2. CASE NewQueue(t)
      <4>1. LocalsOK'
        BY Zenon, <3>2, ReturnType DEF NewQueue
      <4>2. call[t].n \in Nat
        BY DEF TypeOK, Calls
      <4>3. limit' \in Nat
        BY <3>2, <4>2, ConstantsAssumption DEF NewQueue, EffectiveLimit, TypeOK
      <4>4. QED
        BY <3>2, <4>1, <4>3 DEF NewQueue, TypeOK, LocalsOK, conn
    <3>3. CASE Send(t)
      BY Zenon, <3>0, <3>3, RefuseType, EncodeType DEF Send, FrameOps
    <3>4. CASE Write(t)
      BY Zenon, <3>0, <3>1, <3>4, RefuseType, EncodeType DEF Write, FrameOps
    <3>5. CASE BeginMessage(t)
      <4>1. CASE Refuse(t) /\ UNCHANGED conn
        BY <3>0, <4>1, RefuseType
      <4>2. CASE /\ fragOpen' = TRUE /\ fragFirst' = TRUE
                 /\ Return(t, TRUE, {})
                 /\ UNCHANGED <<wmu, iomu, closeSent, queue, wire, encoded, calls, failures>>
        <5>1. LocalsOK'
          BY Zenon, <4>2, ReturnType
        <5>2. QED
          BY <4>2, <5>1 DEF TypeOK, LocalsOK, queue
      <4>3. QED
        BY Zenon, <3>5, <4>1, <4>2 DEF BeginMessage
    <3>6. CASE WriteFragment(t)
      <4>1. CASE Refuse(t) /\ UNCHANGED conn
        BY <3>0, <4>1, RefuseType
      <4>2. CASE fragOpen' = FALSE /\ Refuse(t) /\ UNCHANGED <<closeSent, fragFirst>>
        BY Zenon, <4>2, RefuseType DEF ConnOK, TypeOK
      <4>3. CASE Encode(t, IF fragFirst THEN "data" ELSE "cont", Final(call[t]), FALSE, SendFrame)
        BY Zenon, <3>1, <4>3, EncodeType DEF FrameOps, Final
      <4>4. QED
        BY Zenon, <3>6, <4>1, <4>2, <4>3 DEF WriteFragment
    <3>7. CASE Control(t)
      BY Zenon, <3>0, <3>7, RefuseType, EncodeType DEF Control, FrameOps
    <3>8. CASE Close(t)
      BY Zenon, <3>0, <3>1, <3>8, RefuseType, EncodeType DEF Close, FrameOps
    <3>9. QED
      BY <2>3, <3>2, <3>3, <3>4, <3>5, <3>6, <3>7, <3>8 DEF UnderWmu
  <2>4. ASSUME NEW t \in Writers, Enqueue(t) PROVE TypeOK'
    <3>1. ConnOK'
      BY Zenon, <2>4, EndFragmentType DEF Enqueue, Accepts, TypeOK
    <3>2. NoFrame \in Frames
      BY DEF NoFrame, Frames, FrameOps
    <3>3. LocalsOK'
      <4>1. CASE \E ok \in BOOLEAN : Return(t, ok, {})
        BY <4>1, ReturnType
      <4>2. CASE /\ pc' = [pc EXCEPT ![t] = "await"]
                 /\ seq' = [seq EXCEPT ![t] = enqueued + 1]
                 /\ frame' = [frame EXCEPT ![t] = NoFrame]
                 /\ UNCHANGED <<call, rest, due, acked>>
        BY <3>2, <4>2 DEF TypeOK, LocalsOK
      <4>3. QED
        BY Zenon, <2>4, <4>1, <4>2 DEF Enqueue
    <3>4. CASE ~Accepts
      BY Zenon, <2>4, <3>1, <3>3, <3>4 DEF Enqueue, TypeOK, ConnOK, LocalsOK, queue
    <3>5. CASE Accepts
      <4>1. frame[t] \in Frames /\ frame[t].len \in Nat /\ frame[t].id \in Nat
        BY DEF TypeOK, Frames
      <4>2. /\ segments' = Append(segments, frame[t])
            /\ cur' = (cur \/ ~frame[t].ext)
            /\ size' = size + frame[t].len
            /\ enqueued' = enqueued + 1
            /\ accepted' = accepted \cup {frame[t].id}
            /\ running' = TRUE
            /\ StartWriter
            /\ UNCHANGED <<hasQueue, limit, err, written, flushSegments, flushing>>
        BY <2>4, <3>5 DEF Enqueue
      <4>3. segments' \in Seq(Frames)
        BY <4>1, <4>2, AppendProperties DEF TypeOK
      <4>4. run' \in [Runners -> {"none", "top", "iolock", "io", "wrote", "failed"}]
        BY Zenon, <4>2 DEF StartWriter, TypeOK
      <4>5. cur' \in BOOLEAN
        BY <4>2
      <4>6. wmu' = NoOne /\ UNCHANGED <<iomu, wire, encoded, calls, failures>>
        BY <2>4 DEF Enqueue
      <4>7. size' \in Nat /\ enqueued' \in Nat /\ limit' \in Nat /\ written' \in Nat
        BY <4>1, <4>2 DEF TypeOK
      <4>11. accepted' \in SUBSET Nat /\ flushSegments' \in Seq(Frames)
        BY Zenon, <4>1, <4>2 DEF TypeOK
      <4>10. running' \in BOOLEAN /\ hasQueue' \in BOOLEAN /\ err' \in BOOLEAN /\ flushing' \in BOOLEAN
        BY <4>2 DEF TypeOK
      <4>8. /\ wmu' \in Writers \cup {NoOne} /\ iomu' \in Writers \cup Runners \cup {NoOne}
            /\ wire' \in Seq(Frames) /\ encoded' \in Nat /\ calls' \in Nat /\ failures' \in Nat
        BY <4>6 DEF TypeOK
      <4>9. QED
        BY Zenon, <3>1, <3>3, <4>3, <4>4, <4>5, <4>7, <4>8, <4>10, <4>11 DEF TypeOK, ConnOK, LocalsOK
    <3>6. QED
      BY <3>4, <3>5
  <2>5. ASSUME NEW t \in Writers, Await(t) PROVE TypeOK'
    <3>1. LocalsOK'
      <4>1. due[t] \in SUBSET Nat /\ WaitResult \in BOOLEAN
        BY DEF TypeOK, WaitResult
      <4>2. CASE Return(t, WaitResult, due[t])
        BY <4>1, <4>2, ReturnType
      <4>3. CASE pc' = [pc EXCEPT ![t] = "asleep"] /\ UNCHANGED <<call, frame, seq, rest, due, acked>>
        BY <4>3 DEF TypeOK, LocalsOK
      <4>4. QED
        BY <2>5, <4>2, <4>3 DEF Await
    <3>2. UNCHANGED <<wmu, iomu, conn, queue, wire, encoded, calls, failures>>
      BY <2>5 DEF Await
    <3>3. QED
      BY <3>1, <3>2 DEF TypeOK, LocalsOK, conn, queue
  <2>6. ASSUME NEW t \in Writers, IoLock(t) PROVE TypeOK'
    BY <2>6 DEF IoLock, TypeOK, conn, queue
  <2>7. ASSUME NEW t \in Writers, IoDone(t) PROVE TypeOK'
    <3>1. PICK ok \in BOOLEAN : Transport(<<frame[t]>>, ok) /\ EndFragment(t, ok) /\ Return(t, ok, due[t])
      BY <2>7 DEF IoDone
    <3>2. frame[t] \in Frames /\ due[t] \in SUBSET Nat
      BY DEF TypeOK
    <3>3. LocalsOK' /\ ConnOK'
      BY <3>1, <3>2, ReturnType, EndFragmentType
    <3>4. wire' \in Seq(Frames) /\ failures' \in Nat
      <4>1. <<frame[t]>> \in Seq(Frames)
        BY <3>2
      <4>2. QED
        BY Zenon, <3>1, <4>1, TransportEffect DEF TypeOK
    <3>5. QED
      BY <2>7, <3>3, <3>4 DEF IoDone, TypeOK, LocalsOK, ConnOK, queue
  <2>8. ASSUME NEW r \in Runners, RunStep(r) PROVE TypeOK'
    <3>0. <<>> \in Seq(Frames)
      BY EmptySeq
    <3>1. CASE RunExit(r)
      BY ZenonT(30), <3>1 DEF RunExit, Broadcast, TypeOK, conn
    <3>2. CASE RunTake(r)
      BY Zenon, <3>0, <3>2 DEF RunTake, SwapArena, TypeOK, conn, locals
    <3>3. CASE FlushLock(r)
      BY <3>3 DEF FlushLock, TypeOK, conn, locals
    <3>4. CASE RunAfter(r)
      <4>1. written' \in Nat
        BY <3>4, LenProperties DEF RunAfter, Flushed, TypeOK
      <4>2. QED
        BY Zenon, <3>0, <3>4, <4>1 DEF RunAfter, SizeAfter, Broadcast, TypeOK, conn
    <3>5. QED
      BY <2>8, <3>1, <3>2, <3>3, <3>4 DEF RunStep
  <2>9. ASSUME NEW r \in Runners, Flush(r) PROVE TypeOK'
    <3>1. PICK ok \in BOOLEAN : /\ Transport(flushSegments, ok)
                                /\ run' = [run EXCEPT ![r] = IF ok THEN "wrote" ELSE "failed"]
      BY Zenon, <2>9 DEF Flush
    <3>2. wire' \in Seq(Frames) /\ failures' \in Nat
      BY <3>1, TransportEffect DEF TypeOK
    <3>3. QED
      BY <2>9, <3>1, <3>2 DEF Flush, TypeOK, conn, locals
  <2>10. CASE UNCHANGED vars
    BY <2>10 DEF TypeOK, vars, conn, queue, locals
  <2>11. QED
    BY <2>1, <2>2, <2>3, <2>4, <2>5, <2>6, <2>7, <2>8, <2>9, <2>10 DEF Next, Internal, Idle
<1>3. QED
  BY <1>1, <1>2, PTL DEF Spec
-----------------------------------------------------------------------------
(***************************************************************************)
(* The queue's bookkeeping.  OneWriter, Accounting and WriterWhenNeeded    *)
(* are not inductive one by one: that enqueue may start a writer rests on  *)
(* `running`, that a waiter will be woken rests on there being a writer,   *)
(* and the count of written frames on only a busy writer holding frames.   *)
(***************************************************************************)
Busy == {"iolock", "io", "wrote", "failed"}

\* A call on its way to enqueue has a queue to go to, with a frame that counts,
\* and nobody waits for a frame that was never enqueued.
QueuedOK(t) ==
  /\ pc[t] = "enqueue" => hasQueue /\ frame[t].len > 0
  /\ pc[t] = "lock" /\ ~Sync(call[t]) => hasQueue
  /\ seq[t] <= enqueued

QueueInv ==
  /\ OneWriter
  /\ Accounting
  /\ WriterWhenNeeded
  /\ flushSegments # <<>> => \E r \in Runners : run[r] \in Busy
  /\ err => segments = <<>> /\ ~running
  /\ ~hasQueue => segments = <<>> /\ ~running
  /\ \A t \in Writers : QueuedOK(t)

\* A step that touches neither the queue's contents nor its writer, and puts
\* nobody to sleep.
QuietStep ==
  /\ UNCHANGED <<segments, size, running, err, enqueued, written, flushSegments, run>>
  /\ hasQueue => hasQueue'
  /\ \A t \in Writers : pc'[t] = "asleep" => pc[t] = "asleep"
  /\ \A t \in Writers : QueuedOK(t)'

LEMMA QuietStepKeepsQueueInv ==
  ASSUME QueueInv, QuietStep
  PROVE  QueueInv'
<1>1. OneWriter'
  BY DEF QueueInv, QuietStep, OneWriter
<1>2. Accounting'
  BY DEF QueueInv, QuietStep, Accounting
<1>3. WriterWhenNeeded'
  BY DEF QueueInv, QuietStep, WriterWhenNeeded
<1>4. (flushSegments # <<>> => \E r \in Runners : run[r] \in Busy)'
  BY DEF QueueInv, QuietStep
<1>5. (err => segments = <<>> /\ ~running)' /\ (~hasQueue => segments = <<>> /\ ~running)'
  BY DEF QueueInv, QuietStep
<1>6. (\A t \in Writers : QueuedOK(t))'
  BY DEF QuietStep
<1>7. QED
  BY <1>1, <1>2, <1>3, <1>4, <1>5, <1>6 DEF QueueInv

LEMMA ReturnIsQuiet ==
  ASSUME TypeOK, QueueInv, NEW t \in Writers, NEW ok, NEW ids, Return(t, ok, ids)
  PROVE  /\ \A u \in Writers : pc'[u] = "asleep" => pc[u] = "asleep"
         /\ (hasQueue => hasQueue') /\ enqueued' \in Nat /\ enqueued <= enqueued'
              => \A u \in Writers : QueuedOK(u)'
<1>1. \A u \in Writers : pc'[u] = IF u = t THEN pc'[t] ELSE pc[u]
  BY DEF TypeOK, Return
<1>2. pc'[t] \in {"from", "idle"} /\ seq'[t] = 0
  BY DEF TypeOK, Return
<1>3. ASSUME NEW u \in Writers, u # t
      PROVE  call'[u] = call[u] /\ frame'[u] = frame[u] /\ seq'[u] = seq[u]
  BY <1>3 DEF TypeOK, Return
<1>4. \A u \in Writers : pc'[u] = "asleep" => pc[u] = "asleep"
  BY <1>1, <1>2
<1>5. ASSUME hasQueue => hasQueue', enqueued' \in Nat, enqueued <= enqueued', NEW u \in Writers
      PROVE  QueuedOK(u)'
  <2>1. CASE u = t
    BY <1>2, <1>5, <2>1 DEF QueuedOK
  <2>2. CASE u # t
    <3>1. QueuedOK(u) /\ seq[u] \in Nat /\ enqueued \in Nat
      BY DEF QueueInv, TypeOK
    <3>2. pc'[u] = pc[u] /\ call'[u] = call[u] /\ frame'[u] = frame[u] /\ seq'[u] = seq[u]
      BY <1>1, <1>3, <2>2
    <3>3. seq'[u] <= enqueued'
      BY <1>5, <3>1, <3>2 DEF QueuedOK
    <3>4. QED
      BY <1>5, <3>1, <3>2, <3>3 DEF QueuedOK, Sync
  <2>3. QED
    BY <2>1, <2>2
<1>6. QED
  BY <1>4, <1>5

LEMMA BareReturnIsQuiet ==
  ASSUME TypeOK, QueueInv, NEW t \in Writers, NEW ok, NEW ids, Return(t, ok, ids),
         UNCHANGED <<segments, size, running, err, enqueued, written, flushSegments, run>>,
         hasQueue => hasQueue'
  PROVE  QuietStep
<1>1. enqueued' \in Nat /\ enqueued <= enqueued'
  BY DEF TypeOK
<1>2. QED
  BY <1>1, ReturnIsQuiet DEF QuietStep

LEMMA RefuseIsQuiet ==
  ASSUME TypeOK, QueueInv, NEW t \in Writers, Refuse(t)
  PROVE  QuietStep
BY Zenon, BareReturnIsQuiet DEF Refuse, queue

LEMMA EncodeIsQuiet ==
  ASSUME TypeOK, QueueInv, NEW t \in Writers, NEW op, NEW fin, NEW ext,
         NEW next \in {"enqueue", "iolock"}, next = "enqueue" => hasQueue,
         Encode(t, op, fin, ext, next)
  PROVE  QuietStep
<1>1. Header + call[t].n > 0
  BY ConstantsAssumption DEF TypeOK, Calls
<1>2. QED
  BY <1>1 DEF Encode, QuietStep, queue, QueueInv, TypeOK, QueuedOK

LEMMA EnterIsQuiet ==
  ASSUME TypeOK, QueueInv, NEW t \in Writers, NEW c, NEW r, Enter(t, c, r), ~Sync(c) => hasQueue
  PROVE  QuietStep
BY DEF Enter, QuietStep, queue, QueueInv, TypeOK, QueuedOK

\* The inductive invariant behind the queue's bookkeeping.
LEMMA QueueInvariant == Spec => []QueueInv
<1>1. Init => QueueInv
  <2>1. Init => OneWriter /\ WriterWhenNeeded /\ \A t \in Writers : QueuedOK(t)
    BY DEF Init, OneWriter, WriterWhenNeeded, QueuedOK
  <2>2. Init => Accounting
    BY EmptySeq DEF Init, Accounting
  <2>3. QED
    BY <2>1, <2>2 DEF Init, QueueInv
<1>2. TypeOK /\ TypeOK' /\ QueueInv /\ [Next]_vars => QueueInv'
  <2> SUFFICES ASSUME TypeOK, TypeOK', QueueInv, [Next]_vars
               PROVE  QueueInv'
    OBVIOUS
  <2>1. ASSUME NEW t \in Writers, Start(t) PROVE QuietStep
    <3> PICK c \in Ops : Call(t, c) \/ Wait(t, c) \/ WriteFrom(t, c)
      BY <2>1 DEF Start
    <3>0. c \in Calls
      BY OpsAssumption
    <3>1. CASE Wait(t, c)
      <4>1. UNCHANGED <<queue, call, frame>> /\ hasQueue
        BY <3>1 DEF Wait
      <4>2. /\ pc' = [pc EXCEPT ![t] = "await"] /\ seq' = [seq EXCEPT ![t] = enqueued]
            /\ enqueued \in Nat
        BY <3>1 DEF Wait, TypeOK
      <4>3. ASSUME NEW u \in Writers
            PROVE  QueuedOK(u)' /\ (pc'[u] = "asleep" => pc[u] = "asleep")
        <5>1. QueuedOK(u) /\ seq[u] \in Nat
          BY DEF QueueInv, TypeOK
        <5>2. CASE u = t
          BY <4>1, <4>2, <5>1, <5>2 DEF QueuedOK, TypeOK, queue
        <5>3. CASE u # t
          BY <4>1, <4>2, <5>1, <5>3 DEF QueuedOK, TypeOK, queue, Sync
        <5>4. QED
          BY <5>2, <5>3
      <4>4. QED
        BY <4>1, <4>3 DEF QuietStep, queue
    <3>2. CASE Call(t, c) \/ WriteFrom(t, c)
      BY <3>2, <3>0, EnterIsQuiet DEF Call, WriteFrom, Sync, Calls
    <3>3. QED
      BY <3>1, <3>2
  <2>2. ASSUME NEW t \in Writers, ReadAhead(t) PROVE QuietStep
    <3>1. CASE \E name \in {"WriteChunk", "LastChunk"}, r \in {"none", "loop", "last"} :
                 Enter(t, [name |-> name, n |-> FragmentSize], r)
      BY <3>1, EnterIsQuiet DEF Sync
    <3>2. CASE pc' = [pc EXCEPT ![t] = "idle"] /\ UNCHANGED <<queue, call>>
      <4>1. UNCHANGED <<queue, call, frame, seq>>
        BY <2>2, <3>2 DEF ReadAhead, Enter
      <4>2. QED
        BY <3>2, <4>1 DEF QuietStep, QueueInv, TypeOK, queue, QueuedOK
    <3>3. QED
      BY <2>2, <3>1, <3>2 DEF ReadAhead
  <2>3. ASSUME NEW t \in Writers, UnderWmu(t) PROVE QuietStep
    <3>1. SendFrame \in {"enqueue", "iolock"} /\ (SendFrame = "enqueue" => hasQueue)
      BY DEF SendFrame
    <3>2. CASE NewQueue(t)
      BY Zenon, <3>2, BareReturnIsQuiet DEF NewQueue
    <3>3. CASE Send(t)
      <4>1. hasQueue
        BY <3>3 DEF Send, Locked, Sync, QueuedOK, QueueInv
      <4>2. QED
        BY Zenon, <3>3, <4>1, RefuseIsQuiet, EncodeIsQuiet DEF Send
    <3>4. CASE Write(t)
      BY Zenon, <3>1, <3>4, RefuseIsQuiet, EncodeIsQuiet DEF Write
    <3>5. CASE BeginMessage(t)
      <4>1. CASE Refuse(t)
        BY <4>1, RefuseIsQuiet
      <4>2. CASE Return(t, TRUE, {}) /\ UNCHANGED queue
        BY Zenon, <4>2, BareReturnIsQuiet DEF queue
      <4>3. QED
        BY Zenon, <3>5, <4>1, <4>2 DEF BeginMessage
    <3>6. CASE WriteFragment(t)
      BY Zenon, <3>1, <3>6, RefuseIsQuiet, EncodeIsQuiet DEF WriteFragment
    <3>7. CASE Control(t)
      BY Zenon, <3>7, RefuseIsQuiet, EncodeIsQuiet DEF Control
    <3>8. CASE Close(t)
      BY Zenon, <3>1, <3>8, RefuseIsQuiet, EncodeIsQuiet DEF Close
    <3>9. QED
      BY <2>3, <3>2, <3>3, <3>4, <3>5, <3>6, <3>7, <3>8 DEF UnderWmu
  <2>6. ASSUME NEW t \in Writers, IoLock(t) PROVE QuietStep
    BY <2>6 DEF IoLock, QuietStep, QueueInv, TypeOK, queue, QueuedOK
  <2>7. ASSUME NEW t \in Writers, IoDone(t) PROVE QuietStep
    BY Zenon, <2>7, BareReturnIsQuiet DEF IoDone, queue
  <2>4. ASSUME NEW t \in Writers, Enqueue(t) PROVE QueueInv'
    <3>1. CASE ~Accepts
      <4>1. QuietStep
        <5>1. Return(t, FALSE, {}) /\ UNCHANGED queue
          BY Zenon, <2>4, <3>1 DEF Enqueue
        <5>2. QED
          BY Zenon, <5>1, BareReturnIsQuiet DEF queue
      <4>2. QED
        BY <4>1, QuietStepKeepsQueueInv
    <3>2. CASE Accepts
      <4>1. /\ segments' = Append(segments, frame[t]) /\ running' = TRUE
            /\ size' = size + frame[t].len /\ enqueued' = enqueued + 1 /\ StartWriter
            /\ UNCHANGED <<hasQueue, err, written, flushSegments>>
        BY <2>4, <3>2 DEF Enqueue
      <4>2. hasQueue /\ ~err
        BY <2>4, <3>2 DEF Enqueue, Accepts, QueueInv, QueuedOK
      <4>3. Len(segments') = Len(segments) + 1 /\ segments' # <<>>
        <5>1. frame[t] \in Frames /\ segments \in Seq(Frames)
          BY DEF TypeOK
        <5>2. QED
          BY <4>1, <5>1, AppendProperties
      <4>4. OneWriter'
        <5>1. CASE running
          BY <4>1, <5>1 DEF StartWriter, OneWriter, QueueInv
        <5>2. CASE ~running
          <6>1. PICK r \in Runners : run' = [run EXCEPT ![r] = "top"]
            BY <4>1, <5>2 DEF StartWriter
          <6>2. \A q \in Runners : run[q] = "none"
            BY <5>2 DEF OneWriter, QueueInv
          <6>3. \A q \in Runners : run'[q] = IF q = r THEN "top" ELSE "none"
            BY <6>1, <6>2 DEF TypeOK
          <6>4. QED
            BY <4>1, <6>3 DEF OneWriter
        <5>3. QED
          BY <5>1, <5>2
      <4>5. Accounting'
        <5>1. frame[t].len > 0 /\ frame[t].len \in Nat
          <6>1. frame[t] \in Frames
            BY DEF TypeOK
          <6>2. frame[t].len > 0
            BY Zenon, <2>4 DEF Enqueue, QueueInv, QueuedOK
          <6>3. QED
            BY <6>1, <6>2 DEF Frames
        <5>2. size' # 0
          <6>1. size \in Nat
            BY DEF TypeOK
          <6>2. QED
            BY <4>1, <5>1, <6>1
        <5>3. enqueued' = written' + Len(flushSegments') + Len(segments')
          <6>1. Len(flushSegments) \in Nat /\ Len(segments) \in Nat /\ written \in Nat
            BY LenProperties DEF TypeOK
          <6>2. enqueued = written + Len(flushSegments) + Len(segments)
            BY <4>2 DEF Accounting, QueueInv
          <6>3. QED
            BY <4>1, <4>3, <6>1, <6>2
        <5>4. QED
          BY <4>3, <5>2, <5>3 DEF Accounting
      <4>6. WriterWhenNeeded'
        BY <4>1 DEF WriterWhenNeeded
      <4>7. (flushSegments # <<>> => \E r \in Runners : run[r] \in Busy)'
        BY <4>1 DEF StartWriter, OneWriter, QueueInv, TypeOK, Busy
      <4>8. (\A u \in Writers : QueuedOK(u))'
        <5>1. CASE Sync(call[t])
          <6>1. /\ pc' = [pc EXCEPT ![t] = "await"] /\ seq' = [seq EXCEPT ![t] = enqueued + 1]
                /\ frame' = [frame EXCEPT ![t] = NoFrame] /\ call' = call
            BY Zenon, <2>4, <3>2, <5>1 DEF Enqueue
          <6>2. QED
            <7>1. ASSUME NEW u \in Writers PROVE QueuedOK(u)'
              <8>1. seq[u] \in Nat /\ enqueued \in Nat /\ QueuedOK(u)
                BY DEF TypeOK, QueueInv
              <8>2. /\ pc'[u] = IF u = t THEN "await" ELSE pc[u]
                    /\ seq'[u] = IF u = t THEN enqueued + 1 ELSE seq[u]
                    /\ u # t => frame'[u] = frame[u]
                    /\ call'[u] = call[u]
                BY <6>1 DEF TypeOK
              <8>3. seq'[u] <= enqueued'
                <9>1. seq[u] <= enqueued
                  BY <8>1 DEF QueuedOK
                <9>2. enqueued' = enqueued + 1
                  BY <4>1
                <9>3. seq'[u] = enqueued + 1 \/ seq'[u] = seq[u]
                  BY <8>2
                <9>4. QED
                  BY <8>1, <9>1, <9>2, <9>3
              <8>4. hasQueue'
                BY <4>1, <4>2
              <8>5. QED
                BY <8>1, <8>2, <8>3, <8>4 DEF QueuedOK, Sync
            <7>2. QED
              BY <7>1
        <5>2. CASE ~Sync(call[t])
          <6>1. Return(t, TRUE, {})
            BY Zenon, <2>4, <3>2, <5>2 DEF Enqueue
          <6>2. enqueued' \in Nat /\ enqueued <= enqueued'
            BY <4>1 DEF TypeOK
          <6>3. QED
            BY Zenon, <4>1, <4>2, <6>1, <6>2, ReturnIsQuiet
        <5>3. QED
          BY <5>1, <5>2
      <4>9. QED
        BY <4>1, <4>2, <4>4, <4>5, <4>6, <4>7, <4>8 DEF QueueInv
    <3>3. QED
      BY <3>1, <3>2
  <2>5. ASSUME NEW t \in Writers, Await(t) PROVE QueueInv'
    <3>1. CASE Return(t, WaitResult, due[t])
      <4>1. QuietStep
        BY <2>5, <3>1, BareReturnIsQuiet DEF Await, queue
      <4>2. QED
        BY <4>1, QuietStepKeepsQueueInv
    <3>2. CASE /\ written < seq[t] /\ ~err
               /\ pc' = [pc EXCEPT ![t] = "asleep"]
               /\ UNCHANGED <<call, frame, seq, rest, due, acked>>
      <4>1. running
        <5>1. Len(flushSegments) + Len(segments) > 0
          <6>1. Len(flushSegments) \in Nat /\ Len(segments) \in Nat
            BY LenProperties DEF TypeOK
          <6>2. seq[t] <= enqueued /\ enqueued = written + Len(flushSegments) + Len(segments)
            BY <3>2 DEF QueueInv, QueuedOK, Accounting
          <6>3. seq[t] \in Nat /\ enqueued \in Nat /\ written \in Nat
            BY DEF TypeOK
          <6>4. QED
            BY <3>2, <6>1, <6>2, <6>3
        <5>2. flushSegments # <<>> \/ segments # <<>>
          BY <5>1, EmptySeq
        <5>3. QED
          BY <5>2 DEF QueueInv, WriterWhenNeeded, OneWriter, Busy
      <4>2. UNCHANGED <<segments, size, running, err, enqueued, written, flushSegments, run,
                        hasQueue, call, frame, seq>>
        BY <2>5, <3>2 DEF Await, queue
      <4>3. OneWriter' /\ Accounting' /\ WriterWhenNeeded'
        BY Zenon, <4>1, <4>2 DEF QueueInv, OneWriter, Accounting, WriterWhenNeeded
      <4>4. (\A u \in Writers : QueuedOK(u))'
        BY <3>2, <4>2 DEF QueueInv, QueuedOK, TypeOK
      <4>5. QED
        BY <4>2, <4>3, <4>4 DEF QueueInv
    <3>3. QED
      BY <2>5, <3>1, <3>2 DEF Await
  <2>8. ASSUME NEW r \in Runners, RunExit(r) PROVE QueueInv'
    <3>1. \A q \in Runners : run'[q] = "none"
      <4>1. \A q \in Runners : q # r => run[q] = "none"
        BY <2>8 DEF RunExit, QueueInv, OneWriter
      <4>2. run' = [run EXCEPT ![r] = "none"]
        BY <2>8 DEF RunExit
      <4>3. QED
        BY <4>1, <4>2 DEF TypeOK
    <3>2. \A q \in Runners : run[q] \notin Busy
      BY <2>8 DEF RunExit, QueueInv, OneWriter, Busy
    <3>3. \A t \in Writers : pc'[t] # "asleep" /\ (pc'[t] \in {"enqueue", "lock"} => pc'[t] = pc[t])
      BY <2>8 DEF RunExit, Broadcast, TypeOK
    <3>4. OneWriter'
      BY <2>8, <3>1 DEF RunExit, OneWriter
    <3>5. Accounting'
      BY <2>8 DEF RunExit, Accounting, QueueInv
    <3>6. segments = <<>> /\ segments' = <<>> /\ flushSegments = <<>> /\ flushSegments' = <<>>
      BY <2>8, <3>2 DEF RunExit, QueueInv
    <3>7. WriterWhenNeeded'
      BY <3>3, <3>6 DEF WriterWhenNeeded
    <3>8. (\A t \in Writers : QueuedOK(t))'
      BY <2>8, <3>3 DEF RunExit, QueuedOK, QueueInv
    <3>9. QED
      BY <2>8, <3>4, <3>5, <3>6, <3>7, <3>8 DEF RunExit, QueueInv
  <2>9. ASSUME NEW r \in Runners, RunTake(r) PROVE QueueInv'
    <3>1. running /\ (\A q \in Runners : q # r => run[q] = "none") /\ hasQueue
      BY <2>9 DEF RunTake, QueueInv, OneWriter
    <3>2. \A q \in Runners : run'[q] = IF q = r THEN "iolock" ELSE "none"
      BY <2>9, <3>1 DEF RunTake, TypeOK
    <3>3. flushSegments = <<>>
      BY <2>9, <3>1 DEF RunTake, QueueInv, Busy
    <3>4. OneWriter'
      BY <2>9, <3>1, <3>2 DEF RunTake, OneWriter
    <3>5. Accounting'
      <4>1. Len(segments) \in Nat /\ written \in Nat /\ Len(flushSegments) = 0 /\ Len(segments') = 0
        BY <2>9, <3>3, LenProperties, EmptySeq DEF RunTake, TypeOK
      <4>2. /\ flushSegments' = segments /\ segments' = <<>> /\ size' = 0
            /\ UNCHANGED <<err, enqueued, written>>
        BY <2>9 DEF RunTake
      <4>3. QED
        BY <4>1, <4>2 DEF Accounting, QueueInv
    <3>6. WriterWhenNeeded'
      BY <2>9, <3>1 DEF RunTake, WriterWhenNeeded
    <3>7. (\A t \in Writers : QueuedOK(t))'
      BY <2>9 DEF RunTake, QueuedOK, QueueInv, locals
    <3>8. (\E q \in Runners : run[q] \in Busy)'
      BY <3>2 DEF Busy
    <3>9. QED
      BY <2>9, <3>1, <3>4, <3>5, <3>6, <3>7, <3>8 DEF RunTake, QueueInv
  <2>10. ASSUME NEW r \in Runners, FlushLock(r) \/ Flush(r) PROVE QueueInv'
    <3>1. running /\ (\A q \in Runners : q # r => run[q] = "none") /\ run[r] # "none"
      BY <2>10 DEF FlushLock, Flush, QueueInv, OneWriter
    <3>2. run'[r] \in Busy /\ \A q \in Runners : q # r => run'[q] = "none"
      <4>1. run \in [Runners -> {"none", "top", "iolock", "io", "wrote", "failed"}]
        BY DEF TypeOK
      <4>2. \E s \in Busy : run' = [run EXCEPT ![r] = s]
        BY <2>10 DEF FlushLock, Flush, Busy
      <4>3. QED
        BY <3>1, <4>1, <4>2
    <3>3. UNCHANGED <<segments, size, running, err, enqueued, written, flushSegments, hasQueue, locals>>
      BY <2>10 DEF FlushLock, Flush
    <3>4. OneWriter'
      BY <3>1, <3>2, <3>3 DEF OneWriter, Busy
    <3>5. Accounting' /\ WriterWhenNeeded' /\ (\A t \in Writers : QueuedOK(t))'
      BY <3>3 DEF Accounting, WriterWhenNeeded, QueuedOK, QueueInv, locals
    <3>6. QED
      BY <3>1, <3>2, <3>3, <3>4, <3>5 DEF QueueInv
  <2>11. ASSUME NEW r \in Runners, RunAfter(r) PROVE QueueInv'
    <3>1. running /\ ~err /\ hasQueue /\ (\A q \in Runners : q # r => run[q] = "none")
      BY <2>11 DEF RunAfter, QueueInv, OneWriter
    <3>2. \A t \in Writers : pc'[t] # "asleep" /\ (pc'[t] \in {"enqueue", "lock"} => pc'[t] = pc[t])
      BY <2>11 DEF RunAfter, Broadcast, TypeOK
    <3>3. (\A t \in Writers : QueuedOK(t))'
      BY <2>11, <3>2 DEF RunAfter, QueuedOK, QueueInv
    <3>4. CASE run[r] = "failed"
      <4>1. /\ err' /\ segments' = <<>> /\ size' = 0 /\ ~running' /\ flushSegments' = <<>>
            /\ \A q \in Runners : run'[q] = "none"
        BY ZenonT(30), <2>11, <3>1, <3>4 DEF RunAfter, SizeAfter, TypeOK
      <4>2. QED
        BY Zenon, <2>11, <3>1, <3>2, <3>3, <4>1 DEF RunAfter, QueueInv, OneWriter, Accounting, WriterWhenNeeded
    <3>5. CASE run[r] = "wrote"
      <4>1. /\ ~err' /\ segments' = segments /\ size' = size /\ running' /\ flushSegments' = <<>>
            /\ \A q \in Runners : run'[q] = IF q = r THEN "top" ELSE "none"
            /\ written' = written + Len(flushSegments) /\ enqueued' = enqueued
        BY Zenon, <2>11, <3>1, <3>5 DEF RunAfter, SizeAfter, Flushed, TypeOK
      <4>2. OneWriter' /\ WriterWhenNeeded'
        BY <4>1 DEF OneWriter, WriterWhenNeeded
      <4>3. Accounting'
        <5>1. Len(flushSegments) \in Nat /\ Len(segments) \in Nat /\ written \in Nat
          BY LenProperties DEF TypeOK
        <5>2. Accounting /\ Len(flushSegments') = 0
          BY <4>1, EmptySeq DEF QueueInv
        <5>3. QED
          BY <3>1, <4>1, <5>1, <5>2 DEF Accounting
      <4>4. QED
        BY <2>11, <3>1, <3>3, <4>1, <4>2, <4>3 DEF RunAfter, QueueInv
    <3>6. QED
      BY <2>11, <3>4, <3>5 DEF RunAfter
  <2>12. CASE UNCHANGED vars
    BY Zenon, <2>12, QuietStepKeepsQueueInv DEF QuietStep, QueueInv, QueuedOK, vars, queue, locals
  <2>20. QED
    BY <2>1, <2>2, <2>3, <2>4, <2>5, <2>6, <2>7, <2>8, <2>9, <2>10, <2>11, <2>12, QuietStepKeepsQueueInv
       DEF Next, Internal, RunStep, Idle
<1>4. QED
  BY <1>1, <1>2, TypeCorrect, PTL DEF Spec

\* At most one goroutine runs Queue.run, and running says whether one does.
THEOREM OneWriterCorrect == Spec => []OneWriter
<1>1. QueueInv => OneWriter
  BY DEF QueueInv
<1>2. QED
  BY <1>1, QueueInvariant, PTL

\* The sequence numbers await compares count every frame: those written, those
\* being flushed and those queued.
THEOREM AccountingCorrect == Spec => []Accounting
<1>1. QueueInv => Accounting
  BY DEF QueueInv
<1>2. QED
  BY <1>1, QueueInvariant, PTL

\* No lost wakeup: a queue with frames or with a sleeping waiter has a writer that
\* will come to it.
THEOREM QueueCorrect == Spec => []WriterWhenNeeded
<1>1. QueueInv => WriterWhenNeeded
  BY DEF QueueInv
<1>2. QED
  BY <1>1, QueueInvariant, PTL
=============================================================================
