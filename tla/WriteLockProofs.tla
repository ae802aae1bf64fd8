-------------------------- MODULE WriteLockProofs --------------------------
(***************************************************************************)
(* Proofs about WritePath that rest on who holds wmu: the reservation made *)
(* before a frame is encoded, the arenas behind the queued frames, and the *)
(* silence of a failed queue.                                              *)
(***************************************************************************)
EXTENDS WritePathProofs

\* Where a call holds wmu.
Holding == {"enqueue", "iolock", "io"}

StreamOps == {"data", "cont", "close"}

\* The frames the queue keeps in order.  sendClose writes its close frame past
\* the queue, so close frames are among them only where nobody calls it.
NoSendClose == \A c \in Ops : c.name # "sendClose"
Kept(f) == f.op \in {"data", "cont"} \/ (f.op = "close" /\ NoSendClose)

\* A step of a call that neither takes nor gives up wmu: a call made, refused or
\* returning, and NewQueue, which finds wmu free.
Aside ==
  /\ UNCHANGED <<wmu, closeSent, wire, encoded, segments, size, running, err, enqueued, written,
                 flushSegments, cur, flushing, run, accepted>>
  /\ \A u \in Writers : pc'[u] \in Holding =>
       pc[u] = pc'[u] /\ frame'[u] = frame[u] /\ call'[u] = call[u] /\ due'[u] = due[u]
  /\ \/ UNCHANGED <<hasQueue, limit>>
     \/ wmu = NoOne /\ hasQueue'

\* What may be encoded, and where it goes.
Encodes(t) ==
  \E op \in FrameOps \ {"torn"}, fin \in BOOLEAN, ext \in BOOLEAN, next \in {"enqueue", "iolock"} :
    /\ Encode(t, op, fin, ext, next)
    /\ pc[t] = "lock" /\ wmu = NoOne
    /\ next = "enqueue" => /\ hasQueue /\ op \in StreamOps
                           /\ ~Sync(call[t]) => Reserve(call[t].n)
    /\ next = "iolock" /\ hasQueue => op \in {"ping", "pong"} \/ (op = "close" /\ call[t].name = "sendClose")
    /\ closeSent => op = "pong"

LEMMA ReturnIsAside ==
  ASSUME TypeOK, NEW t \in Writers, NEW ok, NEW ids, Return(t, ok, ids),
         UNCHANGED <<wmu, closeSent, wire, encoded, segments, size, running, err, enqueued, written,
                     flushSegments, cur, flushing, run, accepted>>,
         UNCHANGED <<hasQueue, limit>> \/ (wmu = NoOne /\ hasQueue')
  PROVE  Aside
<1>1. ASSUME NEW u \in Writers, pc'[u] \in Holding
      PROVE  pc[u] = pc'[u] /\ frame'[u] = frame[u] /\ call'[u] = call[u] /\ due'[u] = due[u]
  <2>1. u # t
    BY <1>1 DEF Return, TypeOK, Holding
  <2>2. QED
    BY <2>1 DEF Return, TypeOK
<1>2. QED
  BY <1>1 DEF Aside

LEMMA RefuseIsAside ==
  ASSUME TypeOK, NEW t \in Writers, Refuse(t), UNCHANGED closeSent
  PROVE  Aside
BY Zenon, ReturnIsAside DEF Refuse, queue

LEMMA EnterIsAside ==
  ASSUME TypeOK, NEW t \in Writers, NEW c, NEW r, Enter(t, c, r)
  PROVE  Aside
BY DEF Enter, Aside, TypeOK, Holding, queue, conn

\* Every step of a writer but the four that follow an encode, as one of the two.
LEMMA UnderWmuShape ==
  ASSUME TypeOK, QueueInv, NEW t \in Writers, UnderWmu(t)
  PROVE  Aside \/ Encodes(t)
<1>1. CASE NewQueue(t)
  BY Zenon, <1>1, ReturnIsAside DEF NewQueue, Locked, conn
<1>2. CASE Send(t)
  <2>1. CASE Refuse(t) /\ UNCHANGED closeSent
    BY <2>1, RefuseIsAside
  <2>2. CASE /\ Encode(t, "data", TRUE, call[t].name = "SendPrepared", "enqueue")
             /\ MayWrite /\ Reserve(call[t].n)
    <3>1. hasQueue
      BY <1>2 DEF Send, Locked, Sync, QueueInv, QueuedOK
    <3>2. QED
      BY Zenon, <1>2, <2>2, <3>1 DEF Send, Locked, Encodes, FrameOps, StreamOps, MayWrite
  <2>3. QED
    BY Zenon, <1>2, <2>1, <2>2 DEF Send, conn
<1>3. CASE Write(t)
  BY Zenon, <1>3, RefuseIsAside DEF conn, Write, Locked, Encodes, FrameOps, StreamOps, MayWrite, SendFrame, Sync
<1>4. CASE BeginMessage(t)
  <2>1. CASE Refuse(t) /\ UNCHANGED closeSent
    BY <2>1, RefuseIsAside
  <2>2. CASE Return(t, TRUE, {}) /\ UNCHANGED <<wmu, closeSent, wire, encoded, queue>>
    BY Zenon, <2>2, ReturnIsAside DEF queue
  <2>3. QED
    BY Zenon, <1>4, <2>1, <2>2 DEF BeginMessage, conn
<1>5. CASE WriteFragment(t)
  <2>1. CASE Refuse(t) /\ UNCHANGED closeSent
    BY <2>1, RefuseIsAside
  <2>2. CASE ~closeSent /\ Encode(t, IF fragFirst THEN "data" ELSE "cont", Final(call[t]), FALSE, SendFrame)
    BY Zenon, <1>5, <2>2 DEF WriteFragment, Locked, Encodes, FrameOps, StreamOps, SendFrame, Sync, Final
  <2>3. QED
    BY Zenon, <1>5, <2>1, <2>2 DEF WriteFragment, conn
<1>6. CASE Control(t)
  BY Zenon, <1>6, RefuseIsAside DEF conn, Control, Locked, Encodes, FrameOps
<1>7. CASE Close(t)
  BY Zenon, <1>7, RefuseIsAside DEF conn, Close, Locked, Encodes, FrameOps, StreamOps, SendFrame, Sync
<1>8. QED
  BY <1>1, <1>2, <1>3, <1>4, <1>5, <1>6, <1>7 DEF UnderWmu

LEMMA WriterShape ==
  ASSUME TypeOK, QueueInv, NEW t \in Writers,
         Start(t) \/ ReadAhead(t) \/ UnderWmu(t) \/ Await(t)
  PROVE  Aside \/ Encodes(t)
<1>1. CASE Start(t)
  <2>1. PICK c \in Ops : Call(t, c) \/ Wait(t, c) \/ WriteFrom(t, c)
    BY <1>1 DEF Start
  <2>2. CASE Wait(t, c)
    BY <2>2 DEF Wait, Aside, TypeOK, Holding, queue, conn
  <2>3. CASE Call(t, c) \/ WriteFrom(t, c)
    BY <2>3, EnterIsAside DEF Call, WriteFrom
  <2>4. QED
    BY <2>1, <2>2, <2>3
<1>2. CASE ReadAhead(t)
  <2>1. CASE \E c \in Calls, r \in {"none", "loop", "last"} : Enter(t, c, r)
    BY <2>1, EnterIsAside
  <2>2. CASE pc' = [pc EXCEPT ![t] = "idle"] /\ UNCHANGED <<wmu, conn, wire, encoded, queue, call, frame, due>>
    BY <2>2 DEF Aside, TypeOK, Holding, queue, conn
  <2>3. \A name \in {"WriteChunk", "LastChunk"} : [name |-> name, n |-> FragmentSize] \in Calls
    BY ConstantsAssumption DEF Calls, Names
  <2>4. QED
    BY <1>2, <2>1, <2>2, <2>3 DEF ReadAhead
<1>3. CASE UnderWmu(t)
  BY <1>3, UnderWmuShape
<1>4. CASE Await(t)
  <2>1. CASE Return(t, WaitResult, due[t])
    BY <1>4, <2>1, ReturnIsAside DEF Await, queue, conn
  <2>2. CASE pc' = [pc EXCEPT ![t] = "asleep"] /\ UNCHANGED <<call, frame, due>>
    BY <1>4, <2>2 DEF Await, Aside, TypeOK, Holding, queue, conn
  <2>3. QED
    BY <1>4, <2>1, <2>2 DEF Await
<1>5. QED
  BY <1>1, <1>2, <1>3, <1>4

\* Every step is one of these.
LEMMA StepShape ==
  ASSUME TypeOK, QueueInv, [Next]_vars
  PROVE  \/ Aside
         \/ \E t \in Writers : Encodes(t) \/ Enqueue(t) \/ IoLock(t) \/ IoDone(t)
         \/ \E r \in Runners : RunExit(r) \/ RunTake(r) \/ FlushLock(r) \/ Flush(r) \/ RunAfter(r)
<1>1. CASE UNCHANGED vars
  BY <1>1 DEF vars, conn, queue, locals, Aside
<1>2. QED
  BY <1>1, WriterShape DEF Next, Internal, RunStep, Idle
-----------------------------------------------------------------------------

(***************************************************************************)
(* The holder of wmu.  With a queue attached no message frame is written   *)
(* directly: NewQueue attaches one only while wmu is free, and a direct    *)
(* write keeps wmu to its end.                                             *)
(***************************************************************************)
HolderOK(t) ==
  pc[t] \in Holding =>
    /\ wmu = t
    /\ frame[t].op # "torn" /\ due[t] = {frame[t].id}
    /\ pc[t] = "enqueue" => hasQueue /\ frame[t].op \in StreamOps
    /\ pc[t] # "enqueue" /\ hasQueue => ~Kept(frame[t])
    /\ pc[t] = "enqueue" /\ ~Sync(call[t]) => err \/ size = 0 \/ size + call[t].n <= limit

LockInv ==
  /\ err => hasQueue
  /\ NoSendClose => \A t \in Writers : call[t].name # "sendClose"
  /\ \A t \in Writers : HolderOK(t)

\* Once t has let go of wmu nobody holds it, and whoever finds it free is alone.
LEMMA HolderIsAlone ==
  ASSUME LockInv, NEW t \in Writers, pc[t] \in Holding \/ wmu = NoOne,
         NEW u \in Writers, u # t
  PROVE  pc[u] \notin Holding
BY ConstantsAssumption DEF LockInv, HolderOK

\* A call in progress is one of Ops, or a part of a WriteFrom.
LEMMA CallNames ==
  ASSUME TypeOK, NEW t \in Writers, [Next]_vars, NoSendClose, call[t].name # "sendClose"
  PROVE  call'[t].name # "sendClose"
<1>1. CASE call'[t] = call[t]
  BY <1>1
<1>2. NoCall.name # "sendClose"
  BY DEF NoCall
<1>3. ASSUME NEW u \in Writers, NEW ok, NEW ids, Return(u, ok, ids)
      PROVE  call'[t].name # "sendClose"
  BY <1>2, <1>3 DEF Return, TypeOK
<1>4. ASSUME NEW u \in Writers, NEW c, NEW r, Enter(u, c, r), c.name # "sendClose"
      PROVE  call'[t].name # "sendClose"
  BY <1>4 DEF Enter, TypeOK
<1>5. ASSUME NEW u \in Writers, Start(u) PROVE call'[t].name # "sendClose"
  <2>1. PICK c \in Ops : Call(u, c) \/ Wait(u, c) \/ WriteFrom(u, c)
    BY <1>5 DEF Start
  <2>2. c \in Calls /\ c.name # "sendClose"
    BY OpsAssumption DEF NoSendClose
  <2>3. [c EXCEPT !.name = "Write"].name # "sendClose" /\ [c EXCEPT !.name = "BeginMessage"].name # "sendClose"
    BY <2>2 DEF Calls
  <2>4. QED
    BY Zenon, <1>1, <1>4, <2>1, <2>2, <2>3 DEF Call, Wait, WriteFrom
<1>6. ASSUME NEW u \in Writers, ReadAhead(u) PROVE call'[t].name # "sendClose"
  BY <1>1, <1>4, <1>6 DEF ReadAhead
<1>7. ASSUME NEW u \in Writers, UnderWmu(u) PROVE call'[t].name # "sendClose"
  <2>1. CASE \E ok \in BOOLEAN : Return(u, ok, {})
    BY <1>3, <2>1
  <2>2. CASE UNCHANGED call
    BY <1>1, <2>2
  <2>3. QED
    BY Zenon, <1>7, <2>1, <2>2
       DEF UnderWmu, NewQueue, Send, Write, BeginMessage, WriteFragment, Control, Close, Refuse, Encode
<1>8. ASSUME NEW u \in Writers, Enqueue(u) \/ Await(u) \/ IoLock(u) \/ IoDone(u)
      PROVE  call'[t].name # "sendClose"
  <2>1. CASE \E ok \in BOOLEAN, ids \in SUBSET Nat : Return(u, ok, ids)
    BY <1>3, <2>1
  <2>2. CASE UNCHANGED call
    BY <1>1, <2>2
  <2>3. due[u] \in SUBSET Nat /\ WaitResult \in BOOLEAN /\ {} \in SUBSET Nat
    BY DEF TypeOK, WaitResult
  <2>4. QED
    BY Zenon, <1>8, <2>1, <2>2, <2>3 DEF Enqueue, Await, IoLock, IoDone
<1>9. ASSUME NEW r \in Runners, RunStep(r) \/ Flush(r) PROVE call'[t].name # "sendClose"
  BY Zenon, <1>1, <1>9 DEF RunStep, RunExit, RunTake, FlushLock, RunAfter, Flush, locals
<1>10. CASE UNCHANGED vars
  BY <1>1, <1>10 DEF vars, locals
<1>11. QED
  BY <1>5, <1>6, <1>7, <1>8, <1>9, <1>10 DEF Next, Internal, Idle

LEMMA LockInvStep == TypeOK /\ QueueInv /\ LockInv /\ [Next]_vars => LockInv'
<1> SUFFICES ASSUME TypeOK, QueueInv, LockInv, [Next]_vars
             PROVE  LockInv'
  OBVIOUS
<1>0. NoSendClose => \A t \in Writers : call'[t].name # "sendClose"
  BY CallNames DEF LockInv
<1>1. CASE Aside
  <2>1. ASSUME NEW u \in Writers, pc'[u] \in Holding PROVE HolderOK(u)'
    <3>1. /\ pc[u] = pc'[u] /\ frame'[u] = frame[u] /\ call'[u] = call[u] /\ due'[u] = due[u]
          /\ HolderOK(u) /\ UNCHANGED <<wmu, err, size>>
      BY <1>1, <2>1 DEF Aside, LockInv
    <3>2. UNCHANGED <<hasQueue, limit>>
      BY <1>1, <2>1, <3>1, ConstantsAssumption DEF Aside, HolderOK
    <3>3. QED
      BY <3>1, <3>2 DEF HolderOK, Sync, Kept
  <2>2. (err => hasQueue)'
    <3>1. err' = err /\ (hasQueue' = hasQueue \/ hasQueue')
      BY <1>1 DEF Aside
    <3>2. QED
      BY Zenon, <3>1 DEF LockInv
  <2>3. QED
    BY <1>0, <2>1, <2>2 DEF LockInv, HolderOK
<1>2. ASSUME NEW t \in Writers, Encodes(t) PROVE LockInv'
  <2>1. PICK op \in FrameOps \ {"torn"}, fin \in BOOLEAN, ext \in BOOLEAN, next \in {"enqueue", "iolock"} :
          /\ Encode(t, op, fin, ext, next)
          /\ pc[t] = "lock" /\ wmu = NoOne
          /\ next = "enqueue" => /\ hasQueue /\ op \in StreamOps
                                 /\ ~Sync(call[t]) => Reserve(call[t].n)
          /\ next = "iolock" /\ hasQueue => op \in {"ping", "pong"} \/ (op = "close" /\ call[t].name = "sendClose")
    BY <1>2 DEF Encodes
  <2>2. /\ wmu' = t /\ pc'[t] = next /\ call'[t] = call[t]
        /\ frame'[t].op = op /\ due'[t] = {frame'[t].id}
        /\ UNCHANGED <<hasQueue, err, size, limit>>
    BY <2>1 DEF Encode, TypeOK, queue
  <2>3. HolderOK(t)'
    BY <2>1, <2>2 DEF HolderOK, Reserve, Kept, Sync, StreamOps, LockInv
  <2>4. ASSUME NEW u \in Writers, u # t PROVE pc'[u] \notin Holding
    BY <2>1, <2>4, HolderIsAlone DEF Encode, TypeOK
  <2>5. QED
    BY <1>0, <2>2, <2>3, <2>4 DEF LockInv, HolderOK
<1>3. ASSUME NEW t \in Writers, Enqueue(t) \/ IoDone(t) PROVE LockInv'
  <2>1. pc[t] \in Holding
    BY Zenon, <1>3 DEF Enqueue, IoDone, Holding
  <2>2. pc'[t] \notin Holding /\ \A u \in Writers : u # t => pc'[u] = pc[u]
    BY <1>3 DEF Enqueue, IoDone, Return, TypeOK, Holding
  <2>3. UNCHANGED <<hasQueue, err>>
    BY Zenon, <1>3 DEF Enqueue, IoDone, queue
  <2>4. \A u \in Writers : pc'[u] \notin Holding
    BY <2>1, <2>2, HolderIsAlone
  <2>5. QED
    BY Zenon, <1>0, <2>3, <2>4 DEF LockInv, HolderOK
<1>4. ASSUME NEW t \in Writers, IoLock(t) PROVE LockInv'
  <2>1. /\ UNCHANGED <<wmu, hasQueue, limit, size, err, call, frame, due>>
        /\ pc[t] = "iolock" /\ pc' = [pc EXCEPT ![t] = "io"]
    BY <1>4 DEF IoLock, queue
  <2>2. ASSUME NEW u \in Writers PROVE HolderOK(u)'
    <3>1. pc'[u] = IF u = t THEN "io" ELSE pc[u]
      BY <2>1 DEF TypeOK
    <3>2. HolderOK(u)
      BY DEF LockInv
    <3>3. QED
      BY <2>1, <3>1, <3>2 DEF HolderOK, Holding, Kept, Sync
  <2>3. QED
    BY <1>0, <2>1, <2>2 DEF LockInv
<1>5. ASSUME NEW r \in Runners,
             RunExit(r) \/ RunTake(r) \/ FlushLock(r) \/ Flush(r) \/ RunAfter(r)
      PROVE  LockInv'
  <2>1. UNCHANGED <<wmu, hasQueue, limit, call, frame, due>>
    BY <1>5 DEF RunExit, RunTake, FlushLock, Flush, RunAfter, locals
  <2>2. \A u \in Writers : pc'[u] \in Holding => pc[u] = pc'[u]
    BY <1>5 DEF RunExit, RunTake, FlushLock, Flush, RunAfter, Broadcast, locals, TypeOK, Holding
  <2>3. size' = 0 \/ size' = size
    BY <1>5 DEF RunExit, RunTake, FlushLock, Flush, RunAfter, SizeAfter
  <2>7. err => err'
    BY Zenon, <1>5 DEF RunExit, RunTake, FlushLock, Flush, RunAfter
  <2>4. err' => hasQueue
    <3>1. running
      BY <1>5 DEF RunExit, RunTake, FlushLock, Flush, RunAfter, QueueInv, OneWriter
    <3>2. QED
      BY <3>1 DEF QueueInv
  <2>5. ASSUME NEW u \in Writers PROVE HolderOK(u)'
    <3>1. HolderOK(u)
      BY DEF LockInv
    <3>2. QED
      BY <2>1, <2>2, <2>3, <2>7, <3>1 DEF HolderOK, Kept, Sync
  <2>6. QED
    BY <1>0, <2>1, <2>4, <2>5 DEF LockInv
<1>6. QED
  BY <1>1, <1>2, <1>3, <1>4, <1>5, StepShape

LEMMA LockInvariant == Spec => []LockInv
<1>1. Init => LockInv
  BY DEF Init, LockInv, HolderOK, Holding, NoCall
<1>2. QED
  BY <1>1, LockInvStep, TypeCorrect, QueueInvariant, PTL DEF Spec

\* queue.go:116-117, 171-174: for every limit and every payload, what reserve
\* found to fit still fits when enqueue appends it.
THEOREM ReservationCorrect == Spec => []ReservationHolds
<1>1. LockInv => ReservationHolds
  BY DEF LockInv, HolderOK, ReservationHolds, Holding
<1>2. QED
  BY <1>1, LockInvariant, PTL
-----------------------------------------------------------------------------
\* What a direct write adds to the wire is its frame or a torn part of it.
LEMMA DirectWrite ==
  ASSUME TypeOK, NEW t \in Writers, IoDone(t)
  PROVE  /\ wire' \in Seq(Frames) /\ Len(wire) <= Len(wire') /\ Len(wire') <= Len(wire) + 1
         /\ \A i \in 1..Len(wire) : wire'[i] = wire[i]
         /\ \A i \in 1..Len(wire') : i > Len(wire) => wire'[i] \in {frame[t], Torn(frame[t])}
<1>1. PICK ok \in BOOLEAN : Transport(<<frame[t]>>, ok)
  BY DEF IoDone
<1>2. /\ <<frame[t]>> \in Seq(Frames) /\ Len(<<frame[t]>>) = 1 /\ <<frame[t]>>[1] = frame[t]
      /\ wire \in Seq(Frames) /\ failures \in Nat /\ Len(wire) \in Nat
  BY LenProperties DEF TypeOK
<1>3. /\ wire' \in Seq(Frames)
      /\ Len(wire) <= Len(wire') /\ Len(wire') <= Len(wire) + 1
      /\ \A i \in 1..Len(wire) : wire'[i] = wire[i]
      /\ \A i \in 1..Len(wire') : i > Len(wire) =>
           \/ wire'[i] = <<frame[t]>>[i - Len(wire)]
           \/ wire'[i] = Torn(<<frame[t]>>[i - Len(wire)])
  <2> HIDE DEF Torn
  <2>1. QED
    BY Zenon, <1>1, <1>2, TransportEffect
<1>4. Len(wire') \in Nat
  BY <1>3, LenProperties
<1>5. ASSUME NEW i \in 1..Len(wire'), i > Len(wire) PROVE wire'[i] \in {frame[t], Torn(frame[t])}
  <2>1. i - Len(wire) = 1
    BY <1>2, <1>3, <1>4, <1>5
  <2>2. QED
    BY <1>2, <1>3, <1>5, <2>1
<1>6. QED
  BY <1>3, <1>5

\* queue.go:150: for any number of producers, a queue that has failed accepts
\* nothing, and no message frame reaches the transport behind its back.
THEOREM FailureIsFinal == Spec => FailedQueueIsQuiet
<1> DEFINE Quiet == err => /\ accepted' = accepted
                           /\ \A i \in DOMAIN wire' \ DOMAIN wire : ~Ordered(wire'[i])
<1>1. TypeOK /\ QueueInv /\ LockInv /\ [Next]_vars => [Quiet]_vars
  <2> SUFFICES ASSUME TypeOK, QueueInv, LockInv, [Next]_vars, err
               PROVE  accepted' = accepted /\ \A i \in DOMAIN wire' \ DOMAIN wire : ~Ordered(wire'[i])
    OBVIOUS
  <2>1. CASE wire' = wire /\ accepted' = accepted
    BY <2>1
  <2>2. CASE Aside \/ \E t \in Writers : Encodes(t) \/ Enqueue(t) \/ IoLock(t)
    <3>1. CASE Aside
      BY <2>1, <3>1 DEF Aside
    <3>2. CASE \E t \in Writers : Encodes(t)
      BY <2>1, <3>2 DEF Encodes, Encode, queue
    <3>3. CASE \E t \in Writers : Enqueue(t)
      BY Zenon, <2>1, <3>3 DEF Enqueue, Accepts, queue
    <3>4. CASE \E t \in Writers : IoLock(t)
      BY <2>1, <3>4 DEF IoLock, queue
    <3>5. QED
      BY <2>2, <3>1, <3>2, <3>3, <3>4
  <2>3. ASSUME NEW t \in Writers, IoDone(t)
        PROVE  accepted' = accepted /\ \A i \in DOMAIN wire' \ DOMAIN wire : ~Ordered(wire'[i])
    <3>1. ~Ordered(frame[t]) /\ ~Ordered(Torn(frame[t]))
      <4>1. hasQueue /\ HolderOK(t) /\ pc[t] = "io" /\ frame[t] \in Frames
        BY <2>3 DEF LockInv, IoDone, TypeOK
      <4>2. QED
        BY <4>1 DEF HolderOK, Holding, Torn, Ordered, Kept, Frames
    <3>2. accepted' = accepted
      BY <2>3 DEF IoDone, queue
    <3>3. DOMAIN wire = 1..Len(wire) /\ DOMAIN wire' = 1..Len(wire') /\ Len(wire) \in Nat /\ Len(wire') \in Nat
      BY <2>3, DirectWrite, LenProperties DEF TypeOK
    <3>4. QED
      BY <2>3, <3>1, <3>2, <3>3, DirectWrite
  <2>4. \A r \in Runners : ~(RunExit(r) \/ RunTake(r) \/ FlushLock(r) \/ Flush(r) \/ RunAfter(r))
    <3>1. \A r \in Runners : run[r] = "none"
      BY DEF QueueInv, OneWriter
    <3>2. QED
      BY Zenon, <3>1 DEF RunExit, RunTake, FlushLock, Flush, RunAfter
  <2>5. QED
    BY <2>2, <2>3, <2>4, StepShape
<1>2. QED
  BY <1>1, TypeCorrect, QueueInvariant, LockInvariant, PTL DEF Spec, FailedQueueIsQuiet

\* queue.go:307, 319, 345: flush finds the arena of every frame that was copied
\* into one, whatever the producers do while it writes.
THEOREM ArenaCorrect == Spec => []ArenaWhileNeeded
<1>1. Init => ArenaWhileNeeded
  BY DEF Init, ArenaWhileNeeded
<1>2. TypeOK /\ QueueInv /\ ArenaWhileNeeded /\ [Next]_vars => ArenaWhileNeeded'
  <2> SUFFICES ASSUME TypeOK, QueueInv, ArenaWhileNeeded, [Next]_vars
               PROVE  ArenaWhileNeeded'
    OBVIOUS
  <2>1. CASE UNCHANGED <<segments, flushSegments, cur, flushing>>
    BY <2>1 DEF ArenaWhileNeeded
  <2>2. CASE Aside \/ \E t \in Writers : Encodes(t) \/ IoLock(t) \/ IoDone(t)
    <3>1. CASE Aside
      BY <2>1, <3>1 DEF Aside
    <3>2. CASE \E t \in Writers : Encodes(t)
      BY <2>1, <3>2 DEF Encodes, Encode, queue
    <3>3. CASE \E t \in Writers : IoLock(t) \/ IoDone(t)
      BY <2>1, <3>3 DEF IoLock, IoDone, queue
    <3>4. QED
      BY <2>2, <3>1, <3>2, <3>3
  <2>3. ASSUME NEW t \in Writers, Enqueue(t) PROVE ArenaWhileNeeded'
    <3>1. CASE ~Accepts
      BY Zenon, <2>1, <2>3, <3>1 DEF Enqueue, queue
    <3>2. CASE Accepts
      <4>1. /\ segments' = Append(segments, frame[t]) /\ cur' = (cur \/ ~frame[t].ext)
            /\ UNCHANGED <<flushSegments, flushing>>
        BY <2>3, <3>2 DEF Enqueue
      <4>2. segments \in Seq(Frames) /\ frame[t] \in Frames /\ Len(segments) \in Nat
        BY LenProperties DEF TypeOK
      <4>3. ASSUME NEW i \in DOMAIN segments', ~segments'[i].ext PROVE cur'
        <5>1. DOMAIN segments' = 1..(Len(segments) + 1) /\ DOMAIN segments = 1..Len(segments)
          BY <4>1, <4>2, AppendProperties, LenProperties
        <5>2. (segments'[i] = segments[i] /\ i \in DOMAIN segments) \/ segments'[i] = frame[t]
          <6>1. /\ \A k \in 1..Len(segments) : segments'[k] = segments[k]
                /\ segments'[Len(segments) + 1] = frame[t]
            BY <4>1, <4>2, AppendProperties
          <6>2. i \in 1..Len(segments) \/ i = Len(segments) + 1
            BY <4>2, <4>3, <5>1
          <6>3. QED
            BY <5>1, <6>1, <6>2
        <5>3. QED
          BY Zenon, <4>1, <4>3, <5>2 DEF ArenaWhileNeeded
      <4>4. QED
        BY <4>1, <4>3 DEF ArenaWhileNeeded
    <3>3. QED
      BY <3>1, <3>2
  <2>4. ASSUME NEW r \in Runners, RunExit(r) \/ FlushLock(r) \/ Flush(r) PROVE ArenaWhileNeeded'
    BY <2>1, <2>4 DEF RunExit, FlushLock, Flush
  <2>5. ASSUME NEW r \in Runners, RunTake(r) PROVE ArenaWhileNeeded'
    BY <2>5 DEF RunTake, SwapArena, ArenaWhileNeeded
  <2>6. ASSUME NEW r \in Runners, RunAfter(r) PROVE ArenaWhileNeeded'
    BY <2>6 DEF RunAfter, ArenaWhileNeeded
  <2>7. QED
    BY <2>2, <2>3, <2>4, <2>5, <2>6, StepShape
<1>3. QED
  BY <1>1, <1>2, TypeCorrect, QueueInvariant, PTL DEF Spec
=============================================================================
