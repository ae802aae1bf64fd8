------------------------- MODULE WriteOrderProofs --------------------------
(***************************************************************************)
(* Proofs about WritePath: the order in which frames reach the transport,  *)
(* and what a nil return says about them.                                  *)
(***************************************************************************)
EXTENDS WriteLockProofs

\* g may reach the transport behind f.
Follows(f, g) ==
  /\ Kept(f) /\ Kept(g) => f.id < g.id
  /\ NoSendClose /\ f.op = "close" => g.op \in {"pong", "torn"}

InOrder(s)  == \A i, j \in DOMAIN s : i < j => Follows(s[i], s[j])
Ahead(s, u) == \A i \in DOMAIN s, j \in DOMAIN u : Follows(s[i], u[j])
Below(s, n) == \A i \in DOMAIN s : s[i].id <= n
NoClose(s)  == \A i \in DOMAIN s : s[i].op # "close"

\* w is s and, behind it, the frames of u in order, the last of them perhaps torn.
Extends(s, u, w) ==
  /\ Len(s) <= Len(w) /\ Len(w) <= Len(s) + Len(u)
  /\ \A i \in 1..Len(s) : w[i] = s[i]
  /\ \A i \in 1..Len(w) : i > Len(s) => w[i] = u[i - Len(s)] \/ w[i] = Torn(u[i - Len(s)])

\* A torn frame is in nobody's way.
LEMMA TornFollows ==
  ASSUME NEW f \in Frames, NEW g \in Frames, Follows(f, g)
  PROVE  /\ Torn(f).id = f.id /\ Torn(f).op = "torn"
         /\ Follows(Torn(f), g) /\ Follows(f, Torn(g)) /\ Follows(Torn(f), Torn(g))
BY DEF Torn, Follows, Kept, Frames

\* An index into an extension is an index into one of its two parts.
LEMMA ExtensionIndex ==
  ASSUME NEW s \in Seq(Frames), NEW u \in Seq(Frames), NEW w \in Seq(Frames), Extends(s, u, w),
         NEW i \in DOMAIN w
  PROVE  \/ i \in DOMAIN s /\ w[i] = s[i]
         \/ /\ i > Len(s) /\ i - Len(s) \in DOMAIN u
            /\ w[i] = u[i - Len(s)] \/ w[i] = Torn(u[i - Len(s)])
<1>1. /\ Len(s) \in Nat /\ Len(u) \in Nat /\ Len(w) \in Nat
      /\ DOMAIN s = 1..Len(s) /\ DOMAIN u = 1..Len(u) /\ DOMAIN w = 1..Len(w)
  BY LenProperties
<1>2. CASE i <= Len(s)
  BY <1>1, <1>2 DEF Extends
<1>3. CASE i > Len(s)
  BY <1>1, <1>3 DEF Extends
<1>4. QED
  BY <1>1, <1>2, <1>3

LEMMA ExtendOrder ==
  ASSUME NEW s \in Seq(Frames), NEW u \in Seq(Frames), NEW w \in Seq(Frames), Extends(s, u, w),
         InOrder(s), InOrder(u), Ahead(s, u)
  PROVE  InOrder(w)
<1> SUFFICES ASSUME NEW i \in DOMAIN w, NEW j \in DOMAIN w, i < j
             PROVE  Follows(w[i], w[j])
  BY DEF InOrder
<1>0. /\ i \in Int /\ j \in Int /\ Len(s) \in Nat /\ DOMAIN s = 1..Len(s)
      /\ \A k \in DOMAIN s : s[k] \in Frames
      /\ \A k \in DOMAIN u : u[k] \in Frames
  BY LenProperties
<1>1. CASE j \in DOMAIN s /\ w[j] = s[j]
  <2>1. i \in DOMAIN s /\ w[i] = s[i]
    BY <1>0, <1>1, ExtensionIndex
  <2>2. QED
    BY <1>1, <2>1 DEF InOrder
<1>2. CASE /\ j > Len(s) /\ j - Len(s) \in DOMAIN u
           /\ w[j] = u[j - Len(s)] \/ w[j] = Torn(u[j - Len(s)])
  <2>1. CASE i \in DOMAIN s /\ w[i] = s[i]
    <3>1. Follows(s[i], u[j - Len(s)])
      BY <1>2, <2>1 DEF Ahead
    <3>2. QED
      BY <1>0, <1>2, <2>1, <3>1, TornFollows
  <2>2. CASE /\ i > Len(s) /\ i - Len(s) \in DOMAIN u
             /\ w[i] = u[i - Len(s)] \/ w[i] = Torn(u[i - Len(s)])
    <3>1. i - Len(s) < j - Len(s)
      BY <1>0
    <3>2. Follows(u[i - Len(s)], u[j - Len(s)])
      BY <1>2, <2>2, <3>1 DEF InOrder
    <3>3. QED
      BY <1>0, <1>2, <2>2, <3>2, TornFollows
  <2>3. QED
    BY <2>1, <2>2, ExtensionIndex
<1>3. QED
  BY <1>1, <1>2, ExtensionIndex

LEMMA ExtendRest ==
  ASSUME NEW s \in Seq(Frames), NEW u \in Seq(Frames), NEW w \in Seq(Frames), Extends(s, u, w)
  PROVE  /\ \A v \in Seq(Frames) : Ahead(s, v) /\ Ahead(u, v) => Ahead(w, v)
         /\ \A v \in Seq(Frames) : Ahead(v, s) /\ Ahead(v, u) => Ahead(v, w)
         /\ \A n : Below(s, n) /\ Below(u, n) => Below(w, n)
         /\ NoClose(s) /\ NoClose(u) => NoClose(w)
<1>0. /\ \A k \in DOMAIN s : s[k] \in Frames
      /\ \A k \in DOMAIN u : u[k] \in Frames
  OBVIOUS
<1>1. ASSUME NEW v \in Seq(Frames), Ahead(s, v), Ahead(u, v), NEW i \in DOMAIN w, NEW j \in DOMAIN v
      PROVE  Follows(w[i], v[j])
  <2>1. v[j] \in Frames
    OBVIOUS
  <2>2. CASE i \in DOMAIN s /\ w[i] = s[i]
    BY <1>1, <2>2 DEF Ahead
  <2>3. CASE /\ i - Len(s) \in DOMAIN u
             /\ w[i] = u[i - Len(s)] \/ w[i] = Torn(u[i - Len(s)])
    <3>1. Follows(u[i - Len(s)], v[j])
      BY <1>1, <2>3 DEF Ahead
    <3>2. QED
      BY <1>0, <2>1, <2>3, <3>1, TornFollows
  <2>4. QED
    BY <2>2, <2>3, ExtensionIndex
<1>2. ASSUME NEW v \in Seq(Frames), Ahead(v, s), Ahead(v, u), NEW i \in DOMAIN v, NEW j \in DOMAIN w
      PROVE  Follows(v[i], w[j])
  <2>1. v[i] \in Frames
    OBVIOUS
  <2>2. CASE j \in DOMAIN s /\ w[j] = s[j]
    BY <1>2, <2>2 DEF Ahead
  <2>3. CASE /\ j - Len(s) \in DOMAIN u
             /\ w[j] = u[j - Len(s)] \/ w[j] = Torn(u[j - Len(s)])
    <3>1. Follows(v[i], u[j - Len(s)])
      BY <1>2, <2>3 DEF Ahead
    <3>2. QED
      BY <1>0, <2>1, <2>3, <3>1, TornFollows
  <2>4. QED
    BY <2>2, <2>3, ExtensionIndex
<1>3. \A f \in Frames : Torn(f).id = f.id /\ Torn(f).op = "torn"
  BY DEF Torn, Frames
<1>4. ASSUME NEW n, Below(s, n), Below(u, n), NEW i \in DOMAIN w
      PROVE  w[i].id <= n
  BY <1>0, <1>3, <1>4, ExtensionIndex DEF Below
<1>5. ASSUME NoClose(s), NoClose(u), NEW i \in DOMAIN w
      PROVE  w[i].op # "close"
  BY <1>0, <1>3, <1>5, ExtensionIndex DEF NoClose
<1>6. QED
  BY <1>1, <1>2, <1>4, <1>5 DEF Ahead, Below, NoClose

\* The sequences of one frame and of none.
LEMMA OneFrame ==
  ASSUME NEW f \in Frames
  PROVE  /\ <<f>> \in Seq(Frames) /\ InOrder(<<f>>)
         /\ \A n : f.id <= n => Below(<<f>>, n)
         /\ f.op # "close" => NoClose(<<f>>)
         /\ \A s \in Seq(Frames) : Extends(s, <<f>>, Append(s, f)) /\ Append(s, f) \in Seq(Frames)
<1>1. DOMAIN <<f>> = {1} /\ <<f>>[1] = f /\ <<f>> \in Seq(Frames) /\ Len(<<f>>) = 1
  OBVIOUS
<1>2. ASSUME NEW s \in Seq(Frames) PROVE Extends(s, <<f>>, Append(s, f)) /\ Append(s, f) \in Seq(Frames)
  <2>1. /\ Append(s, f) \in Seq(Frames) /\ Len(Append(s, f)) = Len(s) + 1 /\ Len(s) \in Nat
        /\ \A i \in 1..Len(s) : Append(s, f)[i] = s[i]
        /\ Append(s, f)[Len(s) + 1] = f
    BY AppendProperties, LenProperties
  <2>2. ASSUME NEW i \in 1..(Len(s) + 1), i > Len(s) PROVE i = Len(s) + 1 /\ i - Len(s) = 1
    BY <2>1, <2>2
  <2>3. QED
    BY <1>1, <2>1, <2>2 DEF Extends
<1>3. QED
  BY <1>1, <1>2 DEF InOrder, Below, NoClose

LEMMA NoFrames ==
  /\ <<>> \in Seq(Frames) /\ InOrder(<<>>) /\ NoClose(<<>>)
  /\ \A n : Below(<<>>, n)
  /\ \A s : Ahead(s, <<>>) /\ Ahead(<<>>, s)
BY DEF InOrder, Below, NoClose, Ahead
-----------------------------------------------------------------------------
(***************************************************************************)
(* The frames of a connection form one line: the wire, what the queue's    *)
(* writer has taken, what waits in the queue, and the frame of the holder  *)
(* of wmu.  Each of them may follow all that are before it in the line.    *)
(***************************************************************************)
Writing == \E r \in Runners : run[r] \in {"iolock", "io"}

FrameOK(t) ==
  pc[t] \in Holding =>
    /\ frame[t].id <= encoded
    /\ ~closeSent => frame[t].op # "close"
    /\ Ahead(wire, <<frame[t]>>) /\ Ahead(flushSegments, <<frame[t]>>) /\ Ahead(segments, <<frame[t]>>)

OrderInv ==
  /\ InOrder(wire) /\ InOrder(flushSegments) /\ InOrder(segments)
  /\ Ahead(wire, segments) /\ Ahead(flushSegments, segments)
  /\ Writing => Ahead(wire, flushSegments)
  /\ Below(wire, encoded) /\ Below(flushSegments, encoded) /\ Below(segments, encoded)
  /\ ~closeSent => NoClose(wire) /\ NoClose(flushSegments) /\ NoClose(segments)
  /\ \A t \in Writers : FrameOK(t)

\* What a transport write leaves on the wire extends it.
LEMMA TransportExtends ==
  ASSUME TypeOK, NEW fs \in Seq(Frames), NEW ok \in BOOLEAN, Transport(fs, ok)
  PROVE  wire' \in Seq(Frames) /\ Extends(wire, fs, wire')
<1>1. wire \in Seq(Frames) /\ failures \in Nat
  BY DEF TypeOK
<1>2. QED
  BY <1>1, TransportEffect DEF Extends

LEMMA OrderInvStep == TypeOK /\ QueueInv /\ LockInv /\ OrderInv /\ [Next]_vars => OrderInv'
<1> SUFFICES ASSUME TypeOK, QueueInv, LockInv, OrderInv, [Next]_vars
             PROVE  OrderInv'
  OBVIOUS
<1>0. /\ wire \in Seq(Frames) /\ flushSegments \in Seq(Frames) /\ segments \in Seq(Frames)
      /\ \A t \in Writers : frame[t] \in Frames
      /\ encoded \in Nat
  BY DEF TypeOK
<1>1. CASE Aside
  <2>1. UNCHANGED <<wire, flushSegments, segments, run, encoded, closeSent>>
    BY <1>1 DEF Aside
  <2>2. ASSUME NEW u \in Writers PROVE FrameOK(u)'
    <3>1. pc'[u] \in Holding => pc[u] = pc'[u] /\ frame'[u] = frame[u]
      BY <1>1 DEF Aside
    <3>2. FrameOK(u)
      BY DEF OrderInv
    <3>3. QED
      BY <2>1, <3>1, <3>2 DEF FrameOK
  <2>3. Writing' = Writing
    BY <2>1 DEF Writing
  <2>4. QED
    BY <2>1, <2>2, <2>3 DEF OrderInv
<1>2. ASSUME NEW t \in Writers, Encodes(t) PROVE OrderInv'
  <2>1. PICK op \in FrameOps \ {"torn"}, fin \in BOOLEAN, ext \in BOOLEAN, next \in {"enqueue", "iolock"} :
          /\ Encode(t, op, fin, ext, next)
          /\ wmu = NoOne
          /\ closeSent => op = "pong"
    BY <1>2 DEF Encodes
  <2>2. /\ UNCHANGED <<wire, flushSegments, segments, run>>
        /\ encoded' = encoded + 1 /\ closeSent' = (closeSent \/ op = "close")
        /\ frame'[t].id = encoded + 1 /\ frame'[t].op = op
        /\ \A u \in Writers : u # t => pc'[u] = pc[u]
    BY <2>1 DEF Encode, queue, TypeOK
  <2>3. ASSUME NEW s \in Seq(Frames), Below(s, encoded), ~closeSent => NoClose(s)
        PROVE  Ahead(s, <<frame'[t]>>)
    <3>1. ASSUME NEW i \in DOMAIN s PROVE Follows(s[i], frame'[t])
      <4>0. s[i] \in Frames
        OBVIOUS
      <4>1. s[i].id \in Nat /\ s[i].id <= encoded
        BY <2>3, <4>0 DEF Below, Frames
      <4>2. s[i].id < frame'[t].id
        BY <1>0, <2>2, <4>1
      <4>3. s[i].op = "close" => frame'[t].op = "pong"
        BY <2>1, <2>2, <2>3 DEF NoClose
      <4>4. QED
        BY <4>2, <4>3 DEF Follows
    <3>2. QED
      BY <3>1 DEF Ahead
  <2>4. FrameOK(t)'
    <3>1. Ahead(wire, <<frame'[t]>>) /\ Ahead(flushSegments, <<frame'[t]>>) /\ Ahead(segments, <<frame'[t]>>)
      BY <1>0, <2>3 DEF OrderInv
    <3>2. frame'[t].id <= encoded'
      BY <1>0, <2>2
    <3>3. ~closeSent' => frame'[t].op # "close"
      BY <2>2, Zenon
    <3>4. QED
      BY <2>2, <3>1, <3>2, <3>3 DEF FrameOK
  <2>5. ASSUME NEW u \in Writers, u # t PROVE FrameOK(u)'
    BY <2>1, <2>2, <2>5, HolderIsAlone DEF FrameOK
  <2>6. ASSUME NEW s \in Seq(Frames), Below(s, encoded) PROVE Below(s, encoded')
    <3>1. ASSUME NEW i \in DOMAIN s PROVE s[i].id <= encoded + 1
      <4>0. s[i] \in Frames
        OBVIOUS
      <4>1. s[i].id \in Nat /\ s[i].id <= encoded
        BY <2>6, <4>0 DEF Below, Frames
      <4>2. QED
        BY <1>0, <4>1
    <3>2. QED
      BY <2>2, <3>1 DEF Below
  <2>7. Writing' = Writing
    BY <2>2 DEF Writing
  <2>8. Below(wire, encoded') /\ Below(flushSegments, encoded') /\ Below(segments, encoded')
    BY <1>0, <2>6 DEF OrderInv
  <2>9. QED
    BY Zenon, <2>2, <2>4, <2>5, <2>7, <2>8 DEF OrderInv
<1>3. ASSUME NEW t \in Writers, Enqueue(t) PROVE OrderInv'
  <2>1. pc[t] \in Holding /\ frame[t] \in Frames /\ FrameOK(t)
    BY <1>0, <1>3 DEF Enqueue, Holding, OrderInv
  <2>2. \A u \in Writers : pc'[u] \notin Holding
    BY <1>3, <2>1, HolderIsAlone DEF Enqueue, Return, TypeOK, Holding
  <2>3. UNCHANGED <<wire, flushSegments, encoded, closeSent>>
    BY Zenon, <1>3 DEF Enqueue, EndFragment, queue
  <2>4. Writing' => Writing
    <3>1. \A r \in Runners : run'[r] \in {"iolock", "io"} => run'[r] = run[r]
      BY Zenon, <1>3 DEF Enqueue, StartWriter, queue, TypeOK
    <3>2. QED
      BY <3>1 DEF Writing
  <2>5. CASE segments' = segments
    BY <2>2, <2>3, <2>4, <2>5 DEF OrderInv, FrameOK
  <2>6. CASE segments' = Append(segments, frame[t])
    <3>1. /\ Extends(segments, <<frame[t]>>, segments') /\ segments' \in Seq(Frames)
          /\ <<frame[t]>> \in Seq(Frames)
      BY <1>0, <2>1, <2>6, OneFrame
    <3>2. InOrder(segments')
      BY Zenon, <1>0, <2>1, <3>1, OneFrame, ExtendOrder DEF FrameOK, OrderInv
    <3>3. Ahead(wire, segments') /\ Ahead(flushSegments, segments')
      BY ZenonT(30), <1>0, <2>1, <3>1, ExtendRest DEF FrameOK, OrderInv
    <3>4. Below(segments', encoded)
      BY Zenon, <1>0, <2>1, <3>1, OneFrame, ExtendRest DEF FrameOK, OrderInv
    <3>5. ~closeSent => NoClose(segments')
      BY Zenon, <1>0, <2>1, <3>1, OneFrame, ExtendRest DEF FrameOK, OrderInv
    <3>6. QED
      BY <2>2, <2>3, <2>4, <3>2, <3>3, <3>4, <3>5 DEF OrderInv, FrameOK
  <2>7. QED
    BY Zenon, <1>3, <2>5, <2>6 DEF Enqueue, queue
<1>4. ASSUME NEW t \in Writers, IoLock(t) PROVE OrderInv'
  <2>1. /\ UNCHANGED <<wire, flushSegments, segments, run, encoded, closeSent, frame>>
        /\ \A u \in Writers : pc'[u] \in Holding => pc[u] \in Holding
    BY <1>4 DEF IoLock, queue, conn, TypeOK, Holding
  <2>2. ASSUME NEW u \in Writers PROVE FrameOK(u)'
    BY <2>1 DEF FrameOK, OrderInv
  <2>3. Writing' = Writing
    BY <2>1 DEF Writing
  <2>4. QED
    BY <2>1, <2>2, <2>3 DEF OrderInv
<1>5. ASSUME NEW t \in Writers, IoDone(t) PROVE OrderInv'
  <2>1. pc[t] \in Holding /\ pc[t] = "io" /\ frame[t] \in Frames /\ FrameOK(t) /\ HolderOK(t)
    BY <1>0, <1>5 DEF IoDone, Holding, OrderInv, LockInv
  <2>2. \A u \in Writers : pc'[u] \notin Holding
    BY <1>5, <2>1, HolderIsAlone DEF IoDone, Return, TypeOK, Holding
  <2>3. UNCHANGED <<segments, flushSegments, run, encoded, closeSent>>
    BY <1>5 DEF IoDone, EndFragment, queue
  <2>4. wire' \in Seq(Frames) /\ Extends(wire, <<frame[t]>>, wire') /\ <<frame[t]>> \in Seq(Frames)
    BY Zenon, <1>5, <2>1, OneFrame, TransportExtends DEF IoDone
  <2>5. InOrder(wire')
    BY Zenon, <1>0, <2>1, <2>4, OneFrame, ExtendOrder DEF FrameOK, OrderInv
  <2>6. Below(wire', encoded) /\ (~closeSent => NoClose(wire'))
    BY Zenon, <1>0, <2>1, <2>4, OneFrame, ExtendRest DEF FrameOK, OrderInv
  <2>7. Ahead(wire', segments) /\ (Writing => Ahead(wire', flushSegments))
    <3>1. CASE hasQueue
      <4>1. \A g \in Frames : Follows(frame[t], g)
        BY <2>1, <3>1 DEF HolderOK, Follows, Kept
      <4>2. Ahead(<<frame[t]>>, segments) /\ Ahead(<<frame[t]>>, flushSegments)
        BY <1>0, <4>1 DEF Ahead
      <4>3. QED
        BY ZenonT(30), <1>0, <2>4, <4>2, ExtendRest DEF OrderInv
    <3>2. CASE ~hasQueue
      <4>1. segments = <<>> /\ ~Writing
        BY <3>2 DEF QueueInv, OneWriter, Writing
      <4>2. QED
        BY <4>1, NoFrames
    <3>3. QED
      BY <3>1, <3>2
  <2>8. Writing' = Writing
    BY <2>3 DEF Writing
  <2>9. QED
    BY <2>2, <2>3, <2>5, <2>6, <2>7, <2>8 DEF OrderInv, FrameOK
<1>6. ASSUME NEW r \in Runners, run[r] # "none"
      PROVE  \A q \in Runners : q # r => run[q] = "none"
  BY <1>6 DEF QueueInv, OneWriter
<1>7. ASSUME NEW r \in Runners,
             RunExit(r) \/ RunTake(r) \/ FlushLock(r) \/ Flush(r) \/ RunAfter(r)
      PROVE  /\ UNCHANGED <<encoded, closeSent, frame>>
             /\ \A u \in Writers : pc'[u] \in Holding => pc[u] \in Holding
  BY <1>7 DEF RunExit, RunTake, FlushLock, Flush, RunAfter, Broadcast, conn, locals, TypeOK, Holding
<1>8. ASSUME NEW r \in Runners, RunExit(r) \/ FlushLock(r) PROVE OrderInv'
  <2>1. UNCHANGED <<wire, flushSegments, segments>>
    BY <1>8 DEF RunExit, FlushLock
  <2>2. Writing' => Writing
    BY <1>8 DEF RunExit, FlushLock, Writing, TypeOK
  <2>3. ASSUME NEW u \in Writers PROVE FrameOK(u)'
    <3>1. UNCHANGED <<encoded, closeSent, frame>> /\ (pc'[u] \in Holding => pc[u] \in Holding)
      BY <1>7, <1>8
    <3>2. FrameOK(u)
      BY DEF OrderInv
    <3>3. QED
      BY <2>1, <3>1, <3>2 DEF FrameOK
  <2>4. QED
    BY Zenon, <1>7, <1>8, <2>1, <2>2, <2>3 DEF OrderInv
<1>9. ASSUME NEW r \in Runners, RunTake(r) PROVE OrderInv'
  <2>1. flushSegments' = segments /\ segments' = <<>> /\ wire' = wire
    BY <1>9 DEF RunTake
  <2>2. ASSUME NEW u \in Writers PROVE FrameOK(u)'
    BY <1>7, <1>9, <2>1, NoFrames DEF FrameOK, OrderInv
  <2>3. QED
    BY <1>7, <1>9, <2>1, <2>2, NoFrames DEF OrderInv
<1>10. ASSUME NEW r \in Runners, Flush(r) PROVE OrderInv'
  <2>1. UNCHANGED <<flushSegments, segments>> /\ run[r] = "io"
    BY <1>10 DEF Flush
  <2>2. wire' \in Seq(Frames) /\ Extends(wire, flushSegments, wire')
    BY <1>0, <1>10, TransportExtends DEF Flush
  <2>3. ~Writing'
    <3>1. \A q \in Runners : q # r => run[q] = "none"
      BY <1>6, <2>1
    <3>2. run'[r] \in {"wrote", "failed"} /\ \A q \in Runners : q # r => run'[q] = run[q]
      BY <1>10 DEF Flush, TypeOK
    <3>3. QED
      BY <3>1, <3>2 DEF Writing
  <2>4. Ahead(wire, flushSegments)
    BY <2>1 DEF OrderInv, Writing
  <2>5. InOrder(wire')
    BY <1>0, <2>2, <2>4, ExtendOrder DEF OrderInv
  <2>6. Ahead(wire', segments) /\ Below(wire', encoded) /\ (~closeSent => NoClose(wire'))
    BY <1>0, <2>2, ExtendRest DEF OrderInv
  <2>7. ASSUME NEW u \in Writers PROVE FrameOK(u)'
    <3>1. <<frame[u]>> \in Seq(Frames)
      BY <1>0, OneFrame
    <3>2. pc[u] \in Holding => Ahead(wire', <<frame[u]>>)
      BY Zenon, <1>0, <2>2, <3>1, ExtendRest DEF OrderInv, FrameOK
    <3>3. QED
      BY <1>7, <1>10, <2>1, <3>2 DEF FrameOK, OrderInv
  <2>8. QED
    BY <1>7, <1>10, <2>1, <2>3, <2>5, <2>6, <2>7 DEF OrderInv
<1>11. ASSUME NEW r \in Runners, RunAfter(r) PROVE OrderInv'
  <2>1. wire' = wire /\ flushSegments' = <<>> /\ (segments' = <<>> \/ segments' = segments)
    BY <1>11 DEF RunAfter
  <2>2. ASSUME NEW u \in Writers PROVE FrameOK(u)'
    BY <1>7, <1>11, <2>1, NoFrames DEF FrameOK, OrderInv
  <2>3. QED
    BY <1>7, <1>11, <2>1, <2>2, NoFrames DEF OrderInv
<1>12. QED
  BY <1>1, <1>2, <1>3, <1>4, <1>5, <1>8, <1>9, <1>10, <1>11, StepShape

LEMMA OrderInvariant == Spec => []OrderInv
<1>1. Init => OrderInv
  BY NoFrames DEF Init, OrderInv, FrameOK, Holding, Writing
<1>2. QED
  BY <1>1, OrderInvStep, TypeCorrect, QueueInvariant, LockInvariant, PTL DEF Spec

\* queue.go:190: message frames reach the transport in the order in which they
\* were encoded, for any number of goroutines, direct and queued, and any failures.
THEOREM OrderCorrect == Spec => []WireInEncodeOrder
<1>1. OrderInv => WireInEncodeOrder
  BY DEF OrderInv, InOrder, Follows, Kept, Ordered, WireInEncodeOrder
<1>2. QED
  BY <1>1, OrderInvariant, PTL

\* conn_write.go:242: where no protocol failure makes the reader send a close of
\* its own, nothing but pongs follows a close frame.
THEOREM CloseCorrect ==
  ASSUME NoSendClose
  PROVE  Spec => []CloseIsLast
<1>1. OrderInv => CloseIsLast
  BY DEF OrderInv, InOrder, Follows, CloseIsLast
<1>2. QED
  BY <1>1, OrderInvariant, PTL
-----------------------------------------------------------------------------
(***************************************************************************)
(* What a nil return vouches for.  A waiter compares `written` with a      *)
(* sequence number, not with a frame: the invariant says where in the line *)
(* each frame it vouches for is, and that it counts before the number.     *)
(***************************************************************************)
Waiting == {"await", "asleep"}

InQueue(x, n) ==
  \/ \E i \in DOMAIN flushSegments : flushSegments[i].id = x /\ written + i <= n
  \/ \E i \in DOMAIN segments : segments[i].id = x /\ written + Len(flushSegments) + i <= n

Covered(t) == \A x \in due[t] : x \in OnWire \/ InQueue(x, seq[t])

NilInv ==
  /\ acked \subseteq OnWire
  /\ ~err => \A x \in accepted : x \in OnWire \/ InQueue(x, enqueued)
  /\ ~err => \A t \in Writers : pc[t] \in Waiting => Covered(t)
  /\ \A i \in DOMAIN flushSegments : flushSegments[i].op # "torn"
  /\ \A i \in DOMAIN segments : segments[i].op # "torn"
  /\ (\E r \in Runners : run[r] = "wrote") => \A i \in DOMAIN flushSegments : flushSegments[i].id \in OnWire

\* A step that acknowledges nothing and makes nobody wait.
Passive ==
  /\ UNCHANGED <<wire, acked, accepted, segments, flushSegments, err, enqueued, written>>
  /\ \A r \in Runners : run'[r] = "wrote" => run[r] = "wrote"
  /\ \A u \in Writers : pc'[u] \in Waiting => pc[u] \in Waiting /\ seq'[u] = seq[u] /\ due'[u] = due[u]

LEMMA ReturnIsPassive ==
  ASSUME TypeOK, NEW t \in Writers, NEW ok, Return(t, ok, {}),
         UNCHANGED <<wire, accepted, segments, flushSegments, err, enqueued, written, run>>
  PROVE  Passive
<1>1. acked' = acked
  BY DEF Return
<1>2. \A u \in Writers : pc'[u] \in Waiting => pc[u] \in Waiting /\ seq'[u] = seq[u] /\ due'[u] = due[u]
  BY DEF Return, TypeOK, Waiting
<1>3. QED
  BY <1>1, <1>2 DEF Passive

LEMMA EnterIsPassive ==
  ASSUME TypeOK, NEW t \in Writers, NEW c, NEW r, Enter(t, c, r)
  PROVE  Passive
BY DEF Enter, Passive, queue, TypeOK, Waiting

LEMMA UnderWmuIsPassive ==
  ASSUME TypeOK, NEW t \in Writers, UnderWmu(t)
  PROVE  Passive
<1>1. CASE \E ok \in BOOLEAN : /\ Return(t, ok, {})
                               /\ UNCHANGED <<wire, accepted, segments, flushSegments, err,
                                              enqueued, written, run>>
  BY <1>1, ReturnIsPassive
<1>2. CASE Refuse(t)
  BY Zenon, <1>1, <1>2 DEF Refuse, queue
<1>3. CASE \E op, fin, ext \in FrameOps \cup BOOLEAN, next \in {"enqueue", "iolock"} : Encode(t, op, fin, ext, next)
  BY <1>3 DEF Encode, Passive, queue, TypeOK, Waiting
<1>4. CASE NewQueue(t)
  BY Zenon, <1>1, <1>4 DEF NewQueue
<1>5. CASE BeginMessage(t)
  BY Zenon, <1>1, <1>2, <1>5 DEF BeginMessage, queue
<1>6. CASE Send(t)
  BY Zenon, <1>2, <1>3, <1>6 DEF Send, FrameOps
<1>7. CASE Write(t)
  BY Zenon, <1>2, <1>3, <1>7 DEF Write, FrameOps, SendFrame
<1>8. CASE WriteFragment(t)
  BY Zenon, <1>2, <1>3, <1>8 DEF WriteFragment, FrameOps, SendFrame, Final
<1>9. CASE Control(t)
  BY Zenon, <1>2, <1>3, <1>9 DEF Control, FrameOps
<1>10. CASE Close(t)
  BY Zenon, <1>2, <1>3, <1>10 DEF Close, FrameOps, SendFrame
<1>11. QED
  BY <1>4, <1>5, <1>6, <1>7, <1>8, <1>9, <1>10 DEF UnderWmu

\* What is whole on the wire stays there, and a successful write adds its frames.
LEMMA OnWireGrows ==
  ASSUME TypeOK, NEW fs \in Seq(Frames), NEW ok \in BOOLEAN, Transport(fs, ok),
         \A i \in DOMAIN fs : fs[i].op # "torn"
  PROVE  /\ OnWire \subseteq OnWire'
         /\ ok => \A i \in DOMAIN fs : fs[i].id \in OnWire'
<1>1. /\ wire \in Seq(Frames) /\ failures \in Nat /\ Len(wire) \in Nat /\ Len(fs) \in Nat
      /\ DOMAIN wire = 1..Len(wire) /\ DOMAIN fs = 1..Len(fs)
  BY LenProperties DEF TypeOK
<1>2. /\ wire' \in Seq(Frames) /\ Len(wire) <= Len(wire')
      /\ \A i \in 1..Len(wire) : wire'[i] = wire[i]
      /\ ok => /\ Len(wire') = Len(wire) + Len(fs)
               /\ \A i \in 1..Len(fs) : wire'[Len(wire) + i] = fs[i]
  BY <1>1, TransportEffect
<1>3. DOMAIN wire' = 1..Len(wire') /\ Len(wire') \in Nat
  BY <1>2, LenProperties
<1>4. ASSUME NEW i \in DOMAIN wire, wire[i].op # "torn" PROVE wire[i].id \in OnWire'
  <2>1. i \in DOMAIN wire' /\ wire'[i] = wire[i]
    <3>1. i \in 1..Len(wire)
      BY <1>1
    <3>2. Len(wire) \in Nat /\ Len(wire') \in Nat /\ Len(wire) <= Len(wire')
      BY Zenon, <1>1, <1>2, <1>3
    <3>3. i \in 1..Len(wire')
      BY <3>1, <3>2
    <3>4. QED
      BY Zenon, <1>2, <1>3, <3>1, <3>3
  <2>2. QED
    BY <1>4, <2>1 DEF OnWire
<1>5. ASSUME ok, NEW i \in DOMAIN fs PROVE fs[i].id \in OnWire'
  <2>1. Len(wire) + i \in DOMAIN wire' /\ wire'[Len(wire) + i] = fs[i]
    BY <1>1, <1>2, <1>3, <1>5
  <2>2. fs[i].op # "torn"
    OBVIOUS
  <2>3. QED
    BY <2>1, <2>2 DEF OnWire
<1>6. OnWire \subseteq OnWire'
  BY <1>4 DEF OnWire
<1>7. QED
  BY <1>5, <1>6

LEMMA NilInvStep ==
  TypeOK /\ TypeOK' /\ QueueInv /\ LockInv /\ NilInv /\ [Next]_vars => NilInv'
<1> SUFFICES ASSUME TypeOK, TypeOK', QueueInv, LockInv, NilInv, [Next]_vars
             PROVE  NilInv'
  OBVIOUS
<1>0. /\ flushSegments \in Seq(Frames) /\ segments \in Seq(Frames)
      /\ Len(flushSegments) \in Nat /\ Len(segments) \in Nat
      /\ DOMAIN flushSegments = 1..Len(flushSegments) /\ DOMAIN segments = 1..Len(segments)
      /\ written \in Nat /\ enqueued \in Nat
      /\ \A t \in Writers : frame[t] \in Frames /\ seq[t] \in Nat
  BY LenProperties DEF TypeOK
<1>1. CASE Passive
  <2>1. OnWire' = OnWire
    BY <1>1 DEF Passive, OnWire
  <2>2. \A x, n : InQueue(x, n)' = InQueue(x, n)
    BY <1>1 DEF Passive, InQueue
  <2>3. ASSUME ~err, NEW u \in Writers, pc'[u] \in Waiting PROVE Covered(u)'
    BY <1>1, <2>1, <2>2, <2>3 DEF Passive, Covered, NilInv
  <2>4. ASSUME ~err, NEW x \in accepted' PROVE x \in OnWire' \/ InQueue(x, enqueued)'
    BY <1>1, <2>1, <2>2, <2>4 DEF Passive, NilInv
  <2>5. QED
    BY Zenon, <1>1, <2>1, <2>3, <2>4 DEF Passive, NilInv
<1>2. ASSUME NEW t \in Writers, NEW c \in Ops, Wait(t, c) PROVE NilInv'
  <2>1. UNCHANGED <<wire, acked, accepted, segments, flushSegments, err, enqueued, written, run>>
    BY <1>2 DEF Wait, queue
  <2>2. OnWire' = OnWire
    BY <2>1 DEF OnWire
  <2>3. \A x, n : InQueue(x, n)' = InQueue(x, n)
    BY <2>1 DEF InQueue
  <2>4. ASSUME ~err, NEW u \in Writers, pc'[u] \in Waiting PROVE Covered(u)'
    <3>1. CASE u = t
      <4>1. due'[u] = accepted /\ seq'[u] = enqueued
        BY <1>2, <3>1 DEF Wait, TypeOK
      <4>2. QED
        BY <2>2, <2>3, <2>4, <4>1 DEF Covered, NilInv
    <3>2. CASE u # t
      <4>1. due'[u] = due[u] /\ seq'[u] = seq[u] /\ pc'[u] = pc[u]
        BY <1>2, <3>2 DEF Wait, TypeOK
      <4>2. QED
        BY <2>2, <2>3, <2>4, <4>1 DEF Covered, NilInv
    <3>3. QED
      BY <3>1, <3>2
  <2>5. ASSUME ~err, NEW x \in accepted' PROVE x \in OnWire' \/ InQueue(x, enqueued)'
    BY <2>1, <2>2, <2>3, <2>5 DEF NilInv
  <2>6. QED
    BY <2>1, <2>2, <2>4, <2>5 DEF NilInv
<1>3. ASSUME NEW t \in Writers, Await(t), Return(t, WaitResult, due[t]), written >= seq[t] \/ err PROVE NilInv'
  <2>1. UNCHANGED <<wire, accepted, segments, flushSegments, err, enqueued, written, run>>
    BY <1>3 DEF Await, queue
  <2>2. OnWire' = OnWire
    BY <2>1 DEF OnWire
  <2>3. \A x, n : InQueue(x, n)' = InQueue(x, n)
    BY <2>1 DEF InQueue
  <2>4. ASSUME ~err PROVE due[t] \subseteq OnWire
    <3>1. pc[t] \in Waiting
      BY <1>3 DEF Await, Waiting
    <3>2. Covered(t) /\ written >= seq[t]
      BY <1>3, <2>4, <3>1 DEF NilInv
    <3>3. \A x : ~InQueue(x, seq[t])
      BY <1>0, <3>2 DEF InQueue
    <3>4. QED
      BY <3>2, <3>3 DEF Covered
  <2>5. acked' \subseteq OnWire
    BY <1>3, <2>4 DEF Return, WaitResult, NilInv
  <2>6. ASSUME ~err, NEW u \in Writers, pc'[u] \in Waiting PROVE Covered(u)'
    <3>1. pc[u] \in Waiting /\ due'[u] = due[u] /\ seq'[u] = seq[u]
      BY <1>3, <2>6 DEF Return, TypeOK, Waiting
    <3>2. QED
      BY Zenon, <2>2, <2>3, <2>6, <3>1 DEF Covered, NilInv
  <2>7. ASSUME ~err, NEW x \in accepted' PROVE x \in OnWire' \/ InQueue(x, enqueued)'
    BY Zenon, <2>1, <2>2, <2>3, <2>7 DEF NilInv
  <2>8. QED
    BY <2>1, <2>2, <2>5, <2>6, <2>7 DEF NilInv
<1>4. ASSUME NEW t \in Writers, Enqueue(t), Accepts PROVE NilInv'
  <2>1. /\ segments' = Append(segments, frame[t]) /\ enqueued' = enqueued + 1
        /\ accepted' = accepted \cup {frame[t].id} /\ ~err
        /\ UNCHANGED <<wire, flushSegments, err, written>>
    BY Zenon, <1>4 DEF Enqueue, Accepts
  <2>2. /\ pc[t] = "enqueue" /\ pc[t] \notin Waiting /\ due[t] = {frame[t].id}
        /\ frame[t].op # "torn"
    BY Zenon, <1>4 DEF Enqueue, LockInv, HolderOK, Holding, Waiting
  <2>3. /\ Len(segments') = Len(segments) + 1 /\ DOMAIN segments' = 1..(Len(segments) + 1)
        /\ \A i \in 1..Len(segments) : segments'[i] = segments[i]
        /\ segments'[Len(segments) + 1] = frame[t]
    <3>1. segments \in Seq(Frames) /\ frame[t] \in Frames
      BY <1>0
    <3>2. /\ segments' \in Seq(Frames) /\ Len(segments') = Len(segments) + 1
          /\ \A i \in 1..Len(segments) : segments'[i] = segments[i]
          /\ segments'[Len(segments) + 1] = frame[t]
      BY <2>1, <3>1, AppendProperties
    <3>3. DOMAIN segments' = 1..Len(segments')
      BY <3>2, LenProperties
    <3>4. QED
      BY <3>2, <3>3
  <2>4. OnWire' = OnWire
    BY <2>1 DEF OnWire
  <2>5. ASSUME NEW x, NEW n \in Nat, NEW k \in Nat, n <= k, InQueue(x, n) PROVE InQueue(x, k)'
    <3>1. CASE \E i \in DOMAIN flushSegments : flushSegments[i].id = x /\ written + i <= n
      <4>1. PICK i \in DOMAIN flushSegments : flushSegments[i].id = x /\ written + i <= n
        BY <3>1
      <4>2. written + i <= k
        BY <1>0, <2>5, <4>1
      <4>3. QED
        BY <2>1, <4>1, <4>2 DEF InQueue
    <3>2. CASE \E i \in DOMAIN segments : segments[i].id = x /\ written + Len(flushSegments) + i <= n
      <4>1. PICK i \in DOMAIN segments : segments[i].id = x /\ written + Len(flushSegments) + i <= n
        BY <3>2
      <4>2. written + Len(flushSegments) + i <= k
        BY <1>0, <2>5, <4>1
      <4>3. i \in DOMAIN segments' /\ segments'[i] = segments[i]
        BY <1>0, <2>3
      <4>4. QED
        BY <2>1, <4>1, <4>2, <4>3 DEF InQueue
    <3>3. QED
      BY <2>5, <3>1, <3>2 DEF InQueue
  <2>6. ASSUME NEW x, NEW n, x = frame[t].id, n = enqueued + 1 PROVE InQueue(x, n)'
    <3>1. enqueued = written + Len(flushSegments) + Len(segments)
      BY <2>1 DEF QueueInv, Accounting
    <3>2. written + Len(flushSegments) + (Len(segments) + 1) <= n
      BY <1>0, <2>6, <3>1
    <3>3. Len(segments) + 1 \in DOMAIN segments'
      BY <1>0, <2>3
    <3>4. QED
      BY <2>1, <2>3, <2>6, <3>2, <3>3 DEF InQueue
  <2>7. ASSUME NEW x \in accepted' PROVE x \in OnWire' \/ InQueue(x, enqueued)'
    <3>1. PICK n \in Nat : n = enqueued + 1
      BY <1>0
    <3>2. x \in OnWire' \/ InQueue(x, n)'
      <4>1. CASE x = frame[t].id
        BY <2>6, <3>1, <4>1
      <4>2. CASE x \in accepted
        <5>1. x \in OnWire \/ InQueue(x, enqueued)
          BY <2>1, <4>2 DEF NilInv
        <5>2. enqueued <= n
          BY <1>0, <3>1
        <5>3. QED
          BY <1>0, <2>4, <2>5, <5>1, <5>2
      <4>3. QED
        BY <2>1, <2>7, <4>1, <4>2
    <3>3. QED
      BY <2>1, <3>1, <3>2 DEF InQueue
  <2>8. ASSUME NEW u \in Writers, pc'[u] \in Waiting PROVE Covered(u)'
    <3>0. DOMAIN pc = Writers /\ DOMAIN due = Writers /\ DOMAIN seq = Writers
      BY DEF TypeOK
    <3>1. \/ pc' = [pc EXCEPT ![t] = "await"] /\ seq' = [seq EXCEPT ![t] = enqueued + 1] /\ due' = due
          \/ Return(t, TRUE, {})
      BY Zenon, <1>4 DEF Enqueue
    <3>2. u = t => seq'[t] = enqueued + 1 /\ due'[t] = due[t]
      BY <2>8, <3>0, <3>1 DEF Return, Waiting
    <3>3. u # t => pc'[u] = pc[u] /\ due'[u] = due[u] /\ seq'[u] = seq[u]
      BY <3>0, <3>1 DEF Return
    <3>4. CASE u = t
      <4>1. due'[u] = {frame[t].id} /\ seq'[u] = enqueued + 1
        BY <2>2, <3>2, <3>4
      <4>2. PICK x, n : x = frame[t].id /\ n = enqueued + 1
        OBVIOUS
      <4>3. InQueue(x, n)'
        BY <2>6, <4>2
      <4>4. InQueue(x, seq[u])'
        BY <4>1, <4>2, <4>3 DEF InQueue
      <4>5. QED
        BY <4>1, <4>2, <4>4 DEF Covered
    <3>5. CASE u # t
      <4>1. pc'[u] = pc[u] /\ due'[u] = due[u] /\ seq'[u] = seq[u]
        BY <3>3, <3>5
      <4>2. Covered(u)
        BY <2>1, <2>8, <4>1 DEF NilInv
      <4>3. ASSUME NEW x \in due[u] PROVE x \in OnWire' \/ InQueue(x, seq[u])'
        <5>1. PICK n \in Nat : n = seq[u]
          BY <1>0
        <5>2. x \in OnWire \/ InQueue(x, n)
          BY <4>2, <5>1 DEF Covered
        <5>3. x \in OnWire' \/ InQueue(x, n)'
          BY <2>4, <2>5, <5>2
        <5>4. QED
          BY <4>1, <5>1, <5>3 DEF InQueue
      <4>4. QED
        BY <4>1, <4>3 DEF Covered
    <3>6. QED
      BY <3>4, <3>5
  <2>9. acked' = acked
    BY <1>4 DEF Enqueue, Return
  <2>10. \A i \in DOMAIN segments' : segments'[i].op # "torn"
    <3>1. \A i \in DOMAIN segments' : i \in 1..Len(segments) \/ i = Len(segments) + 1
      BY <1>0, <2>3
    <3>2. DOMAIN segments = 1..Len(segments)
      BY <1>0
    <3>3. ASSUME NEW i \in DOMAIN segments' PROVE segments'[i].op # "torn"
      <4>1. CASE i \in 1..Len(segments)
        BY <2>3, <3>2, <4>1 DEF NilInv
      <4>2. CASE i = Len(segments) + 1
        BY <2>2, <2>3, <4>2
      <4>3. QED
        BY <3>1, <4>1, <4>2
    <3>4. QED
      BY <3>3
  <2>11. \A r \in Runners : run'[r] = "wrote" => run[r] = "wrote"
    BY <1>4 DEF Enqueue, StartWriter, TypeOK
  <2>12. QED
    BY <2>1, <2>4, <2>7, <2>8, <2>9, <2>10, <2>11 DEF NilInv
<1>5. ASSUME NEW t \in Writers, IoDone(t) PROVE NilInv'
  <2>1. UNCHANGED <<accepted, segments, flushSegments, err, enqueued, written, run>>
    BY Zenon, <1>5 DEF IoDone, queue
  <2>2. PICK ok \in BOOLEAN : Transport(<<frame[t]>>, ok) /\ Return(t, ok, due[t])
    BY Zenon, <1>5 DEF IoDone
  <2>3. frame[t].op # "torn" /\ due[t] = {frame[t].id} /\ <<frame[t]>> \in Seq(Frames)
    <3>1. HolderOK(t) /\ pc[t] \in Holding
      BY <1>5 DEF IoDone, LockInv, Holding
    <3>2. frame[t].op # "torn" /\ due[t] = {frame[t].id}
      BY <3>1 DEF HolderOK
    <3>3. <<frame[t]>> \in Seq(Frames)
      BY <1>0
    <3>4. QED
      BY <3>2, <3>3
  <2>4. OnWire \subseteq OnWire' /\ (ok => frame[t].id \in OnWire')
    <3>1. DOMAIN <<frame[t]>> = {1} /\ <<frame[t]>>[1] = frame[t]
      OBVIOUS
    <3>2. \A i \in DOMAIN <<frame[t]>> : <<frame[t]>>[i].op # "torn"
      BY <2>3, <3>1
    <3>3. OnWire \subseteq OnWire' /\ (ok => \A i \in DOMAIN <<frame[t]>> : <<frame[t]>>[i].id \in OnWire')
      BY Zenon, <2>2, <2>3, <3>2, OnWireGrows
    <3>4. QED
      BY <3>1, <3>3
  <2>5. acked' \subseteq OnWire'
    BY <2>2, <2>3, <2>4 DEF Return, NilInv
  <2>6. \A x, n : InQueue(x, n)' = InQueue(x, n)
    BY <2>1 DEF InQueue
  <2>7. ASSUME ~err, NEW u \in Writers, pc'[u] \in Waiting PROVE Covered(u)'
    <3>1. pc[u] \in Waiting /\ due'[u] = due[u] /\ seq'[u] = seq[u]
      BY <2>2, <2>7 DEF Return, TypeOK, Waiting
    <3>2. QED
      BY Zenon, <2>4, <2>6, <2>7, <3>1 DEF Covered, NilInv
  <2>8. ASSUME ~err, NEW x \in accepted' PROVE x \in OnWire' \/ InQueue(x, enqueued)'
    BY Zenon, <2>1, <2>4, <2>6, <2>8 DEF NilInv
  <2>9. QED
    BY Zenon, <2>1, <2>4, <2>5, <2>7, <2>8 DEF NilInv
<1>6. ASSUME NEW r \in Runners,
             RunExit(r) \/ RunTake(r) \/ FlushLock(r) \/ Flush(r) \/ RunAfter(r)
      PROVE  /\ UNCHANGED <<acked, accepted, enqueued, seq, due>>
             /\ \A u \in Writers : pc'[u] \in Waiting => pc[u] \in Waiting
             /\ \A q \in Runners : q # r => run[q] = "none" /\ run'[q] = "none"
  <2>1. run[r] # "none"
    BY <1>6 DEF RunExit, RunTake, FlushLock, Flush, RunAfter
  <2>2. \A q \in Runners : q # r => run'[q] = run[q]
    BY ZenonT(30), <1>6 DEF RunExit, RunTake, FlushLock, Flush, RunAfter, TypeOK
  <2>3. \A u \in Writers : pc'[u] \in Waiting => pc[u] \in Waiting
    <3>1. pc' = pc \/ Broadcast
      BY <1>6 DEF RunExit, RunTake, FlushLock, Flush, RunAfter, locals
    <3>2. QED
      BY <3>1 DEF Broadcast, Waiting
  <2>4. UNCHANGED <<acked, accepted, enqueued, seq, due>>
    BY <1>6 DEF RunExit, RunTake, FlushLock, Flush, RunAfter, locals
  <2>5. QED
    BY <2>1, <2>2, <2>3, <2>4 DEF QueueInv, OneWriter
<1>7. ASSUME NEW r \in Runners, RunExit(r) \/ FlushLock(r) PROVE Passive
  <2>1. UNCHANGED <<wire, segments, flushSegments, err, written>> /\ run'[r] # "wrote"
    BY <1>7 DEF RunExit, FlushLock, TypeOK
  <2>2. QED
    BY Zenon, <1>6, <1>7, <2>1 DEF Passive
\* Two steps that move frames along the line without losing their places.
<1>8. ASSUME NEW r \in Runners, RunTake(r) \/ RunAfter(r) \/ Flush(r),
             ~err', ~err,
             OnWire \subseteq OnWire',
             \A x, n : InQueue(x, n) => x \in OnWire' \/ InQueue(x, n)'
      PROVE  /\ \A x \in accepted' : x \in OnWire' \/ InQueue(x, enqueued)'
             /\ \A u \in Writers : pc'[u] \in Waiting => Covered(u)'
  <2>1. UNCHANGED <<accepted, enqueued, seq, due>>
    BY <1>6, <1>8
  <2>2. ASSUME NEW x \in accepted' PROVE x \in OnWire' \/ InQueue(x, enqueued)'
    BY <1>8, <2>1, <2>2 DEF NilInv
  <2>3. ASSUME NEW u \in Writers, pc'[u] \in Waiting PROVE Covered(u)'
    <3>1. Covered(u)
      BY <1>6, <1>8, <2>3 DEF NilInv
    <3>2. QED
      BY <1>8, <2>1, <3>1 DEF Covered
  <2>4. QED
    BY <2>2, <2>3
<1>9. ASSUME NEW r \in Runners, RunTake(r) PROVE NilInv'
  <2>1. /\ flushSegments' = segments /\ segments' = <<>> /\ UNCHANGED <<wire, err, written>>
        /\ ~err /\ run'[r] = "iolock"
    BY <1>9 DEF RunTake, TypeOK
  <2>2. flushSegments = <<>>
    BY Zenon, <1>6, <1>9 DEF RunTake, QueueInv, Busy
  <2>3. OnWire' = OnWire
    BY <2>1 DEF OnWire
  <2>4. ASSUME NEW x, NEW n, InQueue(x, n) PROVE InQueue(x, n)'
    <3>1. Len(flushSegments) = 0 /\ DOMAIN flushSegments = {}
      BY <2>2
    <3>2. PICK i \in DOMAIN segments : segments[i].id = x /\ written + Len(flushSegments) + i <= n
      BY <2>4, <3>1 DEF InQueue
    <3>3. written + Len(flushSegments) + i = written + i
      BY <1>0, <3>1
    <3>4. QED
      BY <2>1, <3>2, <3>3 DEF InQueue
  <2>5. /\ \A x \in accepted' : x \in OnWire' \/ InQueue(x, enqueued)'
        /\ \A u \in Writers : pc'[u] \in Waiting => Covered(u)'
    BY <1>8, <1>9, <2>1, <2>3, <2>4
  <2>6. /\ acked' \subseteq OnWire'
        /\ \A i \in DOMAIN flushSegments' : flushSegments'[i].op # "torn"
        /\ \A i \in DOMAIN segments' : segments'[i].op # "torn"
        /\ \A q \in Runners : run'[q] # "wrote"
    <3>1. acked' \subseteq OnWire'
      BY <1>6, <1>9, <2>1, <2>3 DEF NilInv
    <3>2. /\ \A i \in DOMAIN flushSegments' : flushSegments'[i].op # "torn"
          /\ \A i \in DOMAIN segments' : segments'[i].op # "torn"
      <4>1. flushSegments' = segments /\ DOMAIN segments' = {}
        BY <2>1
      <4>2. \A i \in DOMAIN segments : segments[i].op # "torn"
        BY DEF NilInv
      <4>3. QED
        BY <4>1, <4>2
    <3>3. \A q \in Runners : run'[q] # "wrote"
      BY <1>6, <1>9, <2>1
    <3>4. QED
      BY <3>1, <3>2, <3>3
  <2>7. QED
    BY Zenon, <2>5, <2>6 DEF NilInv
<1>10. ASSUME NEW r \in Runners, Flush(r) PROVE NilInv'
  <2>1. PICK ok \in BOOLEAN : /\ Transport(flushSegments, ok)
                              /\ run' = [run EXCEPT ![r] = IF ok THEN "wrote" ELSE "failed"]
    BY Zenon, <1>10 DEF Flush
  <2>2. UNCHANGED <<segments, flushSegments, err, written>>
    BY <1>10 DEF Flush
  <2>3. OnWire \subseteq OnWire' /\ (ok => \A i \in DOMAIN flushSegments : flushSegments[i].id \in OnWire')
    BY Zenon, <1>0, <2>1, OnWireGrows DEF NilInv
  <2>4. \A x, n : InQueue(x, n)' = InQueue(x, n)
    BY <2>2 DEF InQueue
  <2>5. ~err => /\ \A x \in accepted' : x \in OnWire' \/ InQueue(x, enqueued)'
                /\ \A u \in Writers : pc'[u] \in Waiting => Covered(u)'
    BY <1>8, <1>10, <2>2, <2>3, <2>4
  <2>6. acked' \subseteq OnWire'
    BY <1>6, <1>10, <2>3 DEF NilInv
  <2>7. (\E q \in Runners : run'[q] = "wrote") => ok
    BY <1>6, <1>10, <2>1 DEF TypeOK
  <2>8. QED
    BY <2>2, <2>3, <2>5, <2>6, <2>7 DEF NilInv
<1>11. ASSUME NEW r \in Runners, RunAfter(r) PROVE NilInv'
  <2>1. /\ flushSegments' = <<>> /\ (segments' = <<>> \/ segments' = segments) /\ wire' = wire
        /\ written' = written + Len(flushSegments) /\ err' = (err \/ run[r] = "failed")
        /\ run'[r] # "wrote"
    BY <1>11 DEF RunAfter, Flushed, TypeOK
  <2>2. OnWire' = OnWire
    BY <2>1 DEF OnWire
  <2>3. ASSUME ~err', NEW x, NEW n, InQueue(x, n) PROVE x \in OnWire' \/ InQueue(x, n)'
    <3>1. run[r] = "wrote" /\ segments' = segments
      BY Zenon, <1>11, <2>1, <2>3 DEF RunAfter
    <3>2. CASE \E i \in DOMAIN flushSegments : flushSegments[i].id = x
      BY Zenon, <2>2, <3>1, <3>2 DEF NilInv
    <3>3. CASE \E i \in DOMAIN segments : segments[i].id = x /\ written + Len(flushSegments) + i <= n
      <4>1. PICK i \in DOMAIN segments : segments[i].id = x /\ written + Len(flushSegments) + i <= n
        BY <3>3
      <4>2. Len(flushSegments') = 0
        BY <2>1
      <4>3. written' + Len(flushSegments') + i = written + Len(flushSegments) + i
        BY <1>0, <2>1, <4>2
      <4>4. QED
        BY Zenon, <3>1, <4>1, <4>3 DEF InQueue
    <3>4. QED
      BY Zenon, <2>3, <3>2, <3>3 DEF InQueue
  <2>4. ~err' => ~err
    BY Zenon, <2>1
  <2>5. ~err' => /\ \A x \in accepted' : x \in OnWire' \/ InQueue(x, enqueued)'
                 /\ \A u \in Writers : pc'[u] \in Waiting => Covered(u)'
    BY <1>8, <1>11, <2>2, <2>3, <2>4
  <2>6. /\ acked' \subseteq OnWire'
        /\ \A i \in DOMAIN flushSegments' : flushSegments'[i].op # "torn"
        /\ \A i \in DOMAIN segments' : segments'[i].op # "torn"
        /\ \A q \in Runners : run'[q] # "wrote"
    <3>1. acked' \subseteq OnWire'
      BY <1>6, <1>11, <2>1, <2>2 DEF NilInv
    <3>2. /\ \A i \in DOMAIN flushSegments' : flushSegments'[i].op # "torn"
          /\ \A i \in DOMAIN segments' : segments'[i].op # "torn"
      <4>1. DOMAIN flushSegments' = {} /\ (DOMAIN segments' = {} \/ segments' = segments)
        BY <2>1
      <4>2. \A i \in DOMAIN segments : segments[i].op # "torn"
        BY DEF NilInv
      <4>3. QED
        BY <4>1, <4>2
    <3>3. \A q \in Runners : run'[q] # "wrote"
      BY <1>6, <1>11, <2>1
    <3>4. QED
      BY <3>1, <3>2, <3>3
  <2>7. QED
    BY Zenon, <2>5, <2>6 DEF NilInv
<1>12. ASSUME NEW t \in Writers, Start(t) PROVE NilInv'
  <2>1. CASE \E c \in Ops : Wait(t, c)
    BY <1>2, <2>1
  <2>2. CASE \E c \in Ops : Call(t, c) \/ WriteFrom(t, c)
    BY <1>1, <2>2, EnterIsPassive DEF Call, WriteFrom
  <2>3. QED
    BY <1>12, <2>1, <2>2 DEF Start
<1>13. ASSUME NEW t \in Writers, ReadAhead(t) PROVE NilInv'
  <2>1. CASE /\ pc' = [pc EXCEPT ![t] = "idle"]
             /\ UNCHANGED <<queue, seq, due, acked, wire>>
    BY <1>1, <2>1 DEF Passive, queue, TypeOK, Waiting
  <2>2. QED
    BY <1>1, <1>13, <2>1, EnterIsPassive DEF ReadAhead
<1>14. ASSUME NEW t \in Writers, Enqueue(t) \/ Await(t) \/ IoLock(t) PROVE NilInv'
  <2>1. CASE Enqueue(t)
    <3>1. CASE ~Accepts
      BY Zenon, <1>1, <2>1, <3>1, ReturnIsPassive DEF Enqueue, queue
    <3>2. QED
      BY <1>4, <2>1, <3>1
  <2>2. CASE Await(t)
    <3>1. CASE pc' = [pc EXCEPT ![t] = "asleep"] /\ UNCHANGED <<seq, due, acked>>
      BY Zenon, <1>1, <2>2, <3>1 DEF Await, Passive, queue, TypeOK, Waiting
    <3>2. QED
      BY Zenon, <1>3, <2>2, <3>1 DEF Await
  <2>3. CASE IoLock(t)
    BY <1>1, <2>3 DEF IoLock, Passive, queue, TypeOK, Waiting
  <2>4. QED
    BY <1>14, <2>1, <2>2, <2>3
<1>15. CASE UNCHANGED vars
  BY Zenon, <1>1, <1>15 DEF vars, queue, locals, Passive
<1>16. QED
  BY <1>1, <1>5, <1>7, <1>9, <1>10, <1>11, <1>12, <1>13, <1>14, <1>15, UnderWmuIsPassive
     DEF Next, Internal, RunStep, Idle

\* queue.go:17, 164: for any number of goroutines, nil from a synchronous write,
\* a Close or a Wait means that the transport took every frame it stands for.
THEOREM NilCorrect == Spec => []NilMeansWritten
<1>1. Init => NilInv
  BY DEF Init, NilInv, Waiting
<1>2. NilInv => NilMeansWritten
  BY DEF NilInv, NilMeansWritten
<1>3. QED
  BY <1>1, <1>2, NilInvStep, TypeCorrect, QueueInvariant, LockInvariant, PTL DEF Spec
=============================================================================
