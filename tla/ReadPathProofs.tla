--------------------------- MODULE ReadPathProofs ---------------------------
(***************************************************************************)
(* Proofs about ReadPath, for every stream a peer may send, however it is  *)
(* cut into transport reads, and every sequence of calls.                  *)
(***************************************************************************)
EXTENDS ReadPath, SequenceTheorems, TLAPS

\* A step of the reader is only taken in a call, and a call that meets a terminal
\* error returns.
ErrInv == readErr # "none" => mode = "idle"

LEMMA ErrInvariant == Spec => []ErrInv
<1>1. Init => ErrInv
  BY DEF Init, ErrInv
<1>2. ErrInv /\ [Next]_vars => ErrInv'
  <2> SUFFICES ASSUME ErrInv, [Next]_vars
               PROVE  ErrInv'
    OBVIOUS
  <2>1. CASE UNCHANGED <<mode, readErr>>
    BY <2>1 DEF ErrInv
  <2>2. ASSUME NEW e, Fail(e) PROVE ErrInv'
    BY <2>2 DEF Fail, Return, ErrInv
  <2>3. ASSUME NEW r, Return(r) PROVE ErrInv'
    BY <2>3 DEF Return, ErrInv
  <2>4. CASE Call
    BY <2>4 DEF Call, NextMessage, Read, WriteTo, Refused, Healthy, flags, reader, ErrInv
  <2>5. ASSUME NEW i, Dispatch(i) PROVE ErrInv'
    BY <2>1, <2>2, <2>5 DEF Dispatch, reader, flags
  <2>6. ASSUME mode # "idle", NEW i, NEW first, DataFrame(i, first) PROVE ErrInv'
    BY <2>1, <2>2, <2>3, <2>6 DEF DataFrame, flags, ErrInv
  <2>7. CASE DecodeHeader
    BY <2>1, <2>2, <2>5, <2>6, <2>7 DEF DecodeHeader, Decoding, reader, flags
  <2>8. CASE ControlPayload
    BY <2>1, <2>5, <2>8 DEF ControlPayload, reader, flags
  <2>9. ASSUME NEW units, Sink(units), UNCHANGED flags PROVE ErrInv'
    BY Zenon, <2>1, <2>3, <2>9 DEF Sink, flags, reader
  <2>10. CASE TakeBuffered
    BY <2>1, <2>2, <2>9, <2>10 DEF TakeBuffered, NextChunk, reader, flags
  <2>11. CASE InflateBegin
    BY <2>1, <2>11 DEF InflateBegin, reader
  <2>12. CASE InflateOut
    BY <2>9, <2>12 DEF InflateOut
  <2>13. CASE FrameDone
    BY <2>1, <2>2, <2>3, <2>13 DEF FrameDone, FinishMessage, flags, Draining, ErrInv
  <2>14. CASE Fill
    BY <2>1, <2>14 DEF Fill, reader, flags
  <2>15. CASE ReadDirect
    BY <2>9, <2>15 DEF ReadDirect
  <2>16. CASE ReadError
    BY <2>3, <2>16 DEF ReadError, AtEof
  <2>17. CASE UNCHANGED vars
    BY <2>1, <2>17 DEF vars, reader, flags
  <2>18. QED
    BY <2>4, <2>7, <2>8, <2>10, <2>11, <2>12, <2>13, <2>14, <2>15, <2>16, <2>17 DEF Next, Step, Idle
<1>3. QED
  BY <1>1, <1>2, PTL DEF Spec

\* conn_read.go:504: for every stream, a terminal error is terminal.
THEOREM TerminalCorrect == Spec => TerminalIsTerminal
<1>1. ErrInv /\ [Next]_vars =>
        [readErr # "none" => UNCHANGED <<transport, rx, flags, log, controls>>]_vars
  <2> SUFFICES ASSUME ErrInv, Next, readErr # "none"
               PROVE  UNCHANGED <<transport, rx, flags, log, controls>>
    OBVIOUS
  <2>1. mode = "idle"
    BY DEF ErrInv
  <2>2. ~Step
    BY <2>1 DEF Step, DecodeHeader, ControlPayload, TakeBuffered, InflateBegin, InflateOut, FrameDone,
                Fill, ReadDirect, ReadError, NeedInput, Decoding, Draining
  <2>3. CASE Call
    BY <2>3 DEF Call, NextMessage, Read, WriteTo, Refused, Healthy
  <2>4. CASE Idle
    BY <2>4 DEF Idle, vars, app
  <2>5. QED
    BY <2>2, <2>3, <2>4 DEF Next
<1>2. QED
  BY <1>1, ErrInvariant, PTL DEF Spec, TerminalIsTerminal
-----------------------------------------------------------------------------
(***************************************************************************)
(* The open frame.  A data header is decoded only when the frame before it *)
(* is used up; what makes that so is that a call finding a message open    *)
(* starts by draining it, and that a message open between two calls is one *)
(* the application knows of.                                               *)
(***************************************************************************)
NumInv ==
  /\ stream \in Streams /\ left \in Nat /\ buffered \in Nat /\ next \in Nat \ {0}
  /\ remaining \in Nat /\ msg \in Nat /\ control \in Nat /\ size \in Nat
  /\ got \in Seq(Nat \X Int)
  /\ mode \in {"idle", "next", "discard", "read", "writeTo", "assemble"}
  /\ want \in {"frame", "payload"}

\* What the receiver knows of the open frame.
OpenInv ==
  remaining > 0 => /\ header \in DOMAIN stream /\ msg # 0 /\ control = 0
                   /\ ~IsControl(stream[header]) /\ remaining <= stream[header].len

\* What a call in progress, or the time between two calls, relies on.
CallInv ==
  /\ Decoding => remaining = 0
  /\ mode = "next" => want = "frame" /\ msg = 0
  /\ mode \in {"discard", "read", "writeTo", "assemble"} => inMessage
  /\ (mode = "idle" /\ readErr = "none" /\ msg # 0) => inMessage
  /\ mode # "assemble" => got = <<>>
  /\ mode = "assemble" => Len(got) + remaining <= Limit

FrameInv == NumInv /\ OpenInv /\ CallInv

LEMMA StreamFrames ==
  ASSUME NumInv, NEW i \in DOMAIN stream
  PROVE  stream[i] \in Frames /\ stream[i].len \in Nat /\ i \in Nat \ {0}
<1>1. stream \in Seq(Frames)
  BY ReadAssumption DEF NumInv
<1>2. stream[i] \in Frames /\ i \in Nat \ {0}
  BY <1>1
<1>3. QED
  BY <1>2 DEF Frames

\* A call that ends.
LEMMA FailIsSafe ==
  ASSUME NEW e, e # "none", Fail(e), NumInv, stream' = stream, left' \in Nat, buffered' \in Nat,
         next' \in Nat \ {0}, remaining' \in Nat, msg' \in Nat, control' \in Nat, OpenInv'
  PROVE  FrameInv'
<1>1. NumInv'
  BY DEF Fail, Return, NumInv
<1>2. CallInv'
  BY DEF Fail, Return, CallInv, Decoding
<1>3. QED
  BY <1>1, <1>2 DEF FrameInv

LEMMA CallStep ==
  ASSUME FrameInv, Call
  PROVE  FrameInv'
<1>1. UNCHANGED <<stream, left, buffered, next, header, remaining, msg, control>>
  BY DEF Call, transport, rx
<1>2. OpenInv'
  BY <1>1 DEF OpenInv, FrameInv, IsControl
<1>3. CASE Refused
  BY <1>1, <1>2, <1>3 DEF Refused, FrameInv, NumInv, CallInv, Decoding, reader, flags
<1>4. CASE \E name \in {"NextMessage", "ReadMessage"} : NextMessage(name)
  <2>1. UNCHANGED <<size, got, inMessage, readErr>> /\ mode = "idle" /\ readErr = "none"
    BY <1>4 DEF NextMessage, MayCall, Healthy
  <2>2. IF inMessage THEN mode' = "discard" /\ want' = "payload" ELSE mode' = "next" /\ want' = "frame"
    BY <1>4 DEF NextMessage
  <2>3. ~inMessage => msg = 0 /\ remaining = 0
    BY <2>1 DEF FrameInv, CallInv, OpenInv, NumInv
  <2>4. got = <<>>
    BY <2>1 DEF FrameInv, CallInv
  <2>5. NumInv'
    BY <1>1, <2>1, <2>2 DEF FrameInv, NumInv
  <2>6. CallInv'
    BY <1>1, <2>1, <2>2, <2>3, <2>4 DEF CallInv, Decoding
  <2>7. QED
    BY <1>2, <2>5, <2>6 DEF FrameInv
<1>5. CASE Read \/ WriteTo
  <2>1. UNCHANGED <<got, inMessage, readErr>> /\ mode = "idle" /\ inMessage
    BY <1>5 DEF Read, WriteTo, MayCall, flags
  <2>2. mode' \in {"read", "writeTo"} /\ want' = "payload" /\ size' \in Nat
    BY Zenon, <1>5, ReadAssumption DEF Read, WriteTo, FrameInv, NumInv
  <2>3. NumInv'
    BY <1>1, <2>1, <2>2 DEF FrameInv, NumInv
  <2>4. CallInv'
    BY <1>1, <2>1, <2>2 DEF FrameInv, CallInv, Decoding
  <2>5. QED
    BY <1>2, <2>3, <2>4 DEF FrameInv
<1>6. QED
  BY <1>3, <1>4, <1>5 DEF Call

\* The control frame is over, or the connection failed on it.
LEMMA DispatchStep ==
  ASSUME FrameInv, Decoding, NEW i, Dispatch(i), buffered' \in Nat, stream' = stream, left' = left,
         next' \in Nat \ {0}
  PROVE  FrameInv'
<1>0. remaining = 0 /\ NumInv
  BY DEF FrameInv, CallInv
<1>1. remaining' = 0 /\ control' = 0 /\ msg' \in {0, msg}
  BY <1>0 DEF Dispatch, RxFail, ControlOver
<1>2. OpenInv'
  BY <1>1 DEF OpenInv
<1>3. CASE \E e \in {"protocol", "closed", "handler"} : Fail(e)
  BY <1>0, <1>1, <1>2, <1>3, FailIsSafe DEF NumInv
<1>4. CASE UNCHANGED <<reader, flags>> /\ msg' = msg
  <2>1. NumInv'
    BY <1>0, <1>1, <1>4 DEF NumInv, reader
  <2>2. CallInv'
    BY <1>0, <1>1, <1>4 DEF FrameInv, CallInv, Decoding, reader, flags
  <2>3. QED
    BY <1>2, <2>1, <2>2 DEF FrameInv
<1>5. QED
  BY <1>3, <1>4 DEF Dispatch

\* A data header was accepted.
LEMMA DataStep ==
  ASSUME FrameInv, Decoding, NEW i \in DOMAIN stream, NEW first, DataFrame(i, first), i # 0,
         stream' = stream, left' = left, buffered' \in Nat, next' \in Nat \ {0}, header' = i,
         remaining' = stream[i].len, control' = 0, ~IsControl(stream[i]),
         msg' \in Nat, msg' # 0 \/ remaining' = 0
  PROVE  FrameInv'
<1>0. NumInv /\ remaining = 0 /\ stream[i].len \in Nat
  BY StreamFrames DEF FrameInv, CallInv
<1>1. OpenInv'
  BY <1>0 DEF OpenInv, IsControl
<1>2. CASE Fail("toolarge")
  BY <1>0, <1>1, <1>2, FailIsSafe DEF NumInv
<1>3. CASE mode' = "assemble" /\ want' = "payload" /\ inMessage' /\ UNCHANGED <<size, got, readErr>> /\ ~TooLarge(i)
  <2>1. NumInv'
    BY <1>0, <1>3 DEF NumInv
  <2>2. Len(got) \in Nat /\ ~(stream[i].len > Limit - Len(got))
    BY <1>0, <1>3 DEF NumInv, TooLarge
  <2>3. Len(got') + remaining' <= Limit
    BY <1>0, <1>3, <2>2, ReadAssumption
  <2>4. CallInv'
    BY <1>0, <1>3, <2>3 DEF CallInv, Decoding
  <2>5. QED
    BY <1>1, <2>1, <2>4 DEF FrameInv
<1>4. CASE inMessage' /\ Return("message") /\ UNCHANGED <<want, size, readErr>>
  <2>1. NumInv'
    BY <1>0, <1>4 DEF NumInv, Return
  <2>2. CallInv'
    BY <1>0, <1>4 DEF CallInv, Decoding, Return
  <2>3. QED
    BY <1>1, <2>1, <2>2 DEF FrameInv
<1>5. CASE /\ mode \notin {"next", "assemble"} /\ want' = "payload"
           /\ UNCHANGED <<mode, size, got, inMessage, readErr>>
  <2>1. NumInv'
    BY <1>0, <1>5 DEF NumInv
  <2>2. mode # "idle"
    BY DEF Decoding
  <2>3. CallInv'
    BY <1>0, <1>5, <2>2 DEF FrameInv, CallInv, Decoding
  <2>4. QED
    BY <1>1, <2>1, <2>3 DEF FrameInv
<1>6. QED
  BY <1>2, <1>3, <1>4, <1>5 DEF DataFrame, flags

LEMMA DecodeStep ==
  ASSUME FrameInv, DecodeHeader
  PROVE  FrameInv'
<1> DEFINE f == stream[next]
<1>0. /\ NumInv /\ Decoding /\ remaining = 0 /\ control = 0 /\ next \in DOMAIN stream
      /\ f.len \in Nat /\ next' \in Nat \ {0} /\ header' = next
      /\ stream' = stream /\ left' = left
      /\ buffered >= HeaderLen /\ buffered - HeaderLen \in Nat
  BY StreamFrames, ReadAssumption DEF DecodeHeader, FrameInv, CallInv, NumInv, transport
<1>1. CASE RxFail /\ Fail("protocol")
  <2>1. OpenInv'
    BY <1>1 DEF RxFail, OpenInv
  <2>2. QED
    BY <1>0, <1>1, <2>1, FailIsSafe DEF RxFail, NumInv
<1>2. CASE Dispatch(next) /\ (f.op = "ping" => buffered' = buffered - HeaderLen)
  <2>1. buffered' \in Nat
    BY <1>0, <1>2 DEF Dispatch, RxFail
  <2>2. QED
    BY <1>0, <1>2, <2>1, DispatchStep
<1>3. CASE /\ control' = f.len /\ buffered' = buffered - HeaderLen
           /\ UNCHANGED <<remaining, msg, reader, flags>>
  <2>1. NumInv'
    BY <1>0, <1>3 DEF NumInv, reader
  <2>2. OpenInv'
    BY <1>0, <1>3 DEF OpenInv
  <2>3. CallInv'
    BY <1>0, <1>3 DEF FrameInv, CallInv, Decoding, reader, flags
  <2>4. QED
    BY <2>1, <2>2, <2>3 DEF FrameInv
<1>4. CASE /\ Accept(f) /\ ~IsControl(f)
           /\ buffered' = buffered - HeaderLen
           /\ remaining' = f.len /\ control' = control
           /\ \E first : /\ first = (IF f.op = "data" THEN next ELSE msg)
                         /\ msg' = IF f.len = 0 /\ f.fin THEN 0 ELSE first
                         /\ DataFrame(next, first)
  <2>1. PICK first : /\ first = (IF f.op = "data" THEN next ELSE msg)
                     /\ msg' = IF f.len = 0 /\ f.fin THEN 0 ELSE first
                     /\ DataFrame(next, first)
    BY <1>4
  <2>2. first \in Nat \ {0}
    BY <1>0, <1>4, <2>1 DEF Accept, NumInv
  <2>3. msg' \in Nat /\ (msg' # 0 \/ remaining' = 0) /\ next # 0
    BY <1>0, <1>4, <2>1, <2>2 DEF NumInv
  <2>4. QED
    BY <1>0, <1>4, <2>1, <2>3, DataStep
<1>5. QED
  BY <1>1, <1>2, <1>3, <1>4 DEF DecodeHeader

LEMMA ControlStep ==
  ASSUME FrameInv, ControlPayload
  PROVE  FrameInv'
<1> DEFINE n == Least(buffered, control)
<1>0. /\ NumInv /\ Decoding /\ remaining = 0 /\ UNCHANGED <<stream, left, next, header>>
      /\ n \in Nat /\ n <= control /\ n <= buffered
  BY DEF ControlPayload, FrameInv, CallInv, NumInv, transport, Least
<1>1. CASE control' = control - n /\ buffered' = buffered - n /\ UNCHANGED <<remaining, msg, reader, flags>>
  <2>1. NumInv'
    BY <1>0, <1>1 DEF NumInv, reader
  <2>2. OpenInv'
    BY <1>0, <1>1 DEF OpenInv
  <2>3. CallInv'
    BY <1>0, <1>1 DEF FrameInv, CallInv, Decoding, reader, flags
  <2>4. QED
    BY <2>1, <2>2, <2>3 DEF FrameInv
<1>2. CASE Dispatch(header) /\ (stream[header].op = "ping" => buffered' = buffered - n)
  <2>1. buffered' \in Nat
    BY <1>0, <1>2 DEF Dispatch, RxFail, NumInv
  <2>2. QED
    BY <1>0, <1>2, <2>1, DispatchStep DEF NumInv
<1>3. QED
  BY <1>1, <1>2 DEF ControlPayload

\* k units of the open frame are used up.
LEMMA ConsumeStep ==
  ASSUME FrameInv, NEW k \in Nat, 0 < k, k <= remaining, Consume(k), stream' = stream
  PROVE  /\ OpenInv' /\ remaining' \in Nat /\ remaining' = remaining - k /\ msg' \in {0, msg}
         /\ UNCHANGED <<next, control>>
         /\ Chunk(k) \in Seq(Nat \X Int) /\ Len(Chunk(k)) = k
<1>1. NumInv /\ remaining \in Nat /\ header \in DOMAIN stream /\ msg # 0 /\ control = 0
      /\ ~IsControl(stream[header]) /\ remaining <= stream[header].len
  BY DEF FrameInv, OpenInv, NumInv
<1>2. stream[header].len \in Nat /\ header \in Nat
  BY <1>1, StreamFrames
<1>3. remaining' = remaining - k /\ msg' \in {0, msg} /\ UNCHANGED <<next, control, header>>
  BY DEF Consume
<1>4. remaining' > 0 => msg' = msg
  BY <1>1 DEF Consume
<1>5. OpenInv'
  BY <1>1, <1>2, <1>3, <1>4 DEF OpenInv, IsControl
<1>6. \A i \in 1..k : <<header, stream[header].len - remaining + i>> \in Nat \X Int
  BY <1>1, <1>2
<1>7. Chunk(k) \in [1..k -> Nat \X Int]
  BY <1>6 DEF Chunk
<1>8. Chunk(k) \in Seq(Nat \X Int) /\ Len(Chunk(k)) = k
  BY <1>7
<1>9. QED
  BY <1>1, <1>3, <1>5, <1>8

\* Units go where the call wants them.  An assembled message grows by what the
\* open frame loses.
LEMMA SinkStep ==
  ASSUME FrameInv, Draining, NEW units, Sink(units), UNCHANGED flags,
         stream' = stream, left' \in Nat, buffered' \in Nat, next' \in Nat \ {0},
         remaining' \in Nat, msg' \in {0, msg}, control' \in Nat, OpenInv',
         mode = "assemble" => /\ units \in Seq(Nat \X Int)
                              /\ remaining' + Len(units) = remaining
  PROVE  FrameInv'
<1>0. NumInv /\ mode \in {"discard", "read", "writeTo", "assemble"} /\ inMessage /\ want = "payload" /\ msg' \in Nat
  BY DEF FrameInv, CallInv, NumInv, Draining
<1>1. CASE \E r : Return(r) /\ UNCHANGED <<want, size>>
  <2>1. NumInv'
    BY <1>0, <1>1 DEF NumInv, Return
  <2>2. CallInv'
    BY <1>0, <1>1 DEF CallInv, Decoding, Return, flags
  <2>3. QED
    BY <2>1, <2>2 DEF FrameInv
<1>2. CASE mode # "assemble" /\ UNCHANGED <<mode, want, size, got>>
  <2>1. NumInv'
    BY <1>0, <1>2 DEF NumInv
  <2>2. got = <<>>
    BY <1>2 DEF FrameInv, CallInv
  <2>3. CallInv'
    BY <1>0, <1>2, <2>2 DEF CallInv, Decoding, flags
  <2>4. QED
    BY <2>1, <2>3 DEF FrameInv
<1>3. CASE mode = "assemble" /\ got' = got \o units /\ UNCHANGED <<mode, want, size>>
  <2>1. units \in Seq(Nat \X Int) /\ got \in Seq(Nat \X Int) /\ remaining' + Len(units) = remaining
    BY <1>0, <1>3 DEF NumInv
  <2>2. got' \in Seq(Nat \X Int) /\ Len(got') = Len(got) + Len(units)
    BY <1>3, <2>1, ConcatProperties
  <2>3. Len(got) + remaining <= Limit
    BY <1>3 DEF FrameInv, CallInv
  <2>4. Len(got') + remaining' <= Limit
    <3>1. Len(got) \in Nat /\ Len(units) \in Nat /\ remaining \in Nat /\ Limit \in Nat
      BY <1>0, <2>1, ReadAssumption DEF NumInv
    <3>2. PICK a, b, c \in Nat : a = Len(got) /\ b = Len(units) /\ c = remaining
      BY <3>1
    <3>3. PICK d \in Nat : d = remaining'
      OBVIOUS
    <3>4. d + b = c /\ Len(got') = a + b /\ a + c <= Limit
      BY <2>1, <2>2, <2>3, <3>2, <3>3
    <3>5. (a + b) + d <= Limit
      BY <3>1, <3>4
    <3>6. QED
      BY <3>3, <3>4, <3>5
  <2>5. NumInv'
    <3>1. /\ size' \in Nat /\ got' \in Seq(Nat \X Int) /\ want' \in {"frame", "payload"}
          /\ mode' \in {"idle", "next", "discard", "read", "writeTo", "assemble"}
      BY <1>0, <1>3, <2>2 DEF NumInv
    <3>2. stream' \in Streams
      BY <1>0 DEF NumInv
    <3>3. QED
      BY <1>0, <3>1, <3>2 DEF NumInv
  <2>6. CallInv'
    BY <1>0, <1>3, <2>4 DEF CallInv, Decoding, flags
  <2>7. QED
    BY <2>5, <2>6 DEF FrameInv
<1>4. QED
  BY Zenon, <1>1, <1>2, <1>3 DEF Sink, reader

LEMMA TakeStep ==
  ASSUME FrameInv, TakeBuffered
  PROVE  FrameInv'
<1>0. NumInv /\ Draining /\ UNCHANGED <<stream, left>>
  BY DEF FrameInv, TakeBuffered, transport
<1>1. Asked \in Nat /\ Asked <= buffered
  BY <1>0 DEF Asked, Least, NumInv
<1>2. Take \in Nat /\ Take <= remaining /\ Take <= buffered
  BY <1>0, <1>1 DEF Take, Least, NumInv
<1>3. 0 < Take /\ Consume(Take) /\ buffered' = buffered - Take
  BY <1>2 DEF TakeBuffered
<1>4. /\ OpenInv' /\ remaining' \in Nat /\ remaining' = remaining - Take /\ msg' \in {0, msg}
      /\ UNCHANGED <<next, control>>
      /\ Chunk(Take) \in Seq(Nat \X Int) /\ Len(Chunk(Take)) = Take
  BY <1>0, <1>2, <1>3, ConsumeStep
<1>5. /\ buffered' \in Nat /\ left' \in Nat /\ next' \in Nat \ {0} /\ control' \in Nat /\ msg' \in Nat
      /\ remaining' + Len(Chunk(Take)) = remaining
  BY <1>0, <1>2, <1>3, <1>4 DEF NumInv
<1>6. CASE Sink(Chunk(Take)) /\ UNCHANGED flags
  BY <1>0, <1>4, <1>5, <1>6, SinkStep
<1>7. CASE Inflating /\ UNCHANGED <<reader, flags>>
  <2>1. mode \in {"read", "writeTo", "discard"} /\ want = "payload"
    BY <1>0, <1>7 DEF Inflating, Draining
  <2>2. NumInv'
    BY <1>0, <1>4, <1>5, <1>7 DEF NumInv, reader
  <2>3. CallInv'
    BY <1>7, <2>1 DEF FrameInv, CallInv, Decoding, reader, flags
  <2>4. QED
    BY <1>4, <2>2, <2>3 DEF FrameInv
<1>8. CASE Fail("protocol")
  BY <1>0, <1>4, <1>5, <1>8, FailIsSafe
<1>9. QED
  BY <1>6, <1>7, <1>8 DEF TakeBuffered, NextChunk

LEMMA DirectStep ==
  ASSUME FrameInv, ReadDirect
  PROVE  FrameInv'
<1>0. PICK k \in 1..Least(DirectLen, left) : left' = left - k /\ Consume(k) /\ Sink(Chunk(k))
  BY DEF ReadDirect
<1>1. NumInv /\ UNCHANGED <<stream, buffered, flags>>
  BY DEF FrameInv, ReadDirect
<1>2. DirectLen \in Nat /\ DirectLen <= remaining
  BY <1>1, ReadAssumption DEF DirectLen, Least, NumInv
<1>3. k \in Nat /\ 0 < k /\ k <= DirectLen /\ k <= remaining /\ k <= left
  BY <1>0, <1>1, <1>2 DEF Least, NumInv
<1>4. Draining
  <2>1. ~Decoding
    BY <1>2, <1>3 DEF DirectLen
  <2>2. QED
    BY <2>1 DEF ReadDirect, NeedInput
<1>5. /\ OpenInv' /\ remaining' \in Nat /\ remaining' = remaining - k /\ msg' \in {0, msg}
      /\ UNCHANGED <<next, control>>
      /\ Chunk(k) \in Seq(Nat \X Int) /\ Len(Chunk(k)) = k
  BY <1>0, <1>1, <1>3, ConsumeStep
<1>6. /\ buffered' \in Nat /\ left' \in Nat /\ next' \in Nat \ {0} /\ control' \in Nat
      /\ remaining' + Len(Chunk(k)) = remaining
  BY <1>0, <1>1, <1>3, <1>5 DEF NumInv
<1>7. QED
  BY <1>0, <1>1, <1>4, <1>5, <1>6, SinkStep

LEMMA OutStep ==
  ASSUME FrameInv, InflateOut
  PROVE  FrameInv'
<1>1. /\ Draining /\ Inflating /\ UNCHANGED <<stream, left, flags>>
      /\ UNCHANGED <<buffered, next, header, remaining, msg, control>>
  BY DEF InflateOut, transport, rx
<1>2. PICK units : Sink(units)
  BY DEF InflateOut
<1>3. OpenInv' /\ mode # "assemble"
  BY <1>1 DEF FrameInv, OpenInv, IsControl, Inflating
<1>4. NumInv
  BY DEF FrameInv
<1>5. QED
  BY <1>1, <1>2, <1>3, <1>4, SinkStep DEF NumInv

LEMMA DoneStep ==
  ASSUME FrameInv, FrameDone
  PROVE  FrameInv'
<1>1. /\ UNCHANGED <<stream, left, buffered, next, header, remaining, msg, control>>
      /\ Draining /\ remaining = 0 /\ NumInv
  BY DEF FrameDone, transport, rx, Drained, FrameInv
<1>2. OpenInv'
  BY <1>1 DEF OpenInv
<1>3. CASE msg # 0 /\ want' = "frame" /\ UNCHANGED <<mode, size, got, flags>>
  <2>1. NumInv'
    BY <1>1, <1>3 DEF NumInv
  <2>2. mode # "next"
    BY <1>3 DEF FrameInv, CallInv
  <2>3. CallInv'
    BY <1>1, <1>3, <2>2 DEF FrameInv, CallInv, Decoding, flags
  <2>4. QED
    BY <1>2, <2>1, <2>3 DEF FrameInv
<1>4. CASE \E e \in {"protocol", "toolarge"} : Fail(e)
  BY <1>1, <1>2, <1>4, FailIsSafe DEF NumInv
<1>5. CASE msg = 0 /\ (\E r : Return(r)) /\ UNCHANGED <<want, size>>
  <2>1. NumInv'
    BY <1>1, <1>5 DEF NumInv, Return
  <2>2. CallInv'
    BY <1>1, <1>5 DEF CallInv, Decoding, Return
  <2>3. QED
    BY <1>2, <2>1, <2>2 DEF FrameInv
<1>6. CASE msg = 0 /\ mode = "discard" /\ mode' = "next" /\ want' = "frame" /\ UNCHANGED <<size, got>>
  <2>1. NumInv'
    BY <1>1, <1>6 DEF NumInv
  <2>2. got = <<>>
    BY <1>6 DEF FrameInv, CallInv
  <2>3. CallInv'
    BY <1>1, <1>6, <2>2 DEF CallInv, Decoding
  <2>4. QED
    BY <1>2, <2>1, <2>3 DEF FrameInv
<1>7. QED
  BY <1>3, <1>4, <1>5, <1>6 DEF FrameDone, FinishMessage

LEMMA TransportStep ==
  ASSUME FrameInv, Fill \/ ReadError \/ InflateBegin
  PROVE  FrameInv'
<1>1. UNCHANGED <<stream, next, header, remaining, msg, control>> /\ NumInv
  BY DEF Fill, ReadError, InflateBegin, transport, rx, FrameInv
<1>2. OpenInv'
  BY <1>1 DEF FrameInv, OpenInv, IsControl
<1>3. CASE Fill
  <2>1. PICK k \in 1..Least(BufLen, left) : left' = left - k /\ buffered' = buffered + k
    BY <1>3 DEF Fill
  <2>2. left' \in Nat /\ buffered' \in Nat
    BY <1>1, <2>1, ReadAssumption DEF NumInv, Least
  <2>3. UNCHANGED <<reader, flags>>
    BY <1>3 DEF Fill
  <2>4. NumInv'
    BY <1>1, <2>2, <2>3 DEF NumInv, reader
  <2>5. CallInv'
    BY <1>1, <2>3 DEF FrameInv, CallInv, Decoding, reader, flags
  <2>6. QED
    BY <1>2, <2>4, <2>5 DEF FrameInv
<1>4. CASE ReadError
  <2>1. UNCHANGED <<left, buffered, want, size>> /\ mode' = "idle" /\ got' = <<>>
    BY <1>4 DEF ReadError, AtEof, Return, transport, rx
  <2>2. NumInv'
    BY <1>1, <2>1 DEF NumInv
  <2>3. readErr' = "transport" \/ UNCHANGED inMessage
    BY <1>4 DEF ReadError, Interrupted, flags
  <2>4. mode # "idle"
    BY <1>4 DEF ReadError, NeedInput, Decoding, Draining
  <2>5. msg = 0 \/ inMessage
    BY <1>1, <2>4 DEF FrameInv, CallInv, NumInv
  <2>6. CallInv'
    BY <1>1, <2>1, <2>3, <2>5 DEF CallInv, Decoding
  <2>7. QED
    BY <1>2, <2>2, <2>6 DEF FrameInv
<1>5. CASE InflateBegin
  <2>1. UNCHANGED <<left, buffered, mode, want, size, got, inMessage, readErr>>
    BY <1>5 DEF InflateBegin, transport, rx, reader
  <2>2. NumInv'
    BY <1>1, <2>1 DEF NumInv
  <2>3. CallInv'
    BY <1>1, <2>1 DEF FrameInv, CallInv, Decoding
  <2>4. QED
    BY <1>2, <2>2, <2>3 DEF FrameInv
<1>6. QED
  BY <1>3, <1>4, <1>5

LEMMA FrameInvariant == Spec => []FrameInv
<1>1. Init => FrameInv
  <2> SUFFICES ASSUME Init PROVE FrameInv
    OBVIOUS
  <2>1. left \in Nat
    BY ReadAssumption DEF Init
  <2>2. NumInv
    BY <2>1 DEF Init, NumInv
  <2>3. OpenInv /\ CallInv
    BY DEF Init, OpenInv, CallInv, Decoding
  <2>4. QED
    BY <2>2, <2>3 DEF FrameInv
<1>2. FrameInv /\ [Next]_vars => FrameInv'
  <2> SUFFICES ASSUME FrameInv, [Next]_vars PROVE FrameInv'
    OBVIOUS
  <2>1. CASE UNCHANGED vars
    BY <2>1 DEF vars, transport, rx, reader, flags, FrameInv, NumInv, OpenInv, CallInv, Decoding, IsControl
  <2>2. CASE Step
    BY <2>2, DecodeStep, ControlStep, TakeStep, OutStep, DoneStep, TransportStep, DirectStep DEF Step
  <2>3. QED
    BY <2>1, <2>2, CallStep DEF Next, Idle
<1>3. QED
  BY <1>1, <1>2, PTL DEF Spec

\* receiver.go:117: for every stream and every way it is read, a header is decoded
\* only when no data frame is open, and a message open between two calls is one
\* the application was told of.
THEOREM OpenFrameCorrect == Spec => []OpenFrameIsKnown
<1>1. FrameInv => OpenFrameIsKnown
  BY DEF FrameInv, NumInv, OpenInv, CallInv, OpenFrameIsKnown, Decoding
<1>2. QED
  BY <1>1, FrameInvariant, PTL

\* assemble's check (conn_read.go:322) bounds what ReadMessage gathers by
\* MaxMessageSize, for every stream, limit and buffer size.
THEOREM LimitCorrect == Spec => []WithinLimit
<1>1. FrameInv => WithinLimit
  <2> SUFFICES ASSUME FrameInv PROVE WithinLimit
    OBVIOUS
  <2>1. CASE mode = "assemble"
    BY <2>1 DEF FrameInv, CallInv, WithinLimit
  <2>2. CASE mode # "assemble"
    <3>1. got = <<>> /\ Len(got) = 0
      BY <2>2 DEF FrameInv, CallInv
    <3>2. QED
      BY <2>2, <3>1, ReadAssumption DEF WithinLimit
  <2>3. QED
    BY <2>1, <2>2
<1>2. QED
  BY <1>1, FrameInvariant, PTL
=============================================================================
