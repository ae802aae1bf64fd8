------------------------------ MODULE ReadPath ------------------------------
(***************************************************************************)
(* The read side of ws.Conn: the receiver (ws/receiver.go) over the frame  *)
(* decoder (codec/decoder.go), and NextMessage, Read, WriteTo and          *)
(* ReadMessage on top of it (ws/conn_read.go), with the streaming inflater *)
(* (inflate in ws/conn_compress.go).                                       *)
(*                                                                         *)
(* One goroutine reads.  What makes it hard is that a transport read may   *)
(* return any number of bytes, a timeout or the end of the stream at every *)
(* point, that control frames may stand between the fragments of a message *)
(* and that the application may change from one way of reading to another. *)
(*                                                                         *)
(* The peer's stream is a sequence of frames, a frame HeaderLen header     *)
(* units and len payload units.  A payload unit is <<frame, offset>>, so   *)
(* what is delivered can be compared with what was sent.  An inflater puts *)
(* out the units it took in.                                               *)
(***************************************************************************)
EXTENDS Integers, Sequences, SequencesExt

CONSTANTS
  Streams,      \* What the peer may send: sequences of Frames.
  Cuts,         \* Units that may be missing at the end: the transport closes early.
  HeaderLen,    \* Units in a frame header.
  BufLen,       \* len(c.buf).
  Limit,        \* MaxMessageSize.
  FragmentSize, \* The pieces WriteTo reads.
  ReadSizes,    \* len(b) of the calls of Read.
  Takeovers,    \* The values of takeover.
  Calls,        \* The calls the application makes.
  MaxCalls,     \* Bound: calls in one behaviour.
  MaxTimeouts   \* Bound: transport reads that time out.

\* "bad" stands for every header accept refuses whatever the state, "badclose"
\* for a close frame validateClose refuses.
FrameOps == {"data", "cont", "ping", "close", "bad", "badclose"}

\* How a message is coded: "plain" has RSV1 clear; "badtext" is plain text that is
\* not UTF-8; "corrupt" does not inflate, "bomb" inflates to more than Limit.
Codings == {"plain", "badtext", "deflated", "corrupt", "bomb"}
Frames == [op : FrameOps, fin : BOOLEAN, len : Nat, coding : Codings]

\* The length of a stream.
Units(s) == FoldLeft(LAMBDA n, f : n + HeaderLen + f.len, 0, s)

ASSUME ReadAssumption ==
  /\ Streams \subseteq Seq(Frames) /\ Cuts \subseteq Nat
  /\ \A s \in Streams : Units(s) \in Nat
  /\ HeaderLen \in Nat \ {0} /\ BufLen \in Nat \ {0} /\ Limit \in Nat
  /\ FragmentSize \in Nat \ {0} /\ ReadSizes \subseteq Nat \ {0}
  /\ Takeovers \subseteq BOOLEAN /\ MaxCalls \in Nat /\ MaxTimeouts \in Nat
  /\ Calls \subseteq {"NextMessage", "ReadMessage", "Read", "WriteTo"}

VARIABLES
  takeover,             \* decomp.window # nil: receive context takeover.
  stream, left,         \* The peer's frames; units the transport still holds.
  buffered, next,       \* Decoder.Buffered(); index of the next frame to decode.
  header, remaining,    \* receiver.header, as an index; receiver.remaining.
  msg, compressed,      \* First frame of the open message, or 0; receiver.compressed.
  control,              \* Units missing from the open control frame; 0: none open.
  closeReceived,
  inMessage, readErr,   \* Conn.inMessage, Conn.readErr.
  streaming,            \* decomp.streaming.
  mode, want,           \* The call in progress; what its loop waits for.
  whole, size,          \* ReadMessage rather than NextMessage; len(b) of Read.
  got,                  \* assemble's message so far.
  held,                 \* Units in the inflater.
  used,                 \* Payload units of the open message consumed so far.
  garbled,              \* The inflater began behind its message's first unit, or its
                        \* window holds what one that did put out.
  history,              \* What was ever added to the receive window.
  log,                  \* What the application got, message by message; a message is
                        \* "cut" when its ReadMessage was interrupted half-way, "broken"
                        \* when it was given up otherwise.
  controls,             \* The control frames dispatched.
  result,               \* How the last call returned.
  calls, timeouts

transport == <<takeover, stream, left>>
rx == <<buffered, next, header, remaining, msg, compressed, control, closeReceived, used>>
flags == <<inMessage, readErr, streaming>>
reader == <<mode, want, whole, size, got>>
inflater == <<held, garbled, history>>
app == <<log, controls, result>>
vars == <<transport, rx, flags, reader, inflater, app, calls, timeouts>>

Least(a, b) == IF a < b THEN a ELSE b
IsControl(f) == f.op \in {"ping", "close", "badclose"}
Deflated(i) == stream[i].coding \in {"deflated", "corrupt", "bomb"}

Init ==
  /\ stream \in Streams /\ takeover \in Takeovers
  /\ left \in {Units(stream) - c : c \in {d \in Cuts : d <= Units(stream)}}
  /\ buffered = 0 /\ next = 1 /\ header = 0 /\ remaining = 0 /\ msg = 0
  /\ compressed = FALSE /\ control = 0 /\ closeReceived = FALSE /\ used = 0
  /\ inMessage = FALSE /\ readErr = "none" /\ streaming = FALSE
  /\ mode = "idle" /\ want = "frame" /\ whole = FALSE /\ size = 0 /\ got = <<>>
  /\ held = <<>> /\ garbled = FALSE /\ history = <<>>
  /\ log = <<>> /\ controls = <<>> /\ result = "none"
  /\ calls = 0 /\ timeouts = 0
-----------------------------------------------------------------------------
\* Calls and returns.

Return(r) == mode' = "idle" /\ got' = <<>> /\ result' = r

\* Conn.fail, and the terminal error handleControl records.
Fail(e) ==
  /\ readErr' = e /\ inMessage' = FALSE /\ streaming' = FALSE
  /\ Return(e)
  /\ UNCHANGED <<want, whole, size>>

\* The message is read through the inflater: Read and WriteTo of a compressed
\* one, and discard when the window needs its content.
Inflating_M == compressed /\ mode \in {"read", "writeTo"}
Inflating == compressed /\ (mode \in {"read", "writeTo"} \/ (mode = "discard" /\ takeover))

MayCall(name) == mode = "idle" /\ name \in Calls /\ calls < MaxCalls

\* The first check of every call.
Healthy_M == readErr \in {"none", "handler"}
Healthy == readErr = "none"

\* An inflate in progress is abandoned unless the window needs the message.
Abandon ==
  /\ streaming' = (streaming /\ takeover)
  /\ held' = IF streaming' THEN held ELSE <<>>

\* NextMessage, and ReadMessage which begins with it: first discard.
NextMessage(name) ==
  /\ MayCall(name) /\ Healthy
  /\ whole' = (name = "ReadMessage")
  /\ mode' = IF inMessage THEN "discard" ELSE "next"
  /\ want' = IF inMessage THEN "payload" ELSE "frame"
  /\ Abandon
  /\ log' = IF inMessage THEN [log EXCEPT ![Len(log)].broken = TRUE] ELSE log
  /\ UNCHANGED <<size, got, inMessage, readErr, garbled, history>>

Read ==
  /\ MayCall("Read") /\ Healthy /\ inMessage
  /\ size' \in ReadSizes
  /\ mode' = "read" /\ want' = "payload"
  /\ UNCHANGED <<whole, got, flags, inflater, log>>

WriteTo ==
  /\ MayCall("WriteTo") /\ Healthy /\ inMessage
  /\ mode' = "writeTo" /\ want' = "payload"
  /\ UNCHANGED <<whole, size, got, flags, inflater, log>>

\* A call on a failed connection, and Read or WriteTo outside a message.
Refused ==
  /\ \E name \in Calls : MayCall(name) /\ (~Healthy \/ (~inMessage /\ name \in {"Read", "WriteTo"}))
  /\ result' = "refused"
  /\ UNCHANGED <<reader, flags, inflater, log>>

Call ==
  /\ \/ (NextMessage("NextMessage") \/ NextMessage("ReadMessage") \/ Read \/ WriteTo) /\ result' = "none"
     \/ Refused
  /\ calls' = calls + 1
  /\ UNCHANGED <<transport, rx, controls, timeouts>>
-----------------------------------------------------------------------------
\* nextFrame: receiver.Next until a data frame is there.

\* receiver.accept.
Accept(f) ==
  \/ f.op = "data" /\ msg = 0
  \/ f.op = "cont" /\ msg # 0
  \/ IsControl(f) /\ f.fin

\* receiver.fail.
RxFail ==
  /\ buffered' = 0 /\ remaining' = 0 /\ msg' = 0 /\ control' = 0
  /\ UNCHANGED <<compressed, closeReceived, used>>

\* The check at the head of assemble's loop.
TooLarge_M(i) == stream[i].len > Limit
TooLarge(i) == stream[i].len > Limit - Len(got)

\* A data header was accepted: NextMessage returns the message, assemble checks
\* the size and goes on, the others go on.
DataFrame(i, first) ==
  LET entry == [first |-> first, units |-> <<>>, done |-> FALSE, broken |-> FALSE, cut |-> FALSE]
      gather == mode = "assemble" \/ (mode = "next" /\ whole)
  IN \/ /\ gather /\ TooLarge(i)
        /\ Fail("toolarge")
        /\ UNCHANGED log
     \/ /\ gather /\ ~TooLarge(i)
        /\ mode' = "assemble" /\ want' = "payload" /\ inMessage' = TRUE
        /\ log' = IF mode = "next" THEN Append(log, entry) ELSE log
        /\ UNCHANGED <<whole, size, got, readErr, streaming, result>>
     \/ /\ ~gather /\ mode = "next"
        /\ inMessage' = TRUE
        /\ Return("message")
        /\ log' = Append(log, entry)
        /\ UNCHANGED <<want, whole, size, readErr, streaming>>
     \/ /\ ~gather /\ mode # "next"
        /\ want' = "payload"
        /\ UNCHANGED <<mode, whole, size, got, flags, log, result>>

ControlOver_M == UNCHANGED control
ControlOver == control' = 0

\* finishControl and handleControl; a handler may fail, and a close always ends
\* the reading.
Dispatch(i) ==
  \/ /\ stream[i].op = "badclose"
     /\ RxFail /\ Fail("protocol")
     /\ UNCHANGED <<log, controls>>
  \/ /\ stream[i].op = "close"
     /\ closeReceived' = TRUE /\ buffered' = 0 /\ ControlOver
     /\ controls' = Append(controls, i)
     /\ Fail("closed")
     /\ UNCHANGED <<remaining, msg, compressed, used, log>>
  \/ /\ stream[i].op = "ping"
     /\ ControlOver
     /\ controls' = Append(controls, i)
     /\ \/ Fail("handler")
        \/ UNCHANGED <<reader, flags, result>>
     /\ UNCHANGED <<remaining, msg, compressed, closeReceived, used, log>>

Decoding == mode # "idle" /\ want = "frame"

\* What is in the read buffer behind the frames decoded so far is a frame.
DecodeHeader ==
  /\ Decoding /\ control = 0 /\ buffered >= HeaderLen /\ next \in DOMAIN stream
  /\ LET f == stream[next]
     IN /\ header' = next /\ next' = next + 1
        /\ \/ /\ ~Accept(f)
              /\ RxFail /\ Fail("protocol")
              /\ UNCHANGED <<log, controls>>
           \/ /\ Accept(f) /\ IsControl(f) /\ f.len = 0
              /\ f.op = "ping" => buffered' = buffered - HeaderLen
              /\ Dispatch(next)
           \/ /\ Accept(f) /\ IsControl(f) /\ f.len > 0
              /\ control' = f.len /\ buffered' = buffered - HeaderLen
              /\ UNCHANGED <<remaining, msg, compressed, closeReceived, used, reader, flags, app>>
           \/ /\ Accept(f) /\ ~IsControl(f)
              /\ buffered' = buffered - HeaderLen
              /\ remaining' = f.len
              /\ LET first == IF f.op = "data" THEN next ELSE msg
                 IN /\ msg' = IF f.len = 0 /\ f.fin THEN 0 ELSE first
                    /\ compressed' = Deflated(first)
                    /\ used' = IF f.op = "data" THEN 0 ELSE used
                    /\ DataFrame(next, first)
              /\ UNCHANGED <<control, closeReceived, controls>>
  /\ UNCHANGED <<transport, inflater, calls, timeouts>>

ControlPayload ==
  /\ Decoding /\ control > 0 /\ buffered > 0
  /\ LET n == Least(buffered, control)
     IN \/ /\ n < control
           /\ control' = control - n /\ buffered' = buffered - n
           /\ UNCHANGED <<remaining, msg, compressed, closeReceived, used, reader, flags, app>>
        \/ /\ n = control
           /\ stream[header].op = "ping" => buffered' = buffered - n
           /\ Dispatch(header)
  /\ UNCHANGED <<transport, next, header, inflater, calls, timeouts>>
-----------------------------------------------------------------------------
\* Payload of the open data frame.

\* The first frame of the message frame i belongs to, and the message's coding.
FirstOf(i) == CHOOSE j \in 1..i : /\ stream[j].op = "data"
                                  /\ \A k \in (j + 1)..i : stream[k].op # "data"
Coding == stream[FirstOf(header)].coding

Chunk(k) == [i \in 1..k |-> <<header, stream[header].len - remaining + i>>]

\* receiver.consumed and finishFrame: k units of the frame are used up.
Consume(k) ==
  /\ remaining' = remaining - k
  /\ used' = used + k
  /\ msg' = IF k = remaining /\ stream[header].fin THEN 0 ELSE msg
  /\ UNCHANGED <<next, header, compressed, control, closeReceived>>

Deliver(units, broken) ==
  log' = [log EXCEPT ![Len(log)].units = @ \o units, ![Len(log)].broken = @ \/ broken]

\* Where units that need no inflating, or come out of the inflater, go.
Sink(units) ==
  \/ /\ mode = "read"
     /\ Deliver(units, FALSE) /\ Return("data")
     /\ UNCHANGED <<want, whole, size, controls>>
  \/ /\ mode = "writeTo"
     /\ \/ Deliver(units, FALSE) /\ UNCHANGED <<mode, got, result>>
        \* The writer fails, having taken some of it.
        \/ \E k \in 0..(Len(units) - 1) : Deliver(SubSeq(units, 1, k), TRUE) /\ Return("writer")
     /\ UNCHANGED <<want, whole, size, controls>>
  \/ /\ mode = "assemble"
     /\ got' = got \o units
     /\ UNCHANGED <<mode, want, whole, size, app>>
  \/ /\ mode = "discard"
     /\ UNCHANGED <<reader, app>>

Draining == mode # "idle" /\ want = "payload"

\* The most the loop asks receiver.PayloadN for.
Asked == IF mode = "read" /\ ~Inflating THEN Least(size, buffered) ELSE buffered

\* Decoder.PayloadN stops at the end of the frame.
Take == Least(Asked, remaining)

\* nextChunk: the inflater takes what is in the read buffer; what is not a
\* deflate stream, or is one read with a wrong history, may fail it.
NextChunk(k) ==
  /\ Inflating
  /\ \/ /\ held' = held \o Chunk(k)
        /\ UNCHANGED <<reader, app, flags>>
     \/ /\ garbled \/ Coding = "corrupt"
        /\ Fail("protocol")
        /\ UNCHANGED <<held, log, controls>>

\* Payload that is in the read buffer.
TakeBuffered ==
  /\ Draining /\ (Inflating => streaming)
  /\ LET k == Take
     IN /\ k > 0 /\ remaining > 0
        /\ buffered' = buffered - k
        /\ Consume(k)
        /\ \/ /\ ~Inflating
              /\ Sink(Chunk(k))
              /\ UNCHANGED <<held, flags>>
           \/ NextChunk(k)
  /\ UNCHANGED history
  /\ UNCHANGED <<transport, garbled, calls, timeouts>>

\* inflate: Decompressor.Begin, with whatever the message has left.
InflateBegin ==
  /\ Draining /\ Inflating /\ ~streaming
  /\ streaming' = TRUE /\ held' = <<>> /\ garbled' = (used > 0 \/ (garbled /\ takeover))
  /\ UNCHANGED <<transport, rx, inMessage, readErr, reader, history, app, calls, timeouts>>

\* What an inflater makes of units; with a wrong history, perhaps something else.
Junk == <<0, 0>>
Inflated(units, wrong) ==
  {units} \cup (IF wrong THEN {[i \in DOMAIN units |-> Junk]} ELSE {})

\* Streamed output enters the window as it is produced.
InflateOut ==
  /\ Draining /\ Inflating /\ streaming
  /\ \E k \in 1..Least(Len(held), IF mode = "read" THEN size ELSE FragmentSize) :
       /\ held' = SubSeq(held, k + 1, Len(held))
       /\ \E out \in Inflated(SubSeq(held, 1, k), garbled) :
            history' = history \o out /\ Sink(out)
  /\ UNCHANGED <<transport, rx, flags, garbled, calls, timeouts>>

\* The message continues a window that holds what the peer did not send.
Wrong == compressed /\ takeover /\ garbled

\* finishMessage: an assembled message is inflated and validated.
FinishMessage ==
  \/ /\ Coding \in {"corrupt", "badtext"} \/ Wrong
     /\ Fail("protocol")
     /\ UNCHANGED <<history, log>>
  \/ /\ Coding = "bomb" \/ Wrong
     /\ Fail("toolarge")
     /\ UNCHANGED <<history, log>>
  \/ /\ Coding \in {"plain", "deflated"}
     /\ inMessage' = FALSE
     /\ \E out \in Inflated(got, Wrong) :
          /\ history' = IF compressed THEN history \o out ELSE history
          /\ log' = [log EXCEPT ![Len(log)].units = out, ![Len(log)].done = TRUE]
     /\ Return("message")
     /\ UNCHANGED <<want, whole, size, readErr, streaming>>

Drained == remaining = 0

\* The frame is drained: the next one, or the end of the message.
FrameDone ==
  /\ Draining /\ Drained /\ (Inflating => streaming)
  /\ \/ /\ msg # 0
        /\ want' = "frame"
        /\ UNCHANGED <<mode, whole, size, got, flags, history, app>>
     \/ /\ msg = 0 /\ mode = "assemble"
        /\ FinishMessage
        /\ UNCHANGED controls
     \/ /\ msg = 0 /\ mode # "assemble" /\ (Inflating => held = <<>>)
        /\ LET corrupt == Inflating /\ Coding = "corrupt"
           IN \/ /\ corrupt \/ (Inflating /\ garbled)
                 /\ Fail("protocol")
                 /\ UNCHANGED log
              \/ /\ ~corrupt /\ mode \in {"read", "writeTo"}
                 /\ inMessage' = FALSE /\ streaming' = FALSE
                 /\ log' = [log EXCEPT ![Len(log)].done = TRUE]
                 /\ Return("end")
                 /\ UNCHANGED <<want, whole, size, readErr>>
              \/ /\ ~corrupt /\ mode = "discard"
                 /\ inMessage' = FALSE /\ streaming' = (streaming /\ ~Inflating)
                 /\ mode' = "next" /\ want' = "frame"
                 /\ UNCHANGED <<whole, size, got, readErr, log, result>>
        /\ UNCHANGED <<history, controls>>
  /\ UNCHANGED <<transport, rx, held, garbled, calls, timeouts>>
-----------------------------------------------------------------------------
\* The transport.

\* receiver.Idle.
RxIdle == remaining = 0 /\ control = 0 /\ msg = 0 /\ buffered = 0

NeedInput ==
  \/ /\ Decoding
     /\ IF control > 0 THEN buffered = 0 ELSE buffered < HeaderLen
  \/ Draining /\ remaining > 0 /\ Asked = 0 /\ (Inflating => streaming)

DirectLen_M ==
  IF Draining /\ mode = "read" /\ ~Inflating /\ size >= BufLen THEN size ELSE 0
\* How much the loop reads straight into the caller's or the message buffer; 0:
\* it goes through the read buffer.
DirectLen ==
  LET n == CASE mode = "read" -> Least(size, remaining)
             [] mode = "writeTo" -> IF remaining < BufLen THEN 0 ELSE Least(remaining, FragmentSize)
             [] mode = "assemble" -> remaining
             [] OTHER -> 0
  IN IF Decoding \/ Inflating \/ (n < BufLen /\ mode # "writeTo") THEN 0 ELSE n

Fill ==
  /\ NeedInput /\ DirectLen = 0
  /\ \E k \in 1..Least(BufLen, left) :
       left' = left - k /\ buffered' = buffered + k
  /\ UNCHANGED <<takeover, stream, next, header, remaining, msg, compressed, control, closeReceived, used,
                 reader, flags, inflater, app, calls, timeouts>>

\* readDirect and readInto: fed to the receiver and taken from it at once.
ReadDirect ==
  /\ NeedInput
  /\ \E k \in 1..Least(DirectLen, left) :
       /\ left' = left - k
       /\ Consume(k)
       /\ Sink(Chunk(k))
  /\ UNCHANGED <<takeover, stream, buffered, flags, inflater, calls, timeouts>>

\* Only the inflater cannot resume: there a failed transport read is terminal.
Interrupted_M == inMessage' = FALSE /\ UNCHANGED <<readErr, streaming>>
Interrupted ==
  IF Inflating
  THEN readErr' = "transport" /\ inMessage' = FALSE /\ streaming' = FALSE
  ELSE UNCHANGED flags

AtEof_M == UNCHANGED <<mode, got, result>>
AtEof == Return(IF RxIdle THEN "eof" ELSE "unexpected")

\* What assemble had gathered is dropped.
ReadError ==
  /\ NeedInput
  /\ \/ /\ timeouts < MaxTimeouts /\ timeouts' = timeouts + 1
        /\ Return("timeout")
     \/ /\ left = 0
        /\ AtEof
        /\ UNCHANGED timeouts
  /\ Interrupted
  /\ log' = IF got = <<>> THEN log ELSE [log EXCEPT ![Len(log)].cut = TRUE]
  /\ UNCHANGED <<transport, rx, want, whole, size, inflater, controls, calls>>

Step == DecodeHeader \/ ControlPayload \/ TakeBuffered \/ InflateBegin \/ InflateOut
        \/ FrameDone \/ Fill \/ ReadDirect \/ ReadError

\* The application reads no more.
Idle == mode = "idle" /\ UNCHANGED vars

Next == Call \/ Step \/ Idle

Spec == Init /\ [][Next]_vars

\* The reading goroutine runs, and a transport read returns: with bytes, with
\* an error or at its deadline.
FairSpec == Spec /\ WF_vars(Step)
-----------------------------------------------------------------------------
\* Properties.

\* The payload of the message that begins at frame m.
PayloadOf(m) ==
  LET ends == {i \in m..Len(stream) : ~IsControl(stream[i]) /\ stream[i].fin}
      last == IF ends = {} THEN Len(stream) ELSE CHOOSE i \in ends : \A j \in ends : i <= j
      frames == {i \in m..last : ~IsControl(stream[i])}
  IN FoldLeft(LAMBDA acc, i : IF i \in frames THEN acc \o [k \in 1..stream[i].len |-> <<i, k>>] ELSE acc,
              <<>>, [i \in 1..Len(stream) |-> i])

\* A message that refers to one of which the inflater never saw the beginning.
Spoilt(i) ==
  /\ takeover /\ Deflated(log[i].first)
  /\ \E j \in 1..(i - 1) : log[j].cut /\ Deflated(log[j].first)

\* What the application gets of a message is what the peer sent of it: nothing
\* twice, missing or out of place, however the bytes arrive, whatever timed out,
\* through the read buffer, directly and through the inflater; and a message is
\* over for the application when all of it was delivered.  Left out are messages
\* whose writer failed in WriteTo, whose ReadMessage was interrupted or that the
\* application gave up by asking for the next, and, with receive takeover, the
\* compressed messages behind a compressed one whose ReadMessage was interrupted:
\* discard inflates the rest of that one alone and the window is wrong from there.
DeliveredExactly ==
  /\ \A i \in DOMAIN log : ~(log[i].broken \/ log[i].cut \/ Spoilt(i)) =>
       /\ IsPrefix(log[i].units, PayloadOf(log[i].first))
       /\ log[i].done => log[i].units = PayloadOf(log[i].first)
  /\ \A i, j \in DOMAIN log : i < j => log[i].first < log[j].first

\* Every control frame is dispatched once, in order, as soon as it is complete,
\* though it may arrive in pieces, between fragments, across calls that time out.
ControlsOnce ==
  readErr \in {"none", "closed", "handler"} =>
    controls = SelectSeq([i \in 1..(next - 1) |-> i],
                         LAMBDA i : IsControl(stream[i]) /\ ~(i = header /\ control > 0))

\* receiver.go:117 "nothing still needs the old header": Next decodes every
\* header into the one place finishFrame and the mask read, so it may do so only
\* when no data frame is open.  And a message open between two calls is one the
\* application was told of: NextMessage never reports a continuation as a message.
OpenFrameIsKnown ==
  /\ remaining > 0 => /\ want = "payload" \/ mode = "idle"
                      /\ ~IsControl(stream[header]) /\ remaining <= stream[header].len
                      /\ control = 0
  /\ Decoding => remaining = 0
  /\ (mode = "idle" /\ readErr = "none" /\ msg # 0) => inMessage

\* ReadMessage never gathers more than MaxMessageSize, across any fragments.
WithinLimit ==
  /\ Len(got) + (IF mode = "assemble" THEN remaining ELSE 0) <= Limit

\* conn_read.go:382-386: with receive takeover the window holds the content of
\* every compressed message, read, streamed, discarded or partly read, once and
\* in order, when the next message begins; the peer's next message refers to it.
HistoryInStep ==
  (takeover /\ ~garbled /\ readErr = "none" /\ mode = "next") =>
    history = FoldLeft(LAMBDA acc, i : IF stream[i].op = "data" /\ Deflated(i) THEN acc \o PayloadOf(i) ELSE acc,
                       <<>>, [i \in 1..(next - 1) |-> i])

\* conn_read.go:504: a terminal error is terminal.  Nothing is read, consumed or
\* dispatched behind it and the error stays the same.
TerminalIsTerminal ==
  [][readErr # "none" => UNCHANGED <<transport, rx, flags, log, controls>>]_vars

\* Every read call returns.
ReadsReturn == mode # "idle" ~> mode = "idle"

\* A peer that keeps to the protocol.
WellFormed(s) ==
  /\ \A i \in DOMAIN s : s[i].op \notin {"bad", "badclose"} /\ s[i].coding \in {"plain", "deflated"}
  /\ \A i \in DOMAIN s : IsControl(s[i]) => s[i].fin
  /\ \A i \in DOMAIN s : ~IsControl(s[i]) =>
       (s[i].op = "cont" <=> \E j \in 1..(i - 1) : /\ ~IsControl(s[j]) /\ ~s[j].fin
                                                    /\ \A k \in (j + 1)..(i - 1) : IsControl(s[k]))

\* conn.go:180-182: the read deadline "interrupts the blocked read with a timeout
\* error and leaves the connection usable": a peer that keeps to the protocol is
\* never charged with breaking it.
WellFormedIsAccepted == WellFormed(stream) => readErr # "protocol"
=============================================================================
