-------------------------------- MODULE Codec --------------------------------
(***************************************************************************)
(* The frame codec by byte: codec.Encoder, codec.Decoder, codec.Header and *)
(* codec.Mask (codec/*.go), under ws.receiver with the checks of close     *)
(* frames (ws/close.go) and of text messages (finishMessage).              *)
(*                                                                         *)
(* A behaviour is one stream of frames, some made by the Encoder, some     *)
(* with headers it would not make, fed to the receiver in pieces.  A       *)
(* payload is its length and a pattern its bytes repeat, so that lengths   *)
(* around 2^16 cost nothing.                                               *)
(***************************************************************************)
EXTENDS Utf8, Bitwise

CONSTANT
  Setups  \* Records [kind, role, compression, sizes, frames]: what is asked, who receives,
          \* whether RSV1 was negotiated, how many bytes a transport read may return and
          \* a Read may ask for, what was sent; for
          \* headers also the peer's key and the lengths it may send.

Continuation == 0
Text == 1
Binary == 2
Close == 8
Ping == 9
Pong == 10

Huge == 2147483647 \* Bound: stands for every length of 2^31 and more.
NoStatus == 1005
Own == -1        \* Pending input is in the decoder's own storage.

-----------------------------------------------------------------------------
\* Encoder.

\* Encode refuses the others.
Encodes(final, op, n) ==
  \/ op \in {Continuation, Text, Binary}
  \/ op \in {Close, Ping, Pong} /\ final /\ n <= 125 /\ ~(op = Close /\ n = 1)

LengthBytes(n, bit) ==
  IF n <= 125 THEN <<bit + n>>
  ELSE IF n <= 65535 THEN <<bit + 126, n \div 256, n % 256>>
  ELSE <<bit + 127, 0, 0, 0, 0, n \div 2^24, (n \div 65536) % 256, (n \div 256) % 256, n % 256>>

\* Encode, and EncodeCompressed when rsv1 is set; key is <<>> for nil.
HeaderBytes(final, op, n, key, rsv1) ==
  <<(IF final THEN 128 ELSE 0) + (IF rsv1 /\ op # Continuation THEN 64 ELSE 0) + op>>
  \o LengthBytes(n, IF key = <<>> THEN 0 ELSE 128) \o key
-----------------------------------------------------------------------------
\* Mask.

rotateMaskKey(key, offset) == [i \in 1..4 |-> key[((i - 1 + offset) % 4) + 1]]

\* The byte of the rotated key that meets byte i (from 0) of n: words from the
\* front in steps of 64, 32, 16, 8 and 4, then single bytes.
KeyByte(n, i) ==
  LET e64 == n - (n % 64)
      e32 == e64 + (IF n - e64 >= 32 THEN 32 ELSE 0)
      e16 == e32 + (IF n - e32 >= 16 THEN 16 ELSE 0)
      e8 == e16 + (IF n - e16 >= 8 THEN 8 ELSE 0)
      e4 == e8 + (IF n - e8 >= 4 THEN 4 ELSE 0)
  IN CASE i < e8 -> (i % 8) % 4 [] i \in e8..(e4 - 1) -> i - e8 [] OTHER -> i % 4

\* mask: byte i of n, of value b.
Masked(n, i, b, key, offset) == b ^^ rotateMaskKey(key, offset)[KeyByte(n, i) + 1]

NextOffset_M(n, offset) == n % 4
\* The offset Mask returns.
NextOffset(n, offset) == (offset + (n % 4)) % 4
-----------------------------------------------------------------------------
\* The stream.

\* A frame as it was sent: n payload bytes repeating pattern, masked with key unless
\* it is <<>>, behind the header head.
PayloadByte(f, i) == f.pattern[((i - 1) % Len(f.pattern)) + 1]
WireByte(f, i) ==
  IF i <= Len(f.head) THEN f.head[i]
  ELSE LET k == i - Len(f.head)
       IN IF f.key = <<>> THEN PayloadByte(f, k) ELSE Masked(f.n, k - 1, PayloadByte(f, k), f.key, 0)
WireLen(f) == Len(f.head) + f.n
Encoded(final, op, rsv1, n, pattern, key) ==
  [final |-> final, op |-> op, rsv1 |-> rsv1, n |-> n, pattern |-> pattern, key |-> key,
   head |-> HeaderBytes(final, op, n, key, rsv1)]

VARIABLES
  setup, sent,                 \* sent: bytes the transport has delivered.
  pending, left,               \* Decoder: input and where it is; payload bytes to come.
  header, remaining,           \* receiver: header bytes; payload of the open data frame.
  maskOffset, messageOpcode, compressed,
  control, controlOpcode, controlOpen,
  closeReceived, failed,       \* failed: the close code, or 0.
  message,                     \* What assemble gathered.
  events                       \* What the application got, in order.

rx == <<header, remaining, maskOffset, messageOpcode, compressed, control, controlOpcode, controlOpen,
        closeReceived, failed>>
vars == <<setup, sent, pending, left, rx, message, events>>

None == [bytes |-> <<>>, at |-> Own]

Init ==
  /\ setup \in Setups /\ sent = 0
  /\ pending = None /\ left = 0
  /\ header = <<>> /\ remaining = 0 /\ maskOffset = 0
  /\ messageOpcode = 0 /\ compressed = FALSE
  /\ control = <<>> /\ controlOpcode = 0 /\ controlOpen = FALSE
  /\ closeReceived = FALSE /\ failed = 0
  /\ message = <<>> /\ events = <<>>

Total == FoldLeft(LAMBDA t, f : t + WireLen(f), 0, setup.frames)

\* Bytes from + 1 to from + n of the stream.
StreamBytes(from, n) ==
  LET starts[k \in 1..(Len(setup.frames) + 1)] ==
        IF k = 1 THEN 0 ELSE starts[k - 1] + WireLen(setup.frames[k - 1])
      frameOf(i) == CHOOSE k \in DOMAIN setup.frames : starts[k] < i /\ i <= starts[k + 1]
  IN [i \in 1..n |-> LET k == frameOf(from + i) IN WireByte(setup.frames[k], from + i - starts[k])]
-----------------------------------------------------------------------------
\* Decoder.  Pending input is in the read buffer from at on, or copied to scratch.

Feed(p, b) ==
  IF p.bytes = <<>> THEN [bytes |-> b, at |-> 0] ELSE [bytes |-> p.bytes \o b, at |-> Own]
Preserve(p) == [p EXCEPT !.at = Own]

\* Pending input after a read of b into the buffer it may be in.
Overwritten(p, b) ==
  [p EXCEPT !.bytes = [i \in DOMAIN @ |-> IF p.at # Own /\ p.at + i <= Len(b) THEN b[p.at + i] ELSE @[i]]]

Drop(p, k) ==
  [bytes |-> SubSeq(p.bytes, k + 1, Len(p.bytes)), at |-> IF p.at = Own THEN Own ELSE p.at + k]

LengthCode(h) == h[2] % 128
IsMasked(h) == h[2] >= 128
HeaderLen(h) ==
  2 + (CASE LengthCode(h) = 126 -> 2 [] LengthCode(h) = 127 -> 8 [] OTHER -> 0) + (IF IsMasked(h) THEN 4 ELSE 0)
HeaderComplete(b) == Len(b) >= 2 /\ Len(b) >= HeaderLen(b)

PayloadLen(h) ==
  CASE LengthCode(h) = 126 -> h[3] * 256 + h[4]
    [] LengthCode(h) = 127 -> IF \E i \in 3..6 : h[i] > 0 \/ h[7] >= 128 THEN Huge
                              ELSE h[7] * 2^24 + h[8] * 65536 + h[9] * 256 + h[10]
    [] OTHER -> LengthCode(h)
Final(h) == h[1] >= 128
RSV1(h) == (h[1] \div 64) % 2 = 1
RSV2(h) == (h[1] \div 32) % 2 = 1
RSV3(h) == (h[1] \div 16) % 2 = 1
Opcode(h) == h[1] % 16
MaskKey(h) == SubSeq(h, Len(h) - 3, Len(h))

LengthOK_M(h) == LengthCode(h) = 127 => PayloadLen(h) >= 65536 /\ h[3] < 128
\* The fewest bytes, and no length of 2^63 or more.
LengthOK(h) ==
  /\ LengthCode(h) = 126 => PayloadLen(h) >= 126
  /\ LengthCode(h) = 127 => PayloadLen(h) >= 65536 /\ h[3] < 128
-----------------------------------------------------------------------------
\* receiver, and what nextFrame and assemble do with its events.

accept(h) ==
  /\ IsMasked(h) = (setup.role = "server") /\ ~RSV2(h) /\ ~RSV3(h)
  /\ \/ Opcode(h) \in {Text, Binary} /\ messageOpcode = 0 /\ (RSV1(h) => setup.compression)
     \/ Opcode(h) = Continuation /\ messageOpcode # 0 /\ ~RSV1(h)
     \/ Opcode(h) \in {Close, Ping, Pong} /\ Final(h) /\ ~RSV1(h) /\ PayloadLen(h) <= 125

validCloseCode(c) == c \in (1000..1003) \cup (1007..1014) \cup (3000..4999)
CloseCode(p) == p[1] * 256 + p[2]

\* validateClose: 0, or the code that answers the frame.
CloseVerdict(p) ==
  CASE p = <<>> -> 0
    [] p # <<>> /\ (Len(p) < 2 \/ Len(p) > 125) -> 1002
    [] Len(p) \in 2..125 /\ ~validCloseCode(CloseCode(p)) -> 1002
    [] OTHER -> IF Utf8Text(SubSeq(p, 3, Len(p))) THEN 0 ELSE 1007

\* parseClose.
ParsedClose(p) ==
  IF Len(p) < 2 THEN [op |-> Close, code |-> NoStatus, bytes |-> <<>>]
  ELSE [op |-> Close, code |-> CloseCode(p), bytes |-> SubSeq(p, 3, Len(p))]

Unmasked(h, chunk, offset) ==
  IF ~IsMasked(h) THEN chunk
  ELSE [i \in DOMAIN chunk |-> Masked(Len(chunk), i - 1, chunk[i], MaskKey(h), offset)]
OffsetAfter(h, chunk) == IF IsMasked(h) THEN NextOffset(Len(chunk), maskOffset) ELSE maskOffset

\* receiver.fail.
Fail(code) ==
  /\ failed' = code
  /\ remaining' = 0 /\ controlOpen' = FALSE /\ messageOpcode' = 0 /\ pending' = None /\ left' = 0
  /\ UNCHANGED <<compressed, control, controlOpcode, closeReceived, message, events>>

\* finishControl and handleControl; rest: the input behind the frame.
FinishControl(op, payload, rest) ==
  \/ /\ op = Close /\ CloseVerdict(payload) # 0
     /\ Fail(CloseVerdict(payload))
  \/ /\ op = Close => CloseVerdict(payload) = 0
     /\ closeReceived' = (op = Close)
     /\ pending' = IF op = Close THEN None ELSE rest
     /\ events' = Append(events, IF op = Close THEN ParsedClose(payload) ELSE [op |-> op, bytes |-> payload])
     /\ control' = payload /\ controlOpcode' = op /\ controlOpen' = FALSE /\ left' = 0
     /\ UNCHANGED <<remaining, messageOpcode, compressed, failed, message>>

\* finishFrame, and finishMessage when it was the last frame.  Inflating a compressed
\* message is not part of this module.
FinishFrame(h, op, bytes, rsv1) ==
  \/ /\ ~Final(h)
     /\ messageOpcode' = op /\ message' = bytes
     /\ UNCHANGED <<failed, events>>
  \/ /\ Final(h)
     /\ messageOpcode' = 0 /\ message' = <<>>
     /\ LET bad == op = Text /\ ~Valid(bytes)
        IN /\ failed' = IF bad THEN 1007 ELSE 0
           /\ events' = IF bad THEN events ELSE Append(events, [op |-> op, bytes |-> bytes, rsv1 |-> rsv1])

Reading == failed = 0 /\ ~closeReceived

\* Next at a frame header.
NextHeader ==
  /\ Reading /\ remaining = 0 /\ ~controlOpen /\ HeaderComplete(pending.bytes)
  /\ LET h == SubSeq(pending.bytes, 1, HeaderLen(pending.bytes))
         n == PayloadLen(h)
         rest == Drop(pending, Len(h))
         first == Opcode(h) \in {Text, Binary}
         op == IF first THEN Opcode(h) ELSE messageOpcode
         rsv1 == IF first THEN RSV1(h) ELSE compressed
     IN \/ /\ ~LengthOK(h) \/ ~accept(h)
           /\ header' = IF LengthOK(h) THEN h ELSE <<>>
           /\ Fail(1002) /\ UNCHANGED maskOffset
        \/ /\ LengthOK(h) /\ accept(h) /\ Opcode(h) >= Close
           /\ header' = h /\ maskOffset' = 0
           /\ \/ n = 0 /\ FinishControl(Opcode(h), <<>>, rest)
              \/ /\ n > 0
                 /\ controlOpcode' = Opcode(h) /\ control' = <<>> /\ controlOpen' = TRUE
                 /\ pending' = rest /\ left' = n
                 /\ UNCHANGED <<remaining, messageOpcode, compressed, closeReceived, failed, message, events>>
        \/ /\ LengthOK(h) /\ accept(h) /\ Opcode(h) < Close
           /\ header' = h /\ maskOffset' = 0
           /\ pending' = rest /\ left' = n /\ remaining' = n /\ compressed' = rsv1
           /\ \/ n = 0 /\ FinishFrame(h, op, message, rsv1)
              \/ n > 0 /\ messageOpcode' = op /\ UNCHANGED <<failed, message, events>>
           /\ UNCHANGED <<control, controlOpcode, controlOpen, closeReceived>>
  /\ UNCHANGED <<setup, sent>>

\* Decoder.PayloadN: what a caller that asks for at most n bytes gets.
PayloadN(n) == LET have == Len(pending.bytes)
               IN SubSeq(pending.bytes, 1, CHOOSE k \in {n, have, left} : k <= n /\ k <= have /\ k <= left)

\* Next in a control frame.
ControlPayload ==
  /\ Reading /\ controlOpen /\ pending.bytes # <<>>
  /\ LET chunk == PayloadN(Len(pending.bytes))
         payload == control \o Unmasked(header, chunk, maskOffset)
         rest == Drop(pending, Len(chunk))
     IN /\ maskOffset' = OffsetAfter(header, chunk)
        /\ \/ Len(chunk) = left /\ FinishControl(controlOpcode, payload, rest)
           \/ /\ Len(chunk) < left
              /\ control' = payload /\ left' = left - Len(chunk) /\ pending' = rest
              /\ UNCHANGED <<remaining, messageOpcode, compressed, controlOpcode, controlOpen, closeReceived,
                             failed, message, events>>
  /\ UNCHANGED <<setup, sent, header>>

\* receiver.PayloadN and consumed; Payload asks for all there is, Read for len(b).
DataPayload ==
  /\ Reading /\ remaining > 0 /\ pending.bytes # <<>>
  /\ \E n \in setup.sizes \cup {Len(pending.bytes)} :
       LET chunk == PayloadN(n)
           bytes == message \o Unmasked(header, chunk, maskOffset)
       IN /\ maskOffset' = OffsetAfter(header, chunk)
          /\ remaining' = remaining - Len(chunk) /\ left' = left - Len(chunk)
          /\ pending' = Drop(pending, Len(chunk))
          /\ \/ Len(chunk) = remaining /\ FinishFrame(header, messageOpcode, bytes, compressed)
             \/ Len(chunk) < remaining /\ message' = bytes /\ UNCHANGED <<messageOpcode, failed, events>>
  /\ UNCHANGED <<setup, sent, header, compressed, control, controlOpcode, controlOpen, closeReceived>>

NeedInput ==
  \/ (remaining > 0 \/ controlOpen) /\ pending.bytes = <<>>
  \/ remaining = 0 /\ ~controlOpen /\ ~HeaderComplete(pending.bytes)

\* fill.
Fill ==
  /\ Reading /\ NeedInput /\ sent < Total
  /\ \E size \in setup.sizes :
       LET n == IF size < Total - sent THEN size ELSE Total - sent
           b == StreamBytes(sent, n)
       IN /\ pending' = Feed(Overwritten(Preserve(pending), b), b)
          /\ sent' = sent + n
  /\ UNCHANGED <<setup, left, rx, message, events>>

Next == NextHeader \/ ControlPayload \/ DataPayload \/ Fill
Spec == Init /\ [][Next]_vars
-----------------------------------------------------------------------------
\* Nothing more happens: reading has ended or all input is used up.
Settled == ~Reading \/ (sent = Total /\ NeedInput)

\* What an application must get from frames some sender was allowed to send: controls
\* where they stand, a message where its last frame stands.
Payload(f) == [i \in 1..f.n |-> PayloadByte(f, i)]
Received(frames) ==
  FoldLeft(LAMBDA acc, f :
      CASE f.op = Close -> [acc EXCEPT !.out = Append(@, ParsedClose(Payload(f)))]
        [] f.op \in {Ping, Pong} -> [acc EXCEPT !.out = Append(@, [op |-> f.op, bytes |-> Payload(f)])]
        [] OTHER ->
             LET op == IF f.op = Continuation THEN acc.op ELSE f.op
                 rsv1 == IF f.op = Continuation THEN acc.rsv1 ELSE f.rsv1
                 bytes == acc.bytes \o Payload(f)
             IN IF f.final
                THEN [op |-> 0, rsv1 |-> FALSE, bytes |-> <<>>,
                      out |-> Append(acc.out, [op |-> op, bytes |-> bytes, rsv1 |-> rsv1])]
                ELSE [acc EXCEPT !.op = op, !.rsv1 = rsv1, !.bytes = bytes],
    [op |-> 0, rsv1 |-> FALSE, bytes |-> <<>>, out |-> <<>>], frames).out

\* Whatever the lengths, the masking key, the role and the sizes of the transport
\* reads and of the calls of Read: frames the Encoder made are received as the
\* messages and controls they were, in order, every byte of them, and never refused
\* (Encode, Mask and Decoder are each other's inverse; a partial header survives the
\* reuse of the read buffer).
FramesRoundTrip ==
  setup.kind = "sent" =>
    /\ failed = 0 /\ IsPrefix(events, Received(setup.frames))
    /\ Settled => events = Received(setup.frames)

\* Some call of the Encoder, by a peer of the other role in the same place of the
\* stream, makes the header h for a payload of one of the lengths.
Sendable(h, open, lengths) ==
  LET op == Opcode(h)
  IN /\ op \in {Text, Binary} => ~open
     /\ op = Continuation => open
     /\ RSV1(h) => setup.compression /\ op \in {Text, Binary}
     /\ \E n \in lengths : /\ Encodes(Final(h), op, n)
                           /\ h = HeaderBytes(Final(h), op, n, setup.key, RSV1(h))

\* The close codes a frame may carry (RFC 6455, 7.4): the registered ones, but not
\* those that stand for no code or no frame, and the applications' own.
Reserved == {1004, 1005, 1006, 1015}
MayCarry(c) == (c \in 1000..1015 /\ c \notin Reserved) \/ c \div 1000 \in {3, 4}

\* The receiver refuses a frame with 1002 exactly when no sender may have sent it
\* there (NextHeaderInto, accept and validateClose against Encode): the wrong mask
\* bit, a reserved bit or opcode, RSV1 that was not negotiated, a length in more bytes
\* than it needs, a long or fragmented control frame, a fragment of no message, a
\* message inside another, a close whose code is cut off or is none to be sent.
RefusedExactly ==
  setup.kind = "header" /\ Settled =>
    LET f == Last(setup.frames)
        sendable == /\ Sendable(f.head, Len(setup.frames) > 1, setup.lengths)
                    /\ f.op = Close /\ f.n >= 2 => MayCarry(PayloadByte(f, 1) * 256 + PayloadByte(f, 2))
    IN failed = IF sendable THEN 0 ELSE 1002

\* A text message is refused with 1007 exactly when it is not UTF-8, wherever in the
\* message its characters stand relative to the words Valid goes by, and however it is
\* cut into fragments (internal/utf8.Valid).  A close reason is checked by the standard
\* library, which the model takes at its word: of it this says that the reason alone
\* is checked, behind the code, and answered with 1007.
TextVerdict ==
  setup.kind = "text" /\ Settled =>
    LET bytes == FoldLeft(LAMBDA b, f : b \o Payload(f), <<>>, setup.frames)
        text == IF Head(setup.frames).op = Close THEN SubSeq(bytes, 3, Len(bytes)) ELSE bytes
    IN failed = IF Utf8Text(text) THEN 0 ELSE 1007
=============================================================================
