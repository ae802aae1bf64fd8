# A TLA+ model of ews

ews is a WebSocket library in Go. This directory holds TLA+ modules that model
it, the TLC configurations that check them on small instances, and proofs that
TLAPS checks for every instance. `PROJECT.json` maps each definition to the
source lines it stands for and lists the hazards each property is aimed at.

## The system

| Part | Source | State | Operations | Module |
|---|---|---|---|---|
| Write side of `Conn` | `ws/conn_write.go`, `ws/sender.go` | `wmu`, `iomu`, `closeSent`, the open fragmented message | `Write`, `WriteFrom`, `BeginMessage`, `WriteChunk`, `EndMessage`, `Ping`, `Pong`, `Close`, `sendClose` | `WritePath` |
| `Queue` | `ws/queue.go` | queued and flushing frames, `size`, `running`, `err`, `enqueued`, `written`, arenas | `NewQueue`, `Send`, `SendPrepared`, `Wait`, `run` | `WritePath` |
| Read side of `Conn` | `ws/conn_read.go`, `ws/receiver.go`, `codec/decoder.go` | decoder buffer, open frame and message, control frame in progress, `inMessage`, `readErr` | `NextMessage`, `Read`, `WriteTo`, `ReadMessage` | `ReadPath` |
| `NetConn`, `ws.Serve`, events | `ws/netconn.go`, `ws/serve.go`, `events/` | `inMsg`, `err`, the events given to the handler, `wmu`, whether the transport is closed | `Read`, `Write`, `Close`, the serve loop, `OnOpen` to `OnClose` | `Session` |
| Compressing | `ws/conn_compress.go`, `deflate/compressor.go`, `deflate/window.go` | window, generation, deferred payloads, attached and pooled compressors | `Write`, fragments, `WritePrepared` | `Takeover` |
| Inflating, message buffers | `deflate/decompressor.go`, `ws/conn_compress.go`, `ws/conn_read.go`, `internal/bufpool/` | decompressors, scratch and output buffers, the receive window, `msg`, `msgHint`, the pools | `Decompress`, `Begin`, `Read`, `finish`, `ReleaseOutput`, `staging`, `appendMsg`, `releaseMsg`, `Get`, `Put` | `Inflate`, `Bufpool` |
| Frame codec, masking, close codes | `codec/`, `ws/receiver.go`, `ws/close.go` | decoder input and header bytes so far, receiver | `Encode`, `Feed`, `Preserve`, `NextHeaderInto`, `PayloadN`, `Mask`, `validateClose` | `Codec` |
| UTF-8 | `internal/utf8/` | none | `Valid` | `Utf8` |
| Handshake | `handshake/` | none | `NewRequest`, `Negotiate`, `Confirm` | `Handshake` |
| Transport | `transport/` | the context and its `AfterFunc`, deadlines, `closed`, `listeners`, bytes behind a head | `Dial`, `Server.Serve`, `Server.Close`, `serve`, `Upgrade`, `bufferedConn.Read` | `Connect` |

How they meet. `Connect` ends with the compression settings `NewConn` is given;
`Takeover`, `Inflate` and `ReadPath` start from these. `Takeover` advances the
peer's history when a frame is encoded; that frames reach the wire in encoding
order is `WireInEncodeOrder` of `WritePath`. `Codec` turns bytes into frames,
which are the units `ReadPath` works on; `ReadPath` delivers the payload of a
compressed message, whose inflation is `Inflate`. `Session` extends `ReadPath`:
its hosts make calls of `ReadPath` and share `wmu` with a writer, since the
reader itself writes pongs, the echo of a close and the close of a failure.

What makes the code hard to test: two locks and a writer goroutine that starts
and stops with the work; a transport read that may return any piece, a timeout
or the end anywhere; a compression history in three places (encoder, window,
deferred payloads) that must equal the peer's; buffers that go through pools
while an application still looks at them; a context, a deadline and a handshake
that end at the same time.

## Modules

**WritePath** has one step per section of code between which another goroutine
can run. `wmu` and `iomu` are variables; code under `q.mu` never blocks and is
one step. A call goes `idle -> lock -> enqueue -> (await <-> asleep) -> idle`
through the queue or `lock -> iolock -> io -> idle` directly; `run` goes through
`RunTake`, `FlushLock`, `Flush`, `RunAfter`, `RunExit`. A frame is its number,
kind and length; a control payload that is too long stands for all arguments
`sender.encode` refuses. A failing transport write may leave any proper prefix.
**Outbox** is what the write side promises: stream frames leave in order, once,
and none after a failure. `ImplementsOutbox` is the refinement.

**ReadPath** counts units: a frame is a header and payload units
`<<frame, offset>>`, so what is delivered can be compared with what was sent.
Each transport read is a step of its own and may time out. An inflater that
started inside a message, or that continues a window such a one left, may fail
or put out other units (`garbled`, `Inflated`).

**Session** has one host, a `NetConn` or an event handler, on top of
`ReadPath`. Beside it a goroutine may be inside `Conn.Write` and another may
call `NetConn.Close`. A handler may fail or panic in any event. When the peer
leaves, the handler has been told of everything it sent, and nothing is left to
read.

**Takeover** models what an encoder may refer to against what the peer has. A
fresh, a pooled and an attached compressor differ in the history they hold.

**Inflate** is the counterpart: a message is a sequence of DEFLATE blocks, which
may end a stream inside the message, put out more than the limit, or not inflate.
Messages come in fragments or in one piece, plain and compressed alike. Storage
is a sequence of buffers with their content, so a buffer that is used again too
early shows as wrong units, and one of a class too small as overfull. **Bufpool**
computes the class of a size with `bits.Len`, as the code does.

**Codec** works on bytes. Four kinds of stream go through the receiver: frames
the `Encoder` wrote, headers with any bits and lengths, close frames with codes
at both ends of every range, and texts. A payload is a
length and a pattern, so that 65536 bytes cost no more than two. **Utf8** has
the portable validator and, beside it, the definition of UTF-8.

**Handshake** is pure; headers are parsed sequences of offers. **Connect** runs
`Dial`, or a foreign client, against `Server`, `Upgrade`, or a foreign server,
over one socket pair. Foreign peers and `net/http` are external: foreign servers
keep to the offer they answer or are refused; foreign clients also make offers
that cannot be honoured.

`MC*` modules give the constants their values. `*Proofs` modules hold theorems.

## Runs that pass

| Run | Instance | What it shows |
|---|---|---|
| `QueueSafety` | 2 writers, 2 runner identities, 4 calls, 1 failing write, limits 3 and the default | one queue writer, order on the wire, nothing behind a close, nil means written, reservation, accounting, wakeups, arenas, no frame after a failure, the refinement of `Outbox` |
| `Fragments` | 2 writers, 5 calls, 1 failing write | messages do not break into one another |
| `QueueLiveness` | 2 writers, 3 calls, 1 failing write, limit 2 | calls return, accepted frames are written, `Send` waits for the peer only behind a direct write |
| `ReadPath` | 15 streams, 5 calls, 1 timeout, cuts of 0, 1 and 6 units | exact delivery, control frames once, an open frame is known to the caller, the limit, history in step, errors terminal, calls return |
| `Session` | 7 streams, 4 `Read`s, 1 `Write`, 1 timeout, a closer, a silent or leaving peer | the tunnel is the peer's bytes, `io.EOF` is its end, the events are those of the stream with one `OnClose`, everything ends |
| `Takeover` | 2 connections, 3 compressors, 4 payloads of 0 to 3 units, window of 3 | the peer can decode, nothing is lost from the history, compressors go back |
| `Inflate` | 2 connections (one with takeover), 6 kinds of message, 3 messages, limit of 4, window of 5, classes of 1, 2 and 4 | the inflater's history is the peer's, messages are exact and cut off at the limit, a buffer has one owner and room for what is put into it |
| `Codec` | lengths around 0, 125, 126, 65535 and 65536, all FIN and RSV bits with eight opcodes, both roles, close codes at the ends of their ranges, text of boundary bytes around word edges | frames come back as encoded however they are cut, exactly the wrong ones and the reserved close codes are refused, the validator is UTF-8 |
| `Connect` | 127 setups, 2 `Serve` calls on two listeners or on one, 2 frames each way | the ends agree on compression and subprotocol, no early frame is lost, `Dial` and `Serve` end, and so does `serve` before and after the `Accept` hook |

Why the bounds are enough to be interesting. Two writers and a runner are the
fewest that can race on both locks, and the second runner identity lets a
second `run` start while the first one leaves; four calls fill the queue, wake
a waiter and use the queue after a failure. Streams hold fragmented messages
with control frames between the fragments; buffers of 3 units against headers
of 2 split both headers and payloads. In `Session` four reads pass over an
empty message into the next and past the end. A window of 3 with payloads of up
to 3 and two deferred payloads reaches compaction, eviction and a payload that
fills the window. In `Inflate` three messages let a pooled decompressor and a
pooled buffer go from one connection to the other and back. In `Codec` the
lengths are the boundaries of the three length forms and of the masking steps of
64, 32, 16, 8 and 4 bytes; lengths of 2^31 and more are one value, since the
code only compares them. In `Connect` the handshake configurations, the early
frames and the listener failures are varied in separate setups, to keep their
product out of the state space; every setup still has all interleavings of the
context, the deadlines and the two ends.

Deadlock is checked for `QueueSafety`, `Fragments`, `QueueLiveness`, `ReadPath`,
`Session` and `Takeover`, whose modules stutter explicitly where everything is
over. A `Connect`, `Codec` or `Inflate` behaviour ends with its setup.

## Runs that find a disagreement

Each states a sentence of the repository's documentation that the code does not
keep; `PROJECT.json` quotes it.

- `CloseOvertakes`: the close frame of a protocol failure is written ahead of
  queued messages, which then follow it.
- `TimeoutBreaksTakeover`: with receive takeover, a `ReadMessage` retried after a
  timeout inflates from the middle of a stream and fails the connection with
  1007. When the rest happens to inflate, the window is wrong and later messages
  are: `DeliveredExactly` and `HistoryInStep` except what follows.
- `DialDeadline`: `stop()` does not wait for an `AfterFunc` that has started, so
  a connection `Dial` returned may get a deadline in the past.

What else the models showed, and the properties state as it is:

- A `Ping` waiting for the transport holds `wmu`, so a slow peer can stall a
  `Send` (`ws/queue.go:73-75` says it cannot). `StallsOnlyBehindDirectWrite`
  says that nothing else does.
- Frames being flushed do not count against the limit (`ws/queue.go:261`), so up
  to twice the limit may be unwritten. `ReservationHolds` is about the queued part.
- A `ReadMessage` that times out has given up the part it gathered; the retry
  goes on to the next message (`ws/conn_read.go:304`). `DeliveredExactly` counts
  the interrupted message as abandoned.
- `HandshakeTimeout` does not bound the `Accept` hook: a hook that blocks keeps
  its connection open past the deadline (`transport/serve.go:137`).
  `HandshakeEnds` is about the steps before and after it.
- `NetConn.Close` needs `wmu` for its close frame and waits for a `Write` that is
  blocked on a peer that does not read. `SessionEnds` assumes that the peer reads.
- Two `Serve` calls may share a listener. The first to return takes the
  listener out of the map, and `Close` then leaves the other one accepting
  (`transport/serve.go:73`). `CloseStopsServe` excepts it.

## Fairness

- `QueueLiveness`: goroutines are scheduled (weak); steps that take a mutex are
  strongly fair, since `sync.Mutex` hands itself to a starving waiter. That
  transport writes return is assumed only inside the properties that need it.
- `ReadPath`: the reader runs and a transport read returns, with bytes, an
  error or its timeout. A transport without a deadline and a silent peer may
  block for ever; that is outside `ReadsReturn`.
- `Session`: the host's goroutine and `NetConn.Close` run, and a transport write
  returns. A silent peer owes nothing: `SessionEnds` needs `Close` to end a
  `Read` of a silent peer.
- `Connect`: goroutines run, timers fire and `Accept` on a closed listener
  returns. Peers, handlers, the `Accept` hook and whoever ends the context owe
  nothing.

## Proofs

The theorems hold for all constants that satisfy the named assumptions in the
modules; TLC evaluates these on every run. Each argument is an inductive
invariant, a lemma that one kind of step keeps it (most steps touch little and
are shown to be of a kind, `QuietStep`, `Aside`, `Passive`), and the case split
over `Next`.

**Write side**, from `ConstantsAssumption` and `OpsAssumption`: any goroutines,
calls, limits, failures.

| Module | Theorem | Statement |
|---|---|---|
| `WritePathProofs` | `TypeCorrect` | `[]TypeOK` |
| | `OneWriterCorrect` | at most one `run`, and `running` says whether there is one |
| | `AccountingCorrect` | `enqueued`, `written` and the frames held add up |
| | `QueueCorrect` | a nonempty queue or a sleeping waiter has a writer |
| `WriteLockProofs` | `ReservationCorrect` | what `reserve` found to fit fits when `enqueue` appends it |
| | `FailureIsFinal` | a failed queue accepts nothing and no message frame passes it |
| | `ArenaCorrect` | `flush` finds the arena of every copied frame |
| `WriteOrderProofs` | `OrderCorrect` | frames reach the transport in encoding order |
| | `CloseCorrect` | nothing but pongs behind a close frame |
| | `NilCorrect` | nil from a synchronous call means the transport took its frames |
| `OutboxProofs` | `Refinement` | `Spec => ImplementsOutbox` |

- `QueueInv` adds to accounting and wakeups that frames being flushed have a
  writer busy with them, that a failed queue and a missing one are empty with no
  writer, and that a waiter's sequence number has been issued. Without the
  first, the step after a flush could count frames nobody wrote; without the
  last, a waiter could sleep on a number never reached.
- `LockInv` says what a goroutine between two steps under `wmu` may rely on: it
  alone holds `wmu`, its reservation still fits, and a message frame goes past
  the queue only where there is no queue.
- `OrderInv` puts everything in one line: the wire, the frames being flushed, the
  queue and the frame in hand, each ahead of the next. Order on the wire alone is
  not inductive, since nothing would keep a late frame from being flushed first.
- `NilInv` follows a frame that a call stands for from the queue, at a position
  its sequence number covers, to the wire.
- `StreamInv` (only stream frames are queued, a flush is not empty) is what the
  refinement needs beyond these.

`CloseCorrect` and `Refinement` assume `NoSendClose`: the reader does not fail the
connection. Without this they are false, which is what `CloseOvertakes` shows.

**Read side**, `ReadPathProofs`, from `ReadAssumption`: any streams, cuts, sizes.

- `TerminalCorrect`: after a terminal error nothing is read or delivered
  (`ErrInv`: a call that meets one returns).
- `OpenFrameCorrect`: a header is decoded only when no data frame is open, and a
  message open between two calls is one the application was told of.
- `LimitCorrect`: `ReadMessage` gathers at most `MaxMessageSize`.

The last two rest on `FrameInv`: `NumInv` types the counters, `OpenInv` relates
the rest of an open frame to its header, and `CallInv` says what each call may
rely on, among others that the units gathered and those announced by the open
frame together are within the limit; the bound alone would not survive a payload
step.

**Handshake and connection**, from `NoCompressionIsNil`, `SetupsAssumption` and
`SizesAssumption`.

- `EwsEndsAgree` (`HandshakeProofs`): for all options of `Dial` and of a server,
  if both accept then each direction's sender keeps to what its receiver
  remembers, and the subprotocol is the same. It rests on a round trip
  (`parseDeflate` reads what `formatDeflate` writes) and on what `Negotiate`
  honours.
- `AgreedCorrect` (`ConnectProofs`): `Spec => []Agreed`, with foreign peers too,
  over every interleaving. `AgreeInv` ties the two ends by what is on the wire: a
  request is sent once and never changes, the server's result and the response
  are `Negotiate`'s of it, `Dial`'s result is `Confirm`'s of both. A foreign
  server is assumed to keep to an offer without takeover.
- `FramesCorrect` (`FramesProofs`): `Spec => []FramesInOrder`. `RdInv` says that
  what an end has read, its `bufio.Reader` and its socket hold the frames sent,
  in this order, and that a connection whose reader holds any is wrapped.

Only model-checked: all liveness, which is outside the prover's reach;
`DeliveredExactly`, `ControlsOnce`, `HistoryInStep`, `TunnelExact`,
`EofIsTheEnd` and `EventsExact`, which compare with a fold over the stream and
would need induction over it; `MessagesWhole`; and `Takeover`, `Inflate`,
`Codec` and `Utf8`, which use recursive operators, folds or `Bitwise`.

## Not modelled

- The DEFLATE coder: an encoder is the history it may refer to, an inflater puts
  out the units it took in, and data inflates or does not. Encoder errors are
  left out.
- Vector variants of masking and UTF-8 validation (assembly and `simd` builds).
- SHA-1, base64, URLs, TLS, and the parsing of text: `readRequest` and `readLine`
  are three outcomes (a head, a bad one, one too large), `parseExtensions` is
  skipped for the sequence of offers it returns.
- Which of two arenas a queued frame was copied into: an arena is there or not.
- `Prepare` and `PrepareAppend`, which build bytes, and `compressedFor` with its
  cache of variants. A
  prepared message is modelled from where it is written.
- `OnPong`: a ping without an answer.
- The outcome of the data race on the variable `conn` between `Dial` and its
  `AfterFunc`.
- What a peer makes of a connection after a failed write: `Takeover` exempts it.
- Benchmarks, examples and the Autobahn configuration.
