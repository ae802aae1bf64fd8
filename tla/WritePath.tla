----------------------------- MODULE WritePath -----------------------------
(***************************************************************************)
(* The write side of ws.Conn (ws/conn_write.go, ws/sender.go, the send     *)
(* half of ws/prepared.go) and the asynchronous Queue attached to it       *)
(* (ws/queue.go).                                                          *)
(*                                                                         *)
(* Any number of goroutines call the write API.  Two locks are state here: *)
(* wmu guards the encoder, iomu serialises transport writes; it is taken   *)
(* inside wmu by a direct write and alone by the queue's writer.  q.mu is  *)
(* only ever held over straight-line code, so a section under it is one    *)
(* step.  A call is the steps between which another goroutine may run:     *)
(*                                                                         *)
(*   idle -> lock -> enqueue -> (await <-> asleep) -> idle    via the queue *)
(*           lock -> iolock -> io -> idle                     directly      *)
(*                                                                         *)
(* A frame is a record: what it is and how long it is, not its bytes.      *)
(* Compression is the subject of the module Takeover.                      *)
(***************************************************************************)
EXTENDS Integers, Sequences, FiniteSets

CONSTANTS
  Writers,       \* Goroutines that call the write API.
  Runners,       \* Identities for the goroutines started as Queue.run.
  NoOne,         \* Holder of a free mutex.
  Ops,           \* The API calls made in this instance: a subset of Calls.
  Header,        \* Length of a frame header.
  Limits,        \* Arguments given to NewQueue; 0 asks for the default.
  DefaultLimit,  \* NewQueue's 1 MiB.
  FragmentSize,  \* Config.FragmentSize: the chunks WriteFrom sends.
  MaxCalls,      \* Bound: calls made in one behaviour.
  MaxFailures    \* Bound: transport writes that fail in one behaviour.

ASSUME ConstantsAssumption ==
  /\ NoOne \notin Writers \cup Runners
  /\ Writers \cap Runners = {}
  /\ Runners # {}
  /\ Header \in Nat \ {0}
  /\ Limits \subseteq Nat
  /\ DefaultLimit \in Nat \ {0}
  /\ FragmentSize \in Nat
  /\ MaxCalls \in Nat
  /\ MaxFailures \in Nat
  /\ \A c \in Ops : c.n \in Nat

Names == {"NewQueue", "Send", "SendPrepared", "Wait", "Write", "WritePrepared",
          "WriteFrom", "BeginMessage", "WriteChunk", "LastChunk", "EndMessage",
          "Ping", "Pong", "Close", "sendClose"}

\* A call of the API: its name and the payload length (NewQueue: the limit).
Calls == [name : Names, n : Nat]

ASSUME OpsAssumption == Ops \subseteq Calls

\* "torn" stands for a proper prefix of a frame left by a failed write.
FrameOps == {"data", "cont", "ping", "pong", "close", "torn"}

Frames == [id : Nat, op : FrameOps, fin : BOOLEAN, len : Nat, ext : BOOLEAN]

NoFrame == [id |-> 0, op |-> "data", fin |-> TRUE, len |-> 0, ext |-> FALSE]
NoCall  == [name |-> "Wait", n |-> 0]

VARIABLES
  wmu, iomu,      \* Conn.wmu, Conn.iomu: the holder.
  closeSent,      \* sender.closeSent.
  fragOpen,       \* fragmentState.op # 0.
  fragFirst,      \* fragmentState.first.
  hasQueue,       \* Conn.queue # nil.
  limit, segments, size, running, err, enqueued, written,  \* Queue.
  flushSegments,  \* Queue.flushSegments while a flush is in progress.
  cur, flushing,  \* Queue.cur # nil, Queue.flushing # nil.
  run,            \* The goroutines executing Queue.run: where each one is.
  pc, call, frame, seq, rest,  \* The writers: place, call, locals.
  wire,           \* What the transport has taken, in order.
  encoded,        \* Frames encoded so far; a frame's id is its number.
  accepted,       \* Ids of the frames ever enqueued.
  due, acked,     \* Ids a pending call vouches for; ids vouched for by a nil return.
  calls, failures \* Counters for the two bounds.

conn == <<closeSent, fragOpen, fragFirst>>
queue == <<hasQueue, limit, segments, size, running, err, enqueued, written,
           flushSegments, cur, flushing, run, accepted>>
locals == <<pc, call, frame, seq, rest, due, acked>>
vars == <<wmu, iomu, conn, queue, locals, wire, encoded, calls, failures>>

\* NewQueue: what a limit argument means on a new queue.
EffectiveLimit(n) == IF n > 0 THEN n ELSE DefaultLimit

Init ==
  /\ wmu = NoOne /\ iomu = NoOne
  /\ closeSent = FALSE /\ fragOpen = FALSE /\ fragFirst = FALSE
  \* A connection as NewConn leaves it, or one whose owner then called NewQueue.
  /\ \/ hasQueue = FALSE /\ limit = 0
     \/ hasQueue = TRUE /\ limit \in {EffectiveLimit(n) : n \in Limits}
  /\ segments = <<>> /\ size = 0 /\ running = FALSE /\ err = FALSE
  /\ enqueued = 0 /\ written = 0 /\ flushSegments = <<>>
  /\ cur = FALSE /\ flushing = FALSE
  /\ run = [r \in Runners |-> "none"]
  /\ pc = [t \in Writers |-> "idle"]
  /\ call = [t \in Writers |-> NoCall]
  /\ frame = [t \in Writers |-> NoFrame]
  /\ seq = [t \in Writers |-> 0]
  /\ rest = [t \in Writers |-> "none"]
  /\ due = [t \in Writers |-> {}]
  /\ wire = <<>> /\ encoded = 0 /\ accepted = {} /\ acked = {}
  /\ calls = 0 /\ failures = 0
-----------------------------------------------------------------------------
\* Calling and returning.

\* Calls that return once their frame has been written.
Sync(c) == c.name \notin {"Send", "SendPrepared"}
Fragment(c) == c.name \in {"WriteChunk", "LastChunk", "EndMessage"}
Final(c) == c.name # "WriteChunk"

\* The call of t returns; a nil return vouches for the frames in ids.  An
\* error ends a WriteFrom, whose next step otherwise is to read on.
Return(t, ok, ids) ==
  LET again == ok /\ rest[t] # "none"
  IN /\ pc' = [pc EXCEPT ![t] = IF again THEN "from" ELSE "idle"]
     /\ rest' = [rest EXCEPT ![t] = IF again THEN @ ELSE "none"]
     /\ call' = [call EXCEPT ![t] = NoCall]
     /\ frame' = [frame EXCEPT ![t] = NoFrame]
     /\ seq' = [seq EXCEPT ![t] = 0]
     /\ due' = [due EXCEPT ![t] = {}]
     /\ acked' = IF ok THEN acked \cup ids ELSE acked

\* A goroutine enters the API and waits for wmu, unless the call needs none.
Enter(t, c, r) ==
  /\ calls' = calls + 1
  /\ pc' = [pc EXCEPT ![t] = "lock"]
  /\ call' = [call EXCEPT ![t] = c]
  /\ rest' = [rest EXCEPT ![t] = r]
  /\ UNCHANGED <<wmu, iomu, conn, queue, frame, seq, due, acked, wire, encoded, failures>>

Call(t, c) ==
  /\ pc[t] = "idle" /\ calls < MaxCalls
  /\ c.name \notin {"Wait", "WriteFrom"}
  /\ c.name \in {"Send", "SendPrepared"} => hasQueue
  /\ Enter(t, c, "none")

\* Wait: a waiter for every frame enqueued so far.
Wait(t, c) ==
  /\ pc[t] = "idle" /\ calls < MaxCalls
  /\ c.name = "Wait" /\ hasQueue
  /\ calls' = calls + 1
  /\ pc' = [pc EXCEPT ![t] = "await"]
  /\ seq' = [seq EXCEPT ![t] = enqueued]
  /\ due' = [due EXCEPT ![t] = accepted]
  /\ UNCHANGED <<wmu, iomu, conn, queue, call, frame, rest, acked, wire, encoded, failures>>

\* WriteFrom: content that fits one read is a Write; anything longer begins a
\* message and is sent chunk by chunk, one chunk read ahead.
WriteFrom(t, c) ==
  /\ pc[t] = "idle" /\ calls < MaxCalls
  /\ c.name = "WriteFrom"
  /\ \/ Enter(t, [c EXCEPT !.name = "Write"], "none")
     \/ Enter(t, [c EXCEPT !.name = "BeginMessage"], "loop")

ReadAhead(t) ==
  /\ pc[t] = "from"
  /\ LET chunk(name) == [name |-> name, n |-> FragmentSize]
     IN \/ /\ rest[t] = "loop" /\ calls < MaxCalls
           /\ \E r \in {"loop", "last"} : Enter(t, chunk("WriteChunk"), r)
        \/ Enter(t, chunk("LastChunk"), "none")
        \* The reader fails: the message stays open.
        \/ /\ rest[t] = "loop"
           /\ pc' = [pc EXCEPT ![t] = "idle"]
           /\ rest' = [rest EXCEPT ![t] = "none"]
           /\ UNCHANGED <<wmu, iomu, conn, queue, call, frame, seq, due, acked,
                          wire, encoded, calls, failures>>
-----------------------------------------------------------------------------
\* What a call does under wmu.

Locked(t, names) == pc[t] = "lock" /\ wmu = NoOne /\ call[t].name \in names

\* An early return: wmu is taken and released with nothing sent.
Refuse(t) ==
  /\ Return(t, FALSE, {})
  /\ UNCHANGED <<wmu, iomu, queue, wire, encoded, calls, failures>>

\* sender.encodeFrame: number the frame, note a close; wmu stays held.
Encode(t, op, fin, ext, next) ==
  /\ encoded' = encoded + 1
  /\ frame' = [frame EXCEPT ![t] = [id |-> encoded + 1, op |-> op, fin |-> fin,
                                    len |-> Header + call[t].n, ext |-> ext]]
  /\ closeSent' = (closeSent \/ op = "close")
  /\ wmu' = t
  /\ pc' = [pc EXCEPT ![t] = next]
  /\ due' = [due EXCEPT ![t] = {encoded + 1}]
  /\ UNCHANGED <<iomu, fragOpen, fragFirst, queue, call, seq, rest, acked, wire, calls, failures>>

\* sendFrame: through the queue when there is one.
SendFrame_M == "iolock"
SendFrame == IF hasQueue THEN "enqueue" ELSE "iolock"

\* Queue.reserve.
Reserve_M(n) == ~err
Reserve(n) == ~err /\ (size = 0 \/ size + n <= limit)

\* The state in which a whole message may be encoded.
MayWrite_M == ~closeSent
MayWrite == ~fragOpen /\ ~closeSent

NewQueue(t) ==
  /\ Locked(t, {"NewQueue"})
  /\ hasQueue' = TRUE
  /\ limit' = IF hasQueue /\ call[t].n = 0 THEN limit ELSE EffectiveLimit(call[t].n)
  /\ Return(t, TRUE, {})
  /\ UNCHANGED <<wmu, iomu, conn, segments, size, running, err, enqueued, written,
                 flushSegments, cur, flushing, run, accepted, wire, encoded, calls, failures>>

Send_M(t) ==
  /\ Locked(t, {"Send", "SendPrepared"})
  /\ err \/ size = 0 \/ size + call[t].n <= limit
  /\ \/ ~(MayWrite /\ ~err) /\ Refuse(t) /\ UNCHANGED conn
     \/ MayWrite /\ ~err /\ Encode(t, "data", TRUE, call[t].name = "SendPrepared", "enqueue")
Send(t) ==
  /\ Locked(t, {"Send", "SendPrepared"})
  /\ LET go == MayWrite /\ Reserve(call[t].n)
     IN \/ ~go /\ Refuse(t) /\ UNCHANGED conn
        \/ go /\ Encode(t, "data", TRUE, call[t].name = "SendPrepared", "enqueue")

Write(t) ==
  /\ Locked(t, {"Write", "WritePrepared"})
  /\ \/ ~MayWrite /\ Refuse(t) /\ UNCHANGED conn
     \/ MayWrite /\ Encode(t, "data", TRUE, call[t].name = "WritePrepared", SendFrame)

BeginMessage(t) ==
  /\ Locked(t, {"BeginMessage"})
  /\ \/ ~MayWrite /\ Refuse(t) /\ UNCHANGED conn
     \/ /\ MayWrite
        /\ fragOpen' = TRUE /\ fragFirst' = TRUE
        /\ Return(t, TRUE, {})
        /\ UNCHANGED <<wmu, iomu, closeSent, queue, wire, encoded, calls, failures>>

\* fragment, up to sendFrame; a refused encode ends the message.
WriteFragment(t) ==
  /\ Locked(t, {"WriteChunk", "LastChunk", "EndMessage"})
  /\ \/ ~fragOpen /\ Refuse(t) /\ UNCHANGED conn
     \/ /\ fragOpen /\ closeSent
        /\ fragOpen' = FALSE
        /\ Refuse(t) /\ UNCHANGED <<closeSent, fragFirst>>
     \/ /\ fragOpen /\ ~closeSent
        /\ Encode(t, IF fragFirst THEN "data" ELSE "cont", Final(call[t]), FALSE, SendFrame)

\* The arguments sender.encode lets into a control frame.  A payload too long for
\* one stands for the close codes and reasons it refuses as well.
Fits(c) == c.n <= 125

\* Ping and Pong bypass the queue; only a pong may follow a close.
Control(t) ==
  /\ Locked(t, {"Ping", "Pong"})
  /\ LET op == IF call[t].name = "Ping" THEN "ping" ELSE "pong"
         go == Fits(call[t]) /\ (~closeSent \/ op = "pong")
     IN \/ ~go /\ Refuse(t) /\ UNCHANGED conn
        \/ go /\ Encode(t, op, TRUE, FALSE, "iolock")

\* Close joins the queue; sendClose, the close of a protocol failure, does not.
Close(t) ==
  /\ Locked(t, {"Close", "sendClose"})
  /\ LET go == Fits(call[t]) /\ ~closeSent
     IN \/ ~go /\ Refuse(t) /\ UNCHANGED conn
        \/ go /\ Encode(t, "close", TRUE, FALSE, IF call[t].name = "Close" THEN SendFrame ELSE "iolock")

\* endFragmented, after a final fragment or a failed one.
EndFragment(t, ok) ==
  /\ fragOpen' = (fragOpen /\ (Fragment(call[t]) => ok /\ ~Final(call[t])))
  /\ fragFirst' = (fragFirst /\ ~(Fragment(call[t]) /\ ok))
  /\ UNCHANGED closeSent
-----------------------------------------------------------------------------
\* The queue and the transport.

\* enqueue's own test of q.err, made again because q.mu was released.
Accepts_M == TRUE
Accepts == ~err

\* go q.start(), unless a writer is there already.
StartWriter_M == UNCHANGED run
StartWriter_M2 == \E r \in Runners : run[r] = "none" /\ run' = [run EXCEPT ![r] = "top"]
StartWriter ==
  IF running THEN UNCHANGED run
  ELSE \E r \in Runners : run[r] = "none" /\ run' = [run EXCEPT ![r] = "top"]

\* Queue.enqueue, then the unlock of wmu.
Enqueue(t) ==
  /\ pc[t] = "enqueue"
  /\ wmu' = NoOne
  /\ EndFragment(t, Accepts)
  /\ \/ /\ ~Accepts
        /\ Return(t, FALSE, {})
        /\ UNCHANGED queue
     \/ /\ Accepts
        /\ segments' = Append(segments, frame[t])
        /\ cur' = (cur \/ ~frame[t].ext)
        /\ size' = size + frame[t].len
        /\ enqueued' = enqueued + 1
        /\ accepted' = accepted \cup {frame[t].id}
        /\ running' = TRUE
        /\ StartWriter
        /\ IF Sync(call[t])
           THEN /\ pc' = [pc EXCEPT ![t] = "await"]
                /\ seq' = [seq EXCEPT ![t] = enqueued + 1]
                /\ frame' = [frame EXCEPT ![t] = NoFrame]
                /\ UNCHANGED <<call, rest, due, acked>>
           ELSE Return(t, TRUE, {})
        /\ UNCHANGED <<hasQueue, limit, err, written, flushSegments, flushing>>
  /\ UNCHANGED <<iomu, wire, encoded, calls, failures>>

\* What waitLocked returns when its loop ends.
WaitResult_M == TRUE
WaitResult == ~err

\* await and waitLocked: one evaluation of the loop's condition under q.mu.
Await(t) ==
  /\ pc[t] = "await"
  /\ \/ /\ written < seq[t] /\ ~err
        /\ pc' = [pc EXCEPT ![t] = "asleep"]
        /\ UNCHANGED <<call, frame, seq, rest, due, acked>>
     \/ /\ written >= seq[t] \/ err
        /\ Return(t, WaitResult, due[t])
  /\ UNCHANGED <<wmu, iomu, conn, queue, wire, encoded, calls, failures>>

\* Conn.write: the transport lock, taken with wmu held.
IoLock(t) ==
  /\ pc[t] = "iolock" /\ iomu = NoOne
  /\ iomu' = t
  /\ pc' = [pc EXCEPT ![t] = "io"]
  /\ UNCHANGED <<wmu, conn, queue, call, frame, seq, rest, due, acked, wire, encoded, calls, failures>>

\* What a failed write of fs may leave behind: whole frames, then perhaps a torn one.
Leftovers(fs) ==
  {SubSeq(fs, 1, k) : k \in 0..(Len(fs) - 1)} \cup
  {Append(SubSeq(fs, 1, k), [fs[k + 1] EXCEPT !.op = "torn"]) : k \in 0..(Len(fs) - 1)}

\* conn.Write returns: everything was taken, or an error and a part of it.
Transport(fs, ok) ==
  \/ /\ ok
     /\ wire' = wire \o fs
     /\ UNCHANGED failures
  \/ /\ ~ok /\ failures < MaxFailures
     /\ failures' = failures + 1
     /\ \E part \in Leftovers(fs) : wire' = wire \o part

IoDone(t) ==
  /\ pc[t] = "io"
  /\ \E ok \in BOOLEAN :
       /\ Transport(<<frame[t]>>, ok)
       /\ EndFragment(t, ok)
       /\ Return(t, ok, due[t])
  /\ iomu' = NoOne /\ wmu' = NoOne
  /\ UNCHANGED <<queue, encoded, calls>>
-----------------------------------------------------------------------------
\* Queue.run: one iteration is top -> iolock -> io -> wrote or failed -> top.

\* cond.Broadcast.
Broadcast_M == UNCHANGED pc
Broadcast == pc' = [t \in Writers |-> IF pc[t] = "asleep" THEN "await" ELSE pc[t]]

RunExit(r) ==
  /\ run[r] = "top"
  /\ segments = <<>> \/ err
  /\ running' = FALSE
  /\ run' = [run EXCEPT ![r] = "none"]
  /\ Broadcast
  /\ UNCHANGED <<wmu, iomu, conn, hasQueue, limit, segments, size, err, enqueued, written,
                 flushSegments, cur, flushing, accepted, call, frame, seq, rest, due, acked,
                 wire, encoded, calls, failures>>

\* The arenas change hands: the producers' becomes the writer's.
SwapArena_M == flushing' = flushing /\ cur' = FALSE
SwapArena == flushing' = cur /\ cur' = FALSE

\* The writer takes the producers' storage, leaving them fresh storage.
RunTake(r) ==
  /\ run[r] = "top"
  /\ segments # <<>> /\ ~err
  /\ flushSegments' = segments /\ segments' = <<>>
  /\ SwapArena
  /\ size' = 0
  /\ run' = [run EXCEPT ![r] = "iolock"]
  /\ UNCHANGED <<wmu, iomu, conn, hasQueue, limit, running, err, enqueued, written, accepted,
                 locals, wire, encoded, calls, failures>>

FlushLock(r) ==
  /\ run[r] = "iolock" /\ iomu = NoOne
  /\ iomu' = r
  /\ run' = [run EXCEPT ![r] = "io"]
  /\ UNCHANGED <<wmu, conn, hasQueue, limit, segments, size, running, err, enqueued, written,
                 flushSegments, cur, flushing, accepted, locals, wire, encoded, calls, failures>>

\* Queue.flush: one transport write of everything taken.
Flush(r) ==
  /\ run[r] = "io"
  /\ \E ok \in BOOLEAN :
       /\ Transport(flushSegments, ok)
       /\ run' = [run EXCEPT ![r] = IF ok THEN "wrote" ELSE "failed"]
  /\ iomu' = NoOne
  /\ UNCHANGED <<wmu, conn, hasQueue, limit, segments, size, running, err, enqueued, written,
                 flushSegments, cur, flushing, accepted, locals, encoded, calls>>

\* The sequence number reached by a flush, whether or not it succeeded.
Flushed_M == written + 1
Flushed == written + Len(flushSegments)

\* The bytes that still count against the limit after a flush.
SizeAfter_M(failed) == size - Len(flushSegments)
SizeAfter(failed) == IF failed THEN 0 ELSE size

\* The bookkeeping after a flush; a failed one is the queue's last.
RunAfter(r) ==
  /\ run[r] \in {"wrote", "failed"}
  /\ LET failed == run[r] = "failed"
     IN /\ err' = (err \/ failed)
        /\ segments' = IF failed THEN <<>> ELSE segments
        /\ size' = SizeAfter(failed)
        /\ running' = (running /\ ~failed)
        /\ run' = [run EXCEPT ![r] = IF failed THEN "none" ELSE "top"]
  /\ written' = Flushed
  /\ flushSegments' = <<>> /\ flushing' = FALSE
  /\ Broadcast
  /\ UNCHANGED <<wmu, iomu, conn, hasQueue, limit, enqueued, cur, accepted,
                 call, frame, seq, rest, due, acked, wire, encoded, calls, failures>>

\* Nothing is in progress and nobody calls: the connection is idle.
Idle ==
  /\ \A t \in Writers : pc[t] = "idle"
  /\ \A r \in Runners : run[r] = "none"
  /\ UNCHANGED vars

Start(t) == \E c \in Ops : Call(t, c) \/ Wait(t, c) \/ WriteFrom(t, c)
UnderWmu(t) == NewQueue(t) \/ Send(t) \/ Write(t) \/ BeginMessage(t) \/ WriteFragment(t)
               \/ Control(t) \/ Close(t)
Internal(t) == Enqueue(t) \/ Await(t) \/ IoLock(t)
RunStep(r) == RunExit(r) \/ RunTake(r) \/ FlushLock(r) \/ RunAfter(r)

Next ==
  \/ \E t \in Writers : Start(t) \/ ReadAhead(t) \/ UnderWmu(t) \/ Internal(t) \/ IoDone(t)
  \/ \E r \in Runners : RunStep(r) \/ Flush(r)
  \/ Idle

Spec == Init /\ [][Next]_vars
-----------------------------------------------------------------------------
\* Properties.

TypeOK ==
  /\ wmu \in Writers \cup {NoOne} /\ iomu \in Writers \cup Runners \cup {NoOne}
  /\ closeSent \in BOOLEAN /\ fragOpen \in BOOLEAN /\ fragFirst \in BOOLEAN
  /\ hasQueue \in BOOLEAN /\ limit \in Nat /\ size \in Nat
  /\ segments \in Seq(Frames) /\ flushSegments \in Seq(Frames)
  /\ running \in BOOLEAN /\ err \in BOOLEAN /\ enqueued \in Nat /\ written \in Nat
  /\ cur \in BOOLEAN /\ flushing \in BOOLEAN
  /\ run \in [Runners -> {"none", "top", "iolock", "io", "wrote", "failed"}]
  /\ pc \in [Writers -> {"idle", "from", "lock", "enqueue", "await", "asleep", "iolock", "io"}]
  /\ call \in [Writers -> Calls] /\ frame \in [Writers -> Frames]
  /\ seq \in [Writers -> Nat] /\ rest \in [Writers -> {"none", "loop", "last"}]
  /\ due \in [Writers -> SUBSET Nat] /\ acked \in SUBSET Nat /\ accepted \in SUBSET Nat
  /\ wire \in Seq(Frames) /\ encoded \in Nat
  /\ calls \in Nat /\ failures \in Nat

\* queue.go:12 "a goroutine that runs only while the queue is nonempty": enqueue
\* starts one only when none runs, so flushSegments never has two owners.
OneWriter ==
  /\ \A r, s \in Runners : run[r] # "none" /\ run[s] # "none" => r = s
  /\ running <=> \E r \in Runners : run[r] # "none"

\* The ids of the frames that went whole to the transport.
OnWire == {wire[i].id : i \in {j \in DOMAIN wire : wire[j].op # "torn"}}

Ordered(f) == f.op \in {"data", "cont"}

\* queue.go:190 "enqueue order [is] the encode order", and what reaches the
\* transport is in that order too, across both locks, the swap and any mix of
\* direct and queued writes: the compressed stream depends on it.
WireInEncodeOrder ==
  \A i, j \in DOMAIN wire : i < j /\ Ordered(wire[i]) /\ Ordered(wire[j]) => wire[i].id < wire[j].id

\* conn_write.go:242 "nothing queued is lost or follows the close" (instances
\* without sendClose): behind a close frame only pongs reach the transport,
\* though producers, the writer and a pending Close overlap.
CloseIsLast ==
  \A i, j \in DOMAIN wire : i < j /\ wire[i].op = "close" => wire[j].op \in {"pong", "torn"}

\* queue.go:17 "return when those frames have been written", queue.go:164: a nil
\* from a synchronous write, Close or Wait means the transport took every frame
\* the call stands for, though `written` also counts the frames of failed flushes.
NilMeansWritten == acked \subseteq OnWire

\* BeginMessage's contract (conn_write.go:138-141): on the wire a continuation
\* continues the message before it and nothing else breaks into a message, with
\* any number of goroutines sending whole messages and fragments.  It is claimed
\* up to a failed direct write, which ends the message on this side only.
MessagesWhole ==
  failures = (IF err THEN 1 ELSE 0) =>
    \A j \in DOMAIN wire : Ordered(wire[j]) =>
      (wire[j].op = "cont" <=>
         \E i \in 1..(j - 1) : /\ Ordered(wire[i]) /\ ~wire[i].fin
                               /\ \A k \in (i + 1)..(j - 1) : ~Ordered(wire[k]))

\* queue.go:116-117, 171-174: the limit is checked before encoding and the frame
\* is appended in a later critical section of q.mu; the check still holds there.
ReservationHolds ==
  \A t \in Writers : pc[t] = "enqueue" /\ ~Sync(call[t]) => err \/ size = 0 \/ size + call[t].n <= limit

\* The sequence numbers await relies on: every frame enqueued is written, being
\* flushed or queued, and `size # 0` is the same as "nonempty" (queue.go:181).
Accounting ==
  /\ ~err => enqueued = written + Len(flushSegments) + Len(segments)
  /\ size = 0 <=> segments = <<>>

\* No lost wakeup (queue.go:218-242): a nonempty queue has a writer, and so has
\* a sleeping waiter, because each later step of that writer ends in Broadcast.
WriterWhenNeeded ==
  (segments # <<>> \/ \E t \in Writers : pc[t] = "asleep") => running

\* flush indexes q.flushing.b for every frame that was copied in (queue.go:307,
\* 319, 345): the arena is there for as long as such a frame is.
ArenaWhileNeeded ==
  /\ (\E i \in DOMAIN segments : ~segments[i].ext) => cur
  /\ (\E i \in DOMAIN flushSegments : ~flushSegments[i].ext) => flushing

\* queue.go:150 "the first write error, after which every Send fails with it":
\* on a failed queue nothing is accepted and no message frame is written again.
FailedQueueIsQuiet ==
  [][err => /\ accepted' = accepted
            /\ \A i \in DOMAIN wire' \ DOMAIN wire : ~Ordered(wire'[i])]_vars

\* The connection implements Outbox (instances without sendClose).
failedBar == err \/ \E r \in Runners : run[r] = "failed"
beingFlushed == IF \E r \in Runners : run[r] \in {"iolock", "io"} THEN flushSegments ELSE <<>>
pendingBar == IF failedBar THEN <<>> ELSE beingFlushed \o segments

Abstract == INSTANCE Outbox WITH
  Stream <- {f \in Frames : f.op \in {"data", "cont", "close"}},
  Other <- {f \in Frames : f.op \in {"ping", "pong", "torn"}},
  pending <- pendingBar, out <- wire, failed <- failedBar

ImplementsOutbox == Abstract!Spec
-----------------------------------------------------------------------------
\* Liveness.

\* Goroutines are scheduled, and sync.Mutex hands itself to a waiter that has
\* waited long enough, so the steps that take a lock are strongly fair.  The
\* application owes no further call and WriteFrom's reader no further chunk.
Scheduling ==
  /\ \A t \in Writers : SF_vars(UnderWmu(t)) /\ WF_vars(Enqueue(t)) /\ WF_vars(Await(t)) /\ SF_vars(IoLock(t))
  /\ \A r \in Runners : WF_vars(RunExit(r) \/ RunTake(r) \/ RunAfter(r)) /\ SF_vars(FlushLock(r))

\* The peer keeps reading or the transport's deadline expires: writes return.
TransportReturns ==
  /\ \A t \in Writers : WF_vars(IoDone(t))
  /\ \A r \in Runners : WF_vars(Flush(r))

\* A peer that may stop reading for ever: a transport write need not return.
SlowPeerSpec == Spec /\ Scheduling

\* Every call returns, provided that transport writes do.
CallsReturn ==
  TransportReturns => \A t \in Writers : pc[t] \notin {"idle", "from"} ~> pc[t] \in {"idle", "from"}

\* queue.go:12-14: what was accepted is written, unless the queue fails.
AcceptedIsWritten ==
  TransportReturns =>
    \A id \in 1..(MaxCalls + Cardinality(Writers)) : id \in accepted ~> (id \in OnWire \/ err)

\* queue.go:73-75 "a slow peer cannot stall the sender", as far as the locks give
\* it: however slow the peer, Send and SendPrepared return unless some
\* goroutine is inside a direct write, which keeps wmu while it waits.
StallsOnlyBehindDirectWrite ==
  \A t \in Writers : (pc[t] = "lock" /\ ~Sync(call[t])) ~>
                       (pc[t] = "idle" \/ \E u \in Writers : pc[u] \in {"iolock", "io"})
=============================================================================
