------------------------------- MODULE Session -------------------------------
(***************************************************************************)
(* What is built on the read side of a Conn (ReadPath) and shares the      *)
(* connection with a writer: the net.Conn view (ws/netconn.go), and the    *)
(* event layer (events/events.go) over the serve loop (ws/serve.go).       *)
(*                                                                         *)
(* A behaviour has one host, a NetConn or an event handler, whose read     *)
(* goroutine makes the calls of ReadPath.  Another goroutine may be in     *)
(* Conn.Write, which holds wmu until the peer has taken the frame, and a   *)
(* third may call NetConn.Close.  The reading goroutine needs wmu as well: *)
(* for a pong, the echo of a close and the close of a failure.             *)
(***************************************************************************)
EXTENDS ReadPath, FiniteSets

CONSTANTS
  Hosts,      \* "netconn", "events".
  CloseCodes, \* What the peer's close frame may carry: "normal" (1000, 1001), "nostatus", "other".
  MaxReads,   \* Bound: calls of NetConn.Read.
  MaxWrites,  \* Bound: calls of Conn.Write.
  Closers     \* Whether somebody may call NetConn.Close.

ASSUME SessionAssumption ==
  /\ Hosts \subseteq {"netconn", "events"} /\ CloseCodes \subseteq {"normal", "nostatus", "other"}
  /\ MaxReads \in Nat /\ MaxWrites \in Nat /\ Closers \subseteq BOOLEAN
  /\ {"NextMessage", "Read", "ReadMessage"} \subseteq Calls

VARIABLES
  host, code,       \* The host; the code of the peer's close frame.
  other,            \* First frames of the messages of the other data type.
  quiet,            \* The peer stays silent behind its stream rather than leave.
  pc,               \* Where the host's read goroutine is.
  inMsg, err, ret,  \* netConn.inMsg, netConn.err; what the last NetConn.Read returned.
  plen,             \* len(p) of the NetConn.Read in progress.
  events, cause,    \* The handler's events; what serve returned.
  wmu, closeSent,   \* Who holds Conn.wmu; sender.closeSent.
  closer,           \* Where NetConn.Close is.
  tclosed,          \* The transport was closed on this side.
  reads, writes

setup == <<host, code, other, quiet>>
netconn == <<inMsg, err, ret, plen>>
handler == <<events, cause>>
locks == <<wmu, closeSent, closer, tclosed>>
session == <<setup, pc, netconn, handler, locks, reads, writes>>
all == <<vars, session>>

SessionInit ==
  /\ Init
  /\ host \in Hosts
  \* Each is chosen where it makes a difference.
  /\ code \in {c \in CloseCodes : c = "normal" \/ \E i \in DOMAIN stream : stream[i].op = "close"}
  /\ quiet \in (IF host = "netconn" THEN BOOLEAN ELSE {FALSE})
  /\ other \in {{}} \cup {{i} : i \in {j \in DOMAIN stream : stream[j].op = "data" /\ host = "netconn"}}
  /\ pc = IF host = "events" THEN "open" ELSE "out"
  /\ inMsg = FALSE /\ err = "none" /\ ret = "none" /\ plen = 0
  /\ events = <<>> /\ cause = "none"
  /\ wmu = "free" /\ closeSent = FALSE /\ closer = "no" /\ tclosed = FALSE
  /\ reads = 0 /\ writes = 0
-----------------------------------------------------------------------------
\* The calls on the Conn, and the transport under them.

ConnCall(name) ==
  /\ \/ name # "Read" /\ NextMessage(name) /\ result' = "none"
     \/ name = "Read" /\ Read /\ size' = plen /\ result' = "none"
     \* The Conn has failed, or Read finds no message open and returns io.EOF.
     \/ /\ mode = "idle" /\ (~Healthy \/ (name = "Read" /\ ~inMessage))
        /\ result' = "refused"
        /\ UNCHANGED <<reader, flags, inflater, log>>
  /\ UNCHANGED <<transport, rx, controls, calls, timeouts>>

\* A transport read after the transport was closed on this side.
ReadClosed ==
  /\ NeedInput /\ Return("netclosed") /\ Interrupted
  /\ log' = IF got = <<>> THEN log ELSE [log EXCEPT ![Len(log)].cut = TRUE]
  /\ UNCHANGED <<transport, rx, want, whole, size, inflater, controls, calls, timeouts>>

ConnStep ==
  \/ DecodeHeader \/ ControlPayload \/ TakeBuffered \/ InflateBegin \/ InflateOut \/ FrameDone
  \/ ~tclosed /\ (Fill \/ ReadDirect)
  \/ ~tclosed /\ ReadError /\ (quiet => timeouts' # timeouts)
  \/ tclosed /\ ReadClosed

\* What the call in progress returned.
Returned == IF result = "refused" THEN readErr ELSE result

\* The step writes a frame: a pong, the echo of a close, the close of a failure.
Answers ==
  \/ controls' # controls
  \/ readErr' # readErr /\ readErr' \in {"protocol", "toolarge"}
Closes == Answers /\ readErr' \in {"closed", "protocol", "toolarge"}

\* A step of the Conn inside a call of the host.  A ping is an event of the
\* handler, which may panic out of the call.
Reading ==
  /\ pc \in {"nexting", "reading"}
  /\ ConnStep
  /\ Answers => wmu = "free"
  /\ closeSent' = (closeSent \/ Closes)
  /\ \/ /\ pc' = pc
        /\ events' = IF host = "events" /\ controls' # controls /\ readErr' # "closed"
                     THEN Append(events, [kind |-> "ping", at |-> Len(controls')]) ELSE events
        /\ UNCHANGED cause
     \/ /\ host = "events" /\ controls' # controls /\ readErr' = "none"
        /\ events' = Append(events, [kind |-> "ping", at |-> Len(controls')])
        /\ cause' = "panic" /\ pc' = "closing"
  /\ UNCHANGED <<setup, netconn, wmu, closer, tclosed, reads, writes>>
-----------------------------------------------------------------------------
\* netConn.Read.

NetRead ==
  /\ host = "netconn" /\ pc = "out" /\ reads < MaxReads
  /\ reads' = reads + 1
  /\ \/ /\ err # "none"
        /\ ret' = err
        /\ UNCHANGED <<pc, plen>>
     \/ /\ err = "none"
        /\ plen' \in ReadSizes
        /\ pc' = IF inMsg THEN "read" ELSE "next"
        /\ ret' = "none"
  /\ UNCHANGED <<vars, setup, inMsg, err, handler, locks, writes>>

ReadErr_M(e) ==
  LET mapped == IF e = "closed" /\ code \in {"normal", "nostatus"} THEN "EOF" ELSE e
  IN /\ err' = IF e \in {"closed", "protocol", "toolarge"} THEN mapped ELSE err
     /\ ret' = mapped
     /\ inMsg' = FALSE
ReadErr_M2(e) ==
  LET mapped == IF e = "closed" THEN "EOF" ELSE e
  IN /\ err' = IF e \in {"closed", "protocol", "toolarge"} THEN mapped ELSE err
     /\ ret' = mapped
     /\ UNCHANGED inMsg
\* netConn.readErr.
ReadErr(e) ==
  LET mapped == IF e = "closed" /\ code \in {"normal", "nostatus"} THEN "EOF" ELSE e
  IN /\ err' = IF e \in {"closed", "protocol", "toolarge"} THEN mapped ELSE err
     /\ ret' = mapped
     /\ UNCHANGED inMsg

\* A transport that ends between messages reads as io.EOF too.
NetReturns ==
  /\ host = "netconn" /\ mode = "idle"
  /\ \/ /\ pc = "nexting" /\ Returned = "message" /\ header \notin other
        /\ inMsg' = TRUE /\ pc' = "read"
        /\ UNCHANGED <<err, ret, closeSent>>
     \/ /\ pc = "nexting" /\ Returned = "message" /\ header \in other
        /\ wmu = "free" /\ closeSent' = TRUE
        /\ err' = "wrongtype" /\ ret' = "wrongtype" /\ pc' = "out"
        /\ UNCHANGED inMsg
     \/ /\ pc = "reading" /\ Returned = "data"
        /\ ret' = "data" /\ pc' = "out"
        /\ UNCHANGED <<inMsg, err, closeSent>>
     \/ /\ pc = "reading" /\ Returned \in {"end", "none"}
        /\ inMsg' = FALSE /\ pc' = "next"
        /\ UNCHANGED <<err, ret, closeSent>>
     \/ /\ Returned \notin {"message", "data", "end", "none"}
        /\ ReadErr(Returned) /\ pc' = "out"
        /\ UNCHANGED closeSent
  /\ UNCHANGED <<vars, setup, plen, handler, wmu, closer, tclosed, reads, writes>>

\* Conn.NextMessage and Conn.Read from netConn.Read, Conn.ReadMessage from Serve.
HostCalls ==
  /\ \/ pc = "next" /\ pc' = "nexting"
        /\ ConnCall(IF host = "events" THEN "ReadMessage" ELSE "NextMessage")
     \/ pc = "read" /\ pc' = "reading" /\ ConnCall("Read")
  /\ UNCHANGED <<setup, netconn, handler, locks, reads, writes>>
-----------------------------------------------------------------------------
\* events.run, serve, and ws.Serve below it.

Event(kind, at) == events' = Append(events, [kind |-> kind, at |-> at])

OnOpen ==
  /\ pc = "open"
  /\ Event("open", 0)
  /\ \/ pc' = "next" /\ UNCHANGED cause
     \/ pc' = "closing" /\ cause' = "panic"
  /\ UNCHANGED <<vars, setup, netconn, locks, reads, writes>>

\* ReadMessage returned to Serve; OnMessage may fail or panic.
Served ==
  /\ host = "events" /\ pc = "nexting" /\ mode = "idle"
  /\ \/ /\ Returned = "message"
        /\ Event("message", log[Len(log)].first)
        /\ \/ pc' = "next" /\ UNCHANGED cause
           \/ pc' = "closing" /\ cause' \in {"failed", "panic"}
     \/ /\ Returned # "message"
        /\ cause' = Returned /\ pc' = "closing"
        /\ UNCHANGED events
  /\ UNCHANGED <<vars, setup, netconn, locks, reads, writes>>

OnClose_M ==
  /\ pc = "closing"
  /\ Event("close", 0)
  /\ pc' = IF cause = "panic" /\ events[Len(events)].kind # "close" THEN "closing" ELSE "closed"
  /\ UNCHANGED <<vars, setup, netconn, cause, locks, reads, writes>>
OnClose ==
  /\ pc = "closing"
  /\ Event("close", 0)
  /\ pc' = "closed"
  /\ UNCHANGED <<vars, setup, netconn, cause, locks, reads, writes>>

\* The deferred Close of whoever called run.
Leave ==
  /\ pc = "closed" /\ pc' = "done"
  /\ tclosed' = TRUE
  /\ UNCHANGED <<vars, setup, netconn, handler, wmu, closeSent, closer, reads, writes>>
-----------------------------------------------------------------------------
\* The other goroutines.

Write ==
  /\ writes < MaxWrites /\ wmu = "free" /\ ~closeSent
  /\ wmu' = "writer" /\ writes' = writes + 1
  /\ UNCHANGED <<vars, setup, pc, netconn, handler, closeSent, closer, tclosed, reads>>

\* The transport took the frame, or failed.
WriteDone ==
  /\ wmu # "free" /\ wmu' = "free"
  /\ closer' = IF wmu = "closer" THEN "sent" ELSE closer
  /\ UNCHANGED <<vars, setup, pc, netconn, handler, closeSent, tclosed, reads, writes>>

\* netConn.Close: the close frame, then the transport.
NetClose ==
  /\ host = "netconn" /\ closer = "no" /\ TRUE \in Closers
  /\ closer' = "called"
  /\ UNCHANGED <<vars, setup, pc, netconn, handler, wmu, closeSent, tclosed, reads, writes>>

CloseFrame_M ==
  /\ closer = "called" /\ wmu = "free"
  /\ \/ closeSent /\ closer' = "done" /\ UNCHANGED <<wmu, closeSent>>
     \/ ~closeSent /\ closer' = "writing" /\ wmu' = "closer" /\ closeSent' = TRUE
  /\ UNCHANGED <<vars, setup, pc, netconn, handler, tclosed, reads, writes>>
CloseFrame ==
  /\ closer = "called" /\ wmu = "free"
  /\ \/ closeSent /\ closer' = "sent" /\ UNCHANGED <<wmu, closeSent>>
     \/ ~closeSent /\ closer' = "writing" /\ wmu' = "closer" /\ closeSent' = TRUE
  /\ UNCHANGED <<vars, setup, pc, netconn, handler, tclosed, reads, writes>>

CloseTransport ==
  /\ closer = "sent" /\ closer' = "done" /\ tclosed' = TRUE
  /\ UNCHANGED <<vars, setup, pc, netconn, handler, wmu, closeSent, reads, writes>>

Rest == pc \in {"out", "done"} /\ UNCHANGED all

HostStep == Reading \/ HostCalls \/ NetReturns \/ OnOpen \/ Served \/ OnClose \/ Leave
Closing == CloseFrame \/ CloseTransport

SessionNext == NetRead \/ HostStep \/ Write \/ WriteDone \/ NetClose \/ Closing \/ Rest

SessionSpec ==
  SessionInit /\ [][SessionNext]_all /\ WF_all(HostStep) /\ WF_all(Closing)

\* The peer goes on reading, so a transport write returns.
FairSession == SessionSpec /\ WF_all(WriteDone)
-----------------------------------------------------------------------------
\* Properties.

\* The payload the peer sent in the first n frames; that of the messages complete
\* in them; and what the application has of it.
Indices == [i \in DOMAIN stream |-> i]
SentIn(n) ==
  FoldLeft(LAMBDA acc, i : IF i <= n /\ ~IsControl(stream[i])
                           THEN acc \o [k \in 1..stream[i].len |-> <<i, k>>] ELSE acc, <<>>, Indices)
CompleteIn(n) ==
  SentIn(FoldLeft(LAMBDA m, i : IF i <= n /\ ~IsControl(stream[i]) /\ stream[i].fin THEN i ELSE m, 0, Indices))
Tunnelled == FoldLeft(LAMBDA acc, entry : acc \o entry.units, <<>>, log)

\* netconn.go:16-17 "Read delivers message payloads in order, continuing into the
\* next message as one ends": the bytes of a NetConn are those of the peer's
\* messages, none skipped or repeated and none of the other data type, over empty
\* messages, fragments, controls, timeouts and a concurrent Close.
TunnelExact ==
  host = "netconn" =>
    /\ IsPrefix(Tunnelled, SentIn(Len(stream)))
    /\ \A i \in DOMAIN log : log[i].first \in other => i = Len(log) /\ log[i].units = <<>>

\* netconn.go:19-20 "A peer close with code 1000 or 1001 reads as io.EOF; any
\* other close code is returned": io.EOF is the end of the tunnelled stream.  No
\* complete message before it is missing, and an abnormal close, a failure or an
\* end inside a message is never taken for it.
EofIsTheEnd ==
  (host = "netconn" /\ ret \in {"EOF", "eof"}) =>
    /\ IsPrefix(CompleteIn(next - 1), Tunnelled)
    /\ ret = "EOF" => closeReceived /\ code # "other"
    /\ ret = "eof" => Tunnelled = SentIn(next - 1) /\ left = 0 /\ buffered = 0

\* The events the first n frames of the peer call for.
Expected(n) ==
  FoldLeft(LAMBDA acc, i :
             CASE stream[i].op = "ping" ->
                    Append(acc, [kind |-> "ping", at |-> Cardinality({j \in 1..i : stream[j].op = "ping"})])
               [] stream[i].op \in {"data", "cont"} /\ stream[i].fin -> Append(acc, [kind |-> "message", at |-> FirstOf(i)])
               [] OTHER -> acc,
           <<>>, SubSeq(Indices, 1, n))

\* events.go:27-30: the events of a connection are OnOpen, then one per message
\* and ping of the peer in the order they were completed, then OnClose once; a
\* handler that failed or panicked gets nothing more but OnClose; and a peer's
\* close, or its leaving between messages, is reported behind everything it sent
\* up to then, the leaving only when there is nothing left to read.
EventsExact ==
  LET over == events # <<>> /\ events[Len(events)].kind = "close"
      body == SelectSeq(events, LAMBDA e : e.kind \in {"ping", "message"})
  IN host = "events" =>
       /\ Len(events) = Len(body) + (IF pc = "open" THEN 0 ELSE 1) + (IF over THEN 1 ELSE 0)
       /\ events # <<>> => events[1].kind = "open"
       /\ over <=> pc \in {"closed", "done"}
       /\ IsPrefix(body, Expected(Len(stream)))
       /\ over /\ cause \in {"closed", "eof"} => body = Expected(next - 1)
       /\ over /\ cause = "eof" => left = 0 /\ buffered = 0
       /\ cause # "none" => pc \in {"closing", "closed", "done"}

\* Whatever ends it, the handler gets its OnClose and the transport is closed;
\* and netConn.Close closes the transport and makes a blocked Read return, also
\* when the peer is silent.
SessionEnds ==
  /\ host = "events" ~> pc = "done"
  /\ closer = "called" ~> (tclosed /\ pc = "out")
=============================================================================
