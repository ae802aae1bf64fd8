------------------------------ MODULE Connect ------------------------------
(***************************************************************************)
(* Opening a connection (transport/): Dial on the client, Server.Serve,    *)
(* serve and Close or Upgrade on the server, over one socket pair, with    *)
(* the handshake of module Handshake.  Either end may be foreign: another  *)
(* implementation that follows the protocol.                               *)
(***************************************************************************)
EXTENDS Handshake, SequencesExt

CONSTANTS
  Setups,      \* Who the two ends are, how they are configured, and, to bound a run,
               \* the Serve calls made (calls), whether listeners fail or close (stops)
               \* and how many frames each end sends (frames).
  Loops,       \* Calls of Server.Serve.
  ListenerOf,  \* The listener each call is given.
  Target,      \* The listener the client connects to.
  NoMessage,   \* No request or response sent yet.
  ReadSizes,   \* Lengths of the buffers Read is called with.
  MaxFrames,   \* Bound: frames each end sends in any setup.
  MaxRetries   \* Bound: transient accept failures.

\* A foreign server that was asked not to take over its context says that it does not.
ASSUME SetupsAssumption ==
  \A s \in Setups :
    /\ IF s.server = "foreign" THEN "extensions" \in DOMAIN s.response ELSE DOMAIN s.sopts.protocols \subseteq Nat
    /\ (s.client # "dial" /\ s.request.extensions # Malformed) => DOMAIN s.request.extensions \subseteq Nat
    /\ (s.client = "dial" /\ s.copts.compression # NoCompression) =>
         /\ s.copts.compression.takeover \in BOOLEAN
         /\ (s.server = "foreign" /\ ~s.copts.compression.takeover /\ s.response.extensions \notin {Malformed, <<>>}) =>
              ParseDeflate(s.response.extensions[1]).serverNoContextTakeover

ASSUME SizesAssumption == ReadSizes \subseteq Nat

VARIABLES
  setup,
  \* Dial: its place, its error, its result; its context and the AfterFunc on it;
  \* the deadline on its socket.
  dial, ctxDone, watcher, clientDeadline,
  \* The socket pair: which ends are open, the head each way.
  open, request, response,
  \* What each end has yet to read: in its bufio.Reader, in the socket; whether the
  \* connection is a bufferedConn; what was read, and the frames sent to it.
  rd,
  \* The server's connection: its place, its result, its deadline.
  srv, serverDeadline,
  \* Server: its flag, its listeners, the Serve calls and their results, the
  \* listeners still open, the transient failures so far.
  closed, listeners, loop, lnOpen, retries

dialVars == <<dial, ctxDone, watcher, clientDeadline>>
srvVars == <<srv, serverDeadline>>
loopVars == <<closed, listeners, loop, lnOpen, retries>>
wireVars == <<open, request, response, rd>>
vars == <<setup, dialVars, wireVars, srvVars, loopVars>>

Ends == {"client", "server"}
Listeners == {ListenerOf[l] : l \in Loops}
NoResult == [compression |-> NoCompression, protocol |-> ""]
Dials == setup.client = "dial"
\* What readRequest makes of a head that arrives whole.
Heads == {"ok", "large", "bad"}

Init ==
  /\ setup \in Setups
  /\ dial = [pc |-> IF setup.client = "dial" THEN "start" ELSE "foreign", err |-> "none", res |-> NoResult]
  /\ ctxDone = FALSE /\ watcher = "off" /\ clientDeadline = "none"
  /\ open = [e \in Ends |-> FALSE]
  /\ request = NoMessage /\ response = NoMessage
  /\ rd = [e \in Ends |-> [buf |-> <<>>, sock |-> <<>>, wrapped |-> FALSE, got |-> <<>>, sent |-> 0]]
  /\ srv = [pc |-> IF setup.server = "foreign" THEN "foreign" ELSE "none", res |-> NoResult]
  /\ serverDeadline = "none"
  /\ closed = FALSE /\ listeners = {} /\ loop = [l \in Loops |-> "new"]
  /\ lnOpen = Listeners /\ retries = 0

\* What a bufio.Reader holds behind the head it has just read: any prefix of what
\* the peer has sent so far.
Fill(e) ==
  \E n \in 0..Len(rd[e].sock) :
    rd' = [rd EXCEPT ![e].buf = SubSeq(rd[e].sock, 1, n),
                     ![e].sock = SubSeq(rd[e].sock, n + 1, Len(rd[e].sock))]
-----------------------------------------------------------------------------
\* Dial.

\* stop(): an AfterFunc that has started is not stopped.
Stopped(w) == IF w = "armed" THEN "stopped" ELSE w

\* fail, and the deferred stop.
DialFail(err) ==
  /\ dial' = [dial EXCEPT !.pc = "failed", !.err = IF ctxDone THEN "ctx" ELSE err]
  /\ open' = [open EXCEPT !["client"] = FALSE]
  /\ watcher' = Stopped(watcher)
  /\ UNCHANGED <<ctxDone, clientDeadline, request, response, rd, srvVars>>

DialStart ==
  /\ dial.pc = "start"
  /\ dial' = IF setup.copts.valid THEN [dial EXCEPT !.pc = "connect"]
             ELSE [dial EXCEPT !.pc = "failed", !.err = "options"]
  /\ UNCHANGED <<ctxDone, watcher, clientDeadline, wireVars, srvVars>>

\* DialContext fails, or connects and the AfterFunc is registered.
DialRefused ==
  /\ dial.pc = "connect"
  /\ dial' = [dial EXCEPT !.pc = "failed", !.err = "connect"]
  /\ UNCHANGED <<ctxDone, watcher, clientDeadline, wireVars, srvVars>>

Reachable == setup.server = "serve" => Target \in lnOpen
Arrive == srv' = IF srv.pc = "none" THEN [srv EXCEPT !.pc = "backlog"] ELSE srv

DialConnect ==
  /\ dial.pc = "connect" /\ Reachable
  /\ dial' = [dial EXCEPT !.pc = "tls"]
  /\ watcher' = "armed"
  /\ open' = [e \in Ends |-> TRUE]
  /\ Arrive
  /\ UNCHANGED <<ctxDone, clientDeadline, request, response, rd, serverDeadline>>

\* What a failing operation on the socket reports.
SocketError == IF clientDeadline = "past" THEN "timeout" ELSE "io"

DialTLS ==
  /\ dial.pc = "tls"
  /\ \/ /\ dial' = [dial EXCEPT !.pc = "write"]
        /\ UNCHANGED <<ctxDone, watcher, clientDeadline, wireVars, srvVars>>
     \/ DialFail(SocketError)

DialWrite ==
  /\ dial.pc = "write"
  /\ \/ /\ clientDeadline = "none"
        /\ dial' = [dial EXCEPT !.pc = "read"]
        /\ request' = NewRequest(setup.copts, "k1")
        /\ UNCHANGED <<ctxDone, watcher, clientDeadline, open, response, rd, srvVars>>
     \/ /\ clientDeadline = "past" \/ ~open["server"]
        /\ DialFail(SocketError)

DialRead ==
  /\ dial.pc = "read"
  /\ \/ /\ clientDeadline = "none" /\ response # NoMessage
        /\ LET c == Confirm(request, response, setup.copts)
           IN \/ /\ c.err = "none"
                 /\ dial' = [dial EXCEPT !.pc = "stop", !.res = c.res]
                 /\ Fill("client")
                 /\ UNCHANGED <<ctxDone, watcher, clientDeadline, open, request, response, srvVars>>
              \/ c.err # "none" /\ DialFail("handshake")
     \/ /\ clientDeadline = "past" \/ (~open["server"] /\ response = NoMessage)
        /\ DialFail(SocketError)

DialStop ==
  /\ dial.pc = "stop"
  /\ dial' = [dial EXCEPT !.pc = "clear"]
  /\ watcher' = Stopped(watcher)
  /\ UNCHANGED <<ctxDone, clientDeadline, wireVars, srvVars>>

Wrap_M(e) == rd' = [rd EXCEPT ![e].wrapped = Len(rd[e].buf) > 1]
\* A bufferedConn when the bufio.Reader holds anything.
Wrap(e) == rd' = [rd EXCEPT ![e].wrapped = rd[e].buf # <<>>]

DialClear ==
  /\ dial.pc = "clear"
  /\ dial' = [dial EXCEPT !.pc = "ok"]
  /\ clientDeadline' = "none"
  /\ Wrap("client")
  /\ UNCHANGED <<ctxDone, watcher, open, request, response, srvVars>>

CtxEnds ==
  /\ Dials /\ ~ctxDone
  /\ ctxDone' = TRUE
  /\ UNCHANGED <<dial, watcher, clientDeadline, wireVars, srvVars>>

WatcherStarts ==
  /\ watcher = "armed" /\ ctxDone
  /\ watcher' = "started"
  /\ UNCHANGED <<dial, ctxDone, clientDeadline, wireVars, srvVars>>

WatcherFires_M ==
  /\ watcher = "started"
  /\ watcher' = "fired"
  /\ UNCHANGED <<dial, ctxDone, clientDeadline, wireVars, srvVars>>
\* conn.SetDeadline(time.Unix(1, 0)).
WatcherFires ==
  /\ watcher = "started"
  /\ watcher' = "fired"
  /\ clientDeadline' = "past"
  /\ UNCHANGED <<dial, ctxDone, wireVars, srvVars>>

DialStep ==
  \/ DialStart \/ DialRefused \/ DialConnect \/ DialTLS \/ DialWrite
  \/ DialRead \/ DialStop \/ DialClear
-----------------------------------------------------------------------------
\* One connection of Server (serve) or of an http.Handler (Upgrade).

Serves == setup.server = "serve"

Finish == open' = [open EXCEPT !["server"] = FALSE] /\ srv' = [srv EXCEPT !.pc = "closed"]

CloseSilently == Finish /\ UNCHANGED <<serverDeadline, request, response, rd, dialVars>>

\* writeError, or http.Error, and Close; the write may fail, unnoticed.
Refused(status) ==
  /\ Finish
  /\ response' = IF serverDeadline = "expired" THEN response
                 ELSE [status |-> status, upgrade |-> FALSE, accept |-> [of |-> ""], protocol |-> "", extensions |-> <<>>]
  /\ UNCHANGED <<serverDeadline, request, rd, dialVars>>

StatusCode(err) == IF err = "version" THEN 426 ELSE 400

\* readRequest: any network error closes without an answer.
ReadRequest ==
  /\ srv.pc = "head"
  /\ \/ /\ serverDeadline = "set" /\ request # NoMessage
        /\ \/ /\ setup.head = "ok"
              /\ srv' = [srv EXCEPT !.pc = "accept"]
              /\ Fill("server")
              /\ UNCHANGED <<serverDeadline, open, request, response, dialVars>>
           \/ setup.head = "large" /\ Refused(431)
           \/ setup.head = "bad" /\ Refused(400)
     \/ /\ serverDeadline = "expired" \/ (~open["client"] /\ request = NoMessage)
        /\ CloseSilently

\* The Accept hook, which is the user's and may block: the deadline passes it by.
AcceptHook ==
  /\ srv.pc = "accept"
  /\ \/ /\ srv' = [srv EXCEPT !.pc = "negotiate"]
        /\ UNCHANGED <<serverDeadline, wireVars, dialVars>>
     \/ Refused(403)

ServeNegotiate ==
  /\ srv.pc = "negotiate" /\ Serves
  /\ LET n == Negotiate(request, setup.sopts)
     IN \/ /\ n.err = "none"
           /\ srv' = [srv EXCEPT !.pc = "write", !.res = n.res]
           /\ UNCHANGED <<serverDeadline, wireVars, dialVars>>
        \/ n.err # "none" /\ Refused(StatusCode(n.err))

\* Upgrade up to the write: the hijack may fail; the deadlines are cleared first.
UpgradeNegotiate ==
  /\ srv.pc = "negotiate" /\ setup.server = "upgrade"
  /\ LET n == Negotiate(request, setup.sopts)
     IN \/ /\ n.err = "none"
           /\ srv' = [srv EXCEPT !.pc = "write", !.res = n.res]
           /\ serverDeadline' = "none"
           /\ UNCHANGED <<wireVars, dialVars>>
        \/ n.err = "none" /\ Refused(500)
        \/ n.err # "none" /\ Refused(StatusCode(n.err))

WriteResponse ==
  /\ srv.pc = "write"
  /\ \/ /\ serverDeadline # "expired"
        /\ srv' = [srv EXCEPT !.pc = "clear"]
        /\ response' = Negotiate(request, setup.sopts).resp
        /\ UNCHANGED <<serverDeadline, open, request, rd, dialVars>>
     \/ /\ serverDeadline = "expired" \/ ~open["client"]
        /\ CloseSilently

HandOver ==
  /\ srv.pc = "clear"
  /\ srv' = [srv EXCEPT !.pc = "handler"]
  /\ serverDeadline' = "none"
  /\ Wrap("server")
  /\ UNCHANGED <<open, request, response, dialVars>>

HandlerReturns == srv.pc = "handler" /\ CloseSilently

Expirable == srv.pc \in {"head", "accept", "negotiate", "write", "clear"} /\ Serves
DeadlineExpires_M ==
  /\ Expirable /\ serverDeadline = "set" /\ srv.pc # "head"
  /\ serverDeadline' = "expired"
  /\ UNCHANGED <<srv, wireVars, dialVars>>
\* HandshakeTimeout passes.
DeadlineExpires ==
  /\ Expirable /\ serverDeadline = "set"
  /\ serverDeadline' = "expired"
  /\ UNCHANGED <<srv, wireVars, dialVars>>

SrvStep ==
  ReadRequest \/ AcceptHook \/ ServeNegotiate \/ UpgradeNegotiate \/ WriteResponse \/ HandOver
-----------------------------------------------------------------------------
\* Server.Serve and Server.Close.

Serve(l) ==
  /\ Serves /\ l \in setup.calls /\ loop[l] = "new"
  /\ \/ closed /\ loop' = [loop EXCEPT ![l] = "ErrClosed"] /\ UNCHANGED listeners
     \/ /\ ~closed
        /\ loop' = [loop EXCEPT ![l] = "accept"]
        /\ listeners' = listeners \cup {ListenerOf[l]}
  /\ UNCHANGED <<closed, lnOpen, retries, srvVars, wireVars>>

\* Accept returns a connection and its goroutine sets the deadline.
AcceptConn(l) ==
  /\ loop[l] = "accept" /\ ListenerOf[l] = Target /\ Target \in lnOpen
  /\ srv.pc = "backlog"
  /\ srv' = [srv EXCEPT !.pc = "head"]
  /\ serverDeadline' = "set"
  /\ UNCHANGED <<loopVars, wireVars>>

\* A timeout: back off and keep serving.
AcceptTransient(l) ==
  /\ loop[l] = "accept" /\ setup.stops /\ retries < MaxRetries
  /\ retries' = retries + 1
  /\ UNCHANGED <<closed, listeners, loop, lnOpen, srvVars, wireVars>>

\* The listener is closed, or Accept fails for good.
AcceptFails(l) ==
  /\ loop[l] = "accept" /\ setup.stops
  /\ loop' = [loop EXCEPT ![l] = "failing"]
  /\ UNCHANGED <<closed, listeners, lnOpen, retries, srvVars, wireVars>>

CheckClosed(l) ==
  /\ loop[l] = "failing"
  /\ loop' = [loop EXCEPT ![l] = IF closed THEN "remove_nil" ELSE "remove_err"]
  /\ UNCHANGED <<closed, listeners, lnOpen, retries, srvVars, wireVars>>

\* The deferred delete.
ServeReturns(l) ==
  /\ loop[l] \in {"remove_nil", "remove_err"}
  /\ loop' = [loop EXCEPT ![l] = IF loop[l] = "remove_nil" THEN "nil" ELSE "err"]
  /\ listeners' = listeners \ {ListenerOf[l]}
  /\ UNCHANGED <<closed, lnOpen, retries, srvVars, wireVars>>

\* Connections nobody accepted are reset when their listener closes.
CloseListeners(ls) ==
  /\ lnOpen' = lnOpen \ ls
  /\ IF Target \in ls /\ srv.pc = "backlog" THEN Finish ELSE UNCHANGED <<srv, open>>
  /\ UNCHANGED <<serverDeadline, request, response, rd, loop, retries>>

Close_M ==
  /\ Serves /\ setup.stops /\ ~closed /\ closed' = TRUE
  /\ CloseListeners({ln \in listeners : \A other \in listeners : other = ln})
  /\ UNCHANGED listeners
Close ==
  /\ Serves /\ setup.stops /\ ~closed /\ closed' = TRUE
  /\ CloseListeners(listeners)
  /\ UNCHANGED listeners

OwnerCloses(ln) ==
  /\ Serves /\ setup.stops /\ ln \in lnOpen
  /\ CloseListeners({ln})
  /\ UNCHANGED <<closed, listeners>>

LoopStep(l) ==
  Serve(l) \/ AcceptConn(l) \/ AcceptTransient(l) \/ AcceptFails(l) \/ CheckClosed(l) \/ ServeReturns(l)
-----------------------------------------------------------------------------
\* The rest of the world: foreign peers, net/http in front of Upgrade, and the
\* frames that follow the handshake.

ForeignConnects ==
  /\ dial.pc = "foreign" /\ srv.pc = "none" /\ Reachable
  /\ open' = [e \in Ends |-> TRUE]
  /\ Arrive
  /\ UNCHANGED <<serverDeadline, request, response, rd, dialVars>>

ForeignRequests ==
  /\ dial.pc = "foreign" /\ open["client"] /\ request = NoMessage
  /\ request' = setup.request
  /\ UNCHANGED <<open, response, rd, srvVars, dialVars>>

\* A foreign server answers with one of its setup's responses to this request.
ForeignResponds ==
  /\ srv.pc = "foreign" /\ open["server"] /\ request # NoMessage /\ response = NoMessage
  /\ response' = [setup.response EXCEPT !.accept = IF @.of = "right" THEN Accept(request.key) ELSE @]
  /\ UNCHANGED <<open, request, rd, srvVars, dialVars>>

ForeignCloses(e) ==
  /\ open[e]
  /\ e = "client" => dial.pc = "foreign"
  /\ e = "server" => srv.pc = "foreign"
  /\ open' = [open EXCEPT ![e] = FALSE]
  /\ UNCHANGED <<request, response, rd, srvVars, dialVars>>

\* net/http reads the head, under a deadline of its own, and calls the handler.
HTTPServes ==
  /\ setup.server = "upgrade" /\ srv.pc = "backlog" /\ request # NoMessage
  /\ srv' = [srv EXCEPT !.pc = "negotiate"]
  /\ serverDeadline' = "set"
  /\ Fill("server")
  /\ UNCHANGED <<open, request, response, dialVars>>

\* The ends that may send frames and the ends that may read them.
Sending == {e \in Ends : open[e] /\
              IF e = "client" THEN dial.pc = "ok" \/ (dial.pc = "foreign" /\ request # NoMessage)
              ELSE srv.pc = "handler" \/ (srv.pc = "foreign" /\ response # NoMessage)}
Reading == {e \in Ends : open[e] /\ IF e = "client" THEN dial.pc = "ok" ELSE srv.pc = "handler"}

SendFrame(from, to) ==
  /\ from \in Sending /\ to # from /\ rd[to].sent < setup.frames
  /\ rd' = [rd EXCEPT ![to].sent = @ + 1, ![to].sock = Append(@, rd[to].sent + 1)]
  /\ UNCHANGED <<open, request, response, srvVars, dialVars>>

Least(a, b) == IF a <= b THEN a ELSE b

\* Read of a bufferedConn, and of a bare connection, into size bytes.
Read(e, size) ==
  /\ e \in Reading
  /\ LET r == rd[e]
         buffered == r.wrapped /\ r.buf # <<>>
         from == IF buffered THEN r.buf ELSE r.sock
         n == Least(size, Len(from))
         rest == SubSeq(from, n + 1, Len(from))
     IN /\ n > 0
        /\ rd' = [rd EXCEPT ![e].got = @ \o SubSeq(from, 1, n),
                            ![e].wrapped = buffered,
                            ![e].buf = IF buffered THEN rest ELSE @,
                            ![e].sock = IF buffered THEN @ ELSE rest]
  /\ UNCHANGED <<open, request, response, srvVars, dialVars>>
-----------------------------------------------------------------------------
Next ==
  /\ UNCHANGED setup
  /\ \/ /\ UNCHANGED loopVars
        /\ \/ DialStep \/ CtxEnds \/ WatcherStarts \/ WatcherFires
           \/ SrvStep \/ HandlerReturns \/ DeadlineExpires
           \/ ForeignConnects \/ ForeignRequests \/ ForeignResponds \/ HTTPServes
           \/ \E e \in Ends : ForeignCloses(e)
           \/ \E from, to \in Ends : SendFrame(from, to)
           \/ \E e \in Ends, size \in ReadSizes : Read(e, size)
     \/ /\ UNCHANGED dialVars
        /\ \/ \E l \in Loops : LoopStep(l)
           \/ Close
           \/ \E ln \in Listeners : OwnerCloses(ln)

Spec == Init /\ [][Next]_vars

Kept(A) == A /\ UNCHANGED <<setup, loopVars>>
KeptLoop(A) == A /\ UNCHANGED <<setup, dialVars>>

\* Goroutines that can run do, timers fire, and Accept on a closed listener
\* returns.  Peers, handlers, the Accept hook and whoever ends the context need do
\* nothing.
FairSpec ==
  /\ Spec
  /\ WF_vars(Kept(DialStep)) /\ WF_vars(Kept(WatcherStarts)) /\ WF_vars(Kept(WatcherFires))
  /\ WF_vars(Kept(srv.pc # "accept" /\ SrvStep)) /\ WF_vars(Kept(DeadlineExpires))
  /\ \A l \in Loops :
       /\ WF_vars(KeptLoop(Serve(l))) /\ WF_vars(KeptLoop(CheckClosed(l))) /\ WF_vars(KeptLoop(ServeReturns(l)))
       /\ WF_vars(KeptLoop(AcceptFails(l) /\ ListenerOf[l] \notin lnOpen))
-----------------------------------------------------------------------------
\* What a foreign peer takes the handshake to mean.

\* A client that made offer e: it keeps to its own offer and to the response.
ClientView(e, resp) ==
  IF resp.extensions = <<>> THEN NoCompression
  ELSE LET o == ParseDeflate(e)
           p == ParseDeflate(resp.extensions[1])
       IN [sendTakeover |-> ~o.clientNoContextTakeover /\ ~p.clientNoContextTakeover,
           receiveTakeover |-> ~o.serverNoContextTakeover /\ ~p.serverNoContextTakeover,
           sendBits |-> o.clientMaxWindowBits,
           receiveBits |-> o.serverMaxWindowBits]

\* A server that sent resp.
ServerView(resp) ==
  IF resp.extensions = <<>> THEN NoCompression
  ELSE LET p == ParseDeflate(resp.extensions[1])
       IN [sendTakeover |-> ~p.serverNoContextTakeover,
           receiveTakeover |-> ~p.clientNoContextTakeover,
           sendBits |-> p.serverMaxWindowBits,
           receiveBits |-> p.clientMaxWindowBits]

\* Once an end is connected, what it concluded (the compression handed to ws.NewConn
\* by Dial, Server.serve or Upgrade) is compatible with what the other end concluded,
\* or, when that one is foreign, with what the messages on the wire told it; the
\* subprotocol is the same and one that the client asked for.
Agreed ==
  /\ (dial.pc = "ok" /\ srv.pc # "foreign") =>
       Compatible(srv.res.compression, dial.res.compression) /\ srv.res.protocol = dial.res.protocol
  /\ (dial.pc = "ok" /\ srv.pc = "foreign") => Compatible(ServerView(response), dial.res.compression)
  /\ (dial.pc = "foreign" /\ srv.pc = "handler") =>
       \/ response.extensions = <<>> /\ srv.res.compression = NoCompression
       \/ \E i \in DOMAIN request.extensions :
            Compatible(srv.res.compression, ClientView(request.extensions[i], response))
  /\ dial.pc = "ok" => dial.res.protocol = "" \/ Offered(setup.copts.protocols, dial.res.protocol)
  /\ srv.pc = "handler" => srv.res.protocol = "" \/ Offered(request.protocols, srv.res.protocol)

\* Frames a peer sent right behind its request or response, and were read into the
\* bufio.Reader with it, reach the reader of the connection first, all of them and
\* in order (bufferedConn).
FramesInOrder ==
  \A e \in Ends : rd[e].got = [i \in 1..Len(rd[e].got) |-> i]

\* After its context ends, Dial returns, whatever the server does or fails to do, and
\* if it fails it reports ctx.Err, never the timeout of the deadline that the AfterFunc
\* set (the comment in Dial says "always").
DialReturns == (Dials /\ ctxDone) ~> (dial.pc = "ok" \/ (dial.pc = "failed" /\ dial.err # "timeout"))

\* Every connection that Server accepted is handed to the handler or closed, even
\* when the client stays silent, unless the Accept hook keeps it: HandshakeTimeout
\* bounds the steps before the hook and after it, but not the hook.
HandshakeEnds ==
  (Serves /\ srv.pc \in {"head", "negotiate"}) ~> (srv.pc \in {"accept", "handler", "closed"})

\* After Server.Close every Serve call returns, those that start later included.  The
\* one call that may go on is one whose listener another call was serving too and
\* gave up on an accept error: the deferred delete of that call took the listener
\* out of the set Close goes through.
CloseStopsServe ==
  closed ~> \A l \in setup.calls :
              \/ loop[l] \in {"nil", "err", "ErrClosed"}
              \/ \E k \in setup.calls \ {l} : ListenerOf[k] = ListenerOf[l] /\ loop[k] = "err"

\* "returns the connection with any deadlines cleared" (Dial's comment).
DeadlinesCleared == dial.pc = "ok" => clientDeadline = "none"
=============================================================================
