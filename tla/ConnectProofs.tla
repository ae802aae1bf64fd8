--------------------------- MODULE ConnectProofs ---------------------------
(***************************************************************************)
(* Proofs about Connect: what the two ends of a connection have agreed on, *)
(* for all options, offers and answers.  The invariant follows the two     *)
(* heads: a request is sent once and never changes, the server's result is *)
(* Negotiate's of that request from the moment it is known, the response   *)
(* is Negotiate's of it, and Dial's result is Confirm's of both.           *)
(***************************************************************************)
EXTENDS Connect, HandshakeProofs

Offer == NewRequest(setup.copts, "k1")
Negotiation == Negotiate(request, setup.sopts)
Confirmation == Confirm(request, response, setup.copts)

PcInv ==
  /\ setup \in Setups
  /\ dial = [pc |-> dial.pc, err |-> dial.err, res |-> dial.res]
  /\ dial.pc \in {"start", "connect", "tls", "write", "read", "stop", "clear", "ok", "failed", "foreign"}
  /\ dial.pc = "foreign" <=> setup.client # "dial"
  /\ srv = [pc |-> srv.pc, res |-> srv.res]
  /\ srv.pc \in {"none", "backlog", "head", "accept", "negotiate", "write", "clear", "handler", "closed", "foreign"}
  /\ srv.pc = "foreign" <=> setup.server = "foreign"

RequestInv ==
  /\ dial.pc \in {"start", "connect", "tls", "write"} => request = NoMessage
  /\ dial.pc \in {"read", "stop", "clear", "ok"} => request = Offer
  /\ dial.pc = "failed" => request \in {NoMessage, Offer}
  /\ dial.pc = "foreign" => request \in {NoMessage, setup.request}

SrvInv ==
  /\ srv.pc \in {"accept", "negotiate", "write", "clear", "handler"} => request # NoMessage
  /\ srv.pc \in {"none", "backlog", "head", "accept", "negotiate", "write"} => response = NoMessage
  /\ srv.pc \in {"write", "clear", "handler"} => Negotiation.err = "none" /\ srv.res = Negotiation.res
  /\ srv.pc \in {"clear", "handler"} => response = Negotiation.resp
  /\ (srv.pc = "closed" /\ response # NoMessage /\ response.status = 101) =>
       /\ request # NoMessage
       /\ Negotiation.err = "none" /\ srv.res = Negotiation.res /\ response = Negotiation.resp
  /\ srv.pc = "foreign" => response = NoMessage \/ response.extensions = setup.response.extensions

DialInv ==
  dial.pc \in {"stop", "clear", "ok"} =>
    response # NoMessage /\ Confirmation.err = "none" /\ dial.res = Confirmation.res

AgreeInv == PcInv /\ RequestInv /\ SrvInv /\ DialInv

\* A step of one end leaves the heads and the other end alone.
LEMMA QuietStep ==
  ASSUME AgreeInv, UNCHANGED <<setup, dial, request, response, srv>>
  PROVE  AgreeInv'
BY DEF AgreeInv, PcInv, RequestInv, SrvInv, DialInv, Offer, Negotiation, Confirmation

LEMMA DialSideStep ==
  ASSUME AgreeInv, UNCHANGED <<setup, srv, response>>, PcInv', RequestInv', DialInv',
         request # NoMessage => request' = request
  PROVE  AgreeInv'
<1>1. CASE request' = request
  BY <1>1 DEF AgreeInv, SrvInv, Negotiation
<1>2. CASE request = NoMessage
  BY <1>2 DEF AgreeInv, SrvInv, Negotiation
<1>3. QED
  BY <1>1, <1>2

LEMMA SrvSideStep ==
  ASSUME AgreeInv, UNCHANGED <<setup, dial, request>>, PcInv', SrvInv',
         response # NoMessage => response' = response
  PROVE  AgreeInv'
<1>1. RequestInv'
  BY DEF AgreeInv, RequestInv, Offer
<1>2. DialInv'
  BY DEF AgreeInv, DialInv, Confirmation
<1>3. QED
  BY <1>1, <1>2 DEF AgreeInv

LEMMA DialAgrees ==
  ASSUME AgreeInv, DialStep, UNCHANGED setup
  PROVE  AgreeInv'
<1>0. PcInv /\ RequestInv
  BY DEF AgreeInv
<1>1. ASSUME NEW err, DialFail(err), dial.pc # "foreign" PROVE AgreeInv'
  <2>1. dial'.pc = "failed" /\ dial' = [pc |-> dial'.pc, err |-> dial'.err, res |-> dial'.res]
    BY Zenon, <1>0, <1>1 DEF DialFail, PcInv
  <2>2. UNCHANGED <<srv, request, response>>
    BY <1>1 DEF DialFail, srvVars
  <2>3. PcInv'
    BY <1>0, <1>1, <2>1, <2>2 DEF PcInv
  <2>4. RequestInv' /\ DialInv'
    BY <1>0, <1>1, <2>1, <2>2 DEF RequestInv, DialInv, PcInv, Offer
  <2>5. QED
    BY <2>2, <2>3, <2>4, DialSideStep
<1>2. CASE DialStart \/ DialRefused \/ DialStop \/ DialClear
  <2>1. UNCHANGED <<srv, request, response>>
    BY <1>2 DEF DialStart, DialRefused, DialStop, DialClear, srvVars, wireVars
  <2>2. /\ dial' = [pc |-> dial'.pc, err |-> dial'.err, res |-> dial.res]
        /\ <<dial.pc, dial'.pc>> \in {<<"start", "connect">>, <<"start", "failed">>, <<"connect", "failed">>,
                                       <<"stop", "clear">>, <<"clear", "ok">>}
    BY Zenon, <1>0, <1>2 DEF DialStart, DialRefused, DialStop, DialClear, PcInv
  <2>3. PcInv'
    BY <1>0, <2>1, <2>2 DEF PcInv
  <2>4. RequestInv' /\ DialInv'
    BY <1>0, <2>1, <2>2 DEF AgreeInv, RequestInv, DialInv, Offer, Confirmation
  <2>5. QED
    BY <2>1, <2>3, <2>4, DialSideStep
<1>3. CASE DialConnect
  <2>1. UNCHANGED <<request, response>> /\ dial.pc = "connect" /\ dial' = [dial EXCEPT !.pc = "tls"]
    BY <1>3 DEF DialConnect
  <2>2. srv' = srv \/ (srv.pc = "none" /\ srv' = [srv EXCEPT !.pc = "backlog"])
    BY <1>3 DEF DialConnect, Arrive
  <2>3. PcInv'
    BY <1>0, <2>1, <2>2 DEF PcInv
  <2>4. RequestInv' /\ DialInv'
    BY <1>0, <2>1 DEF RequestInv, DialInv, PcInv
  <2>5. SrvInv'
    BY <1>0, <2>1, <2>2 DEF AgreeInv, SrvInv, PcInv, Negotiation
  <2>6. QED
    BY <2>3, <2>4, <2>5 DEF AgreeInv
<1>4. CASE DialTLS
  <2>1. CASE dial.pc = "tls" /\ dial' = [dial EXCEPT !.pc = "write"] /\ UNCHANGED <<srv, request, response>>
    <3>1. PcInv' /\ RequestInv' /\ DialInv'
      BY <1>0, <2>1 DEF PcInv, RequestInv, DialInv
    <3>2. QED
      BY <2>1, <3>1, DialSideStep
  <2>2. QED
    BY <1>1, <1>4, <2>1 DEF DialTLS, srvVars, wireVars
<1>5. CASE DialWrite
  <2>1. CASE /\ dial.pc = "write" /\ dial' = [dial EXCEPT !.pc = "read"]
             /\ request' = Offer /\ UNCHANGED <<srv, response>>
    <3>1. PcInv' /\ RequestInv' /\ DialInv'
      BY <1>0, <2>1 DEF PcInv, RequestInv, DialInv, Offer
    <3>2. request = NoMessage
      BY <1>0, <2>1 DEF RequestInv
    <3>3. QED
      BY <2>1, <3>1, <3>2, DialSideStep
  <2>2. QED
    BY <1>1, <1>5, <2>1 DEF DialWrite, srvVars, Offer
<1>6. CASE DialRead
  <2>1. CASE /\ dial.pc = "read" /\ response # NoMessage /\ Confirmation.err = "none"
             /\ dial' = [dial EXCEPT !.pc = "stop", !.res = Confirmation.res]
             /\ UNCHANGED <<srv, request, response>>
    <3>1. dial'.pc = "stop" /\ dial'.res = Confirmation.res /\ dial' = [pc |-> dial'.pc, err |-> dial'.err, res |-> dial'.res]
      BY Zenon, <1>0, <2>1 DEF PcInv
    <3>2. PcInv'
      BY <1>0, <2>1, <3>1 DEF PcInv
    <3>3. RequestInv'
      BY <1>0, <2>1, <3>1 DEF RequestInv, Offer
    <3>4. DialInv'
      BY <2>1, <3>1 DEF DialInv, Confirmation
    <3>5. QED
      BY <2>1, <3>2, <3>3, <3>4, DialSideStep
  <2>2. QED
    BY <1>1, <1>6, <2>1 DEF DialRead, srvVars, Confirmation
<1>7. QED
  BY <1>2, <1>3, <1>4, <1>5, <1>6 DEF DialStep
LEMMA SrvAgrees ==
  ASSUME AgreeInv, SrvStep \/ HandlerReturns, UNCHANGED setup
  PROVE  AgreeInv'
<1>0. PcInv /\ SrvInv
  BY DEF AgreeInv
<1>1. ASSUME srv.pc \in {"head", "accept", "negotiate"}, NEW status \in {400, 403, 426, 431, 500}, Refused(status)
      PROVE  AgreeInv'
  <2>1. UNCHANGED <<dial, request>> /\ response = NoMessage
    BY ZenonT(30), <1>0, <1>1 DEF Refused, SrvInv, dialVars
  <2>2. srv'.pc = "closed" /\ srv' = [pc |-> srv'.pc, res |-> srv'.res]
    BY Zenon, <1>0, <1>1 DEF Refused, Finish, PcInv
  <2>3. response' = NoMessage \/ response'.status # 101
    <3>1. response' = response \/ response'.status = status
      BY ZenonT(30), <1>1 DEF Refused
    <3>2. status # 101
      BY <1>1
    <3>3. QED
      BY <2>1, <3>1, <3>2
  <2>4. PcInv'
    BY <1>0, <1>1, <2>1, <2>2 DEF PcInv
  <2>5. SrvInv'
    BY <2>2, <2>3 DEF SrvInv
  <2>6. QED
    BY <2>1, <2>4, <2>5, SrvSideStep
<1>2. ASSUME srv.pc \in {"head", "write", "handler"}, CloseSilently PROVE AgreeInv'
  <2>1. UNCHANGED <<dial, request, response>>
    BY <1>2 DEF CloseSilently, dialVars
  <2>2. srv'.pc = "closed" /\ srv'.res = srv.res /\ srv' = [pc |-> srv'.pc, res |-> srv'.res]
    BY <1>0, <1>2 DEF CloseSilently, Finish, PcInv
  <2>3. PcInv'
    BY <1>0, <1>2, <2>1, <2>2 DEF PcInv
  <2>4. SrvInv'
    BY <1>0, <1>2, <2>1, <2>2 DEF SrvInv, Negotiation
  <2>5. QED
    BY <2>1, <2>3, <2>4, SrvSideStep
<1>3. ASSUME UNCHANGED <<dial, request, response>>, request # NoMessage, srv' = [srv EXCEPT !.pc = srv'.pc],
             <<srv.pc, srv'.pc>> \in {<<"head", "accept">>, <<"accept", "negotiate">>, <<"clear", "handler">>}
      PROVE  AgreeInv'
  <2>1. srv'.res = srv.res /\ srv' = [pc |-> srv'.pc, res |-> srv'.res]
    BY <1>0, <1>3 DEF PcInv
  <2>2. PcInv'
    BY <1>0, <1>3, <2>1 DEF PcInv
  <2>3. SrvInv'
    BY <1>0, <1>3, <2>1 DEF SrvInv, Negotiation
  <2>4. QED
    BY <1>3, <2>2, <2>3, SrvSideStep
<1>4. ASSUME srv.pc = "negotiate", Negotiation.err = "none", UNCHANGED <<dial, request, response>>,
             srv' = [srv EXCEPT !.pc = "write", !.res = Negotiation.res]
      PROVE  AgreeInv'
  <2>1. srv'.pc = "write" /\ srv'.res = Negotiation.res /\ srv' = [pc |-> srv'.pc, res |-> srv'.res]
    BY Zenon, <1>0, <1>4 DEF PcInv
  <2>2. PcInv'
    BY <1>0, <1>4, <2>1 DEF PcInv
  <2>3. Negotiation' = Negotiation
    BY <1>4 DEF Negotiation
  <2>4. SrvInv'
    BY <1>0, <1>4, <2>1, <2>3 DEF SrvInv
  <2>5. QED
    BY <1>4, <2>2, <2>4, SrvSideStep
<1>5. CASE ReadRequest
  <2>1. CASE CloseSilently
    BY <1>2, <1>5, <2>1 DEF ReadRequest
  <2>2. CASE Refused(431) \/ Refused(400)
    BY <1>1, <1>5, <2>2 DEF ReadRequest
  <2>3. CASE /\ request # NoMessage /\ srv' = [srv EXCEPT !.pc = "accept"]
             /\ UNCHANGED <<request, response, dialVars>>
    <3>1. srv.pc = "head" /\ srv'.pc = "accept"
      BY <1>0, <1>5, <2>3 DEF ReadRequest, PcInv
    <3>2. QED
      BY <1>3, <2>3, <3>1 DEF dialVars
  <2>4. QED
    BY <1>5, <2>1, <2>2, <2>3 DEF ReadRequest
<1>6. CASE AcceptHook
  <2>1. CASE Refused(403)
    BY <1>1, <1>6, <2>1 DEF AcceptHook
  <2>2. CASE srv' = [srv EXCEPT !.pc = "negotiate"] /\ UNCHANGED <<wireVars, dialVars>>
    <3>1. srv.pc = "accept" /\ srv'.pc = "negotiate" /\ request # NoMessage
      BY <1>0, <1>6, <2>2 DEF AcceptHook, PcInv, SrvInv
    <3>2. QED
      BY <1>3, <2>2, <3>1 DEF dialVars, wireVars
  <2>3. QED
    BY <1>6, <2>1, <2>2 DEF AcceptHook
<1>7. CASE ServeNegotiate \/ UpgradeNegotiate
  <2>1. srv.pc = "negotiate"
    BY <1>7 DEF ServeNegotiate, UpgradeNegotiate
  <2>2. CASE Refused(StatusCode(Negotiation.err)) \/ Refused(500)
    <3>1. StatusCode(Negotiation.err) \in {400, 426}
      BY DEF StatusCode
    <3>2. QED
      BY <1>1, <2>1, <2>2, <3>1
  <2>3. CASE /\ Negotiation.err = "none" /\ srv' = [srv EXCEPT !.pc = "write", !.res = Negotiation.res]
             /\ UNCHANGED <<wireVars, dialVars>>
    BY <1>4, <2>1, <2>3 DEF dialVars, wireVars
  <2>4. QED
    BY <1>7, <2>2, <2>3 DEF ServeNegotiate, UpgradeNegotiate, Negotiation
<1>8. CASE WriteResponse
  <2>1. CASE CloseSilently
    BY <1>2, <1>8, <2>1 DEF WriteResponse
  <2>2. CASE /\ srv' = [srv EXCEPT !.pc = "clear"] /\ response' = Negotiation.resp
             /\ UNCHANGED <<request, dialVars>>
    <3>1. srv.pc = "write" /\ response = NoMessage /\ UNCHANGED dial
      BY <1>0, <1>8, <2>2 DEF WriteResponse, SrvInv, dialVars
    <3>2. srv'.pc = "clear" /\ srv'.res = srv.res /\ srv' = [pc |-> srv'.pc, res |-> srv'.res]
      BY <1>0, <2>2 DEF PcInv
    <3>3. PcInv'
      BY <1>0, <2>2, <3>1, <3>2 DEF PcInv
    <3>4. Negotiation' = Negotiation
      BY <2>2 DEF Negotiation
    <3>5. SrvInv'
      BY <1>0, <2>2, <3>1, <3>2, <3>4 DEF SrvInv
    <3>6. QED
      BY <2>2, <3>1, <3>3, <3>5, SrvSideStep
  <2>3. QED
    BY <1>8, <2>1, <2>2 DEF WriteResponse, Negotiation
<1>9. CASE HandOver
  <2>1. srv.pc = "clear" /\ srv'.pc = "handler" /\ srv' = [srv EXCEPT !.pc = "handler"] /\ request # NoMessage
    BY <1>0, <1>9 DEF HandOver, PcInv, SrvInv
  <2>2. QED
    BY <1>3, <1>9, <2>1 DEF HandOver, dialVars
<1>10. CASE HandlerReturns
  BY <1>2, <1>10 DEF HandlerReturns
<1>11. QED
  BY <1>5, <1>6, <1>7, <1>8, <1>9, <1>10 DEF SrvStep

LEMMA WorldAgrees ==
  ASSUME AgreeInv, UNCHANGED setup,
         ForeignConnects \/ ForeignRequests \/ ForeignResponds \/ HTTPServes
  PROVE  AgreeInv'
<1>0. PcInv /\ SrvInv /\ RequestInv
  BY DEF AgreeInv
<1>1. CASE ForeignConnects \/ HTTPServes
  <2>1. /\ UNCHANGED <<dial, request, response>> /\ srv' = [srv EXCEPT !.pc = srv'.pc]
        /\ <<srv.pc, srv'.pc>> \in {<<"none", "backlog">>, <<"backlog", "negotiate">>}
        /\ srv'.pc = "negotiate" => request # NoMessage
    BY <1>0, <1>1 DEF ForeignConnects, HTTPServes, Arrive, dialVars, PcInv
  <2>2. srv' = [pc |-> srv'.pc, res |-> srv'.res]
    BY <1>0, <2>1 DEF PcInv
  <2>3. PcInv'
    BY <1>0, <2>1, <2>2 DEF PcInv
  <2>4. SrvInv'
    BY <1>0, <2>1 DEF SrvInv
  <2>5. QED
    BY <2>1, <2>3, <2>4, SrvSideStep
<1>2. CASE ForeignRequests
  <2>1. /\ dial.pc = "foreign" /\ request = NoMessage /\ request' = setup.request
        /\ UNCHANGED <<srv, dial, response>>
    BY <1>2 DEF ForeignRequests, dialVars, srvVars
  <2>2. PcInv' /\ RequestInv' /\ DialInv'
    BY <1>0, <2>1 DEF PcInv, RequestInv, DialInv
  <2>3. QED
    BY <2>1, <2>2, DialSideStep
<1>3. CASE ForeignResponds
  <2>1. /\ srv.pc = "foreign" /\ response = NoMessage /\ UNCHANGED <<srv, dial, request>>
        /\ response' = [setup.response EXCEPT !.accept = IF @.of = "right" THEN Accept(request.key) ELSE @]
    BY <1>3 DEF ForeignResponds, dialVars, srvVars
  <2>2. "extensions" \in DOMAIN setup.response
    BY <1>0, <2>1, SetupsAssumption DEF PcInv
  <2>3. response'.extensions = setup.response.extensions
    BY <2>1, <2>2
  <2>4. PcInv'
    BY <1>0, <2>1 DEF PcInv
  <2>5. SrvInv'
    BY <2>1, <2>3 DEF SrvInv
  <2>6. QED
    BY <2>1, <2>4, <2>5, SrvSideStep
<1>4. QED
  BY <1>1, <1>2, <1>3

LEMMA ServerAgrees ==
  ASSUME AgreeInv, UNCHANGED <<setup, dialVars>>,
         (\E l \in Loops : LoopStep(l)) \/ Close \/ (\E ln \in Listeners : OwnerCloses(ln))
  PROVE  AgreeInv'
<1>0. PcInv /\ SrvInv
  BY DEF AgreeInv
<1>1. /\ UNCHANGED <<dial, request, response>>
      /\ \/ srv' = srv
         \/ /\ srv.pc = "backlog" /\ srv' = [srv EXCEPT !.pc = srv'.pc]
            /\ srv'.pc \in {"head", "closed"}
  <2>1. CASE \E l \in Loops : AcceptConn(l)
    BY <1>0, <2>1 DEF AcceptConn, wireVars, dialVars, PcInv
  <2>2. CASE Close \/ (\E ln \in Listeners : OwnerCloses(ln))
    BY <1>0, <2>2 DEF Close, OwnerCloses, CloseListeners, Finish, dialVars, PcInv
  <2>3. CASE \E l \in Loops : Serve(l) \/ AcceptTransient(l) \/ AcceptFails(l) \/ CheckClosed(l) \/ ServeReturns(l)
    BY <2>3 DEF Serve, AcceptTransient, AcceptFails, CheckClosed, ServeReturns, wireVars, dialVars, srvVars
  <2>4. QED
    BY <2>1, <2>2, <2>3 DEF LoopStep
<1>2. CASE srv' = srv
  BY <1>1, <1>2, QuietStep
<1>3. CASE srv' # srv
  <2>1. srv' = [pc |-> srv'.pc, res |-> srv'.res]
    BY <1>0, <1>1, <1>3 DEF PcInv
  <2>2. PcInv'
    BY <1>0, <1>1, <1>3, <2>1 DEF PcInv
  <2>3. SrvInv'
    BY <1>0, <1>1, <1>3 DEF SrvInv
  <2>4. QED
    BY <1>1, <2>2, <2>3, SrvSideStep
<1>4. QED
  BY <1>2, <1>3

LEMMA AgreeInvariant == Spec => []AgreeInv
<1>1. Init => AgreeInv
  <2> SUFFICES ASSUME Init PROVE AgreeInv
    OBVIOUS
  <2>1. PcInv
    BY DEF Init, PcInv
  <2>2. QED
    BY <2>1 DEF Init, AgreeInv, RequestInv, SrvInv, DialInv
<1>2. AgreeInv /\ [Next]_vars => AgreeInv'
  <2> SUFFICES ASSUME AgreeInv, [Next]_vars PROVE AgreeInv'
    OBVIOUS
  <2>1. CASE UNCHANGED vars
    BY <2>1, QuietStep DEF vars, dialVars, wireVars, srvVars
  <2>2. CASE Next /\ DialStep
    BY <2>2, DialAgrees DEF Next
  <2>3. CASE Next /\ (SrvStep \/ HandlerReturns)
    BY <2>3, SrvAgrees DEF Next
  <2>4. CASE Next /\ (ForeignConnects \/ ForeignRequests \/ ForeignResponds \/ HTTPServes)
    BY <2>4, WorldAgrees DEF Next
  <2>5. CASE /\ Next
             /\ \/ CtxEnds \/ WatcherStarts \/ WatcherFires \/ DeadlineExpires
                \/ \E e \in Ends : ForeignCloses(e)
                \/ \E from, to \in Ends : SendFrame(from, to)
                \/ \E e \in Ends, size \in ReadSizes : Read(e, size)
    <3>1. UNCHANGED <<dial, request, response, srv>>
      <4>1. CASE CtxEnds \/ WatcherStarts \/ WatcherFires \/ DeadlineExpires
        BY <4>1 DEF CtxEnds, WatcherStarts, WatcherFires, DeadlineExpires, dialVars, wireVars, srvVars
      <4>2. ASSUME NEW e \in Ends, ForeignCloses(e) PROVE UNCHANGED <<dial, request, response, srv>>
        BY <4>2 DEF ForeignCloses, dialVars, srvVars
      <4>3. ASSUME NEW from, NEW to, SendFrame(from, to) PROVE UNCHANGED <<dial, request, response, srv>>
        BY <4>3 DEF SendFrame, dialVars, srvVars
      <4>4. ASSUME NEW e, NEW size, Read(e, size) PROVE UNCHANGED <<dial, request, response, srv>>
        BY <4>4 DEF Read, dialVars, srvVars
      <4>5. QED
        BY <2>5, <4>1, <4>2, <4>3, <4>4
    <3>2. QED
      BY <2>5, <3>1, QuietStep DEF Next
  <2>6. CASE /\ Next /\ UNCHANGED dialVars
             /\ (\E l \in Loops : LoopStep(l)) \/ Close \/ (\E ln \in Listeners : OwnerCloses(ln))
    BY <2>6, ServerAgrees DEF Next
  <2>7. QED
    BY <2>1, <2>2, <2>3, <2>4, <2>5, <2>6 DEF Next
<1>3. QED
  BY <1>1, <1>2, PTL DEF Spec

\* What a foreign client that made an offer the server honours takes it to mean.
LEMMA ClientViewFits ==
  ASSUME NEW n, NEW req, Negotiated(n, req), n.res.compression # NoCompression
  PROVE  \E i \in DOMAIN req.extensions :
            Compatible(n.res.compression, ClientView(req.extensions[i], n.resp))
<1> DEFINE c == n.res.compression
<1>1. PICK i \in DOMAIN req.extensions : Honours(c, ParseDeflate(req.extensions[i])) /\ ParseDeflate(req.extensions[i]).ok
  BY Zenon DEF Negotiated, Usable
<1>2. n.resp.extensions = <<FormatDeflate(c)>>
  BY Zenon DEF Negotiated
<1> DEFINE o == ParseDeflate(req.extensions[i])
           p == ParseDeflate(FormatDeflate(c))
           v == [sendTakeover |-> ~o.clientNoContextTakeover /\ ~p.clientNoContextTakeover,
                 receiveTakeover |-> ~o.serverNoContextTakeover /\ ~p.serverNoContextTakeover,
                 sendBits |-> o.clientMaxWindowBits,
                 receiveBits |-> o.serverMaxWindowBits]
<1>3. ClientView(req.extensions[i], n.resp) = v
  BY <1>2 DEF ClientView
<1>4. /\ o.serverNoContextTakeover \in BOOLEAN /\ o.clientNoContextTakeover \in BOOLEAN
      /\ o.serverMaxWindowBits \in WindowBits /\ o.clientMaxWindowBits \in WindowBits
  BY <1>1, ParseTypes
<1> HIDE DEF o, p, c
<1>5. /\ c \in CompressionResults
      /\ c.sendTakeover = FALSE \/ o.serverNoContextTakeover = FALSE
      /\ c.receiveTakeover = FALSE \/ o.clientNoContextTakeover = FALSE
      /\ c.sendBits = o.serverMaxWindowBits /\ c.receiveBits = o.clientMaxWindowBits
  BY <1>1 DEF Honours, o, c
<1>6. p.serverNoContextTakeover = ~c.sendTakeover /\ p.clientNoContextTakeover = ~c.receiveTakeover
  BY <1>5, FormatParses DEF p
<1>7. c.sendTakeover \in BOOLEAN /\ c.receiveTakeover \in BOOLEAN
  BY <1>5 DEF CompressionResults
<1>8. v # NoCompression
  <2>1. v \in CompressionResults
    BY <1>4, <1>6, <1>7 DEF CompressionResults
  <2>2. QED
    BY Zenon, <2>1, NoCompressionIsNil DEF CompressionResults
<1>9. SenderFits(c.sendTakeover, c.sendBits, v.receiveTakeover, v.receiveBits)
  <2>1. c.sendTakeover => v.receiveTakeover
    BY Zenon, <1>4, <1>5, <1>6, <1>7
  <2>2. Bits(c.sendBits) <= Bits(v.receiveBits)
    BY <1>4, <1>5 DEF Bits, WindowBits
  <2>3. QED
    BY <2>1, <2>2 DEF SenderFits
<1>10. SenderFits(v.sendTakeover, v.sendBits, c.receiveTakeover, c.receiveBits)
  <2>1. v.sendTakeover => c.receiveTakeover
    BY <1>4, <1>6, <1>7
  <2>2. Bits(v.sendBits) <= Bits(c.receiveBits)
    BY <1>4, <1>5 DEF Bits, WindowBits
  <2>3. QED
    BY <2>1, <2>2 DEF SenderFits
<1> HIDE DEF v
<1>11. Compatible(c, v)
  BY <1>8, <1>9, <1>10 DEF Compatible, c
<1>12. QED
  BY <1>3, <1>11 DEF c

\* What a foreign server takes a response of its own to mean that Dial accepts.
LEMMA ServerViewFits ==
  ASSUME NEW req, NEW resp, NEW opts, NEW k, k = Confirm(req, resp, opts), k.err = "none",
         opts.compression # NoCompression => opts.compression.takeover \in BOOLEAN,
         (opts.compression # NoCompression /\ ~opts.compression.takeover /\ resp.extensions # <<>>) =>
           ParseDeflate(resp.extensions[1]).serverNoContextTakeover
  PROVE  Compatible(ServerView(resp), k.res.compression)
<1>1. CASE resp.extensions = <<>>
  <2>1. k.res.compression = NoCompression /\ ServerView(resp) = NoCompression
    BY <1>1, ConfirmResult DEF ServerView
  <2>2. QED
    BY <2>1 DEF Compatible
<1>2. CASE resp.extensions # <<>>
  <2> DEFINE p == ParseDeflate(resp.extensions[1])
             t == opts.compression.takeover
             a == Accepted(p, t)
             v == [sendTakeover |-> ~p.serverNoContextTakeover,
                   receiveTakeover |-> ~p.clientNoContextTakeover,
                   sendBits |-> p.serverMaxWindowBits,
                   receiveBits |-> p.clientMaxWindowBits]
  <2>1. p.ok /\ opts.compression # NoCompression /\ k.res.compression = a
    BY <1>2, ConfirmResult
  <2>2. ServerView(resp) = v
    BY <1>2 DEF ServerView
  <2>3. /\ p.serverNoContextTakeover \in BOOLEAN /\ p.clientNoContextTakeover \in BOOLEAN
        /\ p.serverMaxWindowBits \in WindowBits /\ p.clientMaxWindowBits \in WindowBits
    BY <2>1, ParseTypes
  <2>4. t \in BOOLEAN /\ (~t => p.serverNoContextTakeover)
    BY <1>2, <2>1
  <2> HIDE DEF p, t
  <2>5. v \in CompressionResults /\ a \in CompressionResults
    BY <2>3, <2>4 DEF CompressionResults, Accepted
  <2>6. v # NoCompression /\ a # NoCompression
    BY Zenon, <2>5, NoCompressionIsNil DEF CompressionResults
  <2>7. SenderFits(v.sendTakeover, v.sendBits, a.receiveTakeover, a.receiveBits)
    <3>1. v.sendTakeover => a.receiveTakeover
      BY <2>3, <2>4 DEF Accepted
    <3>2. Bits(v.sendBits) <= Bits(a.receiveBits)
      BY <2>3 DEF Bits, WindowBits, Accepted
    <3>3. QED
      BY <3>1, <3>2 DEF SenderFits
  <2>8. SenderFits(a.sendTakeover, a.sendBits, v.receiveTakeover, v.receiveBits)
    <3>1. a.sendTakeover => v.receiveTakeover
      BY <2>3, <2>4 DEF Accepted
    <3>2. Bits(a.sendBits) <= Bits(v.receiveBits)
      BY <2>3 DEF Bits, WindowBits, Accepted
    <3>3. QED
      BY <3>1, <3>2 DEF SenderFits
  <2> HIDE DEF a, v
  <2>9. Compatible(v, a)
    BY <2>6, <2>7, <2>8 DEF Compatible
  <2>10. QED
    BY <2>1, <2>2, <2>9
<1>3. QED
  BY <1>1, <1>2

\* Whatever options Dial, Server and Upgrade are given, and whatever a foreign peer
\* offers or answers (within its own offer), the ends that are connected agree on the
\* compression and on the subprotocol, at every moment of every interleaving with
\* deadlines, contexts, refusals and Close.
THEOREM AgreedCorrect == Spec => []Agreed
<1>1. AgreeInv => Agreed
  <2> SUFFICES ASSUME AgreeInv PROVE Agreed
    OBVIOUS
  <2>0. PcInv /\ RequestInv /\ SrvInv /\ DialInv
    BY DEF AgreeInv
  <2> DEFINE n == Negotiation
             k == Confirmation
  <2>1. ASSUME srv.pc # "foreign", request # NoMessage, n.err = "none" PROVE Negotiated(n, request)
    <3>1. DOMAIN setup.sopts.protocols \subseteq Nat
      BY <2>0, <2>1, SetupsAssumption DEF PcInv
    <3>2. request.extensions # Malformed => DOMAIN request.extensions \subseteq Nat
      <4>1. CASE request = Offer
        BY <4>1 DEF Offer, NewRequest
      <4>2. CASE dial.pc = "foreign" /\ request = setup.request
        BY <2>0, <4>2, SetupsAssumption DEF PcInv
      <4>3. QED
        BY <2>0, <2>1, <4>1, <4>2 DEF PcInv, RequestInv
    <3>3. QED
      BY <2>1, <3>1, <3>2, NegotiateResult DEF Negotiation
  <2>2. ASSUME dial.pc = "ok", srv.pc # "foreign"
        PROVE  Compatible(srv.res.compression, dial.res.compression) /\ srv.res.protocol = dial.res.protocol
    <3>1. request = Offer /\ response # NoMessage /\ k.err = "none" /\ dial.res = k.res
      BY <2>0, <2>2 DEF RequestInv, DialInv
    <3>2. response.status = 101
      BY <3>1, ConfirmResult DEF Confirmation
    <3>3. n.err = "none" /\ srv.res = n.res /\ response = n.resp
      BY <2>0, <2>2, <3>1, <3>2 DEF SrvInv, PcInv
    <3>4. /\ setup.copts.compression # NoCompression => setup.copts.compression.takeover \in BOOLEAN
          /\ DOMAIN setup.sopts.protocols \subseteq Nat
      BY <2>0, <2>2, SetupsAssumption DEF PcInv
    <3>5. k = Confirm(request, n.resp, setup.copts)
      BY <3>3 DEF Confirmation
    <3>6. Compatible(n.res.compression, k.res.compression) /\ n.res.protocol = k.res.protocol
      BY <3>1, <3>3, <3>4, <3>5, EwsEndsAgree DEF Negotiation, Offer
    <3>7. QED
      BY <3>1, <3>3, <3>6
  <2>3. ASSUME dial.pc = "ok", srv.pc = "foreign" PROVE Compatible(ServerView(response), dial.res.compression)
    <3>1. response # NoMessage /\ k.err = "none" /\ dial.res = k.res
      BY <2>0, <2>3 DEF DialInv
    <3>2. response.extensions = setup.response.extensions
      BY <2>0, <2>3, <3>1 DEF SrvInv
    <3>3. response.extensions # Malformed
      BY Zenon, <3>1 DEF Confirmation, Confirm, Refuse
    <3>4. /\ setup.copts.compression # NoCompression => setup.copts.compression.takeover \in BOOLEAN
          /\ (setup.copts.compression # NoCompression /\ ~setup.copts.compression.takeover /\ response.extensions # <<>>) =>
               ParseDeflate(response.extensions[1]).serverNoContextTakeover
      BY <2>0, <2>3, <3>2, <3>3, SetupsAssumption DEF PcInv
    <3>5. QED
      BY <3>1, <3>4, ServerViewFits DEF Confirmation
  <2>4. ASSUME dial.pc = "foreign", srv.pc = "handler"
        PROVE  \/ response.extensions = <<>> /\ srv.res.compression = NoCompression
               \/ \E i \in DOMAIN request.extensions :
                    Compatible(srv.res.compression, ClientView(request.extensions[i], response))
    <3>1. request # NoMessage /\ n.err = "none" /\ srv.res = n.res /\ response = n.resp
      BY <2>0, <2>4 DEF SrvInv
    <3>2. Negotiated(n, request)
      BY <2>1, <2>4, <3>1
    <3>3. CASE n.res.compression = NoCompression
      <4>1. n.resp.extensions = <<>>
        BY Zenon, <3>2, <3>3 DEF Negotiated
      <4>2. QED
        BY <3>1, <3>3, <4>1
    <3>4. CASE n.res.compression # NoCompression
      BY <3>1, <3>2, <3>4, ClientViewFits
    <3>5. QED
      BY <3>3, <3>4
  <2>5. ASSUME dial.pc = "ok" PROVE dial.res.protocol = "" \/ Offered(setup.copts.protocols, dial.res.protocol)
    <3>1. request = Offer /\ k.err = "none" /\ dial.res = k.res
      BY <2>0, <2>5 DEF RequestInv, DialInv
    <3>2. request.protocols = setup.copts.protocols
      BY <3>1 DEF Offer, NewRequest
    <3>3. k.res.protocol = "" \/ \E i \in DOMAIN request.protocols : request.protocols[i] = k.res.protocol
      BY Zenon, <3>1 DEF Confirmation, Confirm, Refuse, Offered
    <3> HIDE DEF k
    <3>4. QED
      BY Zenon, <3>1, <3>2, <3>3 DEF Offered
  <2>6. ASSUME srv.pc = "handler" PROVE srv.res.protocol = "" \/ Offered(request.protocols, srv.res.protocol)
    <3>1. request # NoMessage /\ n.err = "none" /\ srv.res = n.res
      BY <2>0, <2>6 DEF SrvInv
    <3>2. Negotiated(n, request)
      BY <2>1, <2>6, <3>1
    <3>3. QED
      BY Zenon, <3>1, <3>2 DEF Negotiated
  <2>7. QED
    BY Zenon, <2>2, <2>3, <2>4, <2>5, <2>6 DEF Agreed
<1>2. QED
  BY <1>1, AgreeInvariant, PTL
=============================================================================
