-------------------------- MODULE HandshakeProofs --------------------------
(***************************************************************************)
(* Lemmas about the operators of Handshake, for every request a client may *)
(* make and every configuration: what formatDeflate writes is what         *)
(* parseDeflate reads, and what the two ends make of a handshake that both *)
(* accept is compatible.                                                   *)
(***************************************************************************)
EXTENDS Handshake, WellFoundedInduction, TLAPS

CompressionResults ==
  [sendTakeover : BOOLEAN, receiveTakeover : BOOLEAN, sendBits : WindowBits, receiveBits : WindowBits]

\* A nonempty set of positions has a first one.
LEMMA FirstExists ==
  ASSUME NEW S, S \subseteq Nat, S # {}
  PROVE  \E i \in S : \A j \in S : i <= j
<1>1. PICK i \in S : \A j \in S : ~(<<j, i>> \in OpToRel(<, Nat))
  BY Zenon, NatLessThanWellFounded, WFMin
<1>2. \A j \in S : ~(j < i)
  BY Zenon, <1>1 DEF OpToRel
<1>3. QED
  BY <1>2

LEMMA ParseTypes ==
  ASSUME NEW e
  PROVE  LET p == ParseDeflate(e)
         IN /\ p.serverNoContextTakeover \in BOOLEAN /\ p.clientNoContextTakeover \in BOOLEAN
            /\ p.ok => p.serverMaxWindowBits \in WindowBits /\ p.clientMaxWindowBits \in WindowBits
<1>1. ASSUME NEW name \in {"server_max_window_bits", "client_max_window_bits"}, ParseDeflate(e).ok
      PROVE  ValueOf(e, name) \in WindowBits
  <2>1. CASE ~Has(e, name)
    BY <2>1 DEF ValueOf, WindowBits
  <2>2. CASE Has(e, name)
    <3> DEFINE at == CHOOSE i \in DOMAIN e.params : e.params[i].name = name
    <3>1. at \in DOMAIN e.params /\ e.params[at].name = name
      BY <2>2 DEF Has
    <3>2. \A i \in DOMAIN e.params :
             e.params[i].name \notin {"server_no_context_takeover", "client_no_context_takeover"}
               => e.params[i].value \in WindowBits
      BY <1>1 DEF ParseDeflate
    <3>3. e.params[at].value \in WindowBits
      BY Zenon, <1>1, <3>1, <3>2
    <3>4. QED
      BY <2>2, <3>3 DEF ValueOf
  <2>3. QED
    BY <2>1, <2>2
<1>2. QED
  BY <1>1 DEF ParseDeflate, Has, WindowBits

\* v is an element of the sequence s.
Among(v, s) == \E i \in DOMAIN s : s[i] = v

LEMMA AmongBoth ==
  ASSUME NEW S, NEW s \in Seq(S), NEW t \in Seq(S), NEW v
  PROVE  Among(v, s \o t) <=> Among(v, s) \/ Among(v, t)
<1>1. /\ s \o t \in Seq(S) /\ Len(s \o t) = Len(s) + Len(t) /\ Len(s) \in Nat /\ Len(t) \in Nat
      /\ \A i \in 1..(Len(s) + Len(t)) : (s \o t)[i] = IF i <= Len(s) THEN s[i] ELSE t[i - Len(s)]
  OBVIOUS
<1>2. ASSUME NEW i \in 1..Len(s), s[i] = v PROVE Among(v, s \o t)
  BY <1>1, <1>2 DEF Among
<1>3. ASSUME NEW i \in 1..Len(t), t[i] = v PROVE Among(v, s \o t)
  <2>1. Len(s) + i \in 1..(Len(s) + Len(t)) /\ (s \o t)[Len(s) + i] = v
    BY <1>1, <1>3
  <2>2. QED
    BY <1>1, <2>1 DEF Among
<1>4. ASSUME NEW i \in 1..(Len(s) + Len(t)), (s \o t)[i] = v PROVE Among(v, s) \/ Among(v, t)
  BY <1>1, <1>4 DEF Among
<1>5. QED
  BY <1>1, <1>2, <1>3, <1>4 DEF Among

\* formatDeflate, read back by parseDeflate.
LEMMA FormatParses ==
  ASSUME NEW c \in CompressionResults
  PROVE  LET p == ParseDeflate(FormatDeflate(c))
         IN /\ p.serverNoContextTakeover = ~c.sendTakeover
            /\ p.clientNoContextTakeover = ~c.receiveTakeover
            /\ p.serverMaxWindowBits = (IF c.sendBits = 15 THEN 0 ELSE c.sendBits)
            /\ p.clientMaxWindowBits = 0
<1> DEFINE A == Param("server_no_context_takeover", 0)
           B == Param("client_no_context_takeover", 0)
           C == Param("server_max_window_bits", c.sendBits)
           ps == FormatDeflate(c).params
<1>1. c.sendTakeover \in BOOLEAN /\ c.receiveTakeover \in BOOLEAN /\ c.sendBits \in WindowBits
  BY DEF CompressionResults
<1>2. ps = When(~c.sendTakeover, <<A>>) \o When(~c.receiveTakeover, <<B>>)
           \o When(c.sendBits \notin {0, 15}, <<C>>)
  BY DEF FormatDeflate, Deflate
<1>3. /\ When(~c.sendTakeover, <<A>>) \in Seq({A, B, C})
      /\ When(~c.receiveTakeover, <<B>>) \in Seq({A, B, C})
      /\ When(c.sendBits \notin {0, 15}, <<C>>) \in Seq({A, B, C})
  <2>1. ASSUME NEW S, NEW x \in S, NEW cond PROVE When(cond, <<x>>) \in Seq(S)
    BY DEF When
  <2>2. QED
    BY Zenon, <2>1
<1>4. \A v : Among(v, ps) <=> \/ Among(v, When(~c.sendTakeover, <<A>>))
                              \/ Among(v, When(~c.receiveTakeover, <<B>>))
                              \/ Among(v, When(c.sendBits \notin {0, 15}, <<C>>))
  <2> DEFINE front == When(~c.sendTakeover, <<A>>) \o When(~c.receiveTakeover, <<B>>)
  <2>1. front \in Seq({A, B, C})
    BY <1>3
  <2>2. ps = front \o When(c.sendBits \notin {0, 15}, <<C>>)
    BY <1>2
  <2> HIDE DEF front, ps
  <2>3. \A v : Among(v, ps) <=> Among(v, front) \/ Among(v, When(c.sendBits \notin {0, 15}, <<C>>))
    BY <1>3, <2>1, <2>2, AmongBoth
  <2>4. \A v : Among(v, front) <=> Among(v, When(~c.sendTakeover, <<A>>)) \/ Among(v, When(~c.receiveTakeover, <<B>>))
    BY <1>3, AmongBoth DEF front
  <2>5. QED
    BY <2>3, <2>4
<1>5. \A v : Among(v, ps) <=> \/ ~c.sendTakeover /\ v = A
                              \/ ~c.receiveTakeover /\ v = B
                              \/ c.sendBits \notin {0, 15} /\ v = C
  <2>1. ASSUME NEW x, NEW v, NEW cond \in BOOLEAN
        PROVE  Among(v, When(cond, <<x>>)) <=> cond /\ v = x
    BY DEF Among, When
  <2>2. QED
    BY Zenon, <1>1, <1>4, <2>1
<1> HIDE DEF ps
<1>7. /\ A.name = "server_no_context_takeover" /\ B.name = "client_no_context_takeover"
      /\ C.name = "server_max_window_bits" /\ C.value = c.sendBits
  BY DEF Param
<1>8. /\ Has(FormatDeflate(c), "server_no_context_takeover") = ~c.sendTakeover
      /\ Has(FormatDeflate(c), "client_no_context_takeover") = ~c.receiveTakeover
      /\ Has(FormatDeflate(c), "server_max_window_bits") = (c.sendBits \notin {0, 15})
      /\ Has(FormatDeflate(c), "client_max_window_bits") = FALSE
  <2>1. \A name : Has(FormatDeflate(c), name) <=> \E v : Among(v, ps) /\ v.name = name
    BY DEF Has, Among, ps
  <2>2. /\ Has(FormatDeflate(c), "server_no_context_takeover") <=> ~c.sendTakeover
        /\ Has(FormatDeflate(c), "client_no_context_takeover") <=> ~c.receiveTakeover
    BY <1>1, <1>5, <1>7, <2>1
  <2>3. /\ Has(FormatDeflate(c), "server_max_window_bits") <=> c.sendBits \notin {0, 15}
        /\ ~Has(FormatDeflate(c), "client_max_window_bits")
    BY <1>1, <1>5, <1>7, <2>1
  <2>4. \A name : Has(FormatDeflate(c), name) \in BOOLEAN
    BY DEF Has
  <2>5. QED
    BY <1>1, <2>2, <2>3, <2>4
<1>9. ValueOf(FormatDeflate(c), "client_max_window_bits") = 0
  BY <1>8 DEF ValueOf
<1>10. ValueOf(FormatDeflate(c), "server_max_window_bits") = (IF c.sendBits = 15 THEN 0 ELSE c.sendBits)
  <2>1. CASE c.sendBits \in {0, 15}
    BY Zenon, <1>8, <2>1 DEF ValueOf
  <2>2. CASE c.sendBits \notin {0, 15}
    <3> DEFINE at == CHOOSE i \in DOMAIN ps : ps[i].name = "server_max_window_bits"
    <3>1. at \in DOMAIN ps /\ ps[at].name = "server_max_window_bits"
      BY <1>5, <1>7, <2>2 DEF Among
    <3>2. ps[at].value = c.sendBits
      BY <1>5, <1>7, <3>1 DEF Among
    <3>3. QED
      BY Zenon, <1>8, <2>2, <3>2 DEF ValueOf, ps
  <2>3. QED
    BY <2>1, <2>2
<1>11. QED
  BY <1>8, <1>9, <1>10 DEF ParseDeflate
-----------------------------------------------------------------------------
LEMMA SelectProtocolOffered ==
  ASSUME NEW requested, NEW supported, DOMAIN supported \subseteq Nat
  PROVE  LET p == SelectProtocol(requested, supported) IN p = "" \/ Offered(requested, p)
<1> DEFINE common == {i \in DOMAIN supported : Offered(requested, supported[i])}
           first == CHOOSE i \in common : \A j \in common : i <= j
<1>1. CASE common = {}
  BY <1>1 DEF SelectProtocol
<1>2. CASE common # {}
  <2>1. first \in common
    BY Zenon, <1>2, FirstExists
  <2>2. SelectProtocol(requested, supported) = supported[first]
    BY Zenon, <1>2 DEF SelectProtocol
  <2>3. QED
    BY <2>1, <2>2
<1>3. QED
  BY Zenon, <1>1, <1>2

\* What the server concludes, from an offer it can honour.
Honours(c, p) ==
  /\ c \in CompressionResults
  /\ c.sendTakeover = FALSE \/ p.serverNoContextTakeover = FALSE
  /\ c.receiveTakeover = FALSE \/ p.clientNoContextTakeover = FALSE
  /\ c.sendBits = p.serverMaxWindowBits /\ c.receiveBits = p.clientMaxWindowBits

Negotiated(n, req) ==
  LET c == n.res.compression
  IN /\ n.resp.status = 101 /\ n.resp.protocol = n.res.protocol
     /\ n.res.protocol = "" \/ Offered(req.protocols, n.res.protocol)
     /\ n.resp.extensions = IF c = NoCompression THEN <<>> ELSE <<FormatDeflate(c)>>
     /\ c # NoCompression => \E i \in Usable(req.extensions) : Honours(c, ParseDeflate(req.extensions[i]))

LEMMA NegotiateResult ==
  ASSUME NEW req, NEW opts, NEW n, n = Negotiate(req, opts), n.err = "none", DOMAIN opts.protocols \subseteq Nat,
         req.extensions # Malformed => DOMAIN req.extensions \subseteq Nat
  PROVE  Negotiated(n, req)
<1> DEFINE refused == IF ~opts.valid THEN "options"
                      ELSE IF ~req.get \/ ~req.upgrade THEN "not_websocket"
                      ELSE IF req.version # 13 THEN "version"
                      ELSE IF req.key = "bad" THEN "key"
                      ELSE IF opts.compression # NoCompression /\ req.extensions = Malformed THEN "extension"
                      ELSE "none"
           usable == IF opts.compression = NoCompression THEN {} ELSE Usable(req.extensions)
           first == CHOOSE i \in usable : \A j \in usable : i <= j
           p == ParseDeflate(req.extensions[first])
           takeover == opts.compression.takeover
           honoured == [sendTakeover |-> takeover /\ ~p.serverNoContextTakeover,
                        receiveTakeover |-> takeover /\ ~p.clientNoContextTakeover,
                        sendBits |-> p.serverMaxWindowBits,
                        receiveBits |-> p.clientMaxWindowBits]
           compression == IF usable = {} THEN NoCompression ELSE honoured
           protocol == SelectProtocol(req.protocols, opts.protocols)
<1>1. n = IF refused # "none" THEN Refuse(refused)
          ELSE [err |-> "none",
                res |-> [compression |-> compression, protocol |-> protocol],
                resp |-> [status |-> 101, upgrade |-> TRUE, accept |-> Accept(req.key), protocol |-> protocol,
                          extensions |-> IF compression = NoCompression THEN <<>>
                                         ELSE <<FormatDeflate(compression)>>]]
  BY Zenon DEF Negotiate
<1> HIDE DEF compression, protocol, refused
<1>2. refused = "none"
  BY <1>1 DEF Refuse
<1>3. /\ n.res.compression = compression /\ n.res.protocol = protocol
      /\ n.resp.status = 101 /\ n.resp.protocol = protocol
      /\ n.resp.extensions = IF compression = NoCompression THEN <<>> ELSE <<FormatDeflate(compression)>>
  BY <1>1, <1>2
<1>4. protocol = "" \/ Offered(req.protocols, protocol)
  BY Zenon, SelectProtocolOffered DEF protocol
<1>5. ASSUME compression # NoCompression
      PROVE  \E i \in Usable(req.extensions) : Honours(compression, ParseDeflate(req.extensions[i]))
  <2>1. usable # {} /\ usable = Usable(req.extensions) /\ compression = honoured /\ opts.compression # NoCompression
    BY Zenon, <1>5 DEF compression
  <2>2. req.extensions # Malformed
    BY <1>2, <2>1 DEF refused
  <2>3. usable \subseteq Nat
    BY Zenon, <2>1, <2>2 DEF Usable
  <2>4. first \in Usable(req.extensions)
    BY Zenon, <2>1, <2>3, FirstExists
  <2>5. p.ok
    BY <2>4 DEF Usable
  <2> HIDE DEF p
  <2>6. /\ p.serverNoContextTakeover \in BOOLEAN /\ p.clientNoContextTakeover \in BOOLEAN
        /\ p.serverMaxWindowBits \in WindowBits /\ p.clientMaxWindowBits \in WindowBits
    BY <2>5, ParseTypes DEF p
  <2>7. Honours(honoured, p)
    BY Zenon, <2>6 DEF Honours, CompressionResults
  <2>8. QED
    BY Zenon, <2>1, <2>4, <2>7 DEF p
<1>6. QED
  BY Zenon, <1>3, <1>4, <1>5 DEF Negotiated

\* What Dial concludes from a response it accepts.
Accepted(p, t) ==
  [sendTakeover |-> t /\ ~p.clientNoContextTakeover, receiveTakeover |-> t /\ ~p.serverNoContextTakeover,
   sendBits |-> p.clientMaxWindowBits, receiveBits |-> p.serverMaxWindowBits]

LEMMA ConfirmResult ==
  ASSUME NEW req, NEW resp, NEW opts, NEW k, k = Confirm(req, resp, opts), k.err = "none"
  PROVE  /\ resp.status = 101 /\ k.res.protocol = resp.protocol
         /\ resp.extensions = <<>> => k.res.compression = NoCompression
         /\ resp.extensions # <<>> =>
              /\ ParseDeflate(resp.extensions[1]).ok /\ opts.compression # NoCompression
              /\ k.res.compression = Accepted(ParseDeflate(resp.extensions[1]), opts.compression.takeover)
BY Zenon DEF Confirm, Refuse, Accepted

\* NewRequest's offer, read by parseDeflate.
LEMMA OfferParses ==
  ASSUME NEW opts, NEW key, opts.compression # NoCompression, opts.compression.takeover \in BOOLEAN
  PROVE  LET exts == NewRequest(opts, key).extensions
             p == ParseDeflate(exts[1])
         IN /\ DOMAIN exts = {1}
            /\ p.serverNoContextTakeover = ~opts.compression.takeover
            /\ p.clientNoContextTakeover = ~opts.compression.takeover
            /\ p.serverMaxWindowBits = 0 /\ p.clientMaxWindowBits = 15
<1> DEFINE t == opts.compression.takeover
           W == Param("client_max_window_bits", 0)
           A == Param("client_no_context_takeover", 0)
           B == Param("server_no_context_takeover", 0)
           rest == When(~t, <<A, B>>)
           e == Deflate(<<W>> \o rest)
<1>1. NewRequest(opts, key).extensions = <<e>>
  BY DEF NewRequest
<1>2. <<W>> \in Seq({W, A, B}) /\ rest \in Seq({W, A, B}) /\ e.params = <<W>> \o rest
  <2>1. <<W>> \in Seq({W, A, B}) /\ <<A, B>> \in Seq({W, A, B}) /\ <<>> \in Seq({W, A, B})
    OBVIOUS
  <2>2. QED
    BY Zenon, <2>1 DEF When, Deflate
<1>3. \A v : Among(v, rest) <=> ~t /\ v \in {A, B}
  <2>1. CASE t
    BY <2>1 DEF Among, When
  <2>2. CASE ~t
    <3>1. rest = <<A, B>>
      BY <2>2 DEF When
    <3>2. QED
      BY <2>2, <3>1 DEF Among
  <2>3. QED
    BY <2>1, <2>2
<1>4. \A v : Among(v, <<W>>) <=> v = W
  BY DEF Among
<1> DEFINE ps == e.params
<1>5. ps = <<W>> \o rest
  BY Zenon, <1>2
<1> HIDE DEF ps, e, rest
<1>6. \A v : Among(v, ps) <=> v = W \/ (~t /\ v \in {A, B})
  <2> DEFINE S == {W, A, B}
             first == <<W>>
  <2>1. first \in Seq(S) /\ rest \in Seq(S) /\ ps = first \o rest
    BY <1>2, <1>5
  <2> HIDE DEF S, first
  <2>2. \A v : Among(v, ps) <=> Among(v, first) \/ Among(v, rest)
    BY <2>1, AmongBoth
  <2>3. QED
    BY <1>3, <1>4, <2>2 DEF first
<1>7. /\ W.name = "client_max_window_bits" /\ W.value = 0
      /\ A.name = "client_no_context_takeover" /\ B.name = "server_no_context_takeover"
  BY DEF Param
<1>8. \A name : Has(e, name) \in BOOLEAN /\ (Has(e, name) <=> \E v : Among(v, ps) /\ v.name = name)
  BY DEF Has, Among, ps
<1>9. /\ Has(e, "client_max_window_bits") /\ ~Has(e, "server_max_window_bits")
      /\ Has(e, "server_no_context_takeover") <=> ~t
      /\ Has(e, "client_no_context_takeover") <=> ~t
  BY <1>6, <1>7, <1>8
<1>10. ValueOf(e, "client_max_window_bits") = 0
  <2> DEFINE at == CHOOSE i \in DOMAIN ps : ps[i].name = "client_max_window_bits"
  <2>1. at \in DOMAIN ps /\ ps[at].name = "client_max_window_bits"
    BY <1>9 DEF Has, ps
  <2>2. ps[at].value = 0
    BY <1>6, <1>7, <2>1 DEF Among
  <2>3. QED
    BY <1>9, <2>2 DEF ValueOf, ps
<1>11. ValueOf(e, "server_max_window_bits") = 0
  BY <1>9 DEF ValueOf
<1>12. QED
  BY <1>1, <1>8, <1>9, <1>10, <1>11 DEF ParseDeflate

\* Dial against Server or Upgrade: for all options of the two, if both accept the
\* handshake then each direction's sender keeps to what its receiver remembers, and
\* the subprotocol is the same.
THEOREM EwsEndsAgree ==
  ASSUME NEW copts, NEW sopts, NEW key, NEW req, NEW n, NEW k,
         copts.compression # NoCompression => copts.compression.takeover \in BOOLEAN,
         DOMAIN sopts.protocols \subseteq Nat,
         req = NewRequest(copts, key),
         n = Negotiate(req, sopts), n.err = "none",
         k = Confirm(req, n.resp, copts), k.err = "none"
  PROVE  Compatible(n.res.compression, k.res.compression) /\ n.res.protocol = k.res.protocol
<1> DEFINE c == n.res.compression
           res == k.res
<1>1. req.extensions # Malformed => DOMAIN req.extensions \subseteq Nat
  BY DEF NewRequest
<1>2. /\ n.resp.protocol = n.res.protocol
      /\ n.resp.extensions = IF c = NoCompression THEN <<>> ELSE <<FormatDeflate(c)>>
      /\ c # NoCompression => \E i \in Usable(req.extensions) : Honours(c, ParseDeflate(req.extensions[i]))
  <2>1. Negotiated(n, req)
    BY <1>1, NegotiateResult
  <2>2. QED
    BY Zenon, <2>1 DEF Negotiated
<1>3. res.protocol = n.resp.protocol
  BY ConfirmResult
<1>4. CASE c = NoCompression
  <2>1. res.compression = NoCompression
    BY <1>2, <1>4, ConfirmResult
  <2>2. QED
    BY <1>2, <1>3, <1>4, <2>1 DEF Compatible
<1>5. CASE c # NoCompression
  <2> DEFINE p == ParseDeflate(FormatDeflate(c))
             t == copts.compression.takeover
  <2>1. n.resp.extensions # <<>> /\ n.resp.extensions[1] = FormatDeflate(c)
    BY <1>2, <1>5
  <2>2. /\ copts.compression # NoCompression /\ p.ok
        /\ res.compression = Accepted(p, t)
    BY <2>1, ConfirmResult
  <2>3. Honours(c, ParseDeflate(req.extensions[1]))
    BY <1>2, <1>5, <2>2, OfferParses DEF Usable, Honours
  <2>4. /\ c \in CompressionResults /\ t \in BOOLEAN
        /\ c.sendTakeover => t
        /\ c.sendBits = 0 /\ c.receiveBits = 15
    BY ZenonT(30), <2>2, <2>3, OfferParses DEF Honours
  <2> HIDE DEF c, p
  <2>5. /\ p.serverNoContextTakeover = ~c.sendTakeover /\ p.clientNoContextTakeover = ~c.receiveTakeover
        /\ p.serverMaxWindowBits = 0 /\ p.clientMaxWindowBits = 0
    BY <2>4, FormatParses DEF p
  <2>6. c.sendTakeover \in BOOLEAN /\ c.receiveTakeover \in BOOLEAN
    BY <2>4 DEF CompressionResults
  <2>7. res.compression \in CompressionResults
    BY <2>2, <2>4, <2>5, <2>6 DEF Accepted, CompressionResults, WindowBits
  <2>8. res.compression # NoCompression
    BY <2>7, NoCompressionIsNil DEF CompressionResults
  <2>9. SenderFits(c.sendTakeover, c.sendBits, res.compression.receiveTakeover, res.compression.receiveBits)
    BY <2>2, <2>4, <2>5, <2>6 DEF Accepted, SenderFits, Bits
  <2>10. SenderFits(res.compression.sendTakeover, res.compression.sendBits, c.receiveTakeover, c.receiveBits)
    BY <2>2, <2>4, <2>5, <2>6 DEF Accepted, SenderFits, Bits
  <2>11. QED
    BY <1>2, <1>3, <1>5, <2>8, <2>9, <2>10 DEF Compatible, c
<1>6. QED
  BY <1>4, <1>5
=============================================================================
