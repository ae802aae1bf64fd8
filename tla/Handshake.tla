----------------------------- MODULE Handshake -----------------------------
(***************************************************************************)
(* The opening handshake as pure operators: NewRequest, Negotiate and      *)
(* Confirm with parseDeflate and formatDeflate (handshake/).               *)
(*                                                                         *)
(* A Sec-WebSocket-Extensions value is the sequence parseExtensions makes  *)
(* of it, or Malformed; a parameter without a value has value 0.  Tokens   *)
(* are compared without regard to case in the code and have one spelling   *)
(* here.                                                                   *)
(***************************************************************************)
EXTENDS Integers, Sequences

CONSTANTS
  NoCompression,  \* Options.Compression = nil, and Result.Compression = nil.
  Malformed       \* A header value parseExtensions refuses.

ParamNames == {"server_no_context_takeover", "client_no_context_takeover",
               "server_max_window_bits", "client_max_window_bits"}
Param(name, value) == [name |-> name, value |-> value]
Deflate(params) == [name |-> "permessage-deflate", params |-> params]

\* windowBits: absent, or in range.
WindowBits == {0} \cup 8..15

ASSUME NoCompressionIsNil ==
  NoCompression \notin [sendTakeover : BOOLEAN, receiveTakeover : BOOLEAN,
                        sendBits : WindowBits, receiveBits : WindowBits]

Has(e, name) == \E i \in DOMAIN e.params : e.params[i].name = name
ValueOf(e, name) ==
  IF Has(e, name) THEN e.params[CHOOSE i \in DOMAIN e.params : e.params[i].name = name].value ELSE 0

\* parseDeflate.
ParseDeflate(e) ==
  LET bare == {"server_no_context_takeover", "client_no_context_takeover"}
      bits == ValueOf(e, "client_max_window_bits")
  IN [ok |-> /\ \A i, j \in DOMAIN e.params : e.params[i].name = e.params[j].name => i = j
             /\ \A i \in DOMAIN e.params :
                  /\ e.params[i].name \in ParamNames
                  /\ e.params[i].name \in bare => e.params[i].value = 0
                  /\ e.params[i].name \notin bare => e.params[i].value \in WindowBits
                  /\ e.params[i].name = "server_max_window_bits" => e.params[i].value # 0,
      serverNoContextTakeover |-> Has(e, "server_no_context_takeover"),
      clientNoContextTakeover |-> Has(e, "client_no_context_takeover"),
      serverMaxWindowBits |-> ValueOf(e, "server_max_window_bits"),
      clientMaxWindowBits |-> IF Has(e, "client_max_window_bits") /\ bits = 0 THEN 15 ELSE bits]

When(cond, s) == IF cond THEN s ELSE <<>>

\* formatDeflate.
FormatDeflate_M(c) ==
  Deflate(When(~c.sendTakeover, <<Param("server_no_context_takeover", 0)>>)
          \o When(c.sendBits \notin {0, 15}, <<Param("server_max_window_bits", c.sendBits)>>))
FormatDeflate(c) ==
  Deflate(When(~c.sendTakeover, <<Param("server_no_context_takeover", 0)>>)
          \o When(~c.receiveTakeover, <<Param("client_no_context_takeover", 0)>>)
          \o When(c.sendBits \notin {0, 15}, <<Param("server_max_window_bits", c.sendBits)>>))

\* Accept: one for each key.
Accept(key) == [of |-> key]
-----------------------------------------------------------------------------
\* Options: whether validOptions finds them valid, compression, subprotocols in
\* order of preference.

NewRequest(opts, key) ==
  [get |-> TRUE, upgrade |-> TRUE, version |-> 13, key |-> key,
   protocols |-> opts.protocols,
   extensions |->
     IF opts.compression = NoCompression THEN <<>>
     ELSE <<Deflate(<<Param("client_max_window_bits", 0)>>
                    \o When(~opts.compression.takeover,
                            <<Param("client_no_context_takeover", 0), Param("server_no_context_takeover", 0)>>))>>]

Offered(protocols, p) == \E i \in DOMAIN protocols : protocols[i] = p

\* selectProtocol: "" when there is none in common.
SelectProtocol(requested, supported) ==
  LET common == {i \in DOMAIN supported : Offered(requested, supported[i])}
  IN IF common = {} THEN "" ELSE supported[CHOOSE i \in common : \A j \in common : i <= j]

\* The offers Negotiate can honour.
Usable(extensions) ==
  {i \in DOMAIN extensions : extensions[i].name = "permessage-deflate" /\ ParseDeflate(extensions[i]).ok}

Refuse(e) == [err |-> e]

Negotiate(req, opts) ==
  LET refused == IF ~opts.valid THEN "options"
                 ELSE IF ~req.get \/ ~req.upgrade THEN "not_websocket"
                 ELSE IF req.version # 13 THEN "version"
                 ELSE IF req.key = "bad" THEN "key"
                 ELSE IF opts.compression # NoCompression /\ req.extensions = Malformed THEN "extension"
                 ELSE "none"
      usable == IF opts.compression = NoCompression THEN {} ELSE Usable(req.extensions)
      p == ParseDeflate(req.extensions[CHOOSE i \in usable : \A j \in usable : i <= j])
      takeover == opts.compression.takeover
      compression ==
        IF usable = {} THEN NoCompression
        ELSE [sendTakeover |-> takeover /\ ~p.serverNoContextTakeover,
              receiveTakeover |-> takeover /\ ~p.clientNoContextTakeover,
              sendBits |-> p.serverMaxWindowBits,
              receiveBits |-> p.clientMaxWindowBits]
      protocol == SelectProtocol(req.protocols, opts.protocols)
  IN IF refused # "none" THEN Refuse(refused)
     ELSE [err |-> "none",
           res |-> [compression |-> compression, protocol |-> protocol],
           resp |-> [status |-> 101, upgrade |-> TRUE, accept |-> Accept(req.key), protocol |-> protocol,
                     extensions |-> IF compression = NoCompression THEN <<>>
                                    ELSE <<FormatDeflate(compression)>>]]

Confirm(req, resp, opts) ==
  LET exts == resp.extensions
      p == ParseDeflate(exts[1])
      takeover == opts.compression.takeover
      refused == IF resp.status # 101 THEN "status"
                 ELSE IF ~resp.upgrade THEN "not_websocket"
                 ELSE IF resp.accept # Accept(req.key) THEN "accept"
                 ELSE IF resp.protocol # "" /\ ~Offered(req.protocols, resp.protocol) THEN "protocol"
                 ELSE IF exts = Malformed THEN "extension"
                 ELSE IF exts = <<>> THEN "none"
                 ELSE IF Len(exts) # 1 THEN "extension"
                 ELSE IF exts[1].name # "permessage-deflate" \/ opts.compression = NoCompression THEN "extension"
                 ELSE IF ~p.ok THEN "extension"
                 ELSE "none"
  IN IF refused # "none" THEN Refuse(refused)
     ELSE [err |-> "none",
           res |-> [protocol |-> resp.protocol,
                    compression |->
                      IF exts = <<>> THEN NoCompression
                      ELSE [sendTakeover |-> takeover /\ ~p.clientNoContextTakeover,
                            receiveTakeover |-> takeover /\ ~p.serverNoContextTakeover,
                            sendBits |-> p.clientMaxWindowBits,
                            receiveBits |-> p.serverMaxWindowBits]]]
-----------------------------------------------------------------------------
\* What the two ends must agree on.

Bits(b) == IF b = 0 THEN 15 ELSE b

\* A sender never uses history its receiver does not keep: a takeover the receiver
\* does not expect, or a window larger than the receiver's.
SenderFits(sendTakeover, sendBits, receiveTakeover, receiveBits) ==
  (sendTakeover => receiveTakeover) /\ Bits(sendBits) <= Bits(receiveBits)

\* Both ends compress or neither does, and each direction fits.
Compatible(server, client) ==
  /\ (server = NoCompression) <=> (client = NoCompression)
  /\ server # NoCompression =>
       /\ SenderFits(server.sendTakeover, server.sendBits, client.receiveTakeover, client.receiveBits)
       /\ SenderFits(client.sendTakeover, client.sendBits, server.receiveTakeover, server.receiveBits)
=============================================================================
