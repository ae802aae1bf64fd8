----------------------------- MODULE MCConnect -----------------------------
EXTENDS Connect

CONSTANTS l1, l2, l3

MCListenerOf == [l \in {l1, l2, l3} |-> IF l = l2 THEN "lnB" ELSE "lnA"]

Compressions == {NoCompression} \cup [takeover : BOOLEAN]
Options(protocols) == [valid : {TRUE}, compression : Compressions, protocols : protocols]

Base == [client |-> "dial", server |-> "serve", head |-> "ok", copts |-> NoMessage, sopts |-> NoMessage,
         request |-> NoMessage, response |-> NoMessage,
         calls |-> {l1}, stops |-> FALSE, frames |-> 0]

\* Offers of foreign clients: each parameter present, absent, at the ends of its range
\* and out of it; a duplicate; an unknown parameter; two offers of which the second is usable.
P(name, value) == Param(name, value)
Offers ==
  {Malformed, <<>>,
   <<Deflate(<<>>)>>,
   <<Deflate(<<P("server_no_context_takeover", 0)>>)>>,
   <<Deflate(<<P("client_no_context_takeover", 0), P("server_max_window_bits", 8)>>)>>,
   <<Deflate(<<P("client_max_window_bits", 10), P("server_max_window_bits", 15)>>)>>,
   <<Deflate(<<P("server_max_window_bits", 7)>>), Deflate(<<P("client_max_window_bits", 0)>>)>>,
   <<Deflate(<<P("server_max_window_bits", 9), P("server_max_window_bits", 10)>>)>>,
   <<[name |-> "other", params |-> <<>>], Deflate(<<P("unknown", 0)>>),
     Deflate(<<P("server_max_window_bits", 10)>>)>>}
GoodRequest(exts) ==
  [get |-> TRUE, upgrade |-> TRUE, version |-> 13, key |-> "k2", protocols |-> <<"a", "b">>, extensions |-> exts]

\* Answers of foreign servers that keep to Dial's offer, and refusals.
Answer(exts, proto) ==
  [status |-> 101, upgrade |-> TRUE, accept |-> [of |-> "right"], protocol |-> proto, extensions |-> exts]
Both == <<P("server_no_context_takeover", 0), P("client_no_context_takeover", 0)>>
AnswersTo(compression) ==
  {Answer(<<>>, "a"), Answer(Malformed, ""), Answer(<<>>, "c"),
   [Answer(<<>>, "") EXCEPT !.accept.of = "wrong"], [Answer(<<>>, "") EXCEPT !.status = 200]}
  \cup (IF compression = NoCompression THEN {Answer(<<Deflate(<<>>)>>, "")}
        ELSE {Answer(<<Deflate(Both \o <<P("client_max_window_bits", 9)>>)>>, ""),
              Answer(<<Deflate(<<P("server_no_context_takeover", 0), P("server_max_window_bits", 8)>>)>>, "")}
             \cup (IF compression.takeover THEN {Answer(<<Deflate(<<>>)>>, "")} ELSE {}))

DialToServer ==
  {[Base EXCEPT !.copts = c, !.sopts = s, !.server = k] :
     c \in Options({<<"a", "b">>}), s \in Options({<<"b", "a">>}), k \in {"serve", "upgrade"}}
BadOptions == {[Base EXCEPT !.copts = [valid |-> FALSE, compression |-> NoCompression, protocols |-> <<>>],
                            !.sopts = [valid |-> TRUE, compression |-> NoCompression, protocols |-> <<>>]]}
ForeignClients ==
  {[Base EXCEPT !.client = "foreign", !.request = GoodRequest(e), !.sopts = s, !.server = k] :
     e \in Offers, s \in Options({<<"c", "b">>}), k \in {"serve", "upgrade"}}
Refusals ==
  {[Base EXCEPT !.client = "foreign", !.request = r, !.head = h,
                !.sopts = [valid |-> v, compression |-> NoCompression, protocols |-> <<>>]] :
     r \in {GoodRequest(<<>>), [GoodRequest(<<>>) EXCEPT !.version = 8], [GoodRequest(<<>>) EXCEPT !.key = "bad"],
            [GoodRequest(<<>>) EXCEPT !.get = FALSE]},
     h \in Heads, v \in BOOLEAN}
ForeignServers ==
  UNION {{[Base EXCEPT !.server = "foreign", !.copts = c, !.response = r] : r \in AnswersTo(c.compression)} :
           c \in Options({<<"a", "b">>})}

Plain == [valid |-> TRUE, compression |-> NoCompression, protocols |-> <<>>]

\* Frames right behind the handshake, each way and with each kind of peer.
Frames ==
  {[Base EXCEPT !.copts = Plain, !.sopts = Plain, !.server = k, !.client = c, !.request = GoodRequest(<<>>),
                !.response = Answer(<<>>, ""), !.frames = 2] :
     c \in {"dial", "foreign"}, k \in {"serve", "upgrade"}}
  \cup {[Base EXCEPT !.copts = Plain, !.server = "foreign", !.response = Answer(<<>>, ""), !.frames = 2]}

\* Two Serve calls, on two listeners or on one, failing listeners and Close around a
\* handshake.
Stops ==
  {[Base EXCEPT !.copts = Plain, !.sopts = Plain, !.client = c, !.request = GoodRequest(<<>>),
                !.calls = ls, !.stops = TRUE] :
     c \in {"dial", "foreign"}, ls \in {{l1, l2}, {l1, l3}}}

MCSetups ==
  DialToServer \cup BadOptions \cup ForeignClients \cup Refusals \cup ForeignServers \cup Frames \cup Stops
=============================================================================
