------------------------------- MODULE Inflate -------------------------------
(***************************************************************************)
(* Received messages and the storage they are in: deflate.Decompressor     *)
(* (deflate/decompressor.go), the way a Conn uses it (ws/conn_compress.go) *)
(* and the message buffers of ReadMessage (ws/conn_read.go), over pools    *)
(* that the connections share.                                             *)
(*                                                                         *)
(* A compressed message is a sequence of DEFLATE blocks, a payload unit    *)
(* <<message, -number>> each, that put out units <<message, offset>>. A    *)
(* block may refer to everything that the peer's encoder has behind it, so *)
(* the inflater's history must be the peer's.  What enters the connection  *)
(* as frames is ReadPath's subject.                                        *)
(***************************************************************************)
EXTENDS Bufpool, FiniteSets, SequencesExt

CONSTANTS
  Conns, Takeover,  \* Connections; those with receive context takeover.
  Messages,         \* What each peer may send; frags are the payloads of its frames.
  WindowSize,       \* Window.Size().
  PoolKeep, Step,   \* poolKeep; the 32 KB of Decompress.
  Limit,            \* MaxMessageSize.
  ReadSizes,        \* len(b) of the calls of Read.
  FragmentSize,
  MaxMessages       \* Bound: messages received in one behaviour.

\* Blocks end a DEFLATE stream or not, and put out n units; the peer may send one
\* that does not inflate.
Blocks == [final : BOOLEAN, n : Nat, ok : BOOLEAN]

Total(lengths) ==
  LET upTo[i \in 0..Len(lengths)] == IF i = 0 THEN 0 ELSE upTo[i - 1] + lengths[i]
  IN upTo[Len(lengths)]
\* What n blocks put out.
OutputOf(blocks, n) == Total([i \in 1..n |-> blocks[i].n])

ASSUME InflateAssumption ==
  /\ Takeover \subseteq Conns
  /\ \A c \in Conns : \A m \in Messages[c] :
       /\ m \in [deflated : BOOLEAN, frags : Seq(Nat), blocks : Seq(Blocks)]
       /\ m.frags # <<>> /\ (m.deflated => Total(m.frags) = Len(m.blocks))
  /\ WindowSize \in Nat \ {0} /\ PoolKeep \in Nat /\ Step \in Nat \ {0} /\ Limit \in Nat
  /\ ReadSizes \subseteq Nat \ {0} /\ FragmentSize \in Nat \ {0} /\ MaxMessages \in Nat

VARIABLES
  bufs,             \* All storage.
  msgs, msg,        \* msgBufs: [b, large, home, pooled]; Conn.msg, or 0.
  hint,             \* Conn.msgHint.
  decs, dec,        \* Decompressors; decomp.dec, or 0.
  window,           \* Receive windows.
  streaming, large, \* decomp.streaming, decomp.large.
  cur,              \* The message being read: number, message; where it stands, and the
                    \* buffer its payload was gathered in, or 0.
  got,              \* What the application got of it: units, and the buffer they are in.
  result,           \* How the last call ended.
  peer,             \* What the peer's encoder has behind it.
  count

vars == <<bufs, msgs, msg, hint, decs, dec, window, streaming, large, cur, got, result, peer, count>>

Trim(s) == IF Len(s) <= WindowSize THEN s ELSE SubSeq(s, Len(s) - WindowSize + 1, Len(s))

\* What finish leaves, the position in its input cleared as well.  conn: whose window
\* it has, or None.
None == "none"
Idle(d) ==
  [d EXCEPT !.active = FALSE, !.done = FALSE, !.stream = FALSE, !.conn = None, !.blocks = <<>>, !.number = 0,
            !.at = 1, !.pos = 0]
NewDecompressor ==
  [active |-> FALSE, done |-> FALSE, stream |-> FALSE, conn |-> None, blocks |-> <<>>, number |-> 0,
   scratch |-> <<>>, kept |-> 0, len |-> 0, out |-> 0, in |-> 0, hist |-> <<>>, at |-> 1, pos |-> 0, pooled |-> 0]
NoMessage == [number |-> 0, m |-> [deflated |-> FALSE, frags |-> <<>>, blocks |-> <<>>], at |-> "none", frag |-> 0,
              from |-> 0]
Nothing == [buf |-> 0, units |-> <<>>]

Init ==
  /\ bufs = <<>> /\ msgs = <<>> /\ decs = <<>>
  /\ msg = [c \in Conns |-> 0] /\ hint = [c \in Conns |-> 0]
  /\ dec = [c \in Conns |-> 0] /\ window = [c \in Conns |-> <<>>]
  /\ streaming = [c \in Conns |-> FALSE] /\ large = [c \in Conns |-> FALSE]
  /\ cur = [c \in Conns |-> NoMessage] /\ got = [c \in Conns |-> Nothing]
  /\ result = [c \in Conns |-> "none"] /\ peer = [c \in Conns |-> <<>>]
  /\ count = 0
-----------------------------------------------------------------------------
\* Decompressor.  Its methods are operators on s = [d, bufs, window].

Output(s) == Bytes(s.bufs, s.d.out, s.d.len)
Remember(s, units) ==
  IF s.d.conn = None THEN s ELSE [s EXCEPT !.window[s.d.conn] = Trim(@ \o units)]

finish_M(s, ok) ==
  LET kept == IF ok /\ ~s.d.stream THEN Remember(s, Output(s)) ELSE s
      lost == IF ~ok /\ s.d.conn # None THEN [kept EXCEPT !.window[s.d.conn] = <<>>] ELSE kept
  IN [lost EXCEPT !.d = Idle(@)]
finish(s, ok) ==
  LET kept == IF ok /\ ~s.d.stream THEN Remember(s, SubSeq(Output(s), s.d.kept + 1, s.d.len)) ELSE s
      lost == IF ~ok /\ s.d.conn # None THEN [kept EXCEPT !.window[s.d.conn] = <<>>] ELSE kept
  IN [lost EXCEPT !.d = Idle(@)]

\* inflateTail: the block whose end was stripped, and one that ends the stream.
inflateTail == <<[final |-> FALSE, n |-> 0, ok |-> TRUE], [final |-> TRUE, n |-> 0, ok |-> TRUE]>>

\* The payload of a message, and what begin copies behind it.
Payload(number, m) ==
  [i \in 1..Total(m.frags) |-> <<number, IF m.deflated THEN -i ELSE i>>]
TailUnits == [i \in DOMAIN inflateTail |-> <<0, -i>>]

\* begin: the payload is copied into in, unless it is streamed.
begin(s, conn, number, blocks, payload, stream) ==
  LET ended == IF s.d.active THEN finish(s, FALSE) ELSE s
      need == Len(blocks) + Len(inflateTail)
      in == IF ~stream /\ Cap(ended.bufs, ended.d.in) < need THEN Get(Put(ended.bufs, ended.d.in), need)
            ELSE [bufs |-> ended.bufs, id |-> ended.d.in]
  IN [ended EXCEPT
        !.bufs = IF stream THEN in.bufs ELSE Fill(in.bufs, in.id, 0, payload \o TailUnits),
        !.d = [@ EXCEPT !.active = TRUE, !.done = FALSE, !.stream = stream, !.conn = conn, !.number = number,
                        !.blocks = blocks \o inflateTail, !.scratch = <<>>, !.kept = 0, !.in = in.id,
                        !.hist = IF conn = None THEN <<>> ELSE ended.window[conn], !.at = 1, !.pos = 0]]

\* The inflater at work on block at, of which pos units are out: what a read of at
\* most k units may return.  The end, or an error, comes with the last units or alone.
Inflated(d, k) ==
  LET j == CHOOSE i \in d.at..Len(d.blocks) :
             /\ d.blocks[i].final \/ d.blocks[i].n > (IF i = d.at THEN d.pos ELSE 0) \/ ~d.blocks[i].ok
             /\ \A h \in d.at..(i - 1) : ~d.blocks[h].final /\ d.blocks[h].n = (IF h = d.at THEN d.pos ELSE 0)
      b == d.blocks[j]
      from == IF j = d.at THEN d.pos ELSE 0
      before == OutputOf(d.blocks, j - 1) + from
      n == Smaller(k, b.n - from)
      units == [i \in 1..n |-> <<d.number, before + i>>]
      last == n = b.n - from
      needs == j > d.at \/ d.pos = 0
  IN (IF ~b.ok THEN {[units |-> <<>>, err |-> "corrupt", at |-> j, pos |-> 0]}
      ELSE IF k = 0 THEN {[units |-> <<>>, err |-> "none", at |-> d.at, pos |-> d.pos]}
      ELSE IF n = 0 THEN {[units |-> <<>>, err |-> "EOF", at |-> j + 1, pos |-> 0]}
      ELSE {[units |-> units, err |-> "none", at |-> j, pos |-> from + n]}
           \cup (IF last /\ b.final THEN {[units |-> units, err |-> "EOF", at |-> j + 1, pos |-> 0]} ELSE {})
           \cup (IF last /\ ~d.blocks[j + 1].ok THEN {[units |-> units, err |-> "corrupt", at |-> j, pos |-> 0]} ELSE {}))
     \cup (IF d.stream /\ needs THEN {[units |-> <<>>, err |-> "source", at |-> d.at, pos |-> d.pos]} ELSE {})

\* dict, for an output that n units were just written behind.
Dict(s, n) ==
  LET out == Bytes(s.bufs, s.d.out, s.d.len + n)
      now == Remember(s, SubSeq(out, s.d.kept + 1, s.d.len + n))
  IN IF s.d.stream
     THEN [s EXCEPT !.d.hist = IF s.d.conn # None THEN s.window[s.d.conn] ELSE s.d.scratch]
     ELSE IF s.d.conn # None
     THEN [now EXCEPT !.d.kept = s.d.len + n, !.d.hist = now.window[s.d.conn]]
     ELSE [s EXCEPT !.d.hist = Trim(out)]

exhausted(d) == d.at > Len(d.blocks)

\* One pass of Read for the inflater's answer o: the state, how many units the caller
\* gets, and "none", "EOF", an error, or "again" for another pass.
ReadPass(s, o) ==
  LET n == Len(o.units)
      moved == [s EXCEPT !.d.at = o.at, !.d.pos = o.pos, !.d.hist = Trim(@ \o o.units)]
      out == IF ~s.d.stream THEN [moved EXCEPT !.bufs = Fill(@, s.d.out, s.d.len, o.units)]
             ELSE IF s.d.conn # None THEN Remember(moved, o.units)
             ELSE [moved EXCEPT !.d.scratch = Trim(@ \o o.units)]
  IN CASE o.err = "EOF" /\ exhausted(out.d) ->
            IF n = 0 THEN [s |-> finish(out, TRUE), n |-> 0, err |-> "EOF"]
            ELSE [s |-> [out EXCEPT !.d.done = TRUE], n |-> n, err |-> "none"]
       [] o.err = "EOF" /\ ~exhausted(out.d) -> [s |-> Dict(out, n), n |-> n, err |-> IF n = 0 THEN "again" ELSE "none"]
       [] o.err \in {"corrupt", "source"} -> [s |-> finish(out, FALSE), n |-> 0, err |-> o.err]
       \* io.ErrNoProgress.
       [] o.err = "none" /\ n = 0 -> [s |-> finish(out, FALSE), n |-> 0, err |-> "corrupt"]
       [] OTHER -> [s |-> out, n |-> n, err |-> "none"]

\* Decompress: the reservation, and the growth once it is full.
Reserve(s, payload) ==
  LET want == Smaller(4 * payload, Limit + 1)
      g == Get(Put(s.bufs, s.d.out), want)
  IN IF Cap(s.bufs, s.d.out) < want THEN [s EXCEPT !.bufs = g.bufs, !.d.out = g.id, !.d.len = 0]
     ELSE [s EXCEPT !.d.len = 0]
projected(s) == (s.d.len * (Len(s.d.blocks) + 1 - s.d.at)) \div Larger(1, s.d.at - 1)

grow(s) ==
  LET room == Larger(Larger(Step, s.d.len \div 2), projected(s) + projected(s) \div 16)
      g == Get(s.bufs, s.d.len + room)
  IN [s EXCEPT !.bufs = Put(Fill(g.bufs, g.id, 0, Output(s)), s.d.out), !.d.out = g.id]

ReadSize_M(s) == Smaller(Cap(s.bufs, s.d.out) - s.d.len, Limit - s.d.len)
\* One more than the limit allows tells a result at the limit from one past it.
ReadSize(s) == Smaller(Cap(s.bufs, s.d.out) - s.d.len, Limit - s.d.len + 1)
-----------------------------------------------------------------------------
\* Message buffers.

\* growMsg: room for n more behind len, as [bufs, msgs, id].
growMsg(c, len, n) ==
  LET there == {i \in DOMAIN msgs : msgs[i].pooled > 0}
      id == IF msg[c] # 0 THEN msg[c]
            ELSE IF there # {} THEN CHOOSE i \in there : \A j \in there : i <= j
            ELSE Len(msgs) + 1
      held == IF msg[c] # 0 THEN msgs
              ELSE IF there # {} THEN [msgs EXCEPT ![id].pooled = @ - 1]
              ELSE Append(msgs, [b |-> 0, large |-> 0, home |-> 0, pooled |-> 0])
      m == held[id]
      need == len + n
      small == Make(bufs, Smaller(Larger(need, 2 * Cap(bufs, m.b)), PoolKeep))
      big == Get(bufs, Larger(need, hint[c]))
      kept == Bytes(bufs, m.b, len)
  IN CASE need <= Cap(bufs, m.b) -> [bufs |-> bufs, msgs |-> held, id |-> id]
       [] need > Cap(bufs, m.b) /\ need <= PoolKeep ->
            [bufs |-> Fill(small.bufs, small.id, 0, kept), msgs |-> [held EXCEPT ![id].b = small.id], id |-> id]
       [] OTHER ->
            [bufs |-> Put(Fill(big.bufs, big.id, 0, kept), m.large),
             msgs |-> [held EXCEPT ![id].b = big.id, ![id].large = big.id,
                                   ![id].home = IF m.large = 0 THEN m.b ELSE @],
             id |-> id]

\* releaseMsg, on [bufs, msgs].
releaseMsg_M(c, s) ==
  LET m == s.msgs[msg[c]]
  IN IF msg[c] = 0 THEN s
     ELSE [bufs |-> Put(s.bufs, m.large),
           msgs |-> [s.msgs EXCEPT ![msg[c]].large = 0, ![msg[c]].home = 0, ![msg[c]].pooled = @ + 1]]
releaseMsg(c, s) ==
  LET m == s.msgs[msg[c]]
  IN IF msg[c] = 0 THEN s
     ELSE [bufs |-> Put(s.bufs, m.large),
           msgs |-> [s.msgs EXCEPT ![msg[c]].b = IF m.large # 0 THEN m.home ELSE @, ![msg[c]].large = 0,
                                   ![msg[c]].home = IF m.large # 0 THEN 0 ELSE @, ![msg[c]].pooled = @ + 1]]
-----------------------------------------------------------------------------
\* The connection.

WindowOf(c) == IF c \in Takeover THEN c ELSE None

\* acquireDecompressor: where it is, and all of them with it.
Acquired(c) ==
  LET there == {k \in DOMAIN decs : decs[k].pooled > 0}
  IN IF dec[c] # 0 THEN [id |-> dec[c], decs |-> decs]
     ELSE IF there = {} THEN [id |-> Len(decs) + 1, decs |-> Append(decs, NewDecompressor)]
     ELSE LET k == CHOOSE i \in there : \A j \in there : i <= j IN [id |-> k, decs |-> [decs EXCEPT ![k].pooled = @ - 1]]

State(d) == [d |-> d, bufs |-> bufs, window |-> window]
Apply(c, k, all, s) ==
  /\ decs' = [all EXCEPT ![k] = s.d] /\ dec' = [dec EXCEPT ![c] = k]
  /\ bufs' = s.bufs /\ window' = s.window

\* releaseDecompressor: Reset or ReleaseOutput, and back to the pool.
Released(c) ==
  LET s == finish(State(decs[dec[c]]), FALSE)
  IN IF dec[c] = 0 THEN [bufs |-> bufs, window |-> window, decs |-> decs]
     ELSE IF large[c]
     THEN [bufs |-> Put(Put(s.bufs, s.d.out), s.d.in), window |-> s.window,
           decs |-> [decs EXCEPT ![dec[c]] = [s.d EXCEPT !.len = 0, !.out = 0, !.in = 0, !.pooled = @ + 1]]]
     ELSE [bufs |-> s.bufs, window |-> s.window,
           decs |-> [decs EXCEPT ![dec[c]] = [s.d EXCEPT !.len = 0, !.pooled = @ + 1]]]

\* NextMessage behind its discard, and the message that comes.  It is read whole, by
\* ReadMessage, or left to Read.
Advance(c) ==
  LET r == Released(c)
      s == releaseMsg(c, [bufs |-> r.bufs, msgs |-> msgs])
  IN /\ bufs' = s.bufs /\ msgs' = s.msgs /\ decs' = r.decs /\ window' = r.window
     /\ msg' = [msg EXCEPT ![c] = 0] /\ dec' = [dec EXCEPT ![c] = 0]
     /\ large' = [large EXCEPT ![c] = FALSE] /\ streaming' = [streaming EXCEPT ![c] = FALSE]
     /\ got' = [got EXCEPT ![c] = Nothing] /\ result' = [result EXCEPT ![c] = "none"]
     /\ count < MaxMessages /\ count' = count + 1
     /\ \E m \in Messages[c] : \E at \in {"assemble"} \cup IF m.deflated THEN {"open"} ELSE {} :
          cur' = [cur EXCEPT ![c] = [number |-> count + 1, m |-> m, at |-> at, frag |-> 1, from |-> 0]]
     /\ UNCHANGED <<hint, peer>>

\* discard inflates the rest of a message the window needs; staging gives it a buffer.
NextMessage(c) ==
  \/ /\ cur[c].at \in {"none", "done", "drained"} \/ (cur[c].at = "open" /\ c \notin Takeover)
     /\ Advance(c)
  \/ /\ cur[c].at = "open" /\ c \in Takeover /\ count < MaxMessages
     /\ LET g == growMsg(c, 0, FragmentSize)
        IN bufs' = g.bufs /\ msgs' = g.msgs /\ msg' = [msg EXCEPT ![c] = g.id]
     /\ cur' = [cur EXCEPT ![c].at = "discard"] /\ got' = [got EXCEPT ![c] = Nothing]
     /\ UNCHANGED <<hint, decs, dec, window, streaming, large, result, peer, count>>

\* How a message ends for the application.
End(c, r, units, buf) ==
  /\ cur' = [cur EXCEPT ![c].at = IF r = "message" THEN "done" ELSE "failed"]
  /\ result' = [result EXCEPT ![c] = r] /\ got' = [got EXCEPT ![c] = [buf |-> buf, units |-> units]]

AllUnits(c) ==
  LET total == IF cur[c].m.deflated THEN OutputOf(cur[c].m.blocks, Len(cur[c].m.blocks))
               ELSE Total(cur[c].m.frags)
  IN [i \in 1..total |-> <<cur[c].number, i>>]
Heard(c) == peer' = IF c \in Takeover /\ cur[c].m.deflated THEN [peer EXCEPT ![c] = Trim(@ \o AllUnits(c))] ELSE peer

\* finishMessage: a compressed payload is still to be inflated.
Assembled(c, payload, buf) ==
  \/ /\ cur[c].m.deflated
     /\ cur' = [cur EXCEPT ![c].at = "begin", ![c].from = buf]
     /\ UNCHANGED <<got, result, peer>>
  \/ ~cur[c].m.deflated /\ End(c, "message", payload, buf) /\ Heard(c)

\* assemble, frame by frame.  A message of one frame that came in one chunk is
\* borrowed from the read buffer.
Assemble(c) ==
  /\ cur[c].at = "assemble"
  /\ LET f == cur[c].frag
         sofar == Total(SubSeq(cur[c].m.frags, 1, f - 1))
         n == cur[c].m.frags[f]
         last == f = Len(cur[c].m.frags)
         payload == Payload(cur[c].number, cur[c].m)
         g == growMsg(c, sofar, n)
         b == g.msgs[g.id].b
         full == Fill(g.bufs, b, sofar, SubSeq(payload, sofar + 1, sofar + n))
     IN \/ /\ n > Limit - sofar
           /\ End(c, "toolarge", <<>>, 0)
           /\ UNCHANGED <<bufs, msgs, msg, hint, peer>>
        \/ /\ n <= Limit - sofar /\ last /\ sofar = 0
           /\ hint' = [hint EXCEPT ![c] = 0]
           /\ Assembled(c, payload, 0)
           /\ UNCHANGED <<bufs, msgs, msg>>
        \/ /\ n <= Limit - sofar /\ (~last \/ sofar + n > 0)
           /\ bufs' = full /\ msgs' = g.msgs /\ msg' = [msg EXCEPT ![c] = g.id]
           /\ \/ /\ ~last
                 /\ cur' = [cur EXCEPT ![c].frag = f + 1]
                 /\ UNCHANGED <<hint, got, result, peer>>
              \/ /\ last
                 /\ hint' = [hint EXCEPT ![c] = sofar + n]
                 /\ Assembled(c, Bytes(full, b, sofar + n), b)
  /\ UNCHANGED <<decs, dec, window, streaming, large, count>>

\* decompress of an assembled message: Decompress as far as its loop.
Decompress(c) ==
  /\ cur[c].at = "begin"
  /\ LET a == Acquired(c)
         n == Len(cur[c].m.blocks)
         payload == IF cur[c].from = 0 THEN Payload(cur[c].number, cur[c].m) ELSE Bytes(bufs, cur[c].from, n)
     IN Apply(c, a.id, a.decs,
              Reserve(begin(State(a.decs[a.id]), WindowOf(c), cur[c].number, cur[c].m.blocks, payload, FALSE), n))
  /\ cur' = [cur EXCEPT ![c].at = "inflate"]
  /\ UNCHANGED <<msgs, msg, hint, streaming, large, got, result, peer, count>>

\* A pass of its loop, or of Read's.
DecompressPass(c) ==
  /\ cur[c].at = "inflate"
  /\ LET k == dec[c]
         room == IF Cap(bufs, decs[k].out) = decs[k].len THEN grow(State(decs[k])) ELSE State(decs[k])
     IN \E o \in Inflated(room.d, ReadSize(room)) :
          LET p == ReadPass(room, o)
              s == [p.s EXCEPT !.d.len = @ + p.n]
              over == s.d.len > Limit
              ended == p.err = "EOF" \/ s.d.done
              final == IF over THEN finish(s, FALSE) ELSE IF ended THEN finish(s, TRUE) ELSE s
          IN /\ Apply(c, k, decs, final)
             /\ \/ over /\ End(c, "toolarge", <<>>, 0) /\ UNCHANGED <<large, peer>>
                \/ /\ ~over /\ ended
                   /\ End(c, "message", Output(s), s.d.out)
                   /\ large' = [large EXCEPT ![c] = s.d.len > PoolKeep]
                   /\ Heard(c)
                \/ ~over /\ p.err = "corrupt" /\ End(c, "corrupt", <<>>, 0) /\ UNCHANGED <<large, peer>>
                \/ ~over /\ ~ended /\ p.err # "corrupt" /\ UNCHANGED <<cur, got, result, large, peer>>
  /\ UNCHANGED <<msgs, msg, hint, streaming, count>>

\* inflate, for Read of k units and for discard.
Read(c, k) ==
  /\ \/ cur[c].at = "open" /\ cur[c].m.deflated /\ k \in ReadSizes
     \/ cur[c].at = "discard" /\ k = FragmentSize
  /\ LET a == Acquired(c)
         s == IF streaming[c] THEN State(a.decs[a.id])
              ELSE begin(State(a.decs[a.id]), WindowOf(c), cur[c].number, cur[c].m.blocks, <<>>, TRUE)
         passes == IF s.d.done THEN {[s |-> finish(s, TRUE), err |-> "EOF", units |-> <<>>]}
                   ELSE {LET p == ReadPass(s, o) IN [s |-> p.s, err |-> p.err, units |-> o.units] : o \in Inflated(s.d, k)}
     IN \E p \in passes :
          /\ Apply(c, a.id, a.decs, p.s)
          /\ streaming' = [streaming EXCEPT ![c] = p.err \in {"none", "again"}]
          /\ \/ /\ p.err \in {"none", "again"}
                /\ got' = IF cur[c].at = "open" THEN [got EXCEPT ![c].units = @ \o p.units] ELSE got
                /\ UNCHANGED <<cur, result, peer>>
             \/ /\ p.err = "EOF" /\ cur[c].at = "open"
                /\ End(c, "message", got[c].units, 0) /\ Heard(c)
             \/ /\ p.err = "EOF" /\ cur[c].at = "discard"
                /\ cur' = [cur EXCEPT ![c].at = "drained"] /\ Heard(c)
                /\ UNCHANGED <<got, result>>
             \/ /\ p.err \in {"corrupt", "source"}
                /\ End(c, p.err, got[c].units, 0)
                /\ UNCHANGED peer
  /\ UNCHANGED <<msgs, msg, hint, large, count>>

Next ==
  \E c \in Conns :
    NextMessage(c) \/ Assemble(c) \/ Decompress(c) \/ DecompressPass(c) \/ \E k \in ReadSizes \cup {FragmentSize} : Read(c, k)
Spec == Init /\ [][Next]_vars
-----------------------------------------------------------------------------
Produced(d) ==
  LET n == OutputOf(d.blocks, d.at - 1) + d.pos
  IN [i \in 1..n |-> <<d.number, i>>]

\* Behind whatever the inflater has put out, and across every reset inside a message,
\* its history is the peer's: in both modes, with a window and without, with a
\* decompressor that served another connection before (begin, dict, finish); and
\* between messages the window is what the peer's encoder may refer to.
HistoryExact ==
  \A c \in Conns :
    /\ dec[c] # 0 /\ decs[dec[c]].active =>
         decs[dec[c]].hist = Trim((IF c \in Takeover THEN peer[c] ELSE <<>>) \o Produced(decs[dec[c]]))
    /\ c \in Takeover /\ cur[c].at \in {"none", "done", "drained"} => window[c] = peer[c]

Bad(m) == \E i \in DOMAIN m.blocks : ~m.blocks[i].ok

\* The application gets exactly the message, and what ReadMessage lent it stays that
\* message until its next read, whatever other connections do with the pools; what
\* the inflater reads meanwhile is its payload; a message is refused as too large only
\* when it is longer than the limit before or after decompression (an output of
\* exactly the limit is not), as corrupt only when it is.
MessageExact ==
  \A c \in Conns :
    /\ cur[c].at = "open" => IsPrefix(got[c].units, AllUnits(c))
    /\ cur[c].at = "done" => /\ got[c].units = AllUnits(c) /\ ~Bad(cur[c].m)
                             /\ got[c].buf # 0 => /\ Bytes(bufs, got[c].buf, Len(AllUnits(c))) = AllUnits(c)
                                                  /\ Len(AllUnits(c)) <= Limit
    /\ cur[c].at = "inflate" =>
         LET d == decs[dec[c]]
         IN Bytes(bufs, d.in, Len(d.blocks)) = Payload(cur[c].number, cur[c].m) \o TailUnits
    /\ result[c] = "toolarge" => Len(AllUnits(c)) > Limit \/ Total(cur[c].m.frags) > Limit
    /\ result[c] = "corrupt" => Bad(cur[c].m)

\* Storage has one owner: a pool, a decompressor or a message buffer, and those one
\* connection or their pool (bufpool.Put on growth and on release, home and large of
\* a msgBuf, ReleaseOutput).  And it has room for what is put into it: the class of a
\* size (bufpool.go:24 "the smallest c with 1<<c >= n") is never one too small.
OwnedOnce ==
  /\ \A i \in DOMAIN bufs : Len(bufs[i].mem) <= bufs[i].cap
  /\ \A i \in DOMAIN bufs :
       LET held == {<<k, "out">> : k \in {j \in DOMAIN decs : decs[j].out = i}}
                   \cup {<<k, "in">> : k \in {j \in DOMAIN decs : decs[j].in = i}}
                   \cup {<<k, "b">> : k \in {j \in DOMAIN msgs : msgs[j].b = i}}
                   \cup {<<k, "home">> : k \in {j \in DOMAIN msgs : msgs[j].home = i}}
       IN bufs[i].pooled + Cardinality(held) <= 1
  /\ \A k \in DOMAIN decs : decs[k].pooled + Cardinality({c \in Conns : dec[c] = k}) <= 1
  /\ \A k \in DOMAIN msgs : msgs[k].pooled + Cardinality({c \in Conns : msg[c] = k}) <= 1
=============================================================================
