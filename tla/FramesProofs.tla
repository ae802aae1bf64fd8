---------------------------- MODULE FramesProofs ----------------------------
(***************************************************************************)
(* Proofs about Connect: the frames that arrive behind the head.  The      *)
(* frames sent to an end are numbered; what it has read, its bufio.Reader  *)
(* and its socket hold, in this order, all the numbers that were sent.  A  *)
(* Read goes around the bufio.Reader only when there is nothing in it.     *)
(***************************************************************************)
EXTENDS ConnectProofs

EndType == [buf : Seq(Nat), sock : Seq(Nat), wrapped : BOOLEAN, got : Seq(Nat), sent : Nat]

\* The elements of s count on from k.
CountsFrom(s, k) == \A i \in 1..Len(s) : s[i] = k + i

InLine(got, buf, sock, sent) ==
  /\ CountsFrom(got, 0)
  /\ CountsFrom(buf, Len(got))
  /\ CountsFrom(sock, Len(got) + Len(buf))
  /\ sent = Len(got) + Len(buf) + Len(sock)

Numbered(r) == InLine(r.got, r.buf, r.sock, r.sent)

\* With Dial at d and the server at s, end e has not read its head; it has a connection
\* to read from.
Early(e, d, s) ==
  IF e = "client" THEN d \in {"start", "connect", "tls", "write", "read"} ELSE s \in {"none", "backlog", "head"}
Ready(e, d, s) == IF e = "client" THEN d = "ok" ELSE s = "handler"

RdInv ==
  /\ rd \in [Ends -> EndType]
  /\ \A e \in Ends : /\ Numbered(rd[e])
                     /\ Early(e, dial.pc, srv.pc) => rd[e].buf = <<>>
                     /\ (Ready(e, dial.pc, srv.pc) /\ rd[e].buf # <<>>) => rd[e].wrapped = TRUE

LEMMA Split ==
  ASSUME NEW s \in Seq(Nat), NEW n \in 0..Len(s)
  PROVE  /\ Len(s) \in Nat /\ n \in Nat /\ n <= Len(s)
         /\ SubSeq(s, 1, n) \in Seq(Nat) /\ Len(SubSeq(s, 1, n)) = n
         /\ SubSeq(s, n + 1, Len(s)) \in Seq(Nat) /\ Len(SubSeq(s, n + 1, Len(s))) = Len(s) - n
         /\ \A i \in 1..n : SubSeq(s, 1, n)[i] = s[i]
         /\ \A i \in 1..(Len(s) - n) : SubSeq(s, n + 1, Len(s))[i] = s[n + i]
OBVIOUS

LEMMA SplitCounts ==
  ASSUME NEW s \in Seq(Nat), NEW n \in 0..Len(s), NEW k \in Nat, CountsFrom(s, k)
  PROVE  CountsFrom(SubSeq(s, 1, n), k) /\ CountsFrom(SubSeq(s, n + 1, Len(s)), k + n)
<1> DEFINE a == SubSeq(s, 1, n)
           b == SubSeq(s, n + 1, Len(s))
           m == Len(s)
<1>1. /\ m \in Nat /\ n \in Nat /\ n <= m /\ Len(a) = n /\ Len(b) = m - n
      /\ \A i \in 1..n : a[i] = s[i]
      /\ \A i \in 1..(m - n) : b[i] = s[n + i]
  BY Split
<1>2. \A i \in 1..m : s[i] = k + i
  BY DEF CountsFrom
<1> HIDE DEF a, b, m
<1>3. ASSUME NEW i \in 1..Len(a) PROVE a[i] = k + i
  <2>1. i \in 1..n /\ i \in 1..m
    BY <1>1
  <2>2. QED
    BY Zenon, <1>1, <1>2, <2>1
<1>4. ASSUME NEW i \in 1..Len(b) PROVE b[i] = k + n + i
  <2>1. n + i \in 1..m /\ i \in 1..(m - n)
    BY <1>1
  <2>2. b[i] = s[n + i] /\ s[n + i] = k + (n + i)
    BY <1>1, <1>2, <2>1
  <2>3. k + (n + i) = k + n + i
    BY <1>1, <2>1
  <2>4. QED
    BY <2>2, <2>3
<1>5. QED
  BY <1>3, <1>4 DEF CountsFrom, a, b

LEMMA JoinCounts ==
  ASSUME NEW s \in Seq(Nat), NEW t \in Seq(Nat), CountsFrom(s, 0), CountsFrom(t, Len(s))
  PROVE  s \o t \in Seq(Nat) /\ Len(s \o t) = Len(s) + Len(t) /\ CountsFrom(s \o t, 0)
<1> DEFINE c == s \o t
<1>1. /\ Len(s) \in Nat /\ Len(t) \in Nat /\ c \in Seq(Nat) /\ Len(c) = Len(s) + Len(t)
      /\ \A i \in 1..(Len(s) + Len(t)) : c[i] = IF i <= Len(s) THEN s[i] ELSE t[i - Len(s)]
  OBVIOUS
<1> HIDE DEF c
<1>2. ASSUME NEW i \in 1..Len(c) PROVE c[i] = 0 + i
  <2>1. CASE i <= Len(s)
    <3>1. i \in 1..Len(s) /\ c[i] = s[i]
      BY <1>1, <2>1
    <3>2. QED
      BY <3>1 DEF CountsFrom
  <2>2. CASE i > Len(s)
    <3>1. i - Len(s) \in 1..Len(t) /\ c[i] = t[i - Len(s)]
      BY <1>1, <2>2
    <3>2. c[i] = Len(s) + (i - Len(s))
      BY <3>1 DEF CountsFrom
    <3>3. QED
      BY <1>1, <3>2
  <2>3. QED
    BY <1>1, <2>1, <2>2
<1>3. QED
  BY <1>1, <1>2 DEF CountsFrom, c

LEMMA AppendCounts ==
  ASSUME NEW s \in Seq(Nat), NEW k \in Nat, CountsFrom(s, k)
  PROVE  /\ Append(s, k + Len(s) + 1) \in Seq(Nat) /\ Len(Append(s, k + Len(s) + 1)) = Len(s) + 1
         /\ CountsFrom(Append(s, k + Len(s) + 1), k)
<1> DEFINE v == k + Len(s) + 1
           a == Append(s, v)
<1>0. Len(s) \in Nat /\ v \in Nat
  OBVIOUS
<1> HIDE DEF v
<1>1. /\ a \in Seq(Nat) /\ Len(a) = Len(s) + 1
      /\ \A i \in 1..Len(s) : a[i] = s[i]
      /\ a[Len(s) + 1] = v
  BY <1>0
<1> HIDE DEF a
<1>2. ASSUME NEW i \in 1..Len(a) PROVE a[i] = k + i
  <2>1. CASE i \in 1..Len(s)
    BY <1>1, <2>1 DEF CountsFrom
  <2>2. CASE i = Len(s) + 1
    BY <1>0, <1>1, <2>2 DEF v
  <2>3. QED
    BY <1>0, <1>1, <2>1, <2>2
<1>3. QED
  BY <1>1, <1>2 DEF CountsFrom, a, v
LEMMA FillInLine ==
  ASSUME NEW got \in Seq(Nat), NEW sock \in Seq(Nat), NEW sent, NEW n \in 0..Len(sock),
         InLine(got, <<>>, sock, sent)
  PROVE  InLine(got, SubSeq(sock, 1, n), SubSeq(sock, n + 1, Len(sock)), sent)
<1> DEFINE a == SubSeq(sock, 1, n)
           b == SubSeq(sock, n + 1, Len(sock))
<1>1. /\ Len(sock) \in Nat /\ Len(got) \in Nat /\ n \in Nat /\ n <= Len(sock)
      /\ Len(a) = n /\ Len(b) = Len(sock) - n
  BY Split
<1>2. CountsFrom(got, 0) /\ CountsFrom(sock, Len(got) + 0) /\ sent = Len(got) + 0 + Len(sock)
  BY DEF InLine
<1>3. CountsFrom(sock, Len(got)) /\ sent = Len(got) + Len(sock)
  BY <1>1, <1>2
<1>4. CountsFrom(a, Len(got)) /\ CountsFrom(b, Len(got) + n)
  BY <1>1, <1>3, SplitCounts
<1> HIDE DEF a, b
<1>5. InLine(got, a, b, sent)
  BY <1>1, <1>2, <1>3, <1>4 DEF InLine
<1>6. QED
  BY <1>5 DEF a, b

LEMMA SendInLine ==
  ASSUME NEW got \in Seq(Nat), NEW buf \in Seq(Nat), NEW sock \in Seq(Nat), NEW sent,
         InLine(got, buf, sock, sent)
  PROVE  InLine(got, buf, Append(sock, sent + 1), sent + 1) /\ Append(sock, sent + 1) \in Seq(Nat) /\ sent + 1 \in Nat
<1> DEFINE k == Len(got) + Len(buf)
           a == Append(sock, sent + 1)
<1>1. Len(got) \in Nat /\ Len(buf) \in Nat /\ Len(sock) \in Nat /\ k \in Nat
  OBVIOUS
<1>2. CountsFrom(got, 0) /\ CountsFrom(buf, Len(got)) /\ CountsFrom(sock, k) /\ sent = k + Len(sock)
  BY DEF InLine
<1> HIDE DEF k
<1>3. a \in Seq(Nat) /\ Len(a) = Len(sock) + 1 /\ CountsFrom(a, k)
  BY <1>1, <1>2, AppendCounts
<1> HIDE DEF a
<1>4. InLine(got, buf, a, sent + 1)
  BY <1>1, <1>2, <1>3 DEF InLine, k
<1>5. QED
  BY <1>1, <1>2, <1>3, <1>4 DEF a

LEMMA ReadBufInLine ==
  ASSUME NEW got \in Seq(Nat), NEW buf \in Seq(Nat), NEW sock \in Seq(Nat), NEW sent, NEW n \in 0..Len(buf),
         InLine(got, buf, sock, sent)
  PROVE  InLine(got \o SubSeq(buf, 1, n), SubSeq(buf, n + 1, Len(buf)), sock, sent)
<1> DEFINE a == SubSeq(buf, 1, n)
           b == SubSeq(buf, n + 1, Len(buf))
           c == got \o a
<1>1. /\ Len(buf) \in Nat /\ Len(got) \in Nat /\ Len(sock) \in Nat /\ n \in Nat /\ n <= Len(buf)
      /\ a \in Seq(Nat) /\ Len(a) = n /\ Len(b) = Len(buf) - n
  BY Split
<1>2. /\ CountsFrom(got, 0) /\ CountsFrom(buf, Len(got)) /\ CountsFrom(sock, Len(got) + Len(buf))
      /\ sent = Len(got) + Len(buf) + Len(sock)
  BY DEF InLine
<1>3. CountsFrom(a, Len(got)) /\ CountsFrom(b, Len(got) + n)
  BY <1>1, <1>2, SplitCounts
<1> HIDE DEF a, b
<1>4. Len(c) = Len(got) + n /\ CountsFrom(c, 0)
  BY Zenon, <1>1, <1>2, <1>3, JoinCounts
<1> HIDE DEF c
<1>5. Len(c) + Len(b) = Len(got) + Len(buf)
  BY <1>1, <1>4
<1>6. InLine(c, b, sock, sent)
  BY Zenon, <1>2, <1>3, <1>4, <1>5 DEF InLine
<1>7. QED
  BY <1>6 DEF a, b, c

LEMMA ReadSockInLine ==
  ASSUME NEW got \in Seq(Nat), NEW sock \in Seq(Nat), NEW sent, NEW n \in 0..Len(sock),
         InLine(got, <<>>, sock, sent)
  PROVE  InLine(got \o SubSeq(sock, 1, n), <<>>, SubSeq(sock, n + 1, Len(sock)), sent)
<1> DEFINE a == SubSeq(sock, 1, n)
           b == SubSeq(sock, n + 1, Len(sock))
           c == got \o a
<1>1. /\ Len(got) \in Nat /\ Len(sock) \in Nat /\ n \in Nat /\ n <= Len(sock)
      /\ a \in Seq(Nat) /\ Len(a) = n /\ Len(b) = Len(sock) - n
  BY Split
<1>2. CountsFrom(got, 0) /\ CountsFrom(sock, Len(got) + 0) /\ sent = Len(got) + 0 + Len(sock)
  BY DEF InLine
<1>3. CountsFrom(sock, Len(got)) /\ sent = Len(got) + Len(sock)
  BY <1>1, <1>2
<1>4. CountsFrom(a, Len(got)) /\ CountsFrom(b, Len(got) + n)
  BY <1>1, <1>3, SplitCounts
<1> HIDE DEF a, b
<1>5. Len(c) = Len(got) + n /\ CountsFrom(c, 0)
  BY Zenon, <1>1, <1>2, <1>4, JoinCounts
<1> HIDE DEF c
<1>6. CountsFrom(<<>>, Len(c))
  BY DEF CountsFrom
<1>7. Len(c) + 0 = Len(got) + n /\ sent = Len(c) + 0 + Len(b)
  BY <1>1, <1>3, <1>5
<1>8. InLine(c, <<>>, b, sent)
  BY <1>4, <1>5, <1>6, <1>7 DEF InLine
<1>9. QED
  BY <1>8 DEF a, b, c

\* An end does not turn early or ready.
Keeps(e) ==
  /\ Early(e, dial'.pc, srv'.pc) => Early(e, dial.pc, srv.pc)
  /\ Ready(e, dial'.pc, srv'.pc) => Ready(e, dial.pc, srv.pc)

LEMMA RdKept ==
  ASSUME RdInv, UNCHANGED rd, \A e \in Ends : Keeps(e)
  PROVE  RdInv'
BY DEF RdInv, Keeps

LEMMA RdOneEnd ==
  ASSUME RdInv, NEW e \in Ends, NEW q \in EndType, rd' = [rd EXCEPT ![e] = q], Numbered(q),
         \A o \in Ends \ {e} : Keeps(o),
         Early(e, dial'.pc, srv'.pc) => q.buf = <<>>,
         (Ready(e, dial'.pc, srv'.pc) /\ q.buf # <<>>) => q.wrapped = TRUE
  PROVE  RdInv'
<1>1. rd' \in [Ends -> EndType] /\ rd'[e] = q /\ \A o \in Ends \ {e} : rd'[o] = rd[o]
  BY DEF RdInv
<1>2. ASSUME NEW o \in Ends
      PROVE  /\ Numbered(rd'[o])
             /\ Early(o, dial'.pc, srv'.pc) => rd'[o].buf = <<>>
             /\ (Ready(o, dial'.pc, srv'.pc) /\ rd'[o].buf # <<>>) => rd'[o].wrapped = TRUE
  <2>1. CASE o = e
    BY <1>1, <2>1
  <2>2. CASE o # e
    BY <1>1, <2>2 DEF RdInv, Keeps
  <2>3. QED
    BY Zenon, <2>1, <2>2
<1>3. QED
  BY Zenon, <1>1, <1>2 DEF RdInv

LEMMA RdFill ==
  ASSUME RdInv, NEW e \in Ends, Fill(e), \A o \in Ends \ {e} : Keeps(o), Early(e, dial.pc, srv.pc),
         ~Early(e, dial'.pc, srv'.pc), ~Ready(e, dial'.pc, srv'.pc)
  PROVE  RdInv'
<1> DEFINE r == rd[e]
<1>1. r \in EndType /\ Numbered(r) /\ r.buf = <<>>
  BY DEF RdInv
<1>2. PICK n \in 0..Len(r.sock) :
        rd' = [rd EXCEPT ![e].buf = SubSeq(r.sock, 1, n), ![e].sock = SubSeq(r.sock, n + 1, Len(r.sock))]
  BY Zenon DEF Fill
<1> DEFINE a == SubSeq(r.sock, 1, n)
           b == SubSeq(r.sock, n + 1, Len(r.sock))
           q == [r EXCEPT !.buf = a, !.sock = b]
<1>3. r.got \in Seq(Nat) /\ r.sock \in Seq(Nat)
  BY <1>1 DEF EndType
<1>4. a \in Seq(Nat) /\ b \in Seq(Nat)
  BY <1>3, Split
<1>5. InLine(r.got, <<>>, r.sock, r.sent)
  BY <1>1 DEF Numbered
<1>6. InLine(r.got, a, b, r.sent)
  BY <1>3, <1>5, FillInLine
<1> HIDE DEF a, b
<1>7. q \in EndType /\ q.got = r.got /\ q.buf = a /\ q.sock = b /\ q.sent = r.sent
  BY Zenon, <1>1, <1>4 DEF EndType
<1>8. Numbered(q)
  BY <1>6, <1>7 DEF Numbered
<1>9. rd' = [rd EXCEPT ![e] = q]
  BY Zenon, <1>2 DEF RdInv, a, b
<1> HIDE DEF q
<1>10. QED
  BY Zenon, <1>7, <1>8, <1>9, RdOneEnd

LEMMA RdWrap ==
  ASSUME RdInv, NEW e \in Ends, Wrap(e), \A o \in Ends \ {e} : Keeps(o), ~Early(e, dial'.pc, srv'.pc)
  PROVE  RdInv'
<1> DEFINE r == rd[e]
           q == [r EXCEPT !.wrapped = r.buf # <<>>]
<1>1. r \in EndType /\ Numbered(r)
  BY DEF RdInv
<1>2. q \in EndType /\ q.got = r.got /\ q.buf = r.buf /\ q.sock = r.sock /\ q.sent = r.sent
  BY Zenon, <1>1 DEF EndType
<1>3. q.wrapped = (r.buf # <<>>)
  BY <1>1 DEF EndType
<1>4. Numbered(q)
  BY <1>1, <1>2 DEF Numbered
<1>5. rd' = [rd EXCEPT ![e] = q]
  BY DEF RdInv, Wrap
<1>6. q.buf # <<>> => q.wrapped = TRUE
  BY Zenon, <1>2, <1>3
<1> HIDE DEF q
<1>7. QED
  BY Zenon, <1>2, <1>4, <1>5, <1>6, RdOneEnd

LEMMA RdSend ==
  ASSUME RdInv, UNCHANGED <<dial, srv>>, NEW from \in Ends, NEW to \in Ends, SendFrame(from, to)
  PROVE  RdInv'
<1> DEFINE r == rd[to]
           a == Append(r.sock, r.sent + 1)
           q == [r EXCEPT !.sent = r.sent + 1, !.sock = a]
<1>1. r \in EndType /\ Numbered(r)
  BY DEF RdInv
<1>2. r.got \in Seq(Nat) /\ r.buf \in Seq(Nat) /\ r.sock \in Seq(Nat)
  BY <1>1 DEF EndType
<1>3. InLine(r.got, r.buf, a, r.sent + 1) /\ a \in Seq(Nat) /\ r.sent + 1 \in Nat
  BY <1>1, <1>2, SendInLine DEF Numbered
<1> HIDE DEF a
<1>4. /\ q \in EndType /\ q.got = r.got /\ q.buf = r.buf /\ q.sock = a /\ q.sent = r.sent + 1
      /\ q.wrapped = r.wrapped
  BY Zenon, <1>1, <1>3 DEF EndType
<1>5. Numbered(q)
  BY <1>3, <1>4 DEF Numbered
<1>6. rd' = [rd EXCEPT ![to] = q]
  BY Zenon DEF RdInv, SendFrame, a
<1> HIDE DEF q
<1>7. QED
  BY <1>4, <1>5, <1>6, RdOneEnd DEF Keeps, RdInv

LEMMA RdRead ==
  ASSUME RdInv, UNCHANGED <<dial, srv>>, NEW e \in Ends, NEW size \in ReadSizes, Read(e, size)
  PROVE  RdInv'
<1> DEFINE r == rd[e]
           buffered == r.wrapped /\ r.buf # <<>>
           from == IF buffered THEN r.buf ELSE r.sock
           n == Least(size, Len(from))
           rest == SubSeq(from, n + 1, Len(from))
           c == r.got \o SubSeq(from, 1, n)
           q == [r EXCEPT !.got = c, !.wrapped = buffered,
                          !.buf = IF buffered THEN rest ELSE r.buf,
                          !.sock = IF buffered THEN r.sock ELSE rest]
<1>1. r \in EndType /\ Numbered(r) /\ r.wrapped \in BOOLEAN
  BY DEF RdInv, EndType
<1>2. r.got \in Seq(Nat) /\ r.buf \in Seq(Nat) /\ r.sock \in Seq(Nat)
  BY <1>1 DEF EndType
<1>3. Ready(e, dial.pc, srv.pc) /\ ~Early(e, dial.pc, srv.pc)
  BY Zenon DEF Read, Reading, Ready, Early
<1>4. ~buffered => r.buf = <<>>
  BY <1>1, <1>3 DEF RdInv
<1>5. from \in Seq(Nat) /\ Len(from) \in Nat /\ size \in Nat
  BY <1>2, SizesAssumption
<1>6. n \in 0..Len(from)
  BY <1>5 DEF Least
<1>7. rest \in Seq(Nat) /\ SubSeq(from, 1, n) \in Seq(Nat)
  BY <1>5, <1>6, Split
<1>8. c \in Seq(Nat)
  BY <1>2, <1>7
<1>9. rd' = [rd EXCEPT ![e] = q]
  BY Zenon DEF RdInv, Read
<1>10. CASE buffered
  <2>1. from = r.buf
    BY <1>10
  <2>2. InLine(c, rest, r.sock, r.sent)
    BY <1>1, <1>2, <1>6, <2>1, ReadBufInLine DEF Numbered
  <2> HIDE DEF rest, c, n
  <2>3. /\ q \in EndType /\ q.got = c /\ q.buf = rest /\ q.sock = r.sock /\ q.sent = r.sent
        /\ q.wrapped = TRUE
    BY Zenon, <1>1, <1>7, <1>8, <1>10 DEF EndType
  <2>4. Numbered(q)
    BY <2>2, <2>3 DEF Numbered
  <2> HIDE DEF q
  <2>5. QED
    BY Zenon, <1>3, <1>9, <2>3, <2>4, RdOneEnd DEF Keeps
<1>11. CASE ~buffered
  <2>1. from = r.sock /\ r.buf = <<>>
    BY <1>4, <1>11
  <2>2. InLine(c, <<>>, rest, r.sent)
    BY <1>1, <1>2, <1>6, <2>1, ReadSockInLine DEF Numbered
  <2> HIDE DEF rest, c, n
  <2>3. q \in EndType /\ q.got = c /\ q.buf = <<>> /\ q.sock = rest /\ q.sent = r.sent
    BY Zenon, <1>1, <1>7, <1>8, <1>11, <2>1 DEF EndType
  <2>4. Numbered(q)
    BY <2>2, <2>3 DEF Numbered
  <2> HIDE DEF q
  <2>5. QED
    BY Zenon, <1>3, <1>9, <2>3, <2>4, RdOneEnd DEF Keeps
<1>12. QED
  BY <1>10, <1>11

LEMMA RdStep ==
  ASSUME RdInv, PcInv, Next
  PROVE  RdInv'
<1>0. /\ dial = [pc |-> dial.pc, err |-> dial.err, res |-> dial.res] /\ srv = [pc |-> srv.pc, res |-> srv.res]
      /\ "client" \in Ends /\ "server" \in Ends /\ Ends \ {"client"} = {"server"} /\ Ends \ {"server"} = {"client"}
  BY DEF PcInv, Ends
<1>1. ASSUME UNCHANGED rd,
             \/ dial'.pc = dial.pc
             \/ dial'.pc \in {"clear", "failed"}
             \/ <<dial.pc, dial'.pc>> \in {<<"start", "connect">>, <<"connect", "tls">>, <<"tls", "write">>, <<"write", "read">>},
             \/ srv'.pc = srv.pc
             \/ srv'.pc \in {"closed", "negotiate", "write", "clear"}
             \/ <<srv.pc, srv'.pc>> \in {<<"none", "backlog">>, <<"backlog", "head">>}
      PROVE  RdInv'
  <2>1. \A e \in Ends : Keeps(e)
    BY <1>1 DEF Keeps, Early, Ready, Ends
  <2>2. QED
    BY <1>1, <2>1, RdKept
<1>2. ASSUME NEW err, DialFail(err) PROVE RdInv'
  <2>1. dial'.pc = "failed" /\ srv' = srv /\ rd' = rd
    BY <1>0, <1>2 DEF DialFail, srvVars
  <2>2. QED
    BY <1>1, <2>1
<1>3. CASE DialStart \/ DialRefused \/ DialStop
  <2>1. /\ UNCHANGED <<rd, srv>>
        /\ dial'.pc \in {"clear", "failed"} \/ (dial.pc = "start" /\ dial'.pc = "connect")
    BY Zenon, <1>0, <1>3 DEF DialStart, DialRefused, DialStop, srvVars, wireVars
  <2>2. QED
    BY <1>1, <2>1
<1>4. CASE DialConnect
  <2>1. UNCHANGED rd /\ dial.pc = "connect" /\ dial'.pc = "tls" /\ (srv' = srv \/ (srv.pc = "none" /\ srv'.pc = "backlog"))
    BY <1>0, <1>4 DEF DialConnect, Arrive
  <2>2. QED
    BY <1>1, <2>1
<1>5. CASE DialTLS
  <2>1. CASE dial.pc = "tls" /\ dial' = [dial EXCEPT !.pc = "write"] /\ UNCHANGED <<wireVars, srvVars>>
    BY <1>0, <1>1, <2>1 DEF wireVars, srvVars
  <2>2. QED
    BY <1>2, <1>5, <2>1 DEF DialTLS
<1>6. CASE DialWrite
  <2>1. CASE dial.pc = "write" /\ dial' = [dial EXCEPT !.pc = "read"] /\ UNCHANGED <<rd, srvVars>>
    BY <1>0, <1>1, <2>1 DEF srvVars
  <2>2. QED
    BY <1>2, <1>6, <2>1 DEF DialWrite
<1>7. CASE DialRead
  <2>1. ASSUME NEW res, dial.pc = "read", dial' = [dial EXCEPT !.pc = "stop", !.res = res], Fill("client"), UNCHANGED srv
        PROVE  RdInv'
    <3>1. dial'.pc = "stop"
      BY <1>0, <2>1
    <3>2. /\ Early("client", dial.pc, srv.pc) /\ ~Early("client", dial'.pc, srv'.pc)
          /\ ~Ready("client", dial'.pc, srv'.pc) /\ Keeps("server")
      BY <2>1, <3>1 DEF Early, Ready, Keeps
    <3>3. QED
      BY <1>0, <2>1, <3>2, RdFill
  <2>2. QED
    BY Zenon, <1>2, <1>7, <2>1 DEF DialRead, srvVars
<1>8. CASE DialClear
  <2>1. dial'.pc = "ok" /\ srv' = srv /\ Wrap("client")
    BY <1>0, <1>8 DEF DialClear, srvVars
  <2>2. ~Early("client", dial'.pc, srv'.pc) /\ Keeps("server")
    BY <2>1 DEF Early, Ready, Keeps
  <2>3. QED
    BY <1>0, <2>1, <2>2, RdWrap
<1>9. ASSUME srv' = [srv EXCEPT !.pc = srv'.pc], srv.pc \in {"head", "backlog"}, srv'.pc \in {"accept", "negotiate"},
             Fill("server"), UNCHANGED dialVars
      PROVE  RdInv'
  <2>1. /\ Early("server", dial.pc, srv.pc) /\ ~Early("server", dial'.pc, srv'.pc)
        /\ ~Ready("server", dial'.pc, srv'.pc) /\ Keeps("client")
    BY <1>9 DEF Early, Ready, Keeps, dialVars
  <2>2. QED
    BY <1>0, <1>9, <2>1, RdFill
<1>10. ASSUME Finish, UNCHANGED <<rd, dialVars>> PROVE RdInv'
  <2>1. srv'.pc = "closed" /\ dial' = dial
    BY <1>0, <1>10 DEF Finish, dialVars
  <2>2. QED
    BY <1>1, <1>10, <2>1
<1>11. ASSUME NEW status, Refused(status) PROVE RdInv'
  BY Zenon, <1>10, <1>11 DEF Refused
<1>12. CASE CloseSilently
  BY <1>10, <1>12 DEF CloseSilently
<1>13. CASE ReadRequest
  <2>1. CASE srv.pc = "head" /\ srv' = [srv EXCEPT !.pc = "accept"] /\ Fill("server") /\ UNCHANGED dialVars
    <3>1. srv'.pc = "accept"
      BY <1>0, <2>1
    <3>2. QED
      BY <1>9, <2>1, <3>1
  <2>2. QED
    BY <1>11, <1>12, <1>13, <2>1 DEF ReadRequest
<1>14. ASSUME NEW res, UNCHANGED <<rd, dialVars>>,
              \/ srv' = [srv EXCEPT !.pc = "negotiate"]
              \/ srv' = [srv EXCEPT !.pc = "write", !.res = res]
              \/ srv' = [srv EXCEPT !.pc = "clear"]
       PROVE  RdInv'
  <2>1. srv'.pc \in {"negotiate", "write", "clear"} /\ dial' = dial
    BY Zenon, <1>0, <1>14 DEF dialVars
  <2>2. QED
    BY <1>1, <1>14, <2>1
<1>15. CASE AcceptHook \/ ServeNegotiate \/ UpgradeNegotiate \/ WriteResponse
  BY Zenon, <1>11, <1>12, <1>14, <1>15 DEF AcceptHook, ServeNegotiate, UpgradeNegotiate, WriteResponse, wireVars
<1>16. CASE HandOver
  <2>1. srv'.pc = "handler" /\ dial' = dial /\ Wrap("server")
    BY <1>0, <1>16 DEF HandOver, dialVars
  <2>2. ~Early("server", dial'.pc, srv'.pc) /\ Keeps("client")
    BY <2>1 DEF Early, Ready, Keeps
  <2>3. QED
    BY <1>0, <2>1, <2>2, RdWrap
<1>17. CASE HandlerReturns
  BY <1>12, <1>17 DEF HandlerReturns
<1>18. CASE HTTPServes
  <2>1. srv.pc = "backlog" /\ srv'.pc = "negotiate" /\ srv' = [srv EXCEPT !.pc = srv'.pc] /\ Fill("server") /\ UNCHANGED dialVars
    BY <1>0, <1>18 DEF HTTPServes
  <2>2. QED
    BY <1>9, <2>1
<1>19. CASE ForeignConnects
  <2>1. srv.pc = "none" /\ srv'.pc = "backlog" /\ UNCHANGED <<rd, dial>>
    BY <1>0, <1>19 DEF ForeignConnects, Arrive, dialVars
  <2>2. QED
    BY <1>1, <2>1
<1>20. CASE CtxEnds \/ WatcherStarts \/ WatcherFires \/ DeadlineExpires \/ ForeignRequests \/ ForeignResponds
  <2>1. UNCHANGED <<rd, dial, srv>>
    BY <1>20 DEF CtxEnds, WatcherStarts, WatcherFires, DeadlineExpires, ForeignRequests, ForeignResponds,
                 dialVars, wireVars, srvVars
  <2>2. QED
    BY <1>1, <2>1
<1>21. ASSUME NEW e \in Ends, ForeignCloses(e) PROVE RdInv'
  <2>1. UNCHANGED <<rd, dial, srv>>
    BY <1>21 DEF ForeignCloses, dialVars, srvVars
  <2>2. QED
    BY <1>1, <2>1
<1>22. ASSUME NEW from \in Ends, NEW to \in Ends, SendFrame(from, to) PROVE RdInv'
  <2>1. UNCHANGED <<dial, srv>>
    BY <1>22 DEF SendFrame, dialVars, srvVars
  <2>2. QED
    BY <1>22, <2>1, RdSend
<1>23. ASSUME NEW e \in Ends, NEW size \in ReadSizes, Read(e, size) PROVE RdInv'
  <2>1. UNCHANGED <<dial, srv>>
    BY Zenon, <1>23 DEF Read, dialVars, srvVars
  <2>2. QED
    BY <1>23, <2>1, RdRead
<1>24. ASSUME UNCHANGED dialVars, NEW l \in Loops, LoopStep(l) PROVE RdInv'
  <2>1. CASE AcceptConn(l)
    <3>1. srv.pc = "backlog" /\ srv'.pc = "head" /\ UNCHANGED <<rd, dial>>
      BY <1>0, <1>24, <2>1 DEF AcceptConn, wireVars, dialVars
    <3>2. QED
      BY <1>1, <3>1
  <2>2. CASE Serve(l) \/ AcceptTransient(l) \/ AcceptFails(l) \/ CheckClosed(l) \/ ServeReturns(l)
    <3>1. UNCHANGED <<rd, dial, srv>>
      BY <1>24, <2>2 DEF Serve, AcceptTransient, AcceptFails, CheckClosed, ServeReturns, wireVars, dialVars, srvVars
    <3>2. QED
      BY <1>1, <3>1
  <2>3. QED
    BY <1>24, <2>1, <2>2 DEF LoopStep
<1>25. ASSUME UNCHANGED dialVars, NEW ls, CloseListeners(ls) PROVE RdInv'
  <2>1. CASE Finish
    BY <1>10, <1>25, <2>1 DEF CloseListeners
  <2>2. CASE UNCHANGED srv
    <3>1. UNCHANGED <<rd, dial>>
      BY <1>25 DEF CloseListeners, dialVars
    <3>2. QED
      BY <1>1, <2>2, <3>1
  <2>3. QED
    BY <1>25, <2>1, <2>2 DEF CloseListeners
<1>26. CASE UNCHANGED dialVars /\ (Close \/ \E ln \in Listeners : OwnerCloses(ln))
  BY Zenon, <1>25, <1>26 DEF Close, OwnerCloses
<1>27. CASE DialStep
  BY <1>3, <1>4, <1>5, <1>6, <1>7, <1>8, <1>27 DEF DialStep
<1>28. CASE SrvStep
  BY <1>13, <1>15, <1>16, <1>28 DEF SrvStep
<1>29. QED
  BY <1>17, <1>18, <1>19, <1>20, <1>21, <1>22, <1>23, <1>24, <1>26, <1>27, <1>28 DEF Next

\* Frames that arrive behind a request or a response are read first, all of them, in
\* the order they were sent, whatever part of them the bufio.Reader had taken in and
\* however small the reads are (bufferedConn).
THEOREM FramesCorrect == Spec => []FramesInOrder
<1>1. Init => RdInv
  <2> SUFFICES ASSUME Init PROVE RdInv
    OBVIOUS
  <2> DEFINE r == [buf |-> <<>>, sock |-> <<>>, wrapped |-> FALSE, got |-> <<>>, sent |-> 0]
  <2>1. rd = [e \in Ends |-> r]
    BY DEF Init
  <2>2. r \in EndType
    BY DEF EndType
  <2>3. Numbered(r)
    BY DEF Numbered, InLine, CountsFrom
  <2>4. r.buf = <<>>
    OBVIOUS
  <2> HIDE DEF r
  <2>5. QED
    BY <2>1, <2>2, <2>3, <2>4 DEF RdInv
<1>2. RdInv /\ AgreeInv /\ [Next]_vars => RdInv'
  <2> SUFFICES ASSUME RdInv, AgreeInv, [Next]_vars PROVE RdInv'
    OBVIOUS
  <2>1. CASE UNCHANGED vars
    <3>1. UNCHANGED <<rd, dial, srv>>
      BY <2>1 DEF vars, dialVars, wireVars, srvVars
    <3>2. QED
      BY <3>1, RdKept DEF Keeps
  <2>2. CASE Next
    BY <2>2, RdStep DEF AgreeInv
  <2>3. QED
    BY <2>1, <2>2
<1>3. RdInv => FramesInOrder
  <2> SUFFICES ASSUME RdInv, NEW e \in Ends PROVE rd[e].got = [i \in 1..Len(rd[e].got) |-> i]
    BY Zenon DEF FramesInOrder
  <2> DEFINE g == rd[e].got
  <2>1. g \in Seq(Nat) /\ CountsFrom(g, 0)
    BY Zenon DEF RdInv, EndType, Numbered, InLine
  <2> HIDE DEF g
  <2>2. \A i \in 1..Len(g) : g[i] = i
    BY <2>1 DEF CountsFrom
  <2>3. g = [i \in 1..Len(g) |-> i]
    BY <2>1, <2>2
  <2>4. QED
    BY <2>3 DEF g
<1>4. QED
  BY <1>1, <1>2, <1>3, AgreeInvariant, PTL DEF Spec

=============================================================================
