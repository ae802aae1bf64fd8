------------------------------- MODULE MCCodec -------------------------------
EXTENDS Codec

Key == <<55, 250, 33, 61>>
KeyOf(role) == IF role = "server" THEN Key ELSE <<>>
Roles == {"server", "client"}

Ramp(n) == [i \in 1..n |-> (7 * i) % 128]

\* Streams a sender makes.  Lengths on both sides of every boundary of the header and
\* of the steps of Mask.
Single(role, op, n, rsv1) == <<Encoded(TRUE, op, rsv1, n, Ramp(5), KeyOf(role))>>
Mixed(role) ==
  LET k == KeyOf(role)
  IN <<Encoded(FALSE, Text, FALSE, 3, <<104, 195, 169>>, k), Encoded(TRUE, Ping, FALSE, 2, <<1, 2>>, k),
       Encoded(FALSE, Continuation, FALSE, 0, <<0>>, k), Encoded(TRUE, Continuation, FALSE, 5, Ramp(5), k),
       Encoded(TRUE, Pong, FALSE, 0, <<0>>, k), Encoded(TRUE, Binary, TRUE, 1, <<255>>, k),
       Encoded(TRUE, Close, FALSE, 4, <<3, 232, 111, 107>>, k)>>
Closing(role, code, reason) ==
  LET k == KeyOf(role)
  IN <<Encoded(TRUE, Close, FALSE, 2 + Len(reason), <<code \div 256, code % 256>> \o reason, k),
       Encoded(TRUE, Text, FALSE, 1, <<65>>, k)>>
Sent(role, sizes, frames) ==
  [kind |-> "sent", role |-> role, compression |-> TRUE, sizes |-> sizes, frames |-> frames, lengths |-> {}, key |-> <<>>]
SentSetups ==
       {Sent(r, {1, 2, 7}, Mixed(r)) : r \in Roles}
  \cup {Sent(r, {3, 61}, Single(r, Binary, n, rsv1)) : r \in Roles, n \in {0, 1, 125, 126, 127, 131, 235}, rsv1 \in BOOLEAN}
  \cup {Sent("client", {40000}, Single("client", Binary, n, FALSE)) : n \in {65535, 65536}}
  \cup {Sent(r, {4, 9}, SubSeq(Closing(r, c, <<111>>), 1, 1)) : r \in Roles, c \in {1000, 1003, 1007, 1014, 3000, 4999}}
  \cup {Sent(r, {4}, <<Encoded(TRUE, Close, FALSE, 0, <<0>>, KeyOf(r))>>) : r \in Roles}

\* Headers: every FIN and RSV bit with the opcodes and two that are reserved, both
\* mask bits, every form of a length.
FirstBytes == {b \in Byte : b % 16 \in {Continuation, Text, Binary, 7, Close, Ping, Pong, 11}}
Lengths == {0, 1, 2, 125, 126, 127, 65535, 65536}
LengthForms ==
  {<<0>>, <<1>>, <<2>>, <<125>>, <<126, 0, 125>>, <<126, 0, 126>>, <<126, 255, 255>>,
   <<127, 0, 0, 0, 0, 0, 0, 255, 255>>, <<127, 0, 0, 0, 0, 0, 1, 0, 0>>, <<127, 128, 0, 0, 0, 0, 1, 0, 0>>}
RawHead(first, masked, form) ==
  <<first, form[1] + (IF masked THEN 128 ELSE 0)>> \o Tail(form) \o (IF masked THEN Key ELSE <<>>)
RawFrame(first, masked, form) ==
  [final |-> first >= 128, op |-> first % 16, rsv1 |-> FALSE, n |-> IF form[1] <= 125 THEN form[1] ELSE 0,
   pattern |-> <<12, 33>>, key |-> IF masked THEN Key ELSE <<>>, head |-> RawHead(first, masked, form)]
HeaderSetups ==
  {[kind |-> "header", role |-> r, compression |-> c, sizes |-> {200}, lengths |-> Lengths, key |-> KeyOf(r),
    frames |-> (IF open THEN <<Encoded(FALSE, Text, FALSE, 0, <<0>>, KeyOf(r))>> ELSE <<>>)
               \o <<RawFrame(first, masked, form)>>]
    : r \in Roles, c \in BOOLEAN, open \in BOOLEAN, first \in FirstBytes, masked \in BOOLEAN, form \in LengthForms}

\* Close frames whose code is on either side of a range, with a reason and without.
Codes == {0, 999, 1000, 1003, 1004, 1005, 1006, 1007, 1014, 1015, 1016, 2999, 3000, 4999, 5000, 65535}
CloseSetup(r, code, reason) ==
  [kind |-> "header", role |-> r, compression |-> FALSE, sizes |-> {3}, lengths |-> 0..125, key |-> KeyOf(r),
   frames |-> SubSeq(Closing(r, code, reason), 1, 1)]
CloseSetups == {CloseSetup(r, code, reason) : r \in Roles, code \in Codes, reason \in {<<>>, <<111>>}}

\* Texts: two to four bytes on the boundaries of UTF-8, across words of Valid and at
\* the end of the message; in one frame, cut in two, or as a reason.
Leads == {127, 128, 191, 192, 193, 194, 223, 224, 225, 236, 237, 238, 239, 240, 241, 243, 244, 245, 255}
Seconds == {127, 128, 143, 144, 159, 160, 191, 192}
Others == {127, 128, 191, 192}
Chars == {<<a, b, c, d>> : a \in Leads, b \in Seconds, c \in Others, d \in Others}
Letters(n) == [i \in 1..n |-> 97]
Inner(c) == <<195, 169>> \o Letters(5) \o c \o Letters(17)
AtEnd(c) == Letters(34) \o <<195, 169>> \o Letters(13) \o c
TextFrames(s) == <<Encoded(TRUE, Text, FALSE, Len(s), s, <<>>)>>
CutFrames(s, k) ==
  <<Encoded(FALSE, Text, FALSE, k, SubSeq(s, 1, k), <<>>),
    Encoded(TRUE, Continuation, FALSE, Len(s) - k, SubSeq(s, k + 1, Len(s)), <<>>)>>
TextSetup(frames) ==
  [kind |-> "text", role |-> "client", compression |-> FALSE, sizes |-> {100}, frames |-> frames, lengths |-> {}, key |-> <<>>]
TextSetups ==
       {TextSetup(TextFrames(Inner(c))) : c \in Chars}
  \cup {TextSetup(CutFrames(AtEnd(c), 51)) : c \in Chars}
  \cup {TextSetup(TextFrames(SubSeq(AtEnd(c), 1, n))) : c \in {<<237, 159, 191, 97>>, <<240, 144, 128, 128>>}, n \in 35..53}
  \cup {TextSetup(<<Encoded(TRUE, Close, FALSE, 4, <<3, 232, a, b>>, <<>>)>>) : a \in Leads, b \in Seconds}

MCSetups == SentSetups \cup HeaderSetups \cup CloseSetups \cup TextSetups
=============================================================================
