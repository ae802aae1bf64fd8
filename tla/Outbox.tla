------------------------------- MODULE Outbox -------------------------------
(***************************************************************************)
(* What the write side of a connection promises, as ws/queue.go:11-21 and  *)
(* ws/conn_write.go:238-244 put it: stream frames (data, continuation and  *)
(* close) leave in the order they were submitted, none is skipped, none is *)
(* written twice, and after a failed write no stream frame leaves again.   *)
(* Ping and pong frames go out at any time.                                *)
(***************************************************************************)
EXTENDS Integers, Sequences

CONSTANTS Stream,  \* Frames that are kept in order.
          Other    \* Pings, pongs, and what a failed write leaves of a frame.

VARIABLES pending,  \* Submitted and not yet written.
          out,      \* Written.
          failed    \* The queue's writer has met an error.

outbox == <<pending, out, failed>>

Init == pending = <<>> /\ out = <<>> /\ failed = FALSE

\* f is younger than every stream frame there is.
Fresh(f) ==
  /\ f \in Stream
  /\ \A i \in DOMAIN pending : pending[i].id < f.id
  /\ \A i \in DOMAIN out : out[i] \in Stream => out[i].id < f.id

NewLast(s, t) == t # <<>> /\ s = SubSeq(t, 1, Len(t) - 1)

Submit ==
  /\ ~failed
  /\ NewLast(pending, pending') /\ Fresh(pending'[Len(pending')])
  /\ UNCHANGED <<out, failed>>

\* The oldest k pending frames leave together.
Deliver ==
  /\ ~failed
  /\ \E k \in 1..Len(pending) :
       /\ out' = out \o SubSeq(pending, 1, k)
       /\ pending' = SubSeq(pending, k + 1, Len(pending))
  /\ UNCHANGED failed

\* A connection without a queue: submitted and written in one step.
Direct ==
  /\ pending = <<>> /\ ~failed
  /\ NewLast(out, out') /\ Fresh(out'[Len(out')])
  /\ UNCHANGED <<pending, failed>>

Bypass ==
  /\ NewLast(out, out') /\ out'[Len(out')] \in Other
  /\ UNCHANGED <<pending, failed>>

\* The oldest k pending frames left, then perhaps a part of the next; the
\* others never will.
Fail ==
  /\ ~failed /\ failed' = TRUE
  /\ \E k \in 0..(Len(pending) - 1) :
       LET sent == out \o SubSeq(pending, 1, k)
       IN out' = sent \/ (NewLast(sent, out') /\ out'[Len(out')] \in Other)
  /\ pending' = <<>>

Next == Submit \/ Deliver \/ Direct \/ Bypass \/ Fail

Spec == Init /\ [][Next]_outbox
=============================================================================
