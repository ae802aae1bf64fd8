---------------------------- MODULE MCWritePath ----------------------------
EXTENDS WritePath, TLC

CONSTANTS w1, w2, w3, r1, r2

Op(name, n) == [name |-> name, n |-> n]

Symmetry == Permutations(Writers) \cup Permutations(Runners)

\* Everything a connection with a queue is asked to do.
QueueOps == {Op("Send", 1), Op("Send", 3), Op("SendPrepared", 1), Op("Write", 1),
             Op("Close", 0), Op("Wait", 0), Op("NewQueue", 0), Op("NewQueue", 3), Op("Pong", 0)}

\* Fragmented and whole messages, with the control frames that may interleave.
FragmentOps == {Op("BeginMessage", 0), Op("WriteChunk", 1), Op("EndMessage", 0),
                Op("WriteFrom", 1), Op("Write", 1), Op("Send", 1), Op("Ping", 0), Op("Close", 0),
                Op("Close", 126)}

\* One call of each kind that takes a path of its own to the transport.
MixedOps == {Op("Send", 1), Op("WritePrepared", 1), Op("Ping", 0), Op("Close", 0),
             Op("sendClose", 0), Op("Wait", 0)}

\* A protocol failure's close among queued messages.
FailOps == {Op("Send", 1), Op("sendClose", 0)}

\* CloseIsLast on a connection whose reader may meet a protocol error: queue.go:21
\* "Pings and pongs bypass the queue", and by conn_write.go:243 "nothing queued
\* ... follows the close".
NothingFollowsTheClose == CloseIsLast
=============================================================================
