----------------------------- MODULE MCReadPath -----------------------------
(***************************************************************************)
(* Instances of ReadPath.  A header has two units and the read buffer      *)
(* three, so headers arrive in pieces, a read can hold the end of one      *)
(* frame and the beginning of the next, and four units of payload are      *)
(* enough for a direct read.                                               *)
(***************************************************************************)
EXTENDS ReadPath

Fr(op, fin, len, coding) == [op |-> op, fin |-> fin, len |-> len, coding |-> coding]
Data(len, coding) == Fr("data", TRUE, len, coding)
Start(len, coding) == Fr("data", FALSE, len, coding)
More(len) == Fr("cont", FALSE, len, "plain")
End(len) == Fr("cont", TRUE, len, "plain")
Ctl(op, len) == Fr(op, TRUE, len, "plain")

ValidStreams == {
  <<Data(4, "plain"), Data(1, "plain")>>,
  <<Start(1, "plain"), Ctl("ping", 2), End(4), Data(0, "plain")>>,
  <<Start(2, "plain"), More(0), Ctl("ping", 0), End(1), Ctl("close", 1)>>,
  <<Data(3, "deflated"), Data(2, "deflated")>>,
  <<Start(1, "deflated"), Ctl("ping", 1), End(1), Data(1, "plain"), Data(2, "deflated")>>,
  <<Start(3, "deflated"), End(0), Ctl("close", 0)>> }

BrokenStreams == {
  <<Start(1, "plain"), Data(1, "plain")>>,
  <<Data(1, "plain"), End(1)>>,
  <<Start(3, "plain"), End(3)>>,
  <<Ctl("badclose", 1)>>,
  <<Fr("bad", TRUE, 1, "plain")>>,
  <<Fr("ping", FALSE, 1, "plain")>>,
  <<Data(2, "corrupt")>>, <<Data(2, "bomb")>>, <<Data(2, "badtext")>> }

MCStreams == ValidStreams \cup BrokenStreams

\* For the retries.
TakeoverStreams == {<<Data(2, "deflated"), Data(1, "deflated")>>}
AllCalls == {"NextMessage", "ReadMessage", "Read", "WriteTo"}
=============================================================================
