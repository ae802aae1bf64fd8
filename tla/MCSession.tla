------------------------------ MODULE MCSession ------------------------------
(***************************************************************************)
(* Instances of Session.  The streams have an empty message, a message in  *)
(* fragments with a ping between them, compressed messages, a close behind *)
(* and inside a message, an end inside a message, and what the receiver    *)
(* refuses.                                                                *)
(***************************************************************************)
EXTENDS Session

Fr(op, fin, n, coding) == [op |-> op, fin |-> fin, len |-> n, coding |-> coding]
Data(n, coding) == Fr("data", TRUE, n, coding)
Start(n, coding) == Fr("data", FALSE, n, coding)
End(n) == Fr("cont", TRUE, n, "plain")
Ctl(op, n) == Fr(op, TRUE, n, "plain")

SessionStreams == {
  <<Data(1, "plain"), Data(0, "plain"), Ctl("ping", 0), Data(2, "plain")>>,
  <<Start(1, "plain"), Ctl("ping", 1), End(1), Ctl("close", 0)>>,
  <<Data(2, "plain"), Ctl("ping", 0), Start(1, "plain"), Ctl("close", 1)>>,
  <<Data(2, "deflated"), Data(0, "plain"), Data(1, "deflated"), Ctl("close", 0)>>,
  <<Data(1, "plain"), Start(1, "plain")>>,
  <<Data(1, "plain"), Start(1, "plain"), Data(1, "plain")>>,
  <<Data(1, "plain"), Data(2, "badtext"), Ctl("ping", 0)>> }

HostCallsUsed == {"NextMessage", "Read", "ReadMessage"}
=============================================================================
