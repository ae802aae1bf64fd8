------------------------------ MODULE Takeover ------------------------------
(***************************************************************************)
(* The send side of permessage-deflate with context takeover: which        *)
(* history the encoder may refer to, against the history the peer has.     *)
(* Models compressorContext (ws/conn_compress.go), the part of Write,      *)
(* BeginMessage, WriteChunk and WritePrepared that concerns it             *)
(* (ws/conn_write.go, ws/prepared.go), deflate.Compressor and              *)
(* deflate.Window.                                                         *)
(*                                                                         *)
(* Connections share the pool of compressors.  An operation runs under the *)
(* connection's wmu; module WritePath shows that frames reach the wire in  *)
(* the order they were encoded in, so the peer's history is advanced here  *)
(* when the frame is encoded.  A payload unit is <<message, offset>>; an   *)
(* encoder may refer to anything in its history.                           *)
(***************************************************************************)
EXTENDS Integers, FiniteSets, Sequences, SequencesExt

CONSTANTS
  Conns,           \* Server connections.
  Configs,         \* Their negotiated settings: [takeover, shared : BOOLEAN].
  Compressors,     \* Enough of them that a pool is never a limit.
  Sizes,           \* Payload lengths.
  WindowSize,      \* Window.Size(), and Compressor.window.
  MinSize,         \* Payloads below this go uncompressed.
  PendingHistory,  \* pendingHistory.
  MaxMessages,     \* Bound: payloads written in one behaviour.
  MaxFailures,     \* Bound: transport writes that fail.
  None

ASSUME TakeoverAssumption ==
  /\ Configs \subseteq [takeover : BOOLEAN, shared : BOOLEAN]
  /\ Sizes \subseteq Nat /\ WindowSize \in Nat \ {0} /\ MinSize \in Nat \ {0}
  /\ PendingHistory \in Nat \ {0} /\ MaxMessages \in Nat /\ MaxFailures \in Nat
  /\ None \notin Compressors \cup Conns
  /\ Cardinality(Compressors) > Cardinality(Conns)

VARIABLES
  config,              \* compressorContext.window # nil, compressorContext.shared.
  buf, gen,            \* Window.buf, Window.gen.
  pending,             \* compressorContext.pending, as payloads.
  attached,            \* compressorContext.attached, or None.
  open, held,          \* frag.op # 0, frag.heldCompressor.
  enc,                 \* Compressor: history of its encoder, attached, gen, mid.
  peer,                \* The last WindowSize units the peer inflated.
  last,                \* The last payload encoded: whose, what it could refer to, peer then.
  lost,                \* A write failed: the peer misses a frame.
  messages, failures

vars == <<config, buf, gen, pending, attached, open, held, enc, peer, last, lost, messages, failures>>

Latest(s, n) == SubSeq(s, Len(s) - n + 1, Len(s))
Trim(s) == IF Len(s) <= WindowSize THEN s ELSE Latest(s, WindowSize)

\* Compressor.Reset; also what NewCompressor returns.
Fresh == [hist |-> <<>>, window |-> None, gen |-> 0, mid |-> FALSE]

Init ==
  /\ config \in [Conns -> Configs]
  /\ buf = [c \in Conns |-> <<>>] /\ gen = [c \in Conns |-> 0]
  /\ pending = [c \in Conns |-> <<>>]
  /\ attached = [c \in Conns |-> None]
  /\ open = [c \in Conns |-> FALSE] /\ held = [c \in Conns |-> FALSE]
  /\ enc = [k \in Compressors |-> Fresh]
  /\ peer = [c \in Conns |-> <<>>]
  /\ last = [conn |-> None, ref |-> <<>>, base |-> <<>>]
  /\ lost = [c \in Conns |-> FALSE]
  /\ messages = 0 /\ failures = 0
-----------------------------------------------------------------------------
\* deflate.Window.

\* Window.remember, with the buffer's capacity at twice the window.
Remember(b, p) ==
  IF Len(p) >= WindowSize THEN Latest(p, WindowSize)
  ELSE IF Len(b) + Len(p) <= 2 * WindowSize THEN b \o p
  ELSE Latest(b, WindowSize - Len(p)) \o p

\* Window.dict.
Dict(b) == Trim(b)
-----------------------------------------------------------------------------
\* The prepared payloads whose copying is put off.

RECURSIVE RememberAll(_, _)
RememberAll(b, ps) == IF ps = <<>> THEN b ELSE RememberAll(Remember(b, Head(ps)), Tail(ps))

Bytes(ps) == FoldLeft(LAMBDA n, p : n + Len(p), 0, ps)

\* Drops from the front while what is left covers the window together with n more.
RECURSIVE DropCovered(_, _)
DropCovered(ps, n) ==
  IF ps # <<>> /\ Bytes(ps) - Len(Head(ps)) + n >= WindowSize THEN DropCovered(Tail(ps), n) ELSE ps

\* notePrepared.
NotePrepared_M(c, p) ==
  /\ pending' = [pending EXCEPT ![c] = Append(IF Len(@) = PendingHistory THEN Tail(@) ELSE @, p)]
  /\ UNCHANGED <<buf, gen>>
NotePrepared(c, p) ==
  LET kept == IF Len(p) >= WindowSize THEN <<>> ELSE DropCovered(pending[c], Len(p))
      full == Len(kept) = PendingHistory
  IN /\ buf' = [buf EXCEPT ![c] = IF full THEN RememberAll(@, kept) ELSE @]
     /\ gen' = [gen EXCEPT ![c] = IF full THEN @ + Len(kept) ELSE @]
     /\ pending' = [pending EXCEPT ![c] = Append(IF full THEN <<>> ELSE kept, p)]
-----------------------------------------------------------------------------
\* deflate.Compressor.

\* Whether CompressChunk primes its encoder, for the window of c at generation g.
Primes_M(c, e, g) == ~e.mid /\ (~config[c].takeover \/ e.window # c)
Primes(c, e, g) == ~e.mid /\ (~config[c].takeover \/ e.window # c \/ e.gen # g)

\* applyPending, then CompressChunk of payload p with compressor k; back
\* says that the compressor returns to the pool, and is reset, afterwards.
Compress(c, k, p, final, back) ==
  LET applied == RememberAll(buf[c], pending[c])
      g == gen[c] + Len(pending[c])
      start == IF Primes(c, enc[k], g) THEN IF config[c].takeover THEN Dict(applied) ELSE <<>>
               ELSE enc[k].hist
      gNext == IF config[c].takeover /\ p # <<>> THEN g + 1 ELSE g
  IN /\ last' = [conn |-> c, ref |-> start, base |-> peer[c]]
     /\ enc' = [enc EXCEPT ![k] = IF back THEN Fresh
                                  ELSE [hist |-> Trim(start \o p),
                                        window |-> IF config[c].takeover THEN c ELSE None,
                                        gen |-> IF config[c].takeover THEN gNext ELSE @.gen,
                                        mid |-> ~final]]
     /\ buf' = [buf EXCEPT ![c] = IF config[c].takeover THEN Remember(applied, p) ELSE @]
     /\ gen' = [gen EXCEPT ![c] = gNext]
     /\ pending' = [pending EXCEPT ![c] = <<>>]

\* sync.Pool.Get, or newCompressor.
Pooled == {k \in Compressors : \A c \in Conns : attached[c] # k}
-----------------------------------------------------------------------------
\* The calls.

NewPayload(n) == [i \in 1..n |-> <<messages + 1, i>>]

\* The frame reaches the peer, or its write fails.
Sent(c, p, final) ==
  /\ peer' = [peer EXCEPT ![c] = IF final /\ ~config[c].takeover THEN <<>> ELSE Trim(@ \o p)]
  /\ UNCHANGED <<lost, failures>>
NotSent(c) ==
  /\ failures < MaxFailures /\ failures' = failures + 1
  /\ lost' = [lost EXCEPT ![c] = TRUE]
  /\ UNCHANGED peer

MayWrite(c) == ~open[c] /\ messages < MaxMessages

\* compressorFor keeps the compressor only for a takeover that is not shared.
Keeps(c) == config[c].takeover /\ ~config[c].shared

\* encodeData, for Write and Queue.Send of at least MinSize.
EncodeData(c, n) ==
  /\ MayWrite(c) /\ n >= MinSize
  /\ \E k \in IF attached[c] # None THEN {attached[c]} ELSE Pooled :
       LET stays == attached[c] # None \/ Keeps(c)
       IN /\ Compress(c, k, NewPayload(n), TRUE, ~stays)
          /\ attached' = [attached EXCEPT ![c] = IF stays THEN k ELSE None]
  /\ Sent(c, NewPayload(n), TRUE) \/ NotSent(c)
  /\ messages' = messages + 1
  /\ UNCHANGED <<config, open, held>>

BeginMessage(c) ==
  /\ MayWrite(c)
  /\ open' = [open EXCEPT ![c] = TRUE]
  /\ \/ attached[c] # None /\ UNCHANGED <<attached, held>>
     \/ /\ attached[c] = None
        /\ \E k \in Pooled : attached' = [attached EXCEPT ![c] = k]
        /\ held' = [held EXCEPT ![c] = TRUE]
  /\ UNCHANGED <<config, buf, gen, pending, enc, peer, last, lost, messages, failures>>

\* endFragmented returns the held compressor, unless the connection keeps one.
Returned_M(c, failed) == held[c] /\ ~Keeps(c) /\ ~failed
Returned(c, failed) == held[c] /\ ~Keeps(c)

\* fragment, for WriteChunk, EndMessage and WriteFrom.
Fragment(c, n, final) ==
  /\ open[c] /\ messages < MaxMessages
  /\ \E failed \in BOOLEAN :
       LET over == final \/ failed
           back == over /\ Returned(c, failed)
       IN /\ Compress(c, attached[c], NewPayload(n), final, back)
          /\ attached' = [attached EXCEPT ![c] = IF back THEN None ELSE @]
          /\ open' = [open EXCEPT ![c] = ~over]
          /\ held' = [held EXCEPT ![c] = @ /\ ~over]
          /\ IF failed THEN NotSent(c) ELSE Sent(c, NewPayload(n), final)
  /\ messages' = messages + 1
  /\ UNCHANGED config

\* WritePrepared and SendPrepared of at least MinSize.  compressedFor borrows a
\* compressor for the variant and compresses against no window.
WritePrepared(c, n) ==
  /\ MayWrite(c) /\ n >= MinSize
  /\ \E k \in Pooled :
       /\ last' = [conn |-> c, ref |-> IF enc[k].mid THEN enc[k].hist ELSE <<>>, base |-> peer[c]]
       /\ enc' = [enc EXCEPT ![k] = Fresh]
  /\ IF config[c].takeover THEN NotePrepared(c, NewPayload(n)) ELSE UNCHANGED <<buf, gen, pending>>
  /\ Sent(c, NewPayload(n), TRUE) \/ NotSent(c)
  /\ messages' = messages + 1
  /\ UNCHANGED <<config, attached, open, held>>

Done == messages = MaxMessages /\ UNCHANGED vars

Next ==
  \/ \E c \in Conns :
       \/ BeginMessage(c)
       \/ \E n \in Sizes :
            \/ EncodeData(c, n) \/ WritePrepared(c, n)
            \/ \E final \in BOOLEAN : Fragment(c, n, final)
  \/ Done

Spec == Init /\ [][Next]_vars
-----------------------------------------------------------------------------
\* Properties.

\* The peer can decode every compressed frame: what its encoder could refer to is
\* a suffix of what the peer has, on connections that attach a compressor, borrow
\* one from the pool or have no takeover, whatever the others did with the same
\* compressors and whatever of the history came from prepared messages.  A
\* connection one of whose writes failed has no peer to agree with any more.
Decodable == \A c \in Conns : (last.conn = c /\ ~lost[c]) => IsSuffix(last.ref, last.base)

\* conn_compress.go:21-27: putting off the copies, dropping what later payloads
\* cover and compacting the buffer loses nothing: window and pending payloads
\* together always hold the history the peer has, and in the middle of a message
\* the window alone does, so that a chunk continues the stream it belongs to.
HistoryKept ==
  \A c \in Conns : ~lost[c] =>
    /\ config[c].takeover => Trim(Dict(buf[c]) \o FlattenSeq(pending[c])) = peer[c]
    /\ (open[c] /\ enc[attached[c]].mid) => pending[c] = <<>>

\* doc.go:47-49 "compressors and decompressors come from pools and go back after
\* use": between messages a connection holds one only to continue its own stream,
\* and no two connections hold the same one.
CompressorsGoBack ==
  /\ \A c \in Conns : (~open[c] /\ attached[c] # None) => Keeps(c)
  /\ \A c, d \in Conns : (c # d /\ attached[c] # None) => attached[c] # attached[d]
=============================================================================
