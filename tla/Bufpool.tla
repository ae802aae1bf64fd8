------------------------------- MODULE Bufpool -------------------------------
(***************************************************************************)
(* internal/bufpool: buffers pooled by power-of-two capacity.  Storage is  *)
(* a sequence of buffers [cap, mem, pooled]; a holder knows a buffer by    *)
(* its index, and 0 is nil.  pooled counts the times it is in its pool.    *)
(***************************************************************************)
EXTENDS Integers, Sequences

CONSTANTS MinBits, MaxBits

ASSUME PoolAssumption == MinBits \in 0..10 /\ MaxBits \in MinBits..10

Larger(a, b) == IF a > b THEN a ELSE b
Smaller(a, b) == IF a < b THEN a ELSE b

\* bits.Len(uint(x)): the binary digits of x; below zero the conversion wraps.
BitsLen(x) == IF x < 0 THEN 64 ELSE CHOOSE k \in 0..30 : x < 2^k /\ \A j \in 0..(k - 1) : x >= 2^j

\* The pool that serves n; asked for nothing it names one that does not exist,
\* whose capacity TLC cannot evaluate.
class(n) == Larger(MinBits, BitsLen(n - 1))

\* make.
Make(bufs, n) == [bufs |-> Append(bufs, [cap |-> n, mem |-> <<>>, pooled |-> 0]), id |-> Len(bufs) + 1]

Get(bufs, n) ==
  LET there == {i \in DOMAIN bufs : bufs[i].pooled > 0 /\ BitsLen(bufs[i].cap) - 1 = class(n)}
  IN IF n > 2^MaxBits THEN Make(bufs, n)
     ELSE IF there = {} THEN Make(bufs, 2^class(n))
     ELSE LET id == CHOOSE i \in there : \A j \in there : i <= j
          IN [bufs |-> [bufs EXCEPT ![id].pooled = @ - 1], id |-> id]

\* A capacity that is no power of two in range did not come from Get.
Put(bufs, id) ==
  IF id = 0 THEN bufs
  ELSE IF bufs[id].cap \notin {2^k : k \in MinBits..MaxBits} THEN bufs
  ELSE [bufs EXCEPT ![id].pooled = @ + 1]

Cap(bufs, id) == IF id = 0 THEN 0 ELSE bufs[id].cap
Bytes(bufs, id, n) == IF id = 0 THEN <<>> ELSE SubSeq(bufs[id].mem, 1, n)

\* append to the first n bytes of a buffer with room for it.
Fill(bufs, id, n, units) == IF id = 0 THEN bufs ELSE [bufs EXCEPT ![id].mem = SubSeq(@, 1, n) \o units]
=============================================================================
