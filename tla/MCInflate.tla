------------------------------ MODULE MCInflate ------------------------------
EXTENDS Inflate

B(n) == [final |-> FALSE, n |-> n, ok |-> TRUE]
F(n) == [final |-> TRUE, n |-> n, ok |-> TRUE]
Corrupt == [final |-> FALSE, n |-> 0, ok |-> FALSE]
Deflated(frags, blocks) == [deflated |-> TRUE, frags |-> frags, blocks |-> blocks]
Plain(frags) == [deflated |-> FALSE, frags |-> frags, blocks |-> <<>>]

\* A final block inside a message, outputs within PoolKeep, of exactly
\* the limit below the window, and past the limit in front of data that does not
\* inflate; payloads in one piece and gathered from fragments, within PoolKeep, past
\* it, past the largest class and past the limit.  What the two connections do not
\* both get goes through pools they share.
Split == Deflated(<<1, 2>>, <<F(1), B(3), B(0)>>)
Gathered == Plain(<<2, 1, 1>>)
MCMessages ==
  [c \in Conns |->
     IF c \in Takeover
     THEN {Split, Gathered, Deflated(<<1>>, <<B(1)>>), Deflated(<<3>>, <<F(3), B(2), Corrupt>>)}
     ELSE {Split, Gathered, Plain(<<2>>), Plain(<<3, 3>>)}]
==============================================================================
