-------------------------------- MODULE Utf8 --------------------------------
(***************************************************************************)
(* internal/utf8: the validation of text messages, in the variant built    *)
(* without SIMD (ascii.go, valid_swar.go), and the definition of UTF-8 it  *)
(* is checked against.  Bytes are numbers; positions count from 1.         *)
(***************************************************************************)
EXTENDS Integers, Sequences, SequencesExt

Byte == 0..255
Ascii(b) == b < 128
AllAscii(s, from, to) == \A i \in from..to : Ascii(s[i])

\* What the unrolled steps of asciiPrefix skip from i on: 32 bytes at a time,
\* then 16, 8 and one by one.
Skip32(s, i) ==
  CHOOSE j \in i..Len(s) : /\ (j - i) % 32 = 0 /\ AllAscii(s, i + 1, j)
                           /\ j + 32 > Len(s) \/ ~AllAscii(s, j + 1, j + 32)
Skip(s, i, n) == IF i + n <= Len(s) /\ AllAscii(s, i + 1, i + n) THEN i + n ELSE i
SkipBytes(s, i) ==
  CHOOSE j \in i..Len(s) : /\ AllAscii(s, i + 1, j)
                           /\ j = Len(s) \/ ~Ascii(s[j + 1])
asciiPrefix(s) == SkipBytes(s, Skip(s, Skip(s, Skip32(s, 0), 16), 8))

\* The states are shift offsets in the code; six bits hold each, so the packed
\* table is the function.
States == {"accept", "cont1", "cont2", "afterE0", "afterED", "afterF0", "afterF1", "afterF4", "reject"}

transition_M(state, b) ==
  CASE state = "accept" /\ b < 128 -> "accept"
    [] state = "accept" /\ b \in 194..223 -> "cont1"
    [] state = "accept" /\ b = 224 -> "afterE0"
    [] state = "accept" /\ b \in 225..239 -> "cont2"
    [] state = "accept" /\ b = 240 -> "afterF0"
    [] state = "accept" /\ b \in 241..243 -> "afterF1"
    [] state = "accept" /\ b = 244 -> "afterF4"
    [] state = "cont1" /\ b \in 128..191 -> "accept"
    [] state = "cont2" /\ b \in 128..191 -> "cont1"
    [] state = "afterE0" /\ b \in 160..191 -> "cont1"
    [] state = "afterF0" /\ b \in 144..191 -> "cont2"
    [] state = "afterF1" /\ b \in 128..191 -> "cont2"
    [] state = "afterF4" /\ b \in 128..143 -> "cont2"
    [] OTHER -> "reject"
transition(state, b) ==
  CASE state = "accept" /\ b < 128 -> "accept"
    [] state = "accept" /\ b \in 194..223 -> "cont1"
    [] state = "accept" /\ b = 224 -> "afterE0"
    [] state = "accept" /\ b = 237 -> "afterED"
    [] state = "accept" /\ b \in (225..239) \ {237} -> "cont2"
    [] state = "accept" /\ b = 240 -> "afterF0"
    [] state = "accept" /\ b \in 241..243 -> "afterF1"
    [] state = "accept" /\ b = 244 -> "afterF4"
    [] state = "cont1" /\ b \in 128..191 -> "accept"
    [] state = "cont2" /\ b \in 128..191 -> "cont1"
    [] state = "afterE0" /\ b \in 160..191 -> "cont1"
    [] state = "afterED" /\ b \in 128..159 -> "cont1"
    [] state = "afterF0" /\ b \in 144..191 -> "cont2"
    [] state = "afterF1" /\ b \in 128..191 -> "cont2"
    [] state = "afterF4" /\ b \in 128..143 -> "cont2"
    [] OTHER -> "reject"

Run(s, from, to, state) == FoldLeft(transition, state, SubSeq(s, from, to))

\* One word: skipped when it is ASCII and begins a sequence, else eight steps.
WordStep(s, w, state) ==
  IF state = "accept" /\ AllAscii(s, w, w + 7) THEN state ELSE Run(s, w, w + 7, state)

-----------------------------------------------------------------------------
\* The definition: a sequence of encoded scalar values, each in the fewest bytes.

\* How many bytes a character of lead byte b has; 0: none begins so.
CharLen(b) == CASE b < 128 -> 1 [] b \in 192..223 -> 2 [] b \in 224..239 -> 3 [] b \in 240..247 -> 4 [] OTHER -> 0
CodePoint(c) ==
  CASE Len(c) = 1 -> c[1]
    [] Len(c) = 2 -> (c[1] % 32) * 64 + (c[2] % 64)
    [] Len(c) = 3 -> ((c[1] % 16) * 64 + (c[2] % 64)) * 64 + (c[3] % 64)
    [] Len(c) = 4 -> (((c[1] % 8) * 64 + (c[2] % 64)) * 64 + (c[3] % 64)) * 64 + (c[4] % 64)
Shortest(c) == CodePoint(c) >= (CASE Len(c) = 1 -> 0 [] Len(c) = 2 -> 128 [] Len(c) = 3 -> 2048 [] Len(c) = 4 -> 65536)
Char(c) ==
  /\ \A i \in 2..Len(c) : c[i] \in 128..191
  /\ Shortest(c) /\ CodePoint(c) <= 1114111 /\ CodePoint(c) \notin 55296..57343

\* good[i]: from i on there are characters to the end.
Utf8Text(s) ==
  LET n == Len(s)
      good[i \in 1..(n + 1)] ==
        \/ i = n + 1
        \/ /\ CharLen(s[i]) > 0 /\ i + CharLen(s[i]) <= n + 1
           /\ Char(SubSeq(s, i, i + CharLen(s[i]) - 1))
           /\ good[i + CharLen(s[i])]
  IN good[1]
-----------------------------------------------------------------------------
\* Valid.  A short rest is left to the standard library.
Valid(s) ==
  LET i == asciiPrefix(s)
      words == (Len(s) - i) \div 8
      state[w \in 0..words] == IF w = 0 THEN "accept" ELSE WordStep(s, i + 8 * w - 7, state[w - 1])
      rejected == \E w \in 0..words : state[w] = "reject"
  IN IF Len(s) - i < 16 THEN Utf8Text(SubSeq(s, i + 1, Len(s)))
     ELSE ~rejected /\ Run(s, i + 8 * words + 1, Len(s), state[words]) = "accept"
=============================================================================
