---------------------------- MODULE WellFormedUtf8 ----------------------------
(***************************************************************************)
(* What UTF-8 is, independently of any automaton: a text is well formed when *)
(* it is the concatenation of the encodings of Unicode scalar values.       *)
(***************************************************************************)
EXTENDS Integers, Sequences

IsScalarValue(c) == (0 <= c /\ c < 55296) \/ (57344 <= c /\ c <= 1114111)

\* The encoding of c: the shortest that holds it.
Encoding(c) ==
  LET six(n) == 128 + ((c \div n) % 64)
  IN  CASE c < 128 -> <<c>>
        [] 128 <= c /\ c < 2048 -> <<192 + c \div 64, six(1)>>
        [] 2048 <= c /\ c < 65536 -> <<224 + c \div 4096, six(64), six(1)>>
        [] OTHER -> <<240 + c \div 262144, six(4096), six(64), six(1)>>

\* The number that 1 to 4 bytes encode, if they encode any.
CodePoint(s) ==
  CASE Len(s) = 1 -> s[1]
    [] Len(s) = 2 -> (s[1] - 192) * 64 + (s[2] - 128)
    [] Len(s) = 3 -> (s[1] - 224) * 4096 + (s[2] - 128) * 64 + (s[3] - 128)
    [] Len(s) = 4 -> (s[1] - 240) * 262144 + (s[2] - 128) * 4096
                     + (s[3] - 128) * 64 + (s[4] - 128)

IsCharacter(s) == LET c == CodePoint(s) IN IsScalarValue(c) /\ Encoding(c) = s

WellFormed(text) ==
  LET upTo[n \in 0..Len(text)] ==
        \/ n = 0
        \/ \E k \in 1..4 : k <= n /\ IsCharacter(SubSeq(text, n - k + 1, n)) /\ upTo[n - k]
  IN  upTo[Len(text)]

\* Some continuation of the text is well formed.  What completes a character are
\* at most three bytes, and it is enough to try the lowest and the highest: the
\* code points a prefix leaves open form an interval, and the scalar values and
\* the values of one length reach one of its ends.
Tails == UNION {[1..n -> {128, 191}] : n \in 0..3}
Completable(text) == \E tail \in Tails : WellFormed(text \o tail)
=============================================================================
