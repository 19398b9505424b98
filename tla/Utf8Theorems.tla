----------------------------- MODULE Utf8Theorems -----------------------------
(***************************************************************************)
(* What the validator of Utf8 computes, for texts of any length: it accepts *)
(* exactly the texts that WellFormedUtf8 defines, and rejects exactly those  *)
(* that cannot be completed to one.                                         *)
(***************************************************************************)
EXTENDS Utf8, WellFormedUtf8, SequenceTheorems, WellFoundedInduction, TLAPS

-----------------------------------------------------------------------------
(* Induction over the natural numbers, for a set and not for an operator.   *)

Below == {p \in Nat \X Nat : p[1] < p[2]}

LEMMA BelowWellFounded == IsWellFoundedOn(Below, Nat)
BY NatLessThanWellFounded, Zenon DEF OpToRel, Below

LEMMA SetInduction ==
  ASSUME NEW S, 0 \in S, \A n \in Nat : n \in S => n + 1 \in S
  PROVE  Nat \subseteq S
<1> DEFINE T == Nat \ S
<1> SUFFICES ASSUME T # {} PROVE FALSE
  OBVIOUS
<1>1. \E x \in T : \A y \in T : ~(<<y, x>> \in Below)
  <2>1. T \subseteq Nat
    OBVIOUS
  <2> HIDE DEF T
  <2> QED
    BY <2>1, BelowWellFounded, WFMin
<1>2. PICK x \in T : \A y \in T : ~(<<y, x>> \in Below)
  BY <1>1
<1>3. x \in Nat /\ x # 0 /\ x - 1 \in Nat /\ x = (x - 1) + 1
  OBVIOUS
<1>4. <<x - 1, x>> \in Below
  BY <1>3 DEF Below
<1>5. x - 1 \in S
  BY <1>2, <1>3, <1>4
<1>6. x \in S
  BY <1>3, <1>5
<1> QED
  BY <1>6

-----------------------------------------------------------------------------
(* Runs of the validator                                                    *)

Byte == 0..255
Text == Seq(Byte)

\* The states that the validator goes through, one byte after the other.
IsRun(s, text, run) ==
  /\ run \in [0..Len(text) -> Utf8States]
  /\ run[0] = s
  /\ \A k \in 1..Len(text) : run[k] = Consume(run[k - 1], text[k])

LEMMA TextLength ==
  ASSUME NEW text \in Text
  PROVE  /\ Len(text) \in Nat /\ DOMAIN text = 1..Len(text)
         /\ \A k \in 1..Len(text) : text[k] \in Byte
BY LenProperties, ElementOfSeq DEF Text

\* The classes and the states of the table.
LEMMA ClassOfByte ==
  ASSUME NEW b \in Byte
  PROVE  /\ b <= 127 => ClassOf(b) = 0
         /\ b \in 128..143 => ClassOf(b) = 1
         /\ b \in 144..159 => ClassOf(b) = 9
         /\ b \in 160..191 => ClassOf(b) = 7
         /\ b \in {192, 193} \/ b >= 245 => ClassOf(b) = 8
         /\ b \in 194..223 => ClassOf(b) = 2
         /\ b = 224 => ClassOf(b) = 10
         /\ b \in 225..236 \/ b \in {238, 239} => ClassOf(b) = 3
         /\ b = 237 => ClassOf(b) = 4
         /\ b = 240 => ClassOf(b) = 11
         /\ b \in 241..243 => ClassOf(b) = 6
         /\ b = 244 => ClassOf(b) = 5
<1> DEFINE Value ==
             CASE b <= 127 -> 0
               [] b \in 128..143 -> 1
               [] b \in 144..159 -> 9
               [] b \in 160..191 -> 7
               [] b \in {192, 193} \/ b >= 245 -> 8
               [] b \in 194..223 -> 2
               [] b = 224 -> 10
               [] b \in 225..239 \ {237} -> 3
               [] b = 237 -> 4
               [] b = 240 -> 11
               [] b \in 241..243 -> 6
               [] b = 244 -> 5
<1>1. ClassOf(b) = Value
  BY DEF ClassOf, ByteClass, Byte
<1>2. b <= 127 => Value = 0
  BY DEF Byte
<1>3. b \in 128..143 => Value = 1
  BY DEF Byte
<1>4. b \in 144..159 => Value = 9
  BY DEF Byte
<1>5. b \in 160..191 => Value = 7
  BY DEF Byte
<1>6. b \in {192, 193} \/ b >= 245 => Value = 8
  BY DEF Byte
<1>7. b \in 194..223 => Value = 2
  BY DEF Byte
<1>8. b = 224 => Value = 10
  BY DEF Byte
<1>9. b \in 225..236 \/ b \in {238, 239} => Value = 3
  BY DEF Byte
<1>10. b = 237 => Value = 4
  BY DEF Byte
<1>11. b = 240 => Value = 11
  BY DEF Byte
<1>12. b \in 241..243 => Value = 6
  BY DEF Byte
<1>13. b = 244 => Value = 5
  BY DEF Byte
<1> HIDE DEF Value
<1> QED
  BY <1>1, <1>2, <1>3, <1>4, <1>5, <1>6, <1>7, <1>8, <1>9, <1>10, <1>11, <1>12, <1>13

LEMMA ClassType == ASSUME NEW b \in Byte PROVE ClassOf(b) \in 0..11
BY ClassOfByte DEF Byte

LEMMA ConsumeType ==
  ASSUME NEW s \in Utf8States, NEW b \in Byte PROVE Consume(s, b) \in Utf8States
<1> DEFINE c == ClassOf(b)
           Goes(t) == <<s, c, t>> \in Transitions
<1>1. c \in 0..11
  BY ClassType
<1> HIDE DEF c
<1>2. StateAfter[s][c] = IF \E t \in Utf8States : Goes(t) THEN CHOOSE t \in Utf8States : Goes(t)
                                                         ELSE REJECT
  BY <1>1 DEF StateAfter
<1> HIDE DEF Goes
<1>3. StateAfter[s][c] \in Utf8States
  BY <1>2, Zenon DEF REJECT, Utf8States
<1> QED
  BY <1>3 DEF Consume, c

\* The fold over a text as a function of the prefixes it is computed for.
Folded(s, text, iter, S) ==
  iter = [T \in SUBSET S |-> IF T = {} THEN s ELSE Consume(iter[T \ {Max(T)}], text[Max(T)])]

LEMMA MaxOfPrefix ==
  ASSUME NEW n \in Nat, NEW T \in SUBSET (1..(n + 1)), n + 1 \in T
  PROVE  Max(T) = n + 1 /\ T \ {Max(T)} \in SUBSET (1..n)
<1>1. \A x \in T : (\A y \in T : x >= y) => x = n + 1
  OBVIOUS
<1>2. \A y \in T : n + 1 >= y
  OBVIOUS
<1>3. Max(T) \in T /\ \A y \in T : Max(T) >= y
  BY <1>2, Zenon DEF Max
<1>4. Max(T) = n + 1
  BY <1>1, <1>3
<1> QED
  BY <1>4

LEMMA FoldExists ==
  ASSUME NEW s, NEW text, NEW n \in Nat PROVE \E iter : Folded(s, text, iter, 1..n)
<1> DEFINE S == {k \in Nat : \E iter : Folded(s, text, iter, 1..k)}
<1>1. 0 \in S
  <2> DEFINE iter == [T \in SUBSET (1..0) |-> s]
  <2>1. 1..0 = {}
    OBVIOUS
  <2>2. \A T \in SUBSET (1..0) : T = {}
    BY <2>1
  <2>3. Folded(s, text, iter, 1..0)
    BY <2>2 DEF Folded
  <2> QED
    BY <2>3
<1>2. ASSUME NEW k \in Nat, k \in S PROVE k + 1 \in S
  <2>1. PICK f : Folded(s, text, f, 1..k)
    BY <1>2
  <2> DEFINE g == [T \in SUBSET (1..(k + 1)) |->
                     IF k + 1 \in T THEN Consume(f[T \ {k + 1}], text[k + 1]) ELSE f[T]]
  <2>2. ASSUME NEW T \in SUBSET (1..(k + 1))
        PROVE  g[T] = IF T = {} THEN s ELSE Consume(g[T \ {Max(T)}], text[Max(T)])
    <3>1. CASE k + 1 \in T
      <4>1. Max(T) = k + 1 /\ T \ {Max(T)} \in SUBSET (1..k)
        BY <3>1, MaxOfPrefix
      <4>2. T \ {k + 1} \in SUBSET (1..(k + 1)) /\ k + 1 \notin T \ {k + 1}
        OBVIOUS
      <4>3. g[T \ {k + 1}] = f[T \ {k + 1}]
        BY <4>2
      <4>4. g[T] = Consume(f[T \ {k + 1}], text[k + 1])
        BY <3>1
      <4> QED
        BY <3>1, <4>1, <4>3, <4>4
    <3>2. CASE k + 1 \notin T
      <4>0. T \in SUBSET (1..k)
        BY <3>2
      <4>1. T \in SUBSET (1..k) /\ T \ {Max(T)} \in SUBSET (1..k)
        BY <4>0, Zenon
      <4>2. f[T] = IF T = {} THEN s ELSE Consume(f[T \ {Max(T)}], text[Max(T)])
        BY <2>1, <4>1, Zenon DEF Folded
      <4>3. \A U \in SUBSET (1..k) : U \in SUBSET (1..(k + 1)) /\ k + 1 \notin U
        OBVIOUS
      <4>4. \A U \in SUBSET (1..k) : g[U] = f[U]
        BY <4>3
      <4> HIDE DEF g
      <4>5. g[T] = f[T] /\ g[T \ {Max(T)}] = f[T \ {Max(T)}]
        BY <4>1, <4>4
      <4> QED
        BY <4>2, <4>5
    <3> QED
      BY <3>1, <3>2
  <2>3. Folded(s, text, g, 1..(k + 1))
    <3>1. g = [T \in SUBSET (1..(k + 1)) |-> g[T]]
      OBVIOUS
    <3> HIDE DEF g
    <3>2. [T \in SUBSET (1..(k + 1)) |-> g[T]]
            = [T \in SUBSET (1..(k + 1)) |->
                 IF T = {} THEN s ELSE Consume(g[T \ {Max(T)}], text[Max(T)])]
      BY <2>2, Zenon
    <3> QED
      BY <3>1, <3>2, Zenon DEF Folded
  <2> HIDE DEF g
  <2> QED
    BY <2>3
<1> HIDE DEF S
<1>3. Nat \subseteq S
  BY <1>1, <1>2, SetInduction
<1> QED
  BY <1>3 DEF S

LEMMA FoldUnfolds ==
  ASSUME NEW s, NEW text \in Text
  PROVE  \E iter : /\ Folded(s, text, iter, 1..Len(text))
                   /\ validate_state(s, text) = iter[1..Len(text)]
<1> DEFINE D == 1..Len(text)
           it == CHOOSE it : it = [T \in SUBSET D |-> IF T = {} THEN s
                                                     ELSE Consume(it[T \ {Max(T)}], text[Max(T)])]
<1>1. validate_state(s, text) = it[D]
  <2>1. DOMAIN text = D
    BY TextLength
  <2> QED
    BY <2>1, Zenon DEF validate_state, FoldLeft, MapThenFoldSet
<1>2. PICK f : Folded(s, text, f, D)
  BY FoldExists, TextLength
<1>3. f = [T \in SUBSET D |-> IF T = {} THEN s ELSE Consume(f[T \ {Max(T)}], text[Max(T)])]
  BY <1>2, Zenon DEF Folded
<1>4. it = [T \in SUBSET D |-> IF T = {} THEN s ELSE Consume(it[T \ {Max(T)}], text[Max(T)])]
  BY <1>3, Zenon
<1>5. Folded(s, text, it, D)
  BY <1>4, Zenon DEF Folded
<1> QED
  BY <1>1, <1>5

LEMMA RunOf ==
  ASSUME NEW s \in Utf8States, NEW text \in Text
  PROVE  \E run : IsRun(s, text, run) /\ validate_state(s, text) = run[Len(text)]
<1> DEFINE n == Len(text)
<1>0. n \in Nat /\ \A k \in 1..n : text[k] \in Byte
  BY TextLength
<1>1. PICK iter : Folded(s, text, iter, 1..n) /\ validate_state(s, text) = iter[1..n]
  BY FoldUnfolds
<1> HIDE DEF n
<1>2. \A T \in SUBSET (1..n) :
        iter[T] = IF T = {} THEN s ELSE Consume(iter[T \ {Max(T)}], text[Max(T)])
  BY <1>1, Zenon DEF Folded
<1>3. iter[1..0] = s
  <2>1. 1..0 = {} /\ 1..0 \in SUBSET (1..n)
    BY <1>0
  <2> QED
    BY <1>2, <2>1, Zenon
<1>4. ASSUME NEW k \in 1..n PROVE iter[1..k] = Consume(iter[1..(k - 1)], text[k])
  <2>1. k - 1 \in Nat /\ (k - 1) + 1 = k /\ 1..k \in SUBSET (1..k) /\ k \in 1..k
        /\ 1..k # {} /\ 1..k \in SUBSET (1..n)
    BY <1>0
  <2>2. Max(1..k) = k
    BY <2>1, MaxOfPrefix, Zenon
  <2>3. (1..k) \ {k} = 1..(k - 1)
    BY <2>1
  <2>4. iter[1..k] = Consume(iter[(1..k) \ {Max(1..k)}], text[Max(1..k)])
    BY <1>2, <2>1, Zenon
  <2> QED
    BY <2>2, <2>3, <2>4
<1> DEFINE S == {k \in Nat : k <= n => iter[1..k] \in Utf8States}
<1>5. 0 \in S
  BY <1>3
<1>6. ASSUME NEW k \in Nat, k \in S PROVE k + 1 \in S
  <2> SUFFICES ASSUME k + 1 <= n PROVE iter[1..(k + 1)] \in Utf8States
    OBVIOUS
  <2>1. k + 1 \in 1..n /\ (k + 1) - 1 = k /\ iter[1..k] \in Utf8States
    BY <1>0, <1>6
  <2>2. iter[1..(k + 1)] = Consume(iter[1..k], text[k + 1])
    BY <1>4, <2>1
  <2> QED
    BY <1>0, <2>1, <2>2, ConsumeType
<1> HIDE DEF S
<1>7. Nat \subseteq S
  BY <1>5, <1>6, SetInduction
<1>8. \A k \in 0..n : iter[1..k] \in Utf8States
  <2> SUFFICES ASSUME NEW k \in 0..n PROVE iter[1..k] \in Utf8States
    OBVIOUS
  <2>1. k \in Nat /\ k <= n
    BY <1>0
  <2> QED
    BY <1>7, <2>1 DEF S
<1> DEFINE run == [k \in 0..n |-> iter[1..k]]
<1>9. /\ run \in [0..n -> Utf8States] /\ run[0] = s /\ run[n] = iter[1..n]
      /\ \A k \in 1..n : run[k] = Consume(run[k - 1], text[k])
  <2>1. \A k \in 0..n : run[k] = iter[1..k]
    OBVIOUS
  <2>2. 0 \in 0..n /\ n \in 0..n /\ \A k \in 1..n : k \in 0..n /\ k - 1 \in 0..n
    BY <1>0
  <2>3. run \in [0..n -> Utf8States]
    BY <1>8
  <2> HIDE DEF run
  <2>4. run[0] = s /\ run[n] = iter[1..n]
    BY <1>3, <2>1, <2>2
  <2>5. \A k \in 1..n : run[k] = Consume(run[k - 1], text[k])
    BY <1>4, <2>1, <2>2
  <2> QED
    BY <2>3, <2>4, <2>5
<1> HIDE DEF run
<1>10. IsRun(s, text, run)
  BY <1>9 DEF IsRun, n
<1> QED
  BY <1>1, <1>9, <1>10 DEF n

\* Two texts that begin with the same bytes begin with the same states.
LEMMA RunsAgree ==
  ASSUME NEW s, NEW t, NEW u, NEW f, NEW g, IsRun(s, t, f), IsRun(s, u, g),
         Len(t) \in Nat, Len(u) \in Nat, NEW n \in Nat, n <= Len(t), n <= Len(u),
         \A k \in 1..n : t[k] = u[k]
  PROVE  \A k \in 0..n : f[k] = g[k]
<1> DEFINE S == {k \in Nat : k <= n => f[k] = g[k]}
<1>1. 0 \in S
  BY DEF IsRun
<1>2. ASSUME NEW k \in Nat, k \in S PROVE k + 1 \in S
  <2> SUFFICES ASSUME k + 1 <= n PROVE f[k + 1] = g[k + 1]
    OBVIOUS
  <2>1. k + 1 \in 1..Len(t) /\ k + 1 \in 1..Len(u) /\ k + 1 \in 1..n /\ (k + 1) - 1 = k
    OBVIOUS
  <2>2. f[k] = g[k] /\ t[k + 1] = u[k + 1]
    BY <1>2, <2>1
  <2>3. f[k + 1] = Consume(f[(k + 1) - 1], t[k + 1]) /\ g[k + 1] = Consume(g[(k + 1) - 1], u[k + 1])
    BY <2>1 DEF IsRun
  <2> QED
    BY <2>1, <2>2, <2>3
<1> HIDE DEF S
<1>3. Nat \subseteq S
  BY <1>1, <1>2, SetInduction
<1> QED
  BY <1>3 DEF S

\* Any run tells what the validator returns.
LEMMA RunEnds ==
  ASSUME NEW s \in Utf8States, NEW text \in Text, NEW run, IsRun(s, text, run)
  PROVE  validate_state(s, text) = run[Len(text)] /\ run[Len(text)] \in Utf8States
<1>1. Len(text) \in Nat
  BY TextLength
<1>2. PICK f : IsRun(s, text, f) /\ validate_state(s, text) = f[Len(text)]
  BY RunOf
<1>3. f[Len(text)] = run[Len(text)]
  BY <1>1, <1>2, RunsAgree
<1> QED
  BY <1>1, <1>2, <1>3 DEF IsRun

LEMMA ValidateType ==
  ASSUME NEW s \in Utf8States, NEW text \in Text PROVE validate_state(s, text) \in Utf8States
BY RunOf, RunEnds

\* A text may be given to the validator in pieces.
LEMMA ValidateConcat ==
  ASSUME NEW s \in Utf8States, NEW t \in Text, NEW u \in Text
  PROVE  validate_state(s, t \o u) = validate_state(validate_state(s, t), u)
<1> DEFINE n == Len(t)
           m == Len(u)
<1>1. /\ n \in Nat /\ m \in Nat /\ t \o u \in Text /\ Len(t \o u) = n + m
      /\ \A k \in 1..(n + m) : (t \o u)[k] = IF k <= n THEN t[k] ELSE u[k - n]
  BY TextLength, ConcatProperties DEF Text
<1>2. PICK f : IsRun(s, t, f) /\ validate_state(s, t) = f[n]
  BY RunOf
<1>3. f[n] \in Utf8States
  BY <1>2, RunEnds
<1>4. PICK g : IsRun(f[n], u, g) /\ validate_state(f[n], u) = g[m]
  BY <1>3, RunOf
<1> DEFINE h == [k \in 0..(n + m) |-> IF k <= n THEN f[k] ELSE g[k - n]]
<1>5. /\ f \in [0..n -> Utf8States] /\ f[0] = s
      /\ \A k \in 1..n : f[k] = Consume(f[k - 1], t[k])
      /\ g \in [0..m -> Utf8States] /\ g[0] = f[n]
      /\ \A k \in 1..m : g[k] = Consume(g[k - 1], u[k])
  BY <1>2, <1>4 DEF IsRun
<1> HIDE DEF n, m
<1>6. \A k \in 0..(n + m) : h[k] = IF k <= n THEN f[k] ELSE g[k - n]
  OBVIOUS
<1>7. h \in [0..(n + m) -> Utf8States]
  <2>1. ASSUME NEW k \in 0..(n + m) PROVE (IF k <= n THEN f[k] ELSE g[k - n]) \in Utf8States
    <3>1. CASE k <= n
      BY <1>1, <1>5, <3>1
    <3>2. CASE ~(k <= n)
      <4>1. k - n \in 0..m
        BY <1>1, <3>2
      <4> QED
        BY <1>5, <3>2, <4>1
    <3> QED
      BY <3>1, <3>2
  <2> QED
    BY <2>1
<1> HIDE DEF h
<1>8. h[0] = s
  BY <1>1, <1>5, <1>6
<1>9. ASSUME NEW k \in 1..(n + m) PROVE h[k] = Consume(h[k - 1], (t \o u)[k])
  <2>0. k \in 0..(n + m) /\ k - 1 \in 0..(n + m)
    BY <1>1
  <2>1. CASE k <= n
    <3>1. k \in 1..n /\ k - 1 <= n
      BY <1>1, <2>1
    <3>2. h[k] = f[k] /\ h[k - 1] = f[k - 1] /\ (t \o u)[k] = t[k]
      BY <1>1, <1>6, <2>0, <2>1, <3>1
    <3> QED
      BY <1>5, <3>1, <3>2
  <2>2. CASE ~(k <= n)
    <3>1. k - n \in 1..m /\ (k - n) - 1 = (k - 1) - n /\ (k - 1 <= n <=> k - 1 = n)
      BY <1>1, <2>2
    <3>2. h[k] = g[k - n] /\ (t \o u)[k] = u[k - n]
      BY <1>1, <1>6, <2>0, <2>2
    <3>3. h[k - 1] = g[(k - n) - 1]
      <4>1. CASE k - 1 = n
        <5>1. (k - n) - 1 = 0
          BY <1>1, <4>1
        <5> QED
          BY <1>5, <1>6, <2>0, <3>1, <4>1, <5>1
      <4>2. CASE k - 1 # n
        BY <1>6, <2>0, <3>1, <4>2
      <4> QED
        BY <4>1, <4>2
    <3>4. g[k - n] = Consume(g[(k - n) - 1], u[k - n])
      BY <1>5, <3>1
    <3> QED
      BY <3>2, <3>3, <3>4
  <2> QED
    BY <2>1, <2>2
<1>10. IsRun(s, t \o u, h)
  BY <1>1, <1>7, <1>8, <1>9 DEF IsRun
<1>11. h[n + m] = g[m]
  <2>1. n + m \in 0..(n + m) /\ (n + m) - n = m /\ (n + m <= n => m = 0 /\ n + m = n)
    BY <1>1
  <2> QED
    BY <1>5, <1>6, <2>1
<1>12. validate_state(s, t \o u) = h[n + m]
  BY <1>1, <1>10, RunEnds
<1> QED
  BY <1>2, <1>4, <1>11, <1>12

-----------------------------------------------------------------------------
(* The table                                                                *)

Leads(s, c, t) ==
  \/ /\ s = 0
     /\ \/ c = 0 /\ t = 0
        \/ c = 2 /\ t = 24
        \/ c = 3 /\ t = 36
        \/ c = 4 /\ t = 60
        \/ c = 5 /\ t = 96
        \/ c = 6 /\ t = 84
        \/ c = 10 /\ t = 48
        \/ c = 11 /\ t = 72
  \/ s = 24 /\ c \in {1, 7, 9} /\ t = 0
  \/ s = 36 /\ c \in {1, 7, 9} /\ t = 24
  \/ s = 48 /\ c = 7 /\ t = 24
  \/ s = 60 /\ c \in {1, 9} /\ t = 24
  \/ s = 72 /\ c \in {7, 9} /\ t = 36
  \/ s = 84 /\ c \in {1, 7, 9} /\ t = 36
  \/ s = 96 /\ c = 1 /\ t = 36

LEMMA TransitionIs ==
  ASSUME NEW s \in Utf8States, NEW c \in 0..11, NEW t \in Utf8States
  PROVE  <<s, c, t>> \in Transitions <=> Leads(s, c, t)
<1> USE DEF Utf8States, Leads
<1>1. CASE s = 0
  BY <1>1 DEF Transitions
<1>2. CASE s = 24 \/ s = 36
  BY <1>2 DEF Transitions
<1>3. CASE s = 48 \/ s = 60
  BY <1>3 DEF Transitions
<1>4. CASE s = 72 \/ s = 84
  BY <1>4 DEF Transitions
<1>5. CASE s = 96 \/ s = 12
  BY <1>5 DEF Transitions
<1> QED
  BY <1>1, <1>2, <1>3, <1>4, <1>5

LEMMA StateAfterIs ==
  ASSUME NEW s \in Utf8States, NEW c \in 0..11
  PROVE  /\ \A t \in Utf8States : Leads(s, c, t) => StateAfter[s][c] = t
         /\ (\A t \in Utf8States : ~Leads(s, c, t)) => StateAfter[s][c] = 12
<1> DEFINE Goes(t) == <<s, c, t>> \in Transitions
<1>1. StateAfter[s][c] = IF \E t \in Utf8States : Goes(t) THEN CHOOSE t \in Utf8States : Goes(t)
                                                          ELSE REJECT
  BY DEF StateAfter
<1>2. \A t \in Utf8States : Goes(t) <=> Leads(s, c, t)
  BY TransitionIs
<1>3. \A t, u \in Utf8States : Leads(s, c, t) /\ Leads(s, c, u) => t = u
  BY DEF Leads
<1> HIDE DEF Goes
<1>4. \A t \in Utf8States : Leads(s, c, t) => StateAfter[s][c] = t
  BY <1>1, <1>2, <1>3, Zenon
<1>5. (\A t \in Utf8States : ~Leads(s, c, t)) => StateAfter[s][c] = 12
  BY <1>1, <1>2, Zenon DEF REJECT
<1> QED
  BY <1>4, <1>5

\* What each state makes of a byte.
LEMMA ConsumeIs ==
  ASSUME NEW b \in Byte
  PROVE  /\ Consume(0, b) = IF b <= 127 THEN 0
                            ELSE IF b \in 194..223 THEN 24
                            ELSE IF b = 224 THEN 48
                            ELSE IF b = 237 THEN 60
                            ELSE IF b \in 225..239 THEN 36
                            ELSE IF b = 240 THEN 72
                            ELSE IF b \in 241..243 THEN 84
                            ELSE IF b = 244 THEN 96 ELSE 12
         /\ Consume(24, b) = IF b \in 128..191 THEN 0 ELSE 12
         /\ Consume(36, b) = IF b \in 128..191 THEN 24 ELSE 12
         /\ Consume(48, b) = IF b \in 160..191 THEN 24 ELSE 12
         /\ Consume(60, b) = IF b \in 128..159 THEN 24 ELSE 12
         /\ Consume(72, b) = IF b \in 144..191 THEN 36 ELSE 12
         /\ Consume(84, b) = IF b \in 128..191 THEN 36 ELSE 12
         /\ Consume(96, b) = IF b \in 128..143 THEN 36 ELSE 12
         /\ Consume(12, b) = 12
<1> DEFINE c == ClassOf(b)
<1>1. c \in 0..11
  BY ClassType
<1>2. b \in 128..191 <=> c \in {1, 7, 9}
  BY ClassOfByte DEF Byte
<1>3. /\ b \in 160..191 <=> c = 7
      /\ b \in 128..143 <=> c = 1
  BY ClassOfByte DEF Byte
<1>4. /\ b \in 128..159 <=> c \in {1, 9}
      /\ b \in 144..191 <=> c \in {7, 9}
  BY ClassOfByte DEF Byte
<1>5. /\ b <= 127 <=> c = 0
      /\ b \in 194..223 <=> c = 2
      /\ b = 224 <=> c = 10
      /\ b = 237 <=> c = 4
  BY ClassOfByte DEF Byte
<1>6. /\ b \in 225..239 /\ b # 237 <=> c = 3
      /\ b = 240 <=> c = 11
      /\ b \in 241..243 <=> c = 6
      /\ b = 244 <=> c = 5
  BY ClassOfByte DEF Byte
<1> HIDE DEF c
<1>7. \A s \in Utf8States : Consume(s, b) = StateAfter[s][c]
  BY DEF Consume, c
<1>8. ASSUME NEW s \in Utf8States, NEW t \in Utf8States, Leads(s, c, t) PROVE Consume(s, b) = t
  BY <1>1, <1>7, <1>8, StateAfterIs
<1>9. ASSUME NEW s \in Utf8States, \A t \in Utf8States : ~Leads(s, c, t) PROVE Consume(s, b) = 12
  BY <1>1, <1>7, <1>9, StateAfterIs
<1>10. /\ 0 \in Utf8States /\ 24 \in Utf8States /\ 36 \in Utf8States /\ 48 \in Utf8States
       /\ 60 \in Utf8States /\ 72 \in Utf8States /\ 84 \in Utf8States /\ 96 \in Utf8States
       /\ 12 \in Utf8States
  BY DEF Utf8States
<1>11. Consume(0, b) = IF c = 0 THEN 0 ELSE IF c = 2 THEN 24 ELSE IF c = 10 THEN 48
                       ELSE IF c = 4 THEN 60 ELSE IF c = 3 THEN 36 ELSE IF c = 11 THEN 72
                       ELSE IF c = 6 THEN 84 ELSE IF c = 5 THEN 96 ELSE 12
  BY <1>8, <1>9, <1>10 DEF Leads
<1>12. Consume(24, b) = IF c \in {1, 7, 9} THEN 0 ELSE 12
  BY <1>8, <1>9, <1>10 DEF Leads
<1>13. Consume(36, b) = IF c \in {1, 7, 9} THEN 24 ELSE 12
  BY <1>8, <1>9, <1>10 DEF Leads
<1>14. Consume(48, b) = IF c = 7 THEN 24 ELSE 12
  BY <1>8, <1>9, <1>10 DEF Leads
<1>15. Consume(60, b) = IF c \in {1, 9} THEN 24 ELSE 12
  BY <1>8, <1>9, <1>10 DEF Leads
<1>16. Consume(72, b) = IF c \in {7, 9} THEN 36 ELSE 12
  BY <1>8, <1>9, <1>10 DEF Leads
<1>17. Consume(84, b) = IF c \in {1, 7, 9} THEN 36 ELSE 12
  BY <1>8, <1>9, <1>10 DEF Leads
<1>18. Consume(96, b) = IF c = 1 THEN 36 ELSE 12
  BY <1>8, <1>9, <1>10 DEF Leads
<1>19. Consume(12, b) = 12
  BY <1>8, <1>9, <1>10 DEF Leads
<1>20. Consume(0, b) = IF b <= 127 THEN 0
                            ELSE IF b \in 194..223 THEN 24
                            ELSE IF b = 224 THEN 48
                            ELSE IF b = 237 THEN 60
                            ELSE IF b \in 225..239 THEN 36
                            ELSE IF b = 240 THEN 72
                            ELSE IF b \in 241..243 THEN 84
                            ELSE IF b = 244 THEN 96 ELSE 12
  BY <1>5, <1>6, <1>11
<1> QED
  BY <1>2, <1>3, <1>4, <1>20, <1>12, <1>13, <1>14, <1>15, <1>16, <1>17, <1>18, <1>19

-----------------------------------------------------------------------------
(* Characters                                                               *)

Following == 128..191

LEMMA CharacterOfOne ==
  ASSUME NEW a \in Byte PROVE IsCharacter(<<a>>) <=> a <= 127
<1>1. CodePoint(<<a>>) = a
  BY SMT DEF CodePoint
<1>2. CASE a <= 127
  BY <1>1, <1>2, SMT DEF IsCharacter, IsScalarValue, Encoding, Byte
<1>3. CASE a > 127
  <2>1. 128 <= a /\ a < 2048 /\ ~(a < 128)
    BY <1>3, SMT DEF Byte
  <2>2. Len(Encoding(a)) = 2
    BY <2>1, SMT DEF Encoding, Byte
  <2>3. Len(<<a>>) = 1
    BY SMT
  <2> QED
    BY <1>1, <1>3, <2>2, <2>3, SMT DEF IsCharacter, Byte
<1> QED
  BY <1>2, <1>3, SMT DEF Byte

\* The encoding of a code point by its length.
LEMMA EncodingIs ==
  ASSUME NEW c \in Nat, c <= 1114111
  PROVE  /\ c < 128 => Encoding(c) = <<c>>
         /\ 128 <= c /\ c < 2048 => Encoding(c) = <<192 + c \div 64, 128 + (c % 64)>>
         /\ 2048 <= c /\ c < 65536
             => Encoding(c) = <<224 + c \div 4096, 128 + ((c \div 64) % 64), 128 + (c % 64)>>
         /\ 65536 <= c /\ c <= 1114111
             => Encoding(c) = <<240 + c \div 262144, 128 + ((c \div 4096) % 64),
                                128 + ((c \div 64) % 64), 128 + (c % 64)>>
<1>1. c \div 1 = c
  BY SMT
<1>2. c < 128 => Encoding(c) = <<c>>
  BY SMT DEF Encoding
<1>3. 128 <= c /\ c < 2048 => Encoding(c) = <<192 + c \div 64, 128 + ((c \div 1) % 64)>>
  BY SMT DEF Encoding
<1>4. 2048 <= c /\ c < 65536
        => Encoding(c) = <<224 + c \div 4096, 128 + ((c \div 64) % 64), 128 + ((c \div 1) % 64)>>
  BY SMT DEF Encoding
<1>5. 65536 <= c /\ c <= 1114111
        => Encoding(c) = <<240 + c \div 262144, 128 + ((c \div 4096) % 64),
                           128 + ((c \div 64) % 64), 128 + ((c \div 1) % 64)>>
  BY SMT DEF Encoding
<1> QED
  BY <1>1, <1>2, <1>3, <1>4, <1>5, SMT

LEMMA EncodingLength ==
  ASSUME NEW c \in Nat, c <= 1114111
  PROVE  Len(Encoding(c)) = IF c < 128 THEN 1 ELSE IF c < 2048 THEN 2 ELSE IF c < 65536 THEN 3 ELSE 4
<1>1. CASE c < 128
  BY <1>1, SMT DEF Encoding
<1>2. CASE 128 <= c /\ c < 2048
  BY <1>2, SMT DEF Encoding
<1>3. CASE 2048 <= c /\ c < 65536
  BY <1>3, SMT DEF Encoding
<1>4. CASE 65536 <= c
  BY <1>4, SMT DEF Encoding
<1> QED
  BY <1>1, <1>2, <1>3, <1>4, SMT

LEMMA CharacterOfTwo ==
  ASSUME NEW a \in Byte, NEW b \in Byte
  PROVE  IsCharacter(<<a, b>>) <=> a \in 194..223 /\ b \in Following
<1> DEFINE c == (a - 192) * 64 + (b - 128)
<1>1. CodePoint(<<a, b>>) = c
  BY SMT DEF CodePoint
<1>2. c \in Int
  BY SMT DEF Byte
<1>3. IsCharacter(<<a, b>>) <=> IsScalarValue(c) /\ Encoding(c) = <<a, b>>
  BY <1>1, SMT DEF IsCharacter
<1>4. a \in 194..223 /\ b \in Following
        <=> 128 <= c /\ c < 2048 /\ a = 192 + c \div 64 /\ b = 128 + (c % 64)
  BY SMT DEF Byte, Following
<1> HIDE DEF c
<1>5. CASE 128 <= c /\ c < 2048
  BY <1>2, <1>3, <1>4, <1>5, EncodingIs, SMT DEF IsScalarValue
<1>6. CASE 0 <= c /\ c <= 1114111 /\ (c < 128 \/ 2048 <= c)
  <2>1. Len(Encoding(c)) # 2
    BY <1>2, <1>6, EncodingLength, SMT
  <2>2. Len(<<a, b>>) = 2
    BY SMT
  <2> QED
    BY <1>2, <1>3, <1>4, <1>6, <2>1, <2>2, SMT
<1>7. CASE ~(0 <= c /\ c <= 1114111)
  BY <1>2, <1>3, <1>4, <1>7, SMT DEF IsScalarValue
<1> QED
  BY <1>2, <1>5, <1>6, <1>7, SMT

LEMMA CharacterOfThree ==
  ASSUME NEW a \in Byte, NEW b \in Byte, NEW d \in Byte
  PROVE  IsCharacter(<<a, b, d>>) <=>
           /\ \/ a = 224 /\ b \in 160..191
              \/ a = 237 /\ b \in 128..159
              \/ a \in 225..239 /\ a # 237 /\ b \in Following
           /\ d \in Following
<1> DEFINE c == (a - 224) * 4096 + (b - 128) * 64 + (d - 128)
           Legal == /\ \/ a = 224 /\ b \in 160..191
                       \/ a = 237 /\ b \in 128..159
                       \/ a \in 225..239 /\ a # 237 /\ b \in Following
                    /\ d \in Following
<1>1. CodePoint(<<a, b, d>>) = c
  BY SMT DEF CodePoint
<1>2. c \in Int
  BY SMT DEF Byte
<1>3. IsCharacter(<<a, b, d>>) <=> IsScalarValue(c) /\ Encoding(c) = <<a, b, d>>
  BY <1>1, SMT DEF IsCharacter
<1>4. Legal <=> /\ 2048 <= c /\ c < 65536 /\ (c < 55296 \/ 57344 <= c)
                /\ a = 224 + c \div 4096 /\ b = 128 + ((c \div 64) % 64) /\ d = 128 + (c % 64)
  BY SMT DEF Byte, Following
<1> HIDE DEF c, Legal
<1>5. CASE 2048 <= c /\ c < 65536
  <2>1. Encoding(c) = <<224 + c \div 4096, 128 + ((c \div 64) % 64), 128 + (c % 64)>>
    BY <1>2, <1>5, EncodingIs, SMT
  <2> QED
    BY <1>2, <1>3, <1>4, <1>5, <2>1, SMT DEF IsScalarValue, Legal
<1>6. CASE 0 <= c /\ c <= 1114111 /\ (c < 2048 \/ 65536 <= c)
  <2>1. Len(Encoding(c)) # 3
    BY <1>2, <1>6, EncodingLength, SMT
  <2>2. Len(<<a, b, d>>) = 3
    BY SMT
  <2> QED
    BY <1>2, <1>3, <1>4, <1>6, <2>1, <2>2, SMT DEF Legal
<1>7. CASE ~(0 <= c /\ c <= 1114111)
  BY <1>2, <1>3, <1>4, <1>7, SMT DEF IsScalarValue, Legal
<1> QED
  BY <1>2, <1>5, <1>6, <1>7, SMT

LEMMA CharacterOfFour ==
  ASSUME NEW a \in Byte, NEW b \in Byte, NEW d \in Byte, NEW e \in Byte
  PROVE  IsCharacter(<<a, b, d, e>>) <=>
           /\ \/ a = 240 /\ b \in 144..191
              \/ a \in 241..243 /\ b \in Following
              \/ a = 244 /\ b \in 128..143
           /\ d \in Following /\ e \in Following
<1> DEFINE c == (a - 240) * 262144 + (b - 128) * 4096 + (d - 128) * 64 + (e - 128)
           Legal == /\ \/ a = 240 /\ b \in 144..191
                       \/ a \in 241..243 /\ b \in Following
                       \/ a = 244 /\ b \in 128..143
                    /\ d \in Following /\ e \in Following
<1>1. CodePoint(<<a, b, d, e>>) = c
  BY SMT DEF CodePoint
<1>2. c \in Int
  BY SMT DEF Byte
<1>3. IsCharacter(<<a, b, d, e>>) <=> IsScalarValue(c) /\ Encoding(c) = <<a, b, d, e>>
  BY <1>1, SMT DEF IsCharacter
<1>4. Legal <=> /\ 65536 <= c /\ c <= 1114111
                /\ a = 240 + c \div 262144 /\ b = 128 + ((c \div 4096) % 64)
                /\ d = 128 + ((c \div 64) % 64) /\ e = 128 + (c % 64)
  BY SMTT(60) DEF Byte, Following
<1> HIDE DEF c, Legal
<1>5. CASE 65536 <= c /\ c <= 1114111
  <2>1. Encoding(c) = <<240 + c \div 262144, 128 + ((c \div 4096) % 64),
                        128 + ((c \div 64) % 64), 128 + (c % 64)>>
    BY <1>2, <1>5, EncodingIs, SMT
  <2> QED
    BY <1>2, <1>3, <1>4, <1>5, <2>1, SMT DEF IsScalarValue, Legal
<1>6. CASE 0 <= c /\ c <= 1114111 /\ c < 65536
  <2>1. Len(Encoding(c)) # 4
    BY <1>2, <1>6, EncodingLength, SMT
  <2>2. Len(<<a, b, d, e>>) = 4
    BY SMT
  <2> QED
    BY <1>2, <1>3, <1>4, <1>6, <2>1, <2>2, SMT DEF Legal
<1>7. CASE ~(0 <= c /\ c <= 1114111)
  BY <1>2, <1>3, <1>4, <1>7, SMT DEF IsScalarValue, Legal
<1> QED
  BY <1>2, <1>5, <1>6, <1>7, SMT

-----------------------------------------------------------------------------
(* Well-formed texts                                                        *)

\* A character ends with the n-th byte, after a prefix that is in ok.
Ends(text, ok, n) ==
  \/ n = 0
  \/ \E k \in 1..4 : k <= n /\ IsCharacter(SubSeq(text, n - k + 1, n)) /\ ok[n - k]

Parsed(text, ok, n) == ok = [m \in 0..n |-> Ends(text, ok, m)]

LEMMA EndsDepends ==
  ASSUME NEW text, NEW f, NEW g, NEW n \in Nat, \A m \in 0..(n - 1) : f[m] = g[m]
  PROVE  Ends(text, f, n) = Ends(text, g, n)
<1>1. \A k \in 1..4 : k <= n => f[n - k] = g[n - k]
  OBVIOUS
<1>2. Ends(text, f, n) <=> Ends(text, g, n)
  BY <1>1 DEF Ends
<1> QED
  BY <1>2, Zenon DEF Ends

LEMMA ParseExists == ASSUME NEW text, NEW n \in Nat PROVE \E ok : Parsed(text, ok, n)
<1> DEFINE S == {k \in Nat : \E ok : Parsed(text, ok, k)}
<1>1. 0 \in S
  <2> DEFINE ok == [m \in 0..0 |-> Ends(text, [i \in {} |-> 0], m)]
  <2>1. ASSUME NEW m \in 0..0 PROVE Ends(text, [i \in {} |-> 0], m) = Ends(text, ok, m)
    <3>1. m = 0
      OBVIOUS
    <3>2. Ends(text, [i \in {} |-> 0], 0) = TRUE /\ Ends(text, ok, 0) = TRUE
      BY Zenon DEF Ends
    <3> QED
      BY <3>1, <3>2
  <2>2. [m \in 0..0 |-> Ends(text, [i \in {} |-> 0], m)] = [m \in 0..0 |-> Ends(text, ok, m)]
    BY <2>1, Zenon
  <2>3. Parsed(text, ok, 0)
    BY <2>2, Zenon DEF Parsed
  <2> HIDE DEF ok
  <2> QED
    BY <2>3
<1>2. ASSUME NEW k \in Nat, k \in S PROVE k + 1 \in S
  <2>1. PICK f : Parsed(text, f, k)
    BY <1>2
  <2>2. f = [m \in 0..k |-> Ends(text, f, m)]
    BY <2>1, Zenon DEF Parsed
  <2>3. \A m \in 0..k : f[m] = Ends(text, f, m)
    BY <2>2, Zenon
  <2> DEFINE g == [m \in 0..(k + 1) |-> Ends(text, f, m)]
  <2>4. \A m \in 0..(k + 1) : g[m] = Ends(text, f, m)
    BY Zenon
  <2>5. \A m \in 0..k : g[m] = f[m]
    <3>1. \A m \in 0..k : m \in 0..(k + 1)
      OBVIOUS
    <3> HIDE DEF g
    <3> QED
      BY <2>3, <2>4, <3>1, Zenon
  <2>6. ASSUME NEW m \in 0..(k + 1) PROVE Ends(text, f, m) = Ends(text, g, m)
    <3>1. m \in Nat /\ \A i \in 0..(m - 1) : i \in 0..k
      OBVIOUS
    <3> HIDE DEF g
    <3>2. \A i \in 0..(m - 1) : f[i] = g[i]
      BY <2>5, <3>1
    <3> QED
      BY <3>1, <3>2, EndsDepends
  <2>7. [m \in 0..(k + 1) |-> Ends(text, f, m)] = [m \in 0..(k + 1) |-> Ends(text, g, m)]
    BY <2>6, Zenon
  <2>8. Parsed(text, g, k + 1)
    BY <2>7, Zenon DEF Parsed
  <2> HIDE DEF g
  <2> QED
    BY <2>8
<1> HIDE DEF S
<1>3. Nat \subseteq S
  BY <1>1, <1>2, SetInduction
<1> QED
  BY <1>3 DEF S

LEMMA WellFormedUnfolds ==
  ASSUME NEW text, Len(text) \in Nat
  PROVE  \E ok : Parsed(text, ok, Len(text)) /\ WellFormed(text) = ok[Len(text)]
<1> DEFINE it == CHOOSE it :
                   it = [m \in 0..Len(text) |->
                           \/ m = 0
                           \/ \E k \in 1..4 : k <= m /\ IsCharacter(SubSeq(text, m - k + 1, m)) /\ it[m - k]]
<1>1. WellFormed(text) = it[Len(text)]
  BY Zenon DEF WellFormed
<1>2. PICK f : Parsed(text, f, Len(text))
  BY ParseExists
<1>3. f = [m \in 0..Len(text) |->
             \/ m = 0
             \/ \E k \in 1..4 : k <= m /\ IsCharacter(SubSeq(text, m - k + 1, m)) /\ f[m - k]]
  BY <1>2, Zenon DEF Parsed, Ends
<1>4. it = [m \in 0..Len(text) |->
              \/ m = 0
              \/ \E k \in 1..4 : k <= m /\ IsCharacter(SubSeq(text, m - k + 1, m)) /\ it[m - k]]
  BY <1>3, Zenon
<1>5. Parsed(text, it, Len(text))
  BY <1>4, Zenon DEF Parsed, Ends
<1> QED
  BY <1>1, <1>5

-----------------------------------------------------------------------------
(* The validator accepts what is well formed                                *)

\* The states s and bytes b from which each state t is entered.
EnteredFrom(t, s, b) ==
  /\ t = 0 <=> (s = 0 /\ b <= 127) \/ (s = 24 /\ b \in Following)
  /\ t = 24 <=> \/ s = 0 /\ b \in 194..223
                \/ s = 36 /\ b \in Following
                \/ s = 48 /\ b \in 160..191
                \/ s = 60 /\ b \in 128..159
  /\ t = 36 <=> \/ s = 0 /\ b \in 225..239 /\ b # 237
                \/ s = 72 /\ b \in 144..191
                \/ s = 84 /\ b \in Following
                \/ s = 96 /\ b \in 128..143
  /\ t = 48 <=> s = 0 /\ b = 224
  /\ t = 60 <=> s = 0 /\ b = 237
  /\ t = 72 <=> s = 0 /\ b = 240
  /\ t = 84 <=> s = 0 /\ b \in 241..243
  /\ t = 96 <=> s = 0 /\ b = 244

LEMMA ConsumeEnters ==
  ASSUME NEW s \in Utf8States, NEW b \in Byte PROVE EnteredFrom(Consume(s, b), s, b)
<1>1. /\ Consume(s, b) = 0 <=> (s = 0 /\ b <= 127) \/ (s = 24 /\ b \in Following)
  BY ConsumeIs, SMTT(30) DEF Byte, Following, Utf8States
<1>2. Consume(s, b) = 24 <=> \/ s = 0 /\ b \in 194..223
                             \/ s = 36 /\ b \in Following
                             \/ s = 48 /\ b \in 160..191
                             \/ s = 60 /\ b \in 128..159
  BY ConsumeIs, SMTT(30) DEF Byte, Following, Utf8States
<1>3. Consume(s, b) = 36 <=> \/ s = 0 /\ b \in 225..239 /\ b # 237
                             \/ s = 72 /\ b \in 144..191
                             \/ s = 84 /\ b \in Following
                             \/ s = 96 /\ b \in 128..143
  BY ConsumeIs, SMTT(30) DEF Byte, Following, Utf8States
<1>4. /\ Consume(s, b) = 48 <=> s = 0 /\ b = 224
      /\ Consume(s, b) = 60 <=> s = 0 /\ b = 237
      /\ Consume(s, b) = 72 <=> s = 0 /\ b = 240
  BY ConsumeIs, SMTT(30) DEF Byte, Following, Utf8States
<1>5. /\ Consume(s, b) = 84 <=> s = 0 /\ b \in 241..243
      /\ Consume(s, b) = 96 <=> s = 0 /\ b = 244
  BY ConsumeIs, SMTT(30) DEF Byte, Following, Utf8States
<1> QED
  BY <1>1, <1>2, <1>3, <1>4, <1>5 DEF EnteredFrom

\* The last bytes of a prefix.
LEMMA LastBytes ==
  ASSUME NEW text \in Text, NEW n \in 1..Len(text)
  PROVE  /\ SubSeq(text, n, n) = <<text[n]>>
         /\ 2 <= n => SubSeq(text, n - 1, n) = <<text[n - 1], text[n]>>
         /\ 3 <= n => SubSeq(text, n - 2, n) = <<text[n - 2], text[n - 1], text[n]>>
         /\ 4 <= n => SubSeq(text, n - 3, n) = <<text[n - 3], text[n - 2], text[n - 1], text[n]>>
<1>0. Len(text) \in Nat /\ text \in Seq(Byte) /\ n \in Nat /\ \A k \in 1..Len(text) : text[k] \in Byte
  BY TextLength DEF Text
<1>1. ASSUME NEW k \in 1..n
      PROVE  /\ SubSeq(text, k, n) \in Seq(Byte) /\ Len(SubSeq(text, k, n)) = (n - k) + 1
             /\ \A i \in 1..((n - k) + 1) : SubSeq(text, k, n)[i] = text[k + i - 1]
  <2>1. k \in 1..(Len(text) + 1) /\ n \in (k - 1)..Len(text) /\ (n - k) + 1 = n - k + 1
        /\ k \in 1..Len(text)
    BY <1>0
  <2> QED
    BY <1>0, <2>1, SubSeqProperties
<1>2. SubSeq(text, n, n) = <<text[n]>>
  <2> DEFINE t == <<text[n]>>
             u == SubSeq(text, n, n)
  <2>1. n \in 1..n /\ u \in Seq(Byte) /\ Len(u) = 1 /\ u[1] = text[n]
    BY <1>0, <1>1
  <2>2. t \in Seq(Byte) /\ Len(t) = 1 /\ t[1] = text[n]
    BY <1>0
  <2> HIDE DEF t, u
  <2>3. t = u
    BY <2>1, <2>2, SeqEqual
  <2> QED
    BY <2>3 DEF t, u
<1>3. ASSUME 2 <= n PROVE SubSeq(text, n - 1, n) = <<text[n - 1], text[n]>>
  <2> DEFINE t == <<text[n - 1], text[n]>>
             u == SubSeq(text, n - 1, n)
  <2>1. n - 1 \in 1..n /\ u \in Seq(Byte) /\ Len(u) = 2 /\ u[1] = text[n - 1] /\ u[2] = text[n]
    BY <1>0, <1>1, <1>3
  <2>2. t \in Seq(Byte) /\ Len(t) = 2 /\ t[1] = text[n - 1] /\ t[2] = text[n]
    BY <1>0, <1>3
  <2> HIDE DEF t, u
  <2>3. t = u
    BY <2>1, <2>2, SeqEqual
  <2> QED
    BY <2>3 DEF t, u
<1>4. ASSUME 3 <= n PROVE SubSeq(text, n - 2, n) = <<text[n - 2], text[n - 1], text[n]>>
  <2> DEFINE t == <<text[n - 2], text[n - 1], text[n]>>
             u == SubSeq(text, n - 2, n)
  <2>1. /\ n - 2 \in 1..n /\ u \in Seq(Byte) /\ Len(u) = 3
        /\ u[1] = text[n - 2] /\ u[2] = text[n - 1] /\ u[3] = text[n]
    BY <1>0, <1>1, <1>4
  <2>2. /\ t \in Seq(Byte) /\ Len(t) = 3
        /\ t[1] = text[n - 2] /\ t[2] = text[n - 1] /\ t[3] = text[n]
    BY <1>0, <1>4
  <2> HIDE DEF t, u
  <2>3. t = u
    BY <2>1, <2>2, SeqEqual
  <2> QED
    BY <2>3 DEF t, u
<1>5. ASSUME 4 <= n
      PROVE  SubSeq(text, n - 3, n) = <<text[n - 3], text[n - 2], text[n - 1], text[n]>>
  <2> DEFINE t == <<text[n - 3], text[n - 2], text[n - 1], text[n]>>
             u == SubSeq(text, n - 3, n)
  <2>1. /\ n - 3 \in 1..n /\ u \in Seq(Byte) /\ Len(u) = 4
        /\ u[1] = text[n - 3] /\ u[2] = text[n - 2] /\ u[3] = text[n - 1] /\ u[4] = text[n]
    BY <1>0, <1>1, <1>5
  <2>2. /\ t \in Seq(Byte) /\ Len(t) = 4
        /\ t[1] = text[n - 3] /\ t[2] = text[n - 2] /\ t[3] = text[n - 1] /\ t[4] = text[n]
    BY <1>0, <1>5
  <2> HIDE DEF t, u
  <2>3. \A i \in 1..4 : t[i] = u[i]
    BY <2>1, <2>2
  <2>4. t = u
    BY <2>1, <2>2, <2>3, SeqEqual
  <2> QED
    BY <2>4 DEF t, u
<1> QED
  BY <1>2, <1>3, <1>4, <1>5

\* The validator is between two characters when it was so before the last one.
LEMMA LastCharacter ==
  ASSUME NEW text \in Text, NEW run, IsRun(0, text, run), NEW n \in 1..Len(text)
  PROVE  run[n] = 0 <=>
           \E k \in 1..4 : k <= n /\ IsCharacter(SubSeq(text, n - k + 1, n)) /\ run[n - k] = 0
<1>0. /\ Len(text) \in Nat /\ n \in Nat /\ n >= 1
      /\ \A k \in 1..Len(text) : text[k] \in Byte
  BY TextLength
<1>1. /\ run[0] = 0
      /\ \A k \in 0..Len(text) : run[k] \in Utf8States
      /\ \A k \in 1..Len(text) : run[k] = Consume(run[k - 1], text[k])
  BY DEF IsRun
<1>2. ASSUME NEW m \in Int, 1 <= m, m <= n PROVE EnteredFrom(run[m], run[m - 1], text[m])
  <2>1. /\ run[m - 1] \in Utf8States /\ text[m] \in Byte
        /\ run[m] = Consume(run[m - 1], text[m])
    BY <1>0, <1>1, <1>2
  <2> QED
    BY <2>1, ConsumeEnters, Zenon
<1> DEFINE a == text[n]
           b == text[n - 1]
           c == text[n - 2]
           d == text[n - 3]
<1> DEFINE GoodTwo == b \in 194..223 /\ a \in Following
           GoodThree == /\ \/ c = 224 /\ b \in 160..191
                           \/ c = 237 /\ b \in 128..159
                           \/ c \in 225..239 /\ c # 237 /\ b \in Following
                        /\ a \in Following
           GoodFour == /\ \/ d = 240 /\ c \in 144..191
                          \/ d \in 241..243 /\ c \in Following
                          \/ d = 244 /\ c \in 128..143
                       /\ b \in Following /\ a \in Following
<1>3. IsCharacter(SubSeq(text, n, n)) <=> a <= 127
  <2>1. a \in Byte
    BY <1>0
  <2>2. SubSeq(text, n, n) = <<a>>
    BY LastBytes
  <2> HIDE DEF a
  <2> QED
    BY <2>1, <2>2, CharacterOfOne
<1>4. 2 <= n => (IsCharacter(SubSeq(text, n - 1, n)) <=> GoodTwo)
  <2> SUFFICES ASSUME 2 <= n PROVE IsCharacter(SubSeq(text, n - 1, n)) <=> GoodTwo
    OBVIOUS
  <2>1. n - 1 \in 1..Len(text)
    BY <1>0
  <2>2. a \in Byte /\ b \in Byte
    BY <1>0, <2>1
  <2>3. SubSeq(text, n - 1, n) = <<b, a>>
    BY LastBytes
  <2> HIDE DEF a, b
  <2> QED
    BY <2>2, <2>3, CharacterOfTwo, Zenon
<1>5. 3 <= n => (IsCharacter(SubSeq(text, n - 2, n)) <=> GoodThree)
  <2> SUFFICES ASSUME 3 <= n PROVE IsCharacter(SubSeq(text, n - 2, n)) <=> GoodThree
    OBVIOUS
  <2>1. n - 1 \in 1..Len(text) /\ n - 2 \in 1..Len(text)
    BY <1>0
  <2>2. a \in Byte /\ b \in Byte /\ c \in Byte
    BY <1>0, <2>1
  <2>3. SubSeq(text, n - 2, n) = <<c, b, a>>
    BY LastBytes
  <2> HIDE DEF a, b, c
  <2>4. IsCharacter(<<c, b, a>>) <=> GoodThree
    BY <2>2, CharacterOfThree
  <2> QED
    BY <2>3, <2>4, Zenon
<1>6. 4 <= n => (IsCharacter(SubSeq(text, n - 3, n)) <=> GoodFour)
  <2> SUFFICES ASSUME 4 <= n PROVE IsCharacter(SubSeq(text, n - 3, n)) <=> GoodFour
    OBVIOUS
  <2>1. n - 1 \in 1..Len(text) /\ n - 2 \in 1..Len(text) /\ n - 3 \in 1..Len(text)
    BY <1>0
  <2>2. a \in Byte /\ b \in Byte /\ c \in Byte /\ d \in Byte
    BY <1>0, <2>1
  <2>3. SubSeq(text, n - 3, n) = <<d, c, b, a>>
    BY LastBytes
  <2> HIDE DEF a, b, c, d
  <2>4. IsCharacter(<<d, c, b, a>>) <=> GoodFour
    BY <2>2, CharacterOfFour
  <2> QED
    BY <2>3, <2>4, Zenon
<1> DEFINE Char(k) == IsCharacter(SubSeq(text, n - k + 1, n)) /\ run[n - k] = 0
<1>7. (\E k \in 1..4 : k <= n /\ Char(k))
        <=> Char(1) \/ (2 <= n /\ Char(2)) \/ (3 <= n /\ Char(3)) \/ (4 <= n /\ Char(4))
  <2>1. \A k : k \in 1..4 <=> k = 1 \/ k = 2 \/ k = 3 \/ k = 4
    OBVIOUS
  <2>2. 1 <= n
    BY <1>0
  <2> HIDE DEF Char
  <2> QED
    BY <2>1, <2>2, Zenon
<1>8. /\ n - 1 + 1 = n /\ n - 2 + 1 = n - 1 /\ n - 3 + 1 = n - 2 /\ n - 4 + 1 = n - 3
  BY <1>0
<1>9. /\ Char(1) <=> run[n - 1] = 0 /\ IsCharacter(SubSeq(text, n, n))
      /\ Char(2) <=> run[n - 2] = 0 /\ IsCharacter(SubSeq(text, n - 1, n))
      /\ Char(3) <=> run[n - 3] = 0 /\ IsCharacter(SubSeq(text, n - 2, n))
      /\ Char(4) <=> run[n - 4] = 0 /\ IsCharacter(SubSeq(text, n - 3, n))
  BY <1>8
<1>10. run[n] = 0 <=> (run[n - 1] = 0 /\ a <= 127) \/ (run[n - 1] = 24 /\ a \in Following)
  BY <1>0, <1>2 DEF EnteredFrom
<1>11. run[n - 1] = 24 <=>
         /\ n >= 2
         /\ \/ run[n - 2] = 0 /\ b \in 194..223
            \/ run[n - 2] = 36 /\ b \in Following
            \/ run[n - 2] = 48 /\ b \in 160..191
            \/ run[n - 2] = 60 /\ b \in 128..159
  <2>1. CASE n >= 2
    <3>1. (n - 1) - 1 = n - 2 /\ EnteredFrom(run[n - 1], run[(n - 1) - 1], b)
      BY <1>0, <1>2, <2>1
    <3>2. EnteredFrom(run[n - 1], run[n - 2], b)
      BY <3>1, Zenon
    <3> HIDE DEF a, b, c, d
    <3> QED
      BY <2>1, <3>2 DEF EnteredFrom
  <2>2. CASE ~(n >= 2)
    BY <1>0, <1>1, <2>2
  <2> QED
    BY <2>1, <2>2
<1>12. n >= 2 => /\ run[n - 2] = 48 <=> n >= 3 /\ run[n - 3] = 0 /\ c = 224
                 /\ run[n - 2] = 60 <=> n >= 3 /\ run[n - 3] = 0 /\ c = 237
                 /\ run[n - 2] = 36 <=>
                      /\ n >= 3
                      /\ \/ run[n - 3] = 0 /\ c \in 225..239 /\ c # 237
                         \/ run[n - 3] = 72 /\ c \in 144..191
                         \/ run[n - 3] = 84 /\ c \in Following
                         \/ run[n - 3] = 96 /\ c \in 128..143
  <2>1. CASE n >= 3
    <3>1. (n - 2) - 1 = n - 3 /\ EnteredFrom(run[n - 2], run[(n - 2) - 1], c)
      BY <1>0, <1>2, <2>1
    <3>2. EnteredFrom(run[n - 2], run[n - 3], c)
      BY <3>1, Zenon
    <3> HIDE DEF a, b, c, d
    <3> QED
      BY <2>1, <3>2 DEF EnteredFrom
  <2>2. CASE n = 2
    BY <1>1, <2>2
  <2> QED
    BY <1>0, <2>1, <2>2
<1>13. n >= 3 => /\ run[n - 3] = 72 <=> n >= 4 /\ run[n - 4] = 0 /\ d = 240
                 /\ run[n - 3] = 84 <=> n >= 4 /\ run[n - 4] = 0 /\ d \in 241..243
                 /\ run[n - 3] = 96 <=> n >= 4 /\ run[n - 4] = 0 /\ d = 244
  <2>1. CASE n >= 4
    <3>1. (n - 3) - 1 = n - 4 /\ EnteredFrom(run[n - 3], run[(n - 3) - 1], d)
      BY <1>0, <1>2, <2>1
    <3>2. EnteredFrom(run[n - 3], run[n - 4], d)
      BY <3>1, Zenon
    <3> HIDE DEF a, b, c, d
    <3> QED
      BY <2>1, <3>2 DEF EnteredFrom
  <2>2. CASE n = 3
    BY <1>1, <2>2
  <2> QED
    BY <1>0, <2>1, <2>2
<1>14. n >= 4 => n >= 3 /\ n >= 2
  BY <1>0
<1>15. (n >= 3 => n >= 2) /\ (2 <= n <=> n >= 2) /\ (3 <= n <=> n >= 3) /\ (4 <= n <=> n >= 4)
  BY <1>0
<1> HIDE DEF Char, GoodTwo, GoodThree, GoodFour, a, b, c, d
<1>16. Char(1) <=> run[n - 1] = 0 /\ a <= 127
  BY <1>3, <1>9, Zenon
<1>17. n >= 2 => (Char(2) <=> run[n - 2] = 0 /\ GoodTwo)
  BY <1>4, <1>9, <1>15, Zenon
<1>18. n >= 3 => (Char(3) <=> run[n - 3] = 0 /\ GoodThree)
  BY <1>5, <1>9, <1>15, Zenon
<1>19. n >= 4 => (Char(4) <=> run[n - 4] = 0 /\ GoodFour)
  BY <1>6, <1>9, <1>15, Zenon
<1>20. n >= 3 => (run[n - 2] = 36 /\ b \in Following /\ a \in Following <=>
                    \/ run[n - 3] = 0 /\ c \in 225..239 /\ c # 237 /\ b \in Following /\ a \in Following
                    \/ n >= 4 /\ run[n - 4] = 0 /\ GoodFour)
  BY <1>12, <1>13, <1>15 DEF GoodFour
<1>21. n >= 2 => (run[n - 2] = 36 => n >= 3)
  BY <1>12
<1>22. run[n] = 0 <=> Char(1) \/ (n >= 2 /\ Char(2)) \/ (n >= 3 /\ Char(3)) \/ (n >= 4 /\ Char(4))
  BY <1>10, <1>11, <1>12, <1>14, <1>15, <1>16, <1>17, <1>18, <1>19, <1>20, <1>21
     DEF GoodTwo, GoodThree
<1> QED
  BY <1>7, <1>15, <1>22 DEF Char

\* The validator accepts the well-formed texts and no other: overlong forms,
\* surrogates and values beyond U+10FFFF, whatever the length of the text
\* (xsp_ws_client_utf8.h:35).
THEOREM AcceptsExactly ==
  ASSUME NEW text \in Text
  PROVE  validate_state(ACCEPT, text) = ACCEPT <=> WellFormed(text)
<1> DEFINE n == Len(text)
<1>0. n \in Nat /\ 0 \in Utf8States
  BY TextLength DEF Utf8States
<1>1. PICK run : IsRun(0, text, run) /\ validate_state(0, text) = run[n]
  BY <1>0, RunOf
<1>2. PICK ok : Parsed(text, ok, n) /\ WellFormed(text) = ok[n]
  BY <1>0, WellFormedUnfolds
<1>3. \A m \in 0..n : ok[m] = Ends(text, ok, m)
  <2>1. ok = [m \in 0..n |-> Ends(text, ok, m)]
    BY <1>2, Zenon DEF Parsed
  <2> QED
    BY <2>1, Zenon
<1> HIDE DEF n
<1> DEFINE Agree(m) == run[m] = 0 <=> ok[m]
           S == {m \in Nat : \A i \in 0..m : i <= n => Agree(i)}
<1>4. 0 \in S
  <2>1. run[0] = 0
    BY <1>1 DEF IsRun
  <2>2. ok[0]
    <3>1. 0 \in 0..n
      BY <1>0
    <3> QED
      BY <1>3, <3>1, Zenon DEF Ends
  <2>3. \A i \in 0..0 : i = 0
    OBVIOUS
  <2> QED
    BY <2>1, <2>2, <2>3, Zenon
<1>5. ASSUME NEW m \in Nat, m \in S PROVE m + 1 \in S
  <2>1. \A i \in 0..m : i <= n => Agree(i)
    BY <1>5
  <2> HIDE DEF Agree
  <2>2. ASSUME m + 1 <= n PROVE Agree(m + 1)
    <3> DEFINE p == m + 1
    <3>1. p \in 1..n /\ p \in 0..n /\ p # 0 /\ \A k \in 1..4 : k <= p => p - k \in 0..m /\ p - k <= n
      BY <1>0, <2>2
    <3> HIDE DEF p
    <3>2. \A k \in 1..4 : k <= p => (run[p - k] = 0 <=> ok[p - k])
      BY <2>1, <3>1, Zenon DEF Agree
    <3>3. run[p] = 0 <=>
            \E k \in 1..4 : k <= p /\ IsCharacter(SubSeq(text, p - k + 1, p)) /\ run[p - k] = 0
      BY <1>1, <3>1, LastCharacter, Zenon DEF n
    <3>4. ok[p] <=>
            \E k \in 1..4 : k <= p /\ IsCharacter(SubSeq(text, p - k + 1, p)) /\ ok[p - k]
      BY <1>3, <3>1, Zenon DEF Ends
    <3>5. Agree(p)
      BY <3>2, <3>3, <3>4, Zenon DEF Agree
    <3> QED
      BY <3>5 DEF p
  <2>3. \A i \in 0..(m + 1) : i \in 0..m \/ i = m + 1
    OBVIOUS
  <2> QED
    BY <2>1, <2>2, <2>3
<1> HIDE DEF S
<1>6. Nat \subseteq S
  BY <1>4, <1>5, SetInduction
<1> HIDE DEF Agree
<1>7. Agree(n)
  <2>1. n \in S /\ n \in 0..n /\ n <= n
    BY <1>0, <1>6
  <2> QED
    BY <2>1, Zenon DEF S
<1>8. validate_state(0, text) = 0 <=> WellFormed(text)
  BY <1>1, <1>2, <1>7, Zenon DEF Agree
<1> QED
  BY <1>8, Zenon DEF ACCEPT

-----------------------------------------------------------------------------
(* The validator rejects what is hopeless                                   *)

\* There is no way out of REJECT.
LEMMA RejectionIsFinal ==
  ASSUME NEW text \in Text PROVE validate_state(REJECT, text) = REJECT
<1> DEFINE n == Len(text)
<1>0. n \in Nat /\ REJECT \in Utf8States /\ \A k \in 1..n : text[k] \in Byte
  BY TextLength DEF REJECT, Utf8States
<1>1. PICK run : IsRun(REJECT, text, run) /\ validate_state(REJECT, text) = run[n]
  BY <1>0, RunOf
<1>2. run[0] = REJECT /\ \A k \in 1..n : run[k] = Consume(run[k - 1], text[k])
  BY <1>1 DEF IsRun
<1> HIDE DEF n
<1> DEFINE S == {k \in Nat : k <= n => run[k] = REJECT}
<1>3. 0 \in S
  BY <1>2
<1>4. ASSUME NEW k \in Nat, k \in S PROVE k + 1 \in S
  <2> SUFFICES ASSUME k + 1 <= n PROVE run[k + 1] = REJECT
    OBVIOUS
  <2>1. k + 1 \in 1..n /\ (k + 1) - 1 = k /\ run[k] = REJECT
    BY <1>0, <1>4
  <2>2. run[k + 1] = Consume(REJECT, text[k + 1]) /\ text[k + 1] \in Byte
    BY <1>0, <1>2, <2>1
  <2> QED
    BY <2>2, ConsumeIs DEF REJECT
<1> HIDE DEF S
<1>5. Nat \subseteq S
  BY <1>3, <1>4, SetInduction
<1> QED
  BY <1>0, <1>1, <1>5 DEF S

\* In every other state some tail completes the character.
LEMMA Completion ==
  ASSUME NEW s \in Utf8States, s # REJECT
  PROVE  \E tail \in Tails : tail \in Text /\ validate_state(s, tail) = ACCEPT
<1> DEFINE n == IF s = 0 THEN 0 ELSE IF s = 24 THEN 1 ELSE IF s \in {36, 48, 60} THEN 2 ELSE 3
           first == IF s \in {48, 72} THEN 191 ELSE 128
           tail == [k \in 1..n |-> IF k = 1 THEN first ELSE 128]
<1>1. n \in 0..3 /\ first \in {128, 191}
  OBVIOUS
<1>2. /\ s = 0 => n = 0
      /\ s = 24 => n = 1 /\ first = 128
      /\ s = 36 => n = 2 /\ first = 128
      /\ s = 48 => n = 2 /\ first = 191
      /\ s = 60 => n = 2 /\ first = 128
      /\ s = 72 => n = 3 /\ first = 191
      /\ s = 84 => n = 3 /\ first = 128
      /\ s = 96 => n = 3 /\ first = 128
  OBVIOUS
<1> HIDE DEF n, first
<1>3. tail \in [1..n -> {128, 191}]
  BY <1>1
<1>4. tail \in Tails
  BY <1>1, <1>3 DEF Tails
<1>5. tail \in Seq(Byte) /\ Len(tail) = n
  <2>1. n \in Nat /\ \A k \in 1..n : (IF k = 1 THEN first ELSE 128) \in Byte
    BY <1>1 DEF Byte
  <2> QED
    BY <2>1, IsASeq
<1>6. \A k \in 1..n : tail[k] = IF k = 1 THEN first ELSE 128
  OBVIOUS
<1> HIDE DEF tail
<1>7. tail \in Text
  BY <1>5 DEF Text
<1>8. PICK run : IsRun(s, tail, run) /\ validate_state(s, tail) = run[n]
  BY <1>5, <1>7, RunOf
<1>9. run[0] = s /\ \A k \in 1..n : run[k] = Consume(run[k - 1], tail[k])
  BY <1>5, <1>8 DEF IsRun
<1>10. n >= 1 => run[1] = Consume(s, first)
  BY <1>1, <1>6, <1>9
<1>11. n >= 2 => run[2] = Consume(run[1], 128)
  BY <1>1, <1>6, <1>9
<1>12. n >= 3 => run[3] = Consume(run[2], 128)
  BY <1>1, <1>6, <1>9
<1>13. /\ Consume(24, 128) = 0 /\ Consume(36, 128) = 24 /\ Consume(48, 191) = 24
       /\ Consume(60, 128) = 24 /\ Consume(72, 191) = 36 /\ Consume(84, 128) = 36
       /\ Consume(96, 128) = 36
  <2>1. 128 \in Byte /\ 191 \in Byte
    BY DEF Byte
  <2>2. /\ Consume(24, 128) = 0 /\ Consume(36, 128) = 24 /\ Consume(60, 128) = 24
        /\ Consume(84, 128) = 36 /\ Consume(96, 128) = 36
    BY <2>1, ConsumeIs
  <2>3. Consume(48, 191) = 24 /\ Consume(72, 191) = 36
    BY <2>1, ConsumeIs
  <2> QED
    BY <2>2, <2>3
<1>14. run[n] = 0
  <2>1. CASE s = 0
    BY <1>2, <1>9, <2>1
  <2>2. CASE s = 24
    BY <1>2, <1>10, <1>13, <2>2
  <2>3. CASE s = 36
    BY <1>2, <1>10, <1>11, <1>13, <2>3
  <2>4. CASE s = 48
    BY <1>2, <1>10, <1>11, <1>13, <2>4
  <2>5. CASE s = 60
    BY <1>2, <1>10, <1>11, <1>13, <2>5
  <2>6. CASE s = 72
    BY <1>2, <1>10, <1>11, <1>12, <1>13, <2>6
  <2>7. CASE s = 84
    BY <1>2, <1>10, <1>11, <1>12, <1>13, <2>7
  <2>8. CASE s = 96
    BY <1>2, <1>10, <1>11, <1>12, <1>13, <2>8
  <2> QED
    BY <2>1, <2>2, <2>3, <2>4, <2>5, <2>6, <2>7, <2>8 DEF Utf8States, REJECT
<1> QED
  BY <1>4, <1>7, <1>8, <1>14 DEF ACCEPT

\* The validator rejects a text as soon as nothing that may follow makes it
\* well formed, and not before (xsp_ws_client_utf8.h:36).
THEOREM RejectsExactly ==
  ASSUME NEW text \in Text
  PROVE  validate_state(ACCEPT, text) = REJECT <=> ~Completable(text)
<1> DEFINE s == validate_state(ACCEPT, text)
<1>0. ACCEPT \in Utf8States /\ ACCEPT # REJECT
  BY DEF ACCEPT, REJECT, Utf8States
<1>1. s \in Utf8States
  BY <1>0, ValidateType
<1>2. ASSUME NEW tail \in Text
      PROVE  WellFormed(text \o tail) <=> validate_state(s, tail) = ACCEPT
  <2>1. text \o tail \in Text
    BY ConcatProperties DEF Text
  <2> QED
    BY <1>0, <2>1, AcceptsExactly, ValidateConcat
<1> HIDE DEF s
<1>3. ASSUME s = REJECT, NEW tail \in Tails PROVE ~WellFormed(text \o tail)
  <2>1. tail \in Text
    <3>1. PICK n \in 0..3 : tail \in [1..n -> {128, 191}]
      BY DEF Tails
    <3>2. n \in Nat /\ \A k \in 1..n : tail[k] \in Byte
      BY <3>1 DEF Byte
    <3>3. tail = [k \in 1..n |-> tail[k]]
      BY <3>1
    <3> QED
      BY <3>2, <3>3, IsASeq DEF Text
  <2> QED
    BY <1>0, <1>2, <1>3, <2>1, RejectionIsFinal
<1>4. ASSUME s # REJECT PROVE Completable(text)
  <2>1. PICK tail \in Tails : tail \in Text /\ validate_state(s, tail) = ACCEPT
    BY <1>1, <1>4, Completion
  <2> QED
    BY <1>2, <2>1, Zenon DEF Completable
<1> QED
  BY <1>3, <1>4 DEF Completable, s

\* A rejected text "is (and will always be, even with subsequent data) not valid"
\* (xsp_ws_client_utf8.h:36): whatever follows, not only the tails of Completable.
THEOREM RejectedForever ==
  ASSUME NEW text \in Text
  PROVE  validate_state(ACCEPT, text) = REJECT <=> \A tail \in Text : ~WellFormed(text \o tail)
<1>0. ACCEPT \in Utf8States /\ ACCEPT # REJECT
  BY DEF ACCEPT, REJECT, Utf8States
<1>1. ASSUME validate_state(ACCEPT, text) = REJECT, NEW tail \in Text
      PROVE  ~WellFormed(text \o tail)
  <2>1. text \o tail \in Text
    BY ConcatProperties DEF Text
  <2>2. validate_state(ACCEPT, text \o tail) = REJECT
    BY <1>0, <1>1, ValidateConcat, RejectionIsFinal
  <2> QED
    BY <1>0, <2>1, <2>2, AcceptsExactly
<1>2. ASSUME validate_state(ACCEPT, text) # REJECT
      PROVE  \E tail \in Text : WellFormed(text \o tail)
  <2>1. validate_state(ACCEPT, text) \in Utf8States
    BY <1>0, ValidateType
  <2>2. PICK tail \in Text : validate_state(validate_state(ACCEPT, text), tail) = ACCEPT
    BY <1>2, <2>1, Completion
  <2>3. text \o tail \in Text
    BY ConcatProperties DEF Text
  <2>4. validate_state(ACCEPT, text \o tail) = ACCEPT
    BY <1>0, <2>2, ValidateConcat
  <2> QED
    BY <2>3, <2>4, AcceptsExactly
<1> QED
  BY <1>1, <1>2
=============================================================================
