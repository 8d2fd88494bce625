---------------------------- MODULE DataInduction ----------------------------
(***************************************************************************)
(* Induction over numbers and sequences, and what it takes to reason about *)
(* a function defined recursively over the prefixes of a sequence.         *)
(*                                                                         *)
(* A claim is proved by induction as a set, of the numbers it holds of;    *)
(* the library's facts about well-founded relations need no operator for   *)
(* it.  A recursive function is what CHOOSE picks among those that satisfy *)
(* its equation: one exists (PrefixRecursion), and an induction over its   *)
(* equation shows what it yields.                                          *)
(***************************************************************************)
EXTENDS Integers, Sequences, SequencesExt, SequenceTheorems, WellFoundedInduction, TLAPS

\* A set of numbers has a least one.
LEMMA LeastNatural ==
    ASSUME NEW T, T \subseteq Nat, T # {}
    PROVE  \E x \in T : \A y \in T : x <= y
  <1> DEFINE R == OpToRel(<, Nat)
  <1>1. IsWellFoundedOn(R, Nat)
    BY NatLessThanWellFounded
  <1>2. PICK x \in T : \A y \in T : ~(<<y, x>> \in R)
    <2> HIDE DEF R
    <2> QED BY <1>1, WFMin
  <1>3. \A y \in T : ~(y < x)
    BY <1>2 DEF OpToRel
  <1> QED
    BY <1>3

LEMMA NaturalInduction ==
    ASSUME NEW S, 0 \in S, \A n \in Nat : n \in S => n + 1 \in S
    PROVE  Nat \subseteq S
  <1> SUFFICES ASSUME Nat \ S # {} PROVE FALSE
    OBVIOUS
  <1>1. PICK x \in Nat \ S : \A y \in Nat \ S : x <= y
    BY LeastNatural
  <1>2. x # 0 /\ x - 1 \in Nat /\ x - 1 \in S
    BY <1>1
  <1> QED
    BY <1>1, <1>2

\* Induction up to n, and down from it.
LEMMA UpTo ==
    ASSUME NEW S, NEW n \in Nat, 0 \in S, \A i \in 0..(n - 1) : i \in S => i + 1 \in S
    PROVE  0..n \subseteq S
  <1> DEFINE T == {i \in Nat : i <= n => i \in S}
  <1>1. Nat \subseteq T
    <2>1. 0 \in T
      OBVIOUS
    <2>2. \A i \in Nat : i \in T => i + 1 \in T
      OBVIOUS
    <2> HIDE DEF T
    <2> QED
      BY <2>1, <2>2, NaturalInduction
  <1> QED
    BY <1>1

\* A function on 0..n that begins with base and takes one step at a time.
Follows(f, n, base, step) == f[0] = base /\ \A i \in 1..n : f[i] = step[i][f[i-1]]

LEMMA PrefixRecursion ==
    ASSUME NEW D, NEW n \in Nat, NEW base \in D, NEW step \in [1..n -> [D -> D]]
    PROVE  \E f \in [0..n -> D] : Follows(f, n, base, step)
  <1> DEFINE Good(k, f) == f[0] = base /\ \A i \in 1..k : f[i] = step[i][f[i-1]]
             S == {k \in 0..n : \E f \in [0..k -> D] : Good(k, f)}
  <1>1. 0 \in S
    <2> DEFINE f == [i \in 0..0 |-> base]
    <2>1. f \in [0..0 -> D] /\ f[0] = base
      OBVIOUS
    <2> HIDE DEF f
    <2>2. 0 \in 0..n /\ Good(0, f)
      BY <2>1
    <2> QED
      BY <2>1, <2>2
  <1>2. ASSUME NEW k \in 0..(n - 1), k \in S PROVE k + 1 \in S
    <2>1. PICK f \in [0..k -> D] : Good(k, f)
      BY <1>2
    <2> DEFINE g == [i \in 0..(k + 1) |-> IF i = k + 1 THEN step[k + 1][f[k]] ELSE f[i]]
    <2>2. f[k] \in D /\ step[k + 1][f[k]] \in D
      OBVIOUS
    <2>3. g \in [0..(k + 1) -> D]
      BY <2>2
    <2>4. g[0] = base
      BY <2>1
    <2>5. ASSUME NEW i \in 1..(k + 1) PROVE g[i] = step[i][g[i-1]]
      <3>1. CASE i = k + 1
        BY <3>1
      <3>2. CASE i \in 1..k
        BY <3>2, <2>1
      <3> QED
        BY <3>1, <3>2
    <2> HIDE DEF g
    <2> QED
      BY <2>3, <2>4, <2>5
  <1>3. 0..n \subseteq S
    <2> HIDE DEF S
    <2> QED BY <1>1, <1>2, UpTo
  <1>4. PICK f \in [0..n -> D] : Good(n, f)
    BY <1>3
  <1> QED
    BY <1>4 DEF Follows

-----------------------------------------------------------------------------
(***************************************************************************)
(* The sequences seqs[1], ..., seqs[n] flattened: put together one after   *)
(* the other, f[k] the first k of them.                                    *)
(***************************************************************************)
Joins(f, seqs, n) == f[0] = << >> /\ \A i \in 1..n : f[i] = f[i-1] \o seqs[i]

\* What is added at the end of a sequence leaves its elements at their places.
Begins(s, t) == Len(s) <= Len(t) /\ \A i \in 1..Len(s) : t[i] = s[i]

LEMMA ConcatBegins ==
    ASSUME NEW S, NEW s \in Seq(S), NEW t \in Seq(S)
    PROVE  Begins(s, s \o t)
  <1>1. Len(s) \in Nat /\ Len(t) \in Nat
    BY LenProperties
  <1>2. /\ Len(s \o t) = Len(s) + Len(t)
        /\ \A i \in 1..(Len(s) + Len(t)) :
              (s \o t)[i] = IF i <= Len(s) THEN s[i] ELSE t[i - Len(s)]
    BY ConcatProperties, Zenon
  <1>3. ASSUME NEW i \in 1..Len(s) PROVE i \in 1..(Len(s) + Len(t)) /\ i <= Len(s)
    BY <1>1
  <1>4. \A i \in 1..Len(s) : (s \o t)[i] = s[i]
    BY <1>2, <1>3, Zenon
  <1>5. Len(s) <= Len(s \o t)
    BY <1>1, <1>2
  <1> QED
    BY <1>4, <1>5 DEF Begins

LEMMA JoinsExist ==
    ASSUME NEW S, NEW n \in Nat, NEW seqs, \A i \in 1..n : seqs[i] \in Seq(S)
    PROVE  \E f \in [0..n -> Seq(S)] : Joins(f, seqs, n)
  <1> DEFINE step == [i \in 1..n |-> [x \in Seq(S) |-> x \o seqs[i]]]
  <1>1. step \in [1..n -> [Seq(S) -> Seq(S)]]
    BY ConcatProperties
  <1>2. << >> \in Seq(S)
    OBVIOUS
  <1>3. \A i \in 1..n : \A x \in Seq(S) : step[i][x] = x \o seqs[i]
    OBVIOUS
  <1> HIDE DEF step
  <1> DEFINE D == Seq(S)   empty == << >>
  <1>a. step \in [1..n -> [D -> D]] /\ empty \in D
    BY <1>1, <1>2
  <1>b. \E f \in [0..n -> D] : Follows(f, n, empty, step)
    <2> HIDE DEF D, empty
    <2> QED BY <1>a, PrefixRecursion
  <1>4. PICK f \in [0..n -> Seq(S)] :
            f[0] = << >> /\ \A i \in 1..n : f[i] = step[i][f[i-1]]
    BY <1>b DEF Follows
  <1>5. \A i \in 1..n : f[i] = f[i-1] \o seqs[i]
    <2> TAKE i \in 1..n
    <2>1. i - 1 \in 0..n
      OBVIOUS
    <2>2. f[i-1] \in Seq(S)
      BY <2>1
    <2> QED
      BY <2>2, <1>3, <1>4
  <1> QED
    BY <1>4, <1>5 DEF Joins

LEMMA FlattenIsJoin ==
    ASSUME NEW n \in Nat, NEW seqs, Len(seqs) = n, n = 0 => seqs = << >>,
           NEW f, Joins(f, seqs, n), n > 0 => << >> \o seqs[1] = seqs[1]
    PROVE  FlattenSeq(seqs) = f[n]
  <1>1. CASE n = 0
    BY <1>1 DEF FlattenSeq, Joins
  <1>2. CASE n # 0
    <2> DEFINE P(g) == g = [i \in 1..n |-> IF i = 1 THEN seqs[i] ELSE g[i-1] \o seqs[i]]
               h == [i \in 1..n |-> f[i]]
               flatten == CHOOSE g : P(g)
    <2>1. f[1] = seqs[1]
      <3>1. 1 \in 1..n /\ 1 - 1 = 0
        BY <1>2
      <3>2. f[1] = f[0] \o seqs[1]
        BY <3>1 DEF Joins
      <3>3. << >> \o seqs[1] = seqs[1]
        BY <1>2
      <3>4. f[0] = << >>
        BY DEF Joins
      <3> QED
        BY <3>2, <3>3, <3>4, Zenon
    <2>2. P(h)
      <3>1. ASSUME NEW i \in 1..n, i # 1 PROVE h[i] = h[i-1] \o seqs[i]
        <4>1. i - 1 \in 1..n
          BY <3>1
        <4>2. h[i] = f[i] /\ h[i-1] = f[i-1]
          BY <4>1
        <4>3. f[i] = f[i-1] \o seqs[i]
          BY DEF Joins
        <4> QED
          BY <4>2, <4>3
      <3>2. h[1] = seqs[1]
        BY <1>2, <2>1
      <3>3. \A i \in 1..n : f[i] = IF i = 1 THEN seqs[i] ELSE h[i-1] \o seqs[i]
        <4> HIDE DEF h
        <4>1. \A i \in 1..n : h[i] = f[i]
          BY DEF h
        <4> QED
          BY <4>1, <2>1, <3>1
      <3> QED
        BY <3>3
    <2>3. P(flatten)
      <3> HIDE DEF P, h
      <3> QED BY <2>2
    <2>4. FlattenSeq(seqs) = flatten[n]
      BY <1>2 DEF FlattenSeq
    <2> HIDE DEF flatten, h
    <2>5. \A i \in 1..n : flatten[i] = IF i = 1 THEN seqs[i] ELSE flatten[i-1] \o seqs[i]
      BY <2>3, Zenon
    <2> HIDE DEF P
    <2> DEFINE T == {i \in 0..n : i # 0 => flatten[i] = f[i]}
    <2>6. 0 \in T
      OBVIOUS
    <2>7. ASSUME NEW i \in 0..(n - 1), i \in T PROVE i + 1 \in T
      <3>1. CASE i = 0
        <4>1. 1 \in 1..n /\ i + 1 = 1
          BY <3>1, <1>2
        <4>2. flatten[1] = seqs[1]
          BY <4>1, <2>5, Zenon
        <4> QED
          BY <4>1, <4>2, <2>1
      <3>2. CASE i # 0
        <4>1. flatten[i] = f[i]
          BY <2>7, <3>2
        <4>2. i + 1 \in 1..n /\ (i + 1) - 1 = i /\ i + 1 # 1
          BY <3>2
        <4>3. f[i + 1] = f[i] \o seqs[i + 1]
          BY <4>2 DEF Joins
        <4>4. flatten[i + 1] = flatten[i] \o seqs[i + 1]
          <5>1. flatten[i + 1] = flatten[(i + 1) - 1] \o seqs[i + 1]
            BY <4>2, <2>5, Zenon
          <5> QED
            BY <4>2, <5>1, Zenon
        <4>5. flatten[i + 1] = f[i + 1]
          BY <4>1, <4>3, <4>4
        <4> QED
          BY <4>5, <4>2
      <3> QED
        BY <3>1, <3>2
    <2>8. 0..n \subseteq T
      <3> HIDE DEF T
      <3> QED BY <2>6, <2>7, UpTo
    <2> QED
      BY <1>2, <2>4, <2>8
  <1> QED
    BY <1>1, <1>2

\* Whatever was joined first stays at its place.
LEMMA JoinsGrow ==
    ASSUME NEW S, NEW n \in Nat, NEW seqs, \A i \in 1..n : seqs[i] \in Seq(S),
           NEW f \in [0..n -> Seq(S)], Joins(f, seqs, n),
           NEW m \in 0..n, NEW k \in 0..m
    PROVE  Begins(f[k], f[m])
  <1> DEFINE T == {j \in 0..n : \A h \in 0..j : Begins(f[h], f[j])}
  <1>0. \A i \in 0..n : Len(f[i]) \in Nat
    BY LenProperties
  <1>1. 0 \in T
    BY <1>0 DEF Begins
  <1>2. ASSUME NEW j \in 0..(n - 1), j \in T PROVE j + 1 \in T
    <2>1. f[j] \in Seq(S) /\ j + 1 \in 1..n /\ (j + 1) - 1 = j
      OBVIOUS
    <2>2. seqs[j + 1] \in Seq(S) /\ f[j + 1] = f[j] \o seqs[j + 1]
      BY <2>1 DEF Joins
    <2>3. Begins(f[j], f[j] \o seqs[j + 1])
      BY <2>1, <2>2, ConcatBegins, Zenon
    <2>4. Begins(f[j], f[j + 1])
      BY <2>2, <2>3, Zenon
    <2>5. ASSUME NEW h \in 0..j PROVE Begins(f[h], f[j + 1])
      <3>1. Begins(f[h], f[j]) /\ Len(f[h]) \in Nat /\ Len(f[j]) \in Nat /\ Len(f[j + 1]) \in Nat
        BY <1>0, <1>2
      <3>2. Len(f[h]) <= Len(f[j + 1])
        BY <3>1, <2>4 DEF Begins
      <3>3. ASSUME NEW i \in 1..Len(f[h]) PROVE f[j + 1][i] = f[h][i]
        <4>1. i \in 1..Len(f[j])
          BY <3>1 DEF Begins
        <4>2. f[j + 1][i] = f[j][i]
          BY <4>1, <2>4, Zenon DEF Begins
        <4>3. f[j][i] = f[h][i]
          BY <3>1 DEF Begins
        <4> QED
          BY <4>2, <4>3, Zenon
      <3> QED
        BY <3>2, <3>3 DEF Begins
    <2>6. Begins(f[j + 1], f[j + 1])
      BY <1>0 DEF Begins
    <2>7. \A h \in 0..(j + 1) : h = j + 1 \/ h \in 0..j
      OBVIOUS
    <2> QED
      BY <2>5, <2>6, <2>7
  <1>3. 0..n \subseteq T
    <2> HIDE DEF T
    <2> QED BY <1>1, <1>2, UpTo
  <1> QED
    BY <1>3
=============================================================================
