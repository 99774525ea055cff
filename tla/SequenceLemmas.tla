--------------------------- MODULE SequenceLemmas ---------------------------
(***************************************************************************)
(* Facts the proofs need of functions that are defined by recursion on the *)
(* length of a sequence: such a function exists, and what FlattenSeq, the  *)
(* one of the library, returns.                                            *)
(*                                                                         *)
(* Induction is stated over sets of numbers: a property is the set of the  *)
(* numbers that have it.                                                   *)
(***************************************************************************)
EXTENDS Integers, Sequences, SequencesExt, NaturalsInduction,
        WellFoundedInduction, SequenceTheorems, TLAPS

-----------------------------------------------------------------------------
(* Every set of natural numbers has a least element. *)
LEMMA LeastNumber ==
  ASSUME NEW T, T \subseteq Nat, T # {}
  PROVE  \E m \in T : \A n \in T : m <= n
<1>1. PICK m \in T : \A n \in T : <<n, m>> \notin OpToRel(<, Nat)
  BY NatLessThanWellFounded, WFMin, Zenon
<1>2. \A n \in T : n < m => <<n, m>> \in OpToRel(<, Nat)
  BY Zenon DEF OpToRel
<1>3. \A n \in T : ~(n < m)
  BY <1>1, <1>2
<1>4. \A n \in T : n \in Nat /\ m \in Nat
  OBVIOUS
<1> QED
  BY <1>3, <1>4

(* What holds of 0, and of every number after one of which it holds, holds of
   the numbers up to N. *)
LEMMA UpTo ==
  ASSUME NEW N \in Nat, NEW Good,
         0 \in Good,
         \A n \in 1..N : n - 1 \in Good => n \in Good
  PROVE  \A n \in 0..N : n \in Good
<1> DEFINE Bad == {n \in 0..N : n \notin Good}
<1>1. SUFFICES ASSUME Bad # {} PROVE FALSE
  OBVIOUS
<1>2. PICK m \in Bad : \A n \in Bad : m <= n
  <2>1. Bad \subseteq Nat
    OBVIOUS
  <2> QED
    BY <1>1, <2>1, LeastNumber
<1>3. m \in 1..N
  OBVIOUS
<1>4. m - 1 \in 0..N /\ ~(m <= m - 1)
  BY <1>3
<1>5. m - 1 \in Good
  BY <1>2, <1>4
<1> QED
  BY <1>3, <1>5

(* How the n-th value follows from the one before it. *)
Rules(S, N) == [S -> [1..N -> S]]

IsRecursion(f, S, base, N, step) ==
  /\ f \in [0..N -> S]
  /\ f[0] = base
  /\ \A n \in 1..N : f[n] = step[f[n - 1]][n]

(* A function that is defined by its value at 0 and by how a value follows from
   the one before exists. *)
LEMMA Recursion ==
  ASSUME NEW S, NEW base \in S, NEW N \in Nat, NEW step \in Rules(S, N)
  PROVE  \E f : IsRecursion(f, S, base, N, step)
<1> USE DEF Rules
<1> DEFINE Follows(f, n) ==
             /\ f[0] = base
             /\ \A i \in 1..n : f[i] = step[f[i - 1]][i]
           Good == {n \in 0..N : \E f \in [0..n -> S] : Follows(f, n)}
<1>1. 0 \in Good
  <2> DEFINE start == [i \in 0..0 |-> base]
  <2>1. start \in [0..0 -> S] /\ Follows(start, 0)
    OBVIOUS
  <2> HIDE DEF start, Follows
  <2>2. \E f \in [0..0 -> S] : Follows(f, 0)
    BY <2>1
  <2> QED
    BY <2>2
<1>2. ASSUME NEW n \in 1..N, n - 1 \in Good
      PROVE  n \in Good
  <2>1. PICK f \in [0..(n - 1) -> S] : Follows(f, n - 1)
    BY <1>2
  <2> DEFINE value == step[f[n - 1]][n]
             g == [i \in 0..n |-> IF i = n THEN value ELSE f[i]]
  <2>2. value \in S
    OBVIOUS
  <2>3. g \in [0..n -> S]
    <3>1. \A i \in 0..n : i # n => i \in 0..(n - 1)
      OBVIOUS
    <3> QED
      BY <2>2, <3>1
  <2>4. Follows(g, n)
    <3>1. g[0] = base
      BY <2>1
    <3>2. ASSUME NEW i \in 1..n
          PROVE  g[i] = step[g[i - 1]][i]
      <4>1. i - 1 \in 0..n /\ i - 1 # n /\ g[i - 1] = f[i - 1]
        OBVIOUS
      <4>2. CASE i = n
        BY <4>1, <4>2
      <4>3. CASE i # n
        <5>1. i \in 1..(n - 1) /\ g[i] = f[i]
          BY <4>3
        <5> QED
          BY <2>1, <4>1, <5>1
      <4> QED
        BY <4>2, <4>3
    <3> QED
      BY <3>1, <3>2
  <2> HIDE DEF g, Follows
  <2>5. \E h \in [0..n -> S] : Follows(h, n)
    BY <2>3, <2>4
  <2> QED
    BY <2>5
<1>3. N \in Good
  <2> HIDE DEF Good
  <2>1. \A n \in 0..N : n \in Good
    BY <1>1, <1>2, UpTo
  <2> QED
    BY <2>1
<1>4. PICK f \in [0..N -> S] : Follows(f, N)
  BY <1>3
<1>5. IsRecursion(f, S, base, N, step)
  BY <1>4 DEF IsRecursion
<1> QED
  BY <1>5

-----------------------------------------------------------------------------
(* A sequence with one more element at its end. *)
LEMMA Appended ==
  ASSUME NEW S, NEW s \in Seq(S), NEW x
  PROVE  /\ Append(s, x) \in Seq(S \cup {x})
         /\ DOMAIN Append(s, x) = DOMAIN s \cup {Len(s) + 1}
         /\ \A i \in DOMAIN s : Append(s, x)[i] = s[i] /\ i # Len(s) + 1
         /\ Append(s, x)[Len(s) + 1] = x
         /\ \A i, j \in DOMAIN Append(s, x) : i < j => i \in DOMAIN s
<1> DEFINE T == S \cup {x}
<1>1. s \in Seq(T) /\ x \in T
  OBVIOUS
<1> HIDE DEF T
<1>2. /\ Append(s, x) \in Seq(T)
      /\ Len(Append(s, x)) = Len(s) + 1
      /\ \A i \in 1..Len(s) : Append(s, x)[i] = s[i]
      /\ Append(s, x)[Len(s) + 1] = x
  BY <1>1, AppendProperties
<1>3. Len(s) \in Nat /\ DOMAIN s = 1..Len(s) /\ DOMAIN Append(s, x) = 1..(Len(s) + 1)
  BY <1>1, <1>2, LenProperties
<1>4. 1..(Len(s) + 1) = (1..Len(s)) \cup {Len(s) + 1}
  BY <1>3
<1>5. \A i \in 1..Len(s) : i # Len(s) + 1
  BY <1>3
<1>6. \A i, j \in 1..(Len(s) + 1) : i < j => i \in 1..Len(s)
  BY <1>3
<1> QED
  BY <1>2, <1>3, <1>4, <1>5, <1>6, Zenon DEF T

(* Three elements of a sequence. *)
LEMMA ThreeOf ==
  ASSUME NEW S, NEW s \in Seq(S), NEW k \in 1..Len(s), k + 2 \in 1..Len(s)
  PROVE  SubSeq(s, k, k + 2) = <<s[k], s[k + 1], s[k + 2]>>
<1>1. /\ k \in Int /\ k + 2 \in Int /\ k <= k + 2 /\ (k + 2) - k + 1 = 3
      /\ \A i \in k..(k + 2) : s[i] \in S
  BY LenProperties, ElementOfSeq
<1> DEFINE part == SubSeq(s, k, k + 2)
<1>2. /\ part \in Seq(S)
      /\ Len(part) = IF k <= k + 2 THEN (k + 2) - k + 1 ELSE 0
      /\ \A i \in 1..((k + 2) - k + 1) : part[i] = s[k + i - 1]
  BY <1>1, SubSeqProperties
<1> HIDE DEF part
<1>3. part \in Seq(S) /\ Len(part) = 3 /\ \A i \in 1..3 : part[i] = s[k + i - 1]
  BY <1>1, <1>2
<1>4. part[1] = s[k] /\ part[2] = s[k + 1] /\ part[3] = s[k + 2]
  BY <1>1, <1>3
<1>5. part = <<part[1], part[2], part[3]>>
  BY <1>3
<1> QED
  BY <1>4, <1>5, Zenon DEF part

(* One element before three. *)
LEMMA FourOf ==
  ASSUME NEW a, NEW b, NEW c, NEW d
  PROVE  <<a>> \o <<b, c, d>> = <<a, b, c, d>>
<1> DEFINE S == {a, b, c, d}
           s == <<a>>
           t == <<b, c, d>>
           whole == s \o t
<1>1. s \in Seq(S) /\ t \in Seq(S) /\ Len(s) = 1 /\ Len(t) = 3
  OBVIOUS
<1>2. s[1] = a /\ t[1] = b /\ t[2] = c /\ t[3] = d
  OBVIOUS
<1> HIDE DEF s, t, S
<1>3. /\ whole \in Seq(S)
      /\ Len(whole) = Len(s) + Len(t)
      /\ \A i \in 1..Len(s) + Len(t) : whole[i] = IF i <= Len(s) THEN s[i] ELSE t[i - Len(s)]
  BY <1>1, ConcatProperties
<1> HIDE DEF whole
<1>4. Len(whole) = 4 /\ \A i \in 1..4 : whole[i] = IF i <= 1 THEN s[i] ELSE t[i - 1]
  <2>1. Len(s) + Len(t) = 4
    BY <1>1
  <2> QED
    BY <1>1, <1>3, <2>1, Zenon
<1>5. whole[1] = a /\ whole[2] = b /\ whole[3] = c /\ whole[4] = d
  BY <1>2, <1>4
<1>6. whole = <<whole[1], whole[2], whole[3], whole[4]>>
  <2>1. whole \in Seq(S) /\ Len(whole) = 4
    BY <1>3, <1>4
  <2> QED
    BY <2>1
<1>7. whole = <<a, b, c, d>>
  BY <1>5, <1>6, Zenon
<1> QED
  BY <1>7 DEF whole, s, t

-----------------------------------------------------------------------------
(* What is in the sequences is in FlattenSeq of them, and nothing else is. *)
LEMMA Flattened ==
  ASSUME NEW S, NEW seqs \in Seq(Seq(S))
  PROVE  /\ FlattenSeq(seqs) \in Seq(S)
         /\ \A x : x \in Range(FlattenSeq(seqs)) <=>
                  \E i \in DOMAIN seqs : x \in Range(seqs[i])
<1> DEFINE N == Len(seqs)
           Rule(f) == [i \in 1..N |-> IF i = 1 THEN seqs[i] ELSE f[i - 1] \o seqs[i]]
           flatten == CHOOSE f : f = Rule(f)
<1>1. /\ N \in Nat /\ DOMAIN seqs = 1..N
      /\ \A i \in 1..N : seqs[i] \in Seq(S)
  BY LenProperties
<1>2. CASE N = 0
  <2>1. seqs = <<>>
    BY <1>2, EmptySeq
  <2>2. FlattenSeq(seqs) = seqs
    BY <1>2 DEF FlattenSeq
  <2>3. FlattenSeq(seqs) \in Seq(S)
    BY <2>1, <2>2, EmptySeq
  <2>4. DOMAIN seqs = {}
    BY <1>1, <1>2
  <2>5. Range(FlattenSeq(seqs)) = {}
    BY <2>2, <2>4, Zenon DEF Range
  <2> QED
    BY <2>3, <2>4, <2>5
<1>3. CASE N # 0
  <2>1. FlattenSeq(seqs) = flatten[N]
    BY <1>3 DEF FlattenSeq
  <2>2. \E f : f = Rule(f)
    <3> DEFINE step == [s \in Seq(S) |-> [n \in 1..N |-> s \o seqs[n]]]
    <3>1. step \in [Seq(S) -> [1..N -> Seq(S)]]
      BY <1>1, ConcatProperties
    <3>2. PICK g : IsRecursion(g, Seq(S), <<>>, N, step)
      <4>1. <<>> \in Seq(S) /\ N \in Nat /\ step \in Rules(Seq(S), N)
        BY <1>1, <3>1, EmptySeq DEF Rules
      <4> HIDE DEF step, N
      <4> QED
        BY <4>1, Recursion
    <3>3. \A n \in 1..N : g[n] = g[n - 1] \o seqs[n]
      <4>1. \A n \in 1..N : n - 1 \in 0..N
        BY <1>1
      <4> QED
        BY <3>2, <4>1 DEF IsRecursion
    <3> DEFINE f == [n \in 1..N |-> g[n]]
    <3>4. g[0] = <<>>
      BY <3>2 DEF IsRecursion
    <3>5. \A n \in 1..N : f[n] = IF n = 1 THEN seqs[n] ELSE f[n - 1] \o seqs[n]
      <4>1. ASSUME NEW n \in 1..N, n = 1
            PROVE  g[n] = seqs[n]
        <5>1. g[n] = <<>> \o seqs[n]
          <6>1. n - 1 = 0
            BY <4>1
          <6>2. g[n] = g[n - 1] \o seqs[n]
            BY <3>3
          <6> QED
            BY <3>4, <6>1, <6>2, Zenon
        <5> QED
          BY <1>1, <5>1, ConcatEmptySeq
      <4>2. ASSUME NEW n \in 1..N, n # 1
            PROVE  n - 1 \in 1..N
        BY <1>1, <4>2
      <4> QED
        BY <3>3, <4>1, <4>2
    <3>6. f = Rule(f)
      BY <3>5
    <3> QED
      BY <3>6
  <2>3. flatten = Rule(flatten)
    <3> HIDE DEF Rule
    <3> QED
      BY <2>2
  <2>4. \A n \in 1..N : flatten[n] = IF n = 1 THEN seqs[n] ELSE flatten[n - 1] \o seqs[n]
    <3> HIDE DEF flatten
    <3> QED
      BY <2>3
  <2> HIDE DEF flatten
  <2> DEFINE Whole(n) ==
               /\ flatten[n] \in Seq(S)
               /\ \A x : x \in Range(flatten[n]) <=> \E i \in 1..n : x \in Range(seqs[i])
             Good == {n \in 0..N : n # 0 => Whole(n)}
  <2>5. 0 \in Good
    BY <1>1
  <2>6. ASSUME NEW n \in 1..N, n - 1 \in Good
        PROVE  n \in Good
    <3>1. CASE n = 1
      <4>1. flatten[n] = seqs[n] /\ 1..n = {n}
        BY <2>4, <3>1
      <4>2. Whole(n)
        BY <1>1, <4>1
      <4> QED
        BY <1>1, <4>2
    <3>2. CASE n # 1
      <4>1. flatten[n] = flatten[n - 1] \o seqs[n]
        BY <2>4, <3>2
      <4>2. Whole(n - 1)
        BY <2>6, <3>2
      <4>3. flatten[n] \in Seq(S)
        BY <1>1, <4>1, <4>2, ConcatProperties
      <4>4. Range(flatten[n]) = Range(flatten[n - 1]) \cup Range(seqs[n])
        <5>1. flatten[n - 1] \in Seq(S) /\ seqs[n] \in Seq(S)
          BY <1>1, <4>2
        <5>2. Range(flatten[n - 1] \o seqs[n]) = Range(flatten[n - 1]) \cup Range(seqs[n])
          <6> HIDE DEF N
          <6> QED
            BY <5>1, RangeConcatenation
        <5> QED
          BY <4>1, <5>2, Zenon
      <4>5. \A i : i \in 1..n <=> i \in 1..(n - 1) \/ i = n
        BY <1>1, <3>2
      <4>6. Whole(n)
        BY <4>2, <4>3, <4>4, <4>5, Zenon
      <4> QED
        BY <1>1, <4>6
    <3> QED
      BY <3>1, <3>2
  <2>7. N \in Good
    <3> HIDE DEF Good, N
    <3>1. \A n \in 0..N : n \in Good
      BY <1>1, <2>5, <2>6, UpTo
    <3> QED
      BY <1>1, <3>1
  <2>8. Whole(N)
    BY <1>3, <2>7
  <2> QED
    BY <1>1, <2>1, <2>8
<1> QED
  BY <1>2, <1>3
=============================================================================
