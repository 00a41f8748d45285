------------------------------ MODULE SumProofs ------------------------------
(***************************************************************************)
(* Lemmas about sums and sequences, and induction over the natural numbers *)
(* in the form the other proofs use it: over a set, not an operator.       *)
(***************************************************************************)
EXTENDS Sums, TLAPS, WellFoundedInduction

(* A non-empty set of naturals has a smallest element.                     *)
LEMMA SmallestElement ==
  ASSUME NEW S \in SUBSET Nat, S # {}
  PROVE  \E m \in S : \A n \in S : m <= n
<1> DEFINE Less == OpToRel(<, Nat)
<1>1. \E m \in S : \A n \in S : ~(<<n, m>> \in Less)
  <2> HIDE DEF Less
  <2>1. IsWellFoundedOn(Less, Nat)
    BY NatLessThanWellFounded DEF Less
  <2> QED BY <2>1, WFMin
<1>2. \A m, n \in Nat : ~(<<n, m>> \in Less) => m <= n
  BY DEF OpToRel
<1> QED BY <1>1, <1>2

(* A non-empty bounded set of naturals has a largest element.              *)
LEMMA LargestElement ==
  ASSUME NEW n \in Nat, NEW S \in SUBSET Nat, S # {}, \A i \in S : i <= n
  PROVE  \E m \in S : \A i \in S : i <= m
<1> DEFINE T == {i \in Nat : n - i \in S}
<1>1. T \in SUBSET Nat /\ T # {}
  <2>1. PICK i \in S : TRUE
    OBVIOUS
  <2>2. n - i \in Nat /\ n - (n - i) = i
    BY <2>1
  <2>3. n - i \in T
    BY <2>1, <2>2
  <2> QED BY <2>3
<1>2. PICK m \in T : \A i \in T : m <= i
  <2> HIDE DEF T
  <2> QED BY <1>1, SmallestElement
<1>3. \A i \in S : n - i \in T /\ i \in Nat
  OBVIOUS
<1>4. ASSUME NEW i \in S PROVE i <= n - m
  <2>1. m <= n - i /\ i \in Nat /\ m \in Nat
    BY <1>2, <1>3
  <2> QED BY <2>1
<1> QED BY <1>2, <1>4

(* Induction: a set with 0 and every successor has all naturals.           *)
LEMMA InductiveSet ==
  ASSUME NEW S \in SUBSET Nat, 0 \in S, \A n \in S : n + 1 \in S
  PROVE  S = Nat
<1> SUFFICES ASSUME Nat \ S # {} PROVE FALSE
  OBVIOUS
<1>1. PICK m \in Nat \ S : \A n \in Nat \ S : m <= n
  BY SmallestElement
<1>2. m # 0 /\ m - 1 \in Nat
  OBVIOUS
<1>3. m - 1 \in S
  BY <1>1, <1>2
<1> QED BY <1>1, <1>2, <1>3

(* The recursive definition of the sums of prefixes defines a function.    *)
LEMMA PrefixSumsDefined ==
  ASSUME NEW seq, Len(seq) \in Nat
  PROVE  PrefixSums(seq) = [i \in 0..Len(seq) |-> IF i = 0 THEN 0
                                                ELSE PrefixSums(seq)[i - 1] + seq[i]]
<1> DEFINE Rec(f, n) == f = [i \in 0..n |-> IF i = 0 THEN 0 ELSE f[i - 1] + seq[i]]
           Defined(n) == \E f : Rec(f, n)
           S == {n \in Nat : Defined(n)}
<1>1. 0 \in S
  <2> DEFINE f == [i \in 0..0 |-> 0]
  <2>1. Rec(f, 0)
    OBVIOUS
  <2> QED BY <2>1
<1>2. ASSUME NEW n \in S PROVE n + 1 \in S
  <2>1. PICK f : Rec(f, n)
    OBVIOUS
  <2> DEFINE g == [i \in 0..(n + 1) |-> IF i = n + 1 THEN f[n] + seq[n + 1] ELSE f[i]]
  <2>2. DOMAIN f = 0..n /\ \A i \in 0..n : f[i] = IF i = 0 THEN 0 ELSE f[i - 1] + seq[i]
    BY <2>1
  <2>3. \A i \in 0..(n + 1) : g[i] = IF i = 0 THEN 0 ELSE g[i - 1] + seq[i]
    BY <2>2
  <2>4. Rec(g, n + 1)
    BY <2>3
  <2> HIDE DEF g
  <2>5. Defined(n + 1)
    BY <2>4
  <2> HIDE DEF Defined
  <2> QED BY <2>5
<1>3. S = Nat
  <2> HIDE DEF S
  <2> QED BY <1>1, <1>2, InductiveSet DEF S
<1>4. \E f : Rec(f, Len(seq))
  BY <1>3
<1> QED BY <1>4 DEF PrefixSums

(* A property that the empty prefix has, and each prefix has with the one  *)
(* before it, is one of all prefixes: induction up to a bound.             *)
LEMMA InductiveUpTo ==
  ASSUME NEW n \in Nat, NEW S \in SUBSET (0..n), 0 \in S,
         \A i \in 0..(n - 1) : i \in S => i + 1 \in S
  PROVE  S = 0..n
<1> DEFINE T == {i \in Nat : i \in S \/ i > n}
<1>1. T \in SUBSET Nat /\ 0 \in T
  OBVIOUS
<1>2. \A i \in T : i + 1 \in T
  OBVIOUS
<1>3. T = Nat
  <2> HIDE DEF T
  <2> QED BY <1>1, <1>2, InductiveSet
<1>4. \A i \in 0..n : i \in T
  BY <1>3
<1>5. \A i \in 0..n : i \in S
  BY <1>4
<1> QED BY <1>5

(* Sums of naturals are naturals.                                          *)
LEMMA PrefixSumsTyped ==
  ASSUME NEW seq \in Seq(Nat)
  PROVE  PrefixSums(seq) \in [0..Len(seq) -> Nat]
<1> DEFINE sums == PrefixSums(seq)
           S == {i \in 0..Len(seq) : sums[i] \in Nat}
<1>1. sums = [i \in 0..Len(seq) |-> IF i = 0 THEN 0 ELSE sums[i - 1] + seq[i]]
  BY PrefixSumsDefined
<1> HIDE DEF sums
<1>2. 0 \in S
  BY <1>1
<1>3. \A i \in 0..(Len(seq) - 1) : i \in S => i + 1 \in S
  BY <1>1
<1>4. S = 0..Len(seq)
  <2>1. Len(seq) \in Nat /\ S \in SUBSET (0..Len(seq))
    OBVIOUS
  <2> HIDE DEF S
  <2> QED BY <1>2, <1>3, <2>1, InductiveUpTo
<1> QED BY <1>1, <1>4 DEF sums

(* Sequences that agree up to some length agree on the sums up to there.   *)
LEMMA SamePrefixSums ==
  ASSUME NEW seq, NEW other, Len(seq) \in Nat, Len(other) \in Nat,
         Len(seq) <= Len(other), \A i \in 1..Len(seq) : other[i] = seq[i]
  PROVE  \A i \in 0..Len(seq) : PrefixSums(other)[i] = PrefixSums(seq)[i]
<1> DEFINE sums == PrefixSums(seq)
           others == PrefixSums(other)
           S == {i \in 0..Len(seq) : others[i] = sums[i]}
<1>1. /\ sums = [i \in 0..Len(seq) |-> IF i = 0 THEN 0 ELSE sums[i - 1] + seq[i]]
      /\ others = [i \in 0..Len(other) |-> IF i = 0 THEN 0 ELSE others[i - 1] + other[i]]
  BY PrefixSumsDefined
<1> HIDE DEF sums, others
<1>2. 0 \in S
  BY <1>1
<1>3. \A i \in 0..(Len(seq) - 1) : i \in S => i + 1 \in S
  BY <1>1
<1>4. S = 0..Len(seq)
  <2>1. Len(seq) \in Nat /\ S \in SUBSET (0..Len(seq))
    OBVIOUS
  <2> HIDE DEF S
  <2> QED BY <1>2, <1>3, <2>1, InductiveUpTo
<1> QED BY <1>4 DEF sums, others

LEMMA SumTyped ==
  ASSUME NEW seq \in Seq(Nat)
  PROVE  SumOf(seq) \in Nat
BY PrefixSumsTyped DEF SumOf

LEMMA SumOfNothing == SumOf(<<>>) = 0
BY PrefixSumsDefined DEF SumOf

LEMMA SumOfAppended ==
  ASSUME NEW seq \in Seq(Nat), NEW n \in Nat
  PROVE  SumOf(Append(seq, n)) = SumOf(seq) + n
<1> DEFINE other == Append(seq, n)
<1>1. /\ Len(seq) \in Nat /\ other \in Seq(Nat) /\ Len(other) = Len(seq) + 1
      /\ other[Len(seq) + 1] = n /\ \A i \in 1..Len(seq) : other[i] = seq[i]
  OBVIOUS
<1> HIDE DEF other
<1>2. PrefixSums(other)[Len(other)] = PrefixSums(other)[Len(seq)] + n
  BY <1>1, PrefixSumsDefined
<1>3. PrefixSums(other)[Len(seq)] = PrefixSums(seq)[Len(seq)]
  BY <1>1, SamePrefixSums
<1> QED BY <1>2, <1>3 DEF SumOf, other

-----------------------------------------------------------------------------
(* A function by recursion from 0 to n, in a set that its steps stay in.   *)
StaysIn(D, n, first, step) ==
  first \in D /\ \A i \in 1..n : \A d \in D : step[i][d] \in D

HasFunction(D, n, first, step) ==
  \E f \in [0..n -> D] : f[0] = first /\ \A i \in 1..n : f[i] = step[i][f[i - 1]]

LEMMA Recursion ==
  ASSUME NEW n \in Nat, NEW D, NEW first, NEW step, StaysIn(D, n, first, step)
  PROVE  HasFunction(D, n, first, step)
<1> DEFINE Rec(f, m) == /\ f[0] = first
                        /\ \A i \in 1..m : f[i] = step[i][f[i - 1]]
           S == {m \in 0..n : \E f \in [0..n -> D] : Rec(f, m)}
<1>1. 0 \in S
  <2> DEFINE f == [i \in 0..n |-> first]
  <2>1. f \in [0..n -> D] /\ Rec(f, 0)
    BY DEF StaysIn
  <2> HIDE DEF f
  <2>2. \E g \in [0..n -> D] : Rec(g, 0)
    BY <2>1
  <2> HIDE DEF Rec
  <2> QED BY <2>2
<1>2. ASSUME NEW m \in 0..(n - 1), m \in S PROVE m + 1 \in S
  <2>1. PICK f \in [0..n -> D] : Rec(f, m)
    BY <1>2
  <2> DEFINE g == [i \in 0..n |-> IF i = m + 1 THEN step[i][f[m]] ELSE f[i]]
  <2>2. m + 1 \in 1..n /\ f[m] \in D /\ step[m + 1][f[m]] \in D
    BY DEF StaysIn
  <2>3. g \in [0..n -> D]
    BY <2>2
  <2>4. g[0] = first /\ \A i \in 1..(m + 1) : g[i] = step[i][g[i - 1]]
    BY <2>1
  <2> HIDE DEF g
  <2>5. \E h \in [0..n -> D] : Rec(h, m + 1)
    BY <2>3, <2>4
  <2> HIDE DEF Rec
  <2> QED BY <2>2, <2>5
<1> HIDE DEF Rec
<1>3. S = 0..n
  <2> HIDE DEF S
  <2>1. S \in SUBSET (0..n)
    BY DEF S
  <2> QED BY <1>1, <1>2, <2>1, InductiveUpTo
<1>4. \E f \in [0..n -> D] : Rec(f, n)
  <2>1. n \in 0..n
    OBVIOUS
  <2> QED BY <1>3, <2>1
<1> QED BY <1>4 DEF Rec, HasFunction

-----------------------------------------------------------------------------
(* Sequences over a set: their elements, what appending adds, and that     *)
(* they are functions.                                                     *)
LEMMA SeqFacts ==
  ASSUME NEW S, NEW seq \in Seq(S)
  PROVE  /\ Len(seq) \in Nat /\ DOMAIN seq = 1..Len(seq)
         /\ \A i \in 1..Len(seq) : seq[i] \in S
         /\ (seq = <<>> <=> Len(seq) = 0)
         /\ seq # <<>> =>
              /\ Head(seq) = seq[1] /\ Head(seq) \in S
              /\ Tail(seq) \in Seq(S) /\ Len(Tail(seq)) = Len(seq) - 1
              /\ \A i \in 1..(Len(seq) - 1) : Tail(seq)[i] = seq[i + 1]
OBVIOUS

LEMMA AppendFacts ==
  ASSUME NEW S, NEW seq \in Seq(S), NEW e \in S
  PROVE  /\ Append(seq, e) \in Seq(S) /\ Len(Append(seq, e)) = Len(seq) + 1
         /\ Append(seq, e)[Len(seq) + 1] = e
         /\ \A i \in 1..Len(seq) : Append(seq, e)[i] = seq[i]
OBVIOUS

LEMMA EmptyIsSeq == \A S : <<>> \in Seq(S)
OBVIOUS

LEMMA SeqIsFunction ==
  ASSUME NEW S, NEW seq \in Seq(S)
  PROVE  seq = [i \in 1..Len(seq) |-> seq[i]]
OBVIOUS

LEMMA FunctionIsSeq ==
  ASSUME NEW S, NEW n \in Nat, NEW f \in [1..n -> S]
  PROVE  f \in Seq(S) /\ Len(f) = n
OBVIOUS
=============================================================================
