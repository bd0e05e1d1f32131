--------------------------- MODULE SublistsProofs ---------------------------
(***************************************************************************)
(* Facts about Sublists, and induction on numbers.  Induction is stated    *)
(* with a set, the numbers that have the property; it comes from the well- *)
(* foundedness of < on Nat.                                                *)
(***************************************************************************)
EXTENDS Sublists, Integers, FiniteSetTheorems, SequenceTheorems, TLAPS

(* Any set of numbers has a least one.                                      *)
LEMMA Least ==
    ASSUME NEW T, T \subseteq Nat, T # {}
    PROVE  \E x \in T : \A y \in T : x <= y
<1> DEFINE less == OpToRel(<, Nat)
<1>1. IsWellFoundedOn(less, Nat)  BY NatLessThanWellFounded
<1>2. PICK x \in T : \A y \in T : ~ (<<y, x>> \in less)
  <2> HIDE DEF less
  <2> QED  BY <1>1, WFMin
<1>3. \A y \in T : ~ (y < x)  BY <1>2 DEF OpToRel
<1> QED  BY <1>3

(* And one that is bounded a greatest.                                      *)
LEMMA Greatest ==
    ASSUME NEW n \in Nat, NEW T, T \subseteq 0..n, T # {}
    PROVE  \E x \in T : \A y \in T : y <= x
<1> DEFINE U == { n - y : y \in T }
<1>1. U \subseteq Nat /\ U # {}
  <2>1. \A y \in T : n - y \in Nat  OBVIOUS
  <2>2. PICK y \in T : TRUE  OBVIOUS
  <2>3. n - y \in U  OBVIOUS
  <2> QED  BY <2>1, <2>3
<1>2. PICK u \in U : \A v \in U : u <= v
  <2> HIDE DEF U
  <2> QED  BY <1>1, Least
<1>3. PICK x \in T : u = n - x  OBVIOUS
<1>4. ASSUME NEW y \in T PROVE y <= x
  <2>1. n - y \in U  OBVIOUS
  <2>2. n - x <= n - y  BY <1>2, <1>3, <2>1
  <2>3. x \in 0..n /\ y \in 0..n  OBVIOUS
  <2> QED  BY <2>2, <2>3
<1> QED  BY <1>4

(* What holds for 0, and for n + 1 if for n, holds for every number.        *)
LEMMA ByInduction ==
    ASSUME NEW S, 0 \in S, \A n \in Nat : n \in S => n + 1 \in S
    PROVE  Nat \subseteq S
<1> SUFFICES ASSUME ~(Nat \subseteq S) PROVE FALSE  OBVIOUS
<1> DEFINE T == Nat \ S
<1>1. T \subseteq Nat /\ T # {}  OBVIOUS
<1>2. PICK x \in T : \A y \in T : x <= y
  <2> HIDE DEF T
  <2> QED  BY <1>1, Least
<1>3. x # 0 /\ x \in Nat  BY <1>2
<1>4. x - 1 \in Nat /\ x - 1 \notin T  BY <1>2, <1>3
<1>5. x - 1 \in S  BY <1>4
<1>6. (x - 1) + 1 \in S  BY <1>4, <1>5
<1>7. (x - 1) + 1 = x  BY <1>3
<1> QED  BY <1>2, <1>6, <1>7

-----------------------------------------------------------------------------
(* Ranks.  The sets of positions are sets of numbers up to some n.          *)

Upto(S, i) == { j \in S : j <= i }

\* Those after a, up to b.
Within(S, a, b) == { j \in S : a < j /\ j <= b }

LEMMA Positions ==
    ASSUME NEW n \in Nat, NEW S, S \subseteq 1..n
    PROVE  /\ IsFiniteSet(S) /\ Cardinality(S) \in Nat /\ Cardinality(S) <= n
           /\ \A T : T \subseteq S => IsFiniteSet(T) /\ Cardinality(T) \in 0..Cardinality(S)
<1>1. IsFiniteSet(1..n) /\ Cardinality(1..n) = n  BY FS_Interval
<1>2. \A T : T \subseteq 1..n => IsFiniteSet(T) /\ Cardinality(T) <= n  BY <1>1, FS_Subset
<1>3. \A T : T \subseteq 1..n => Cardinality(T) \in Nat  BY <1>2, FS_CardinalityType
<1>4. IsFiniteSet(S) /\ Cardinality(S) \in Nat /\ Cardinality(S) <= n  BY <1>2, <1>3
<1>5. ASSUME NEW T, T \subseteq S PROVE IsFiniteSet(T) /\ Cardinality(T) \in 0..Cardinality(S)
  <2>1. T \subseteq 1..n  BY <1>5
  <2>2. Cardinality(T) <= Cardinality(S)  BY <1>4, <1>5, FS_Subset
  <2>3. IsFiniteSet(T) /\ Cardinality(T) \in Nat  BY <1>2, <1>3, <2>1
  <2>4. Cardinality(S) \in Nat  BY <1>4
  <2> QED  BY <2>2, <2>3, <2>4
<1> QED  BY <1>4, <1>5

LEMMA RankType ==
    ASSUME NEW n \in Nat, NEW S, S \subseteq 1..n
    PROVE  /\ Cardinality(S) \in Nat
           /\ \A i \in Int : Rank(S, i) \in 0..Cardinality(S) /\ Rank(S, i) \in Nat
           /\ \A i \in S : /\ i \in Nat /\ Rank(S, i) \in Nat
                           /\ Rank(S, i) \in 1..Cardinality(S)
<1>1. \A i \in Int : Rank(S, i) \in 0..Cardinality(S)
  BY Positions DEF Rank
<1>2. ASSUME NEW i \in S PROVE Rank(S, i) # 0
  <2>1. { j \in S : j <= i } # {}  OBVIOUS
  <2>2. IsFiniteSet({ j \in S : j <= i })  BY Positions
  <2> QED  BY <2>1, <2>2, FS_EmptySet DEF Rank
<1>3. Cardinality(S) \in Nat  BY Positions
<1> QED  BY <1>1, <1>2, <1>3

(* The positions between two others are counted in.                         *)
LEMMA RankAdds ==
    ASSUME NEW n \in Nat, NEW S, S \subseteq 1..n, NEW a \in Int, NEW b \in Int, a <= b
    PROVE  Rank(S, b) = Rank(S, a) + Cardinality(Within(S, a, b))
<1> DEFINE A == Upto(S, a)
           B == Within(S, a, b)
<1>1. A \cup B = Upto(S, b) /\ A \cap B = {}
  <2>1. \A j \in S : j \in Int  OBVIOUS
  <2>2. \A j \in S : j <= b <=> j <= a \/ (a < j /\ j <= b)  BY <2>1
  <2>3. \A j \in S : ~(j <= a /\ a < j)  BY <2>1
  <2> QED  BY <2>2, <2>3 DEF Upto, Within
<1>2. /\ IsFiniteSet(A) /\ IsFiniteSet(B)
      /\ Cardinality(A) \in Nat /\ Cardinality(B) \in Nat
  BY Positions DEF Upto, Within
<1>3. Cardinality(A \cup B) = Cardinality(A) + Cardinality(B) - Cardinality(A \cap B)
  BY <1>2, FS_Union
<1>4. Cardinality(A \cap B) = 0  BY <1>1, FS_EmptySet
<1>5. Cardinality(Upto(S, b)) = Cardinality(A) + Cardinality(B)
  BY <1>1, <1>2, <1>3, <1>4
<1> QED  BY <1>5 DEF Rank, Upto

LEMMA RankOrder ==
    ASSUME NEW n \in Nat, NEW S, S \subseteq 1..n, NEW i \in S, NEW j \in S
    PROVE  i < j <=> Rank(S, i) < Rank(S, j)
<1>1. ASSUME NEW a \in S, NEW b \in S, a < b PROVE Rank(S, a) < Rank(S, b)
  <2> DEFINE B == Within(S, a, b)
  <2>1. b \in B  BY <1>1 DEF Within
  <2>2. IsFiniteSet(B) /\ Cardinality(B) \in Nat  BY Positions DEF Within
  <2>3. Cardinality(B) # 0  BY <2>1, <2>2, FS_EmptySet
  <2>4. Rank(S, b) = Rank(S, a) + Cardinality(B)
    <3>1. a \in Int /\ b \in Int /\ a <= b  BY <1>1, RankType
    <3> QED  BY <3>1, RankAdds
  <2>5. Rank(S, a) \in Nat  BY RankType
  <2> QED  BY <2>2, <2>3, <2>4, <2>5
<1>2. i \in Int /\ j \in Int  OBVIOUS
<1>3. Rank(S, i) \in Nat /\ Rank(S, j) \in Nat  BY RankType
<1>4. i < j => Rank(S, i) < Rank(S, j)  BY <1>1
<1>5. j < i => Rank(S, j) < Rank(S, i)  BY <1>1
<1> QED  BY <1>2, <1>3, <1>4, <1>5

(* Every number up to the size is a rank.                                   *)
LEMMA RankOnto ==
    ASSUME NEW n \in Nat, NEW S, S \subseteq 1..n, NEW k \in 1..Cardinality(S)
    PROVE  \E i \in S : Rank(S, i) = k
<1> DEFINE f == [i \in S |-> Rank(S, i)]
           C == 1..Cardinality(S)
<1>1. Cardinality(S) \in Nat /\ IsFiniteSet(S)  BY Positions
<1>2. f \in [S -> C]  BY RankType
<1>3. \A i, j \in S : f[i] = f[j] => i = j
  <2> SUFFICES ASSUME NEW i \in S, NEW j \in S, i # j PROVE Rank(S, i) # Rank(S, j)  OBVIOUS
  <2>1. i < j \/ j < i  OBVIOUS
  <2>2. Rank(S, i) < Rank(S, j) \/ Rank(S, j) < Rank(S, i)  BY <2>1, RankOrder
  <2>3. Rank(S, i) \in Nat /\ Rank(S, j) \in Nat  BY RankType
  <2> QED  BY <2>2, <2>3
<1>4. IsFiniteSet(C) /\ Cardinality(C) = Cardinality(S)  BY <1>1, FS_Interval
<1>5. f \in Injection(S, C)  BY <1>2, <1>3 DEF Injection, IsInjective
<1> HIDE DEF f
<1>6. f \in Surjection(S, C)  BY <1>4, <1>5, FS_Injection
<1>7. \A t \in C : \E s \in S : f[s] = t  BY <1>6 DEF Surjection
<1> QED  BY <1>7 DEF f

(* The k-th position, and back.                                             *)
LEMMA NthRank ==
    ASSUME NEW n \in Nat, NEW S, S \subseteq 1..n
    PROVE  /\ \A k \in 1..Cardinality(S) : Nth(S, k) \in S /\ Rank(S, Nth(S, k)) = k
           /\ \A i \in S : Nth(S, Rank(S, i)) = i
<1>1. ASSUME NEW k \in 1..Cardinality(S) PROVE Nth(S, k) \in S /\ Rank(S, Nth(S, k)) = k
  <2>1. \E i \in S : Rank(S, i) = k  BY RankOnto
  <2> QED  BY <2>1 DEF Nth
<1>2. ASSUME NEW i \in S PROVE Nth(S, Rank(S, i)) = i
  <2> DEFINE j == Nth(S, Rank(S, i))
  <2>1. Rank(S, i) \in 1..Cardinality(S)  BY RankType
  <2>2. j \in S /\ Rank(S, j) = Rank(S, i)  BY <1>1, <2>1
  <2>3. ~(i < j) /\ ~(j < i)
    <3> HIDE DEF j
    <3>1. Rank(S, i) \in Nat  BY RankType
    <3>2. i < j <=> Rank(S, i) < Rank(S, j)  BY <2>2, RankOrder
    <3>3. j < i <=> Rank(S, j) < Rank(S, i)  BY <2>2, RankOrder
    <3> QED  BY <2>2, <3>1, <3>2, <3>3
  <2>4. i \in Nat /\ j \in Nat  BY <2>2, RankType
  <2> QED  BY <2>3, <2>4
<1> QED  BY <1>1, <1>2

Bounded(S) == \E n \in Nat : S \subseteq 1..n

\* L holds the positions of S after i, up to i + m, counted from i.
Stretch(L, m, S, i) ==
    /\ m \in Nat /\ L \subseteq 1..m
    /\ \A k \in 1..m : k \in L <=> i + k \in S

(* Positions that follow each other, counted in a stretch that starts after i. *)
LEMMA RankShift ==
    ASSUME NEW S, Bounded(S), NEW i \in Nat,
           NEW m, NEW L, Stretch(L, m, S, i),
           NEW k \in Nat, k <= m, NEW p \in Nat, p = i + k
    PROVE  Rank(S, p) = Rank(S, i) + Rank(L, k)
<1> DEFINE A == Upto(L, k)
           B == Within(S, i, i + k)
           f == [j \in A |-> i + j]
<1>0. m \in Nat /\ L \subseteq 1..m  BY DEF Stretch
<1>n. PICK n \in Nat : S \subseteq 1..n  BY DEF Bounded
<1>1. IsFiniteSet(A)  BY <1>0, Positions DEF Upto
<1>2. f \in [A -> B]
  <2> SUFFICES ASSUME NEW j \in A PROVE i + j \in B  OBVIOUS
  <2>1. j \in 1..m /\ j <= k /\ i + j \in S  BY <1>0 DEF Upto, Stretch
  <2> QED  BY <2>1 DEF Within
<1>3. \A x, y \in A : f[x] = f[y] => x = y  BY <1>0 DEF Upto
<1>4. \A y \in B : \E x \in A : f[x] = y
  <2> SUFFICES ASSUME NEW y \in B PROVE \E x \in A : f[x] = y  OBVIOUS
  <2>0. y \in S /\ i < y /\ y <= i + k  BY DEF Within
  <2>1. y - i \in 1..m /\ i + (y - i) = y /\ y - i <= k  BY <1>0, <1>n, <2>0
  <2>2. y - i \in A  BY <2>0, <2>1 DEF Upto, Stretch
  <2> QED  BY <2>1, <2>2
<1>5. ExistsBijection(A, B)
  <2>1. f \in Injection(A, B)  BY <1>2, <1>3 DEF Injection, IsInjective
  <2>2. f \in Surjection(A, B)  BY <1>2, <1>4 DEF Surjection
  <2> QED  BY <2>1, <2>2 DEF ExistsBijection, Bijection
<1>6. Cardinality(B) = Cardinality(A)  BY <1>1, <1>5, FS_Bijection
<1>7. Rank(S, i + k) = Rank(S, i) + Cardinality(B)
  <2>1. i \in Int /\ i + k \in Int /\ i <= i + k  OBVIOUS
  <2> HIDE DEF A, B, f
  <2> QED  BY <1>n, <2>1, RankAdds DEF B
<1> QED  BY <1>6, <1>7 DEF Rank, Upto

(* All positions up to k count.                                             *)
LEMMA RankAll ==
    ASSUME NEW m \in Nat, NEW k \in 0..m
    PROVE  Rank(1..m, k) = k
<1>1. { j \in 1..m : j <= k } = 1..k  OBVIOUS
<1>2. Cardinality(1..k) = k  BY FS_Interval
<1> QED  BY <1>1, <1>2 DEF Rank

-----------------------------------------------------------------------------
(* What is picked.                                                          *)

LEMMA PickProperties ==
    ASSUME NEW T, NEW s \in Seq(T), NEW S, S \subseteq DOMAIN s
    PROVE  /\ Pick(s, S) \in Seq(T) /\ Len(Pick(s, S)) = Cardinality(S)
           /\ Cardinality(S) \in Nat
           /\ \A k \in 1..Cardinality(S) : /\ Nth(S, k) \in S /\ Rank(S, Nth(S, k)) = k
                                           /\ Pick(s, S)[k] = s[Nth(S, k)]
           /\ \A i \in S : /\ Rank(S, i) \in 1..Cardinality(S)
                           /\ Pick(s, S)[Rank(S, i)] = s[i]
<1>1. Len(s) \in Nat /\ DOMAIN s = 1..Len(s)  OBVIOUS
<1>2. Cardinality(S) \in Nat  BY <1>1, Positions
<1>3. \A k \in 1..Cardinality(S) : Nth(S, k) \in S /\ Rank(S, Nth(S, k)) = k
  BY <1>1, NthRank
<1>4. \A i \in S : Rank(S, i) \in 1..Cardinality(S) /\ Nth(S, Rank(S, i)) = i
  BY <1>1, NthRank, RankType
<1>5. \A k \in 1..Cardinality(S) : s[Nth(S, k)] \in T  BY <1>1, <1>3
<1>6. /\ Pick(s, S) \in Seq(T) /\ Len(Pick(s, S)) = Cardinality(S)
      /\ \A k \in 1..Cardinality(S) : Pick(s, S)[k] = s[Nth(S, k)]
  BY <1>2, <1>5 DEF Pick
<1> QED  BY <1>2, <1>3, <1>4, <1>6

(* Who keeps every position keeps everything.                               *)
LEMMA PickAll ==
    ASSUME NEW T, NEW s \in Seq(T)
    PROVE  Pick(s, DOMAIN s) = s
<1>1. Len(s) \in Nat /\ DOMAIN s = 1..Len(s)  OBVIOUS
<1>2. Cardinality(DOMAIN s) = Len(s)  BY <1>1, FS_Interval
<1>3. \A k \in 1..Len(s) : Rank(DOMAIN s, k) = k  BY <1>1, RankAll
<1>4. \A k \in 1..Len(s) : Pick(s, DOMAIN s)[k] = s[k]  BY <1>1, <1>3, PickProperties
<1>5. Pick(s, DOMAIN s) \in Seq(T) /\ Len(Pick(s, DOMAIN s)) = Len(s)
  BY <1>2, PickProperties
<1> QED  BY <1>4, <1>5, SeqEqual


(* The positions from a on are a tail.                                      *)
LEMMA PickTail ==
    ASSUME NEW T, NEW s \in Seq(T), NEW a \in Nat, 1 <= a, a <= Len(s) + 1
    PROVE  Pick(s, a..Len(s)) = SubSeq(s, a, Len(s))
<1> DEFINE n == Len(s)
           S == a..n
<1>1. n \in Nat /\ DOMAIN s = 1..n /\ S \subseteq DOMAIN s  OBVIOUS
<1>2. Cardinality(S) = n - a + 1
  <2>1. a \in Int /\ n \in Int  BY <1>1
  <2>2. ~(a > n) \/ n - a + 1 = 0  BY <1>1
  <2> HIDE DEF n
  <2>3. Cardinality(a..n) = IF a > n THEN 0 ELSE n - a + 1  BY <2>1, FS_Interval
  <2>4. CASE a > n  BY <2>2, <2>3, <2>4
  <2>5. CASE ~(a > n)  BY <2>3, <2>5
  <2> QED  BY <2>4, <2>5
<1>3. ASSUME NEW k \in 1..(n - a + 1) PROVE Nth(S, k) = a + k - 1
  <2> DEFINE i == a + k - 1
  <2>1. i \in S /\ i \in Nat  BY <1>1
  <2>2. { j \in S : j <= i } = a..i  BY <1>1, <2>1
  <2>3. Rank(S, i) = k
    <3>1. a \in Int /\ i \in Int /\ a <= i /\ i - a + 1 = k  BY <1>1
    <3> HIDE DEF i, S
    <3>2. Cardinality(a..i) = k  BY <3>1, FS_Interval
    <3> QED  BY <2>2, <3>2 DEF Rank
  <2>4. Nth(S, Rank(S, i)) = i
    <3> HIDE DEF i, S
    <3> QED  BY <1>1, <2>1, NthRank
  <2> QED  BY <2>3, <2>4
<1>4. ASSUME NEW k \in 1..(n - a + 1) PROVE Pick(s, S)[k] = SubSeq(s, a, n)[k]
  <2>1. SubSeq(s, a, n)[k] = s[a + k - 1]  BY <1>1
  <2> HIDE DEF S, n
  <2>2. Pick(s, S)[k] = s[Nth(S, k)]  BY <1>2 DEF Pick
  <2> QED  BY <1>3, <2>1, <2>2
<1>5. Pick(s, S) \in Seq(T) /\ Len(Pick(s, S)) = n - a + 1
  <2> HIDE DEF S, n
  <2> QED  BY <1>1, <1>2, PickProperties
<1>6. SubSeq(s, a, n) \in Seq(T) /\ Len(SubSeq(s, a, n)) = n - a + 1  BY <1>1
<1> HIDE DEF S, n
<1> QED  BY <1>4, <1>5, <1>6, SeqEqual DEF S, n
=============================================================================
