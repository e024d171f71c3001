----------------------------- MODULE UtHash_proofs -----------------------------
(***************************************************************************)
(* Proofs about UtHash, for every hash function, every initial number of   *)
(* buckets, every threshold and any number of keys.                        *)
(***************************************************************************)
EXTENDS UtHash, FiniteSets, FiniteSetTheorems, SequenceTheorems, WellFoundedInduction, TLAPS

(* Induction over the naturals, as a fact about sets.                      *)
LEMMA Induction ==
  ASSUME NEW S, 0 \in S, \A n \in Nat : n \in S => n + 1 \in S
  PROVE  Nat \subseteq S
<1>. SUFFICES ASSUME Nat \ S # {}
              PROVE  FALSE
  OBVIOUS
<1>1. PICK x \in Nat \ S : \A y \in Nat \ S : ~ (<<y, x>> \in OpToRel(<, Nat))
  BY NatLessThanWellFounded, WFMin
<1>2. \A y \in Nat \ S : ~ (y < x)
  BY <1>1 DEF OpToRel
<1>3. x # 0 /\ x - 1 \in Nat
  OBVIOUS
<1>. QED
  BY <1>2, <1>3

-------------------------------------------------------------------------------
\* Powers of two.

(* TwoTo as far as k. *)
IsTwoTo(f, k) == f = [i \in 0 .. k |-> IF i = 0 THEN 1 ELSE 2 * f[i - 1]]

LEMMA TwoToExists ==
  ASSUME NEW k \in Nat
  PROVE  \E f : IsTwoTo(f, k)
<1>. DEFINE S == {j \in Nat : \E f : IsTwoTo(f, j)}
<1>1. 0 \in S
  <2>1. IsTwoTo([i \in 0 .. 0 |-> 1], 0)
    BY DEF IsTwoTo
  <2>. QED
    BY <2>1
<1>2. ASSUME NEW j \in Nat, j \in S
      PROVE  j + 1 \in S
  <2>1. PICK f : IsTwoTo(f, j)
    BY <1>2
  <2>. DEFINE g == [i \in 0 .. j + 1 |-> IF i = 0 THEN 1 ELSE 2 * f[i - 1]]
  <2>2. \A i \in 0 .. j : g[i] = f[i]
    BY <2>1 DEF IsTwoTo
  <2>3. \A i \in 0 .. j + 1 : i # 0 => i - 1 \in 0 .. j
    OBVIOUS
  <2>4. IsTwoTo(g, j + 1)
    BY <2>2, <2>3 DEF IsTwoTo
  <2>. QED
    BY <2>4
<1>. HIDE DEF S
<1>3. k \in S
  BY <1>1, <1>2, Induction
<1>. QED
  BY <1>3 DEF S

LEMMA TwoToUnique ==
  ASSUME NEW j \in Nat, NEW k \in Nat, NEW f, NEW g, IsTwoTo(f, j), IsTwoTo(g, k),
         NEW i \in Nat, i <= j, i <= k
  PROVE  f[i] = g[i]
<1>. DEFINE S == {h \in Nat : h <= j /\ h <= k => f[h] = g[h]}
<1>1. 0 \in S
  BY DEF IsTwoTo
<1>2. ASSUME NEW h \in Nat, h \in S
      PROVE  h + 1 \in S
  BY <1>2 DEF IsTwoTo
<1>. HIDE DEF S
<1>3. i \in S
  BY <1>1, <1>2, Induction
<1>. QED
  BY <1>3 DEF S

(* The equation that TwoTo is defined with has a solution.                 *)
LEMMA TwoToEq ==
  TwoTo = [n \in Nat |-> IF n = 0 THEN 1 ELSE 2 * TwoTo[n - 1]]
<1>. DEFINE upto(n) == CHOOSE f : IsTwoTo(f, n)
            g == [n \in Nat |-> upto(n)[n]]
<1>1. \A n \in Nat : IsTwoTo(upto(n), n)
  BY TwoToExists
<1>2. ASSUME NEW n \in Nat
      PROVE  g[n] = IF n = 0 THEN 1 ELSE 2 * g[n - 1]
  <2>. HIDE DEF upto
  <2>1. upto(n)[n] = IF n = 0 THEN 1 ELSE 2 * upto(n)[n - 1]
    BY <1>1 DEF IsTwoTo
  <2>2. CASE n = 0
    BY <2>1, <2>2
  <2>3. CASE n # 0
    <3>1. n - 1 \in Nat /\ n - 1 <= n
      BY <2>3
    <3>2. upto(n)[n - 1] = upto(n - 1)[n - 1]
      BY <1>1, <3>1, TwoToUnique
    <3>. QED
      BY <2>1, <2>3, <3>1, <3>2
  <2>. QED
    BY <2>2, <2>3
<1>3. g = [n \in Nat |-> g[n]]
  OBVIOUS
<1>. HIDE DEF g
<1>4. g = [n \in Nat |-> IF n = 0 THEN 1 ELSE 2 * g[n - 1]]
  BY <1>2, <1>3
<1>. QED
  BY <1>4 DEF TwoTo

LEMMA TwoToNext ==
  /\ TwoTo[0] = 1
  /\ \A n \in Nat : TwoTo[n + 1] = 2 * TwoTo[n]
  /\ \A n \in Nat : TwoTo[n] \in Nat \ {0}
<1>1. TwoTo[0] = 1 /\ \A n \in Nat : TwoTo[n + 1] = 2 * TwoTo[n]
  BY TwoToEq
<1>. DEFINE S == {n \in Nat : TwoTo[n] \in Nat \ {0}}
<1>2. 0 \in S /\ \A n \in Nat : n \in S => n + 1 \in S
  BY <1>1
<1>. HIDE DEF S
<1>3. Nat \subseteq S
  BY <1>2, Induction
<1>. QED
  BY <1>1, <1>3 DEF S

-------------------------------------------------------------------------------
\* Folds, which are functions on the subsets of a finite set: a step takes one
\* element away, the one that c chooses, and combines it with what the rest gives.

Chooses(c, S) == \A s \in SUBSET S : s # {} => c[s] \in s

Steps(f, S, c, V, base, step) ==
  /\ f[{}] = base
  /\ \A s \in SUBSET S : s # {} /\ f[s \ {c[s]}] \in V => f[s] = step[<<c[s], f[s \ {c[s]}]>>]

Agree(f, g, T, V) == \A s \in SUBSET T : f[s] = g[s] /\ f[s] \in V

LEMMA TakeAway ==
  ASSUME NEW S, IsFiniteSet(S), NEW s \in SUBSET S, NEW x \in s
  PROVE  /\ IsFiniteSet(s) /\ Cardinality(s) \in Nat
         /\ s \ {x} \in SUBSET S /\ Cardinality(s \ {x}) = Cardinality(s) - 1
         /\ Cardinality(s \ {x}) \in Nat
<1>1. IsFiniteSet(s) /\ IsFiniteSet(s \ {x})
  BY FS_Subset
<1>. QED
  BY <1>1, FS_RemoveElement, FS_CardinalityType

LEMMA FoldExists ==
  ASSUME NEW S, IsFiniteSet(S), NEW c, Chooses(c, S),
         NEW V, NEW base \in V, NEW step \in [S \X V -> V]
  PROVE  \E f \in [SUBSET S -> V] : Steps(f, S, c, V, base, step)
<1>. DEFINE Upto(f, k) == /\ f \in [SUBSET S -> V] /\ f[{}] = base
                          /\ \A s \in SUBSET S : s # {} /\ Cardinality(s) <= k
                                => f[s] = step[<<c[s], f[s \ {c[s]}]>>]
            K == {k \in Nat : \E f : Upto(f, k)}
<1>0. \A s \in SUBSET S : IsFiniteSet(s) /\ Cardinality(s) \in Nat /\ (Cardinality(s) = 0 => s = {})
  BY FS_Subset, FS_CardinalityType, FS_EmptySet
<1>1. 0 \in K
  <2>1. Upto([s \in SUBSET S |-> base], 0)
    BY <1>0
  <2>. QED
    BY <2>1
<1>2. ASSUME NEW k \in Nat, k \in K
      PROVE  k + 1 \in K
  <2>1. PICK f : Upto(f, k)
    BY <1>2
  <2>. DEFINE g == [s \in SUBSET S |-> IF s = {} \/ Cardinality(s) <= k
                                         THEN f[s] ELSE step[<<c[s], f[s \ {c[s]}]>>]]
  <2>2. ASSUME NEW s \in SUBSET S, s # {}
        PROVE  /\ c[s] \in S /\ s \ {c[s]} \in SUBSET S
               /\ Cardinality(s) \in Nat /\ Cardinality(s \ {c[s]}) = Cardinality(s) - 1
    BY <2>2, TakeAway DEF Chooses
  <2>3. \A s \in SUBSET S : s # {} => step[<<c[s], f[s \ {c[s]}]>>] \in V
    BY <2>1, <2>2
  <2>4. g \in [SUBSET S -> V] /\ g[{}] = base
    BY <2>1, <2>3
  <2>5. ASSUME NEW s \in SUBSET S, s # {}, Cardinality(s) <= k + 1
        PROVE  g[s] = step[<<c[s], g[s \ {c[s]}]>>]
    <3>1. g[s \ {c[s]}] = f[s \ {c[s]}]
      BY <2>2, <2>5
    <3>2. g[s] = step[<<c[s], f[s \ {c[s]}]>>]
      BY <2>1, <2>5
    <3>. QED
      BY <3>1, <3>2
  <2>. HIDE DEF g
  <2>6. Upto(g, k + 1)
    BY <2>4, <2>5
  <2>. HIDE DEF Upto
  <2>. QED
    BY <2>6
<1>3. Cardinality(S) \in K
  <2>. HIDE DEF K
  <2>. QED
    BY <1>0, <1>1, <1>2, Induction
<1>4. PICK f : Upto(f, Cardinality(S))
  BY <1>3
<1>5. \A s \in SUBSET S : Cardinality(s) <= Cardinality(S)
  BY FS_Subset
<1>. QED
  BY <1>4, <1>5 DEF Steps

(* Two folds agree on the sets that both are about.                        *)
LEMMA FoldUnique ==
  ASSUME NEW S, IsFiniteSet(S), NEW c, Chooses(c, S),
         NEW V, NEW base \in V, NEW step \in [S \X V -> V], NEW T \in SUBSET S,
         NEW f, Steps(f, S, c, V, base, step), NEW g, Steps(g, T, c, V, base, step)
  PROVE  Agree(f, g, T, V)
<1>. DEFINE K == {k \in Nat : \A s \in SUBSET T : Cardinality(s) <= k => f[s] = g[s] /\ f[s] \in V}
<1>0. \A s \in SUBSET T : IsFiniteSet(s) /\ Cardinality(s) \in Nat /\ (Cardinality(s) = 0 => s = {})
  BY FS_Subset, FS_CardinalityType, FS_EmptySet
<1>a. f[{}] = g[{}] /\ f[{}] \in V
  BY DEF Steps
<1>1. 0 \in K
  <2>1. \A s \in SUBSET T : Cardinality(s) <= 0 => s = {}
    BY <1>0
  <2>2. \A s \in SUBSET T : Cardinality(s) <= 0 => f[s] = g[s] /\ f[s] \in V
    BY <1>a, <2>1, Zenon
  <2>. QED
    BY <2>2
<1>2. ASSUME NEW k \in Nat, k \in K
      PROVE  k + 1 \in K
  <2>. SUFFICES ASSUME NEW s \in SUBSET T, s # {}, Cardinality(s) <= k + 1
                PROVE  f[s] = g[s] /\ f[s] \in V
    <3>1. ASSUME NEW s \in SUBSET T, Cardinality(s) <= k + 1
          PROVE  f[s] = g[s] /\ f[s] \in V
      BY <1>a, <3>1, Zenon
    <3>. QED
      BY <3>1
  <2>1. /\ c[s] \in S /\ s \ {c[s]} \in SUBSET T /\ s \in SUBSET S
        /\ Cardinality(s) \in Nat /\ Cardinality(s \ {c[s]}) = Cardinality(s) - 1
    BY TakeAway DEF Chooses
  <2>2. f[s \ {c[s]}] = g[s \ {c[s]}] /\ f[s \ {c[s]}] \in V
    BY <1>2, <2>1
  <2>3. f[s] = step[<<c[s], f[s \ {c[s]}]>>] /\ g[s] = step[<<c[s], f[s \ {c[s]}]>>]
    BY <2>1, <2>2 DEF Steps
  <2>. QED
    BY <2>1, <2>2, <2>3
<1>3. ASSUME NEW s \in SUBSET T
      PROVE  f[s] = g[s] /\ f[s] \in V
  <2>1. Cardinality(s) \in K
    <3>. HIDE DEF K
    <3>. QED
      BY <1>0, <1>1, <1>2, Induction
  <2>. QED
    BY <1>0, <2>1
<1>. QED
  BY <1>3 DEF Agree

-------------------------------------------------------------------------------
\* Sums.

Total(m, S) == SumFunctionOnSet(m, S)

OneOf(s) == CHOOSE x \in s : TRUE
Chosen(S) == [s \in SUBSET S |-> OneOf(s)]
Plus(m, S) == [p \in S \X Int |-> m[p[1]] + p[2]]
Solves(f, m, S) ==
  f = [s \in SUBSET S |-> IF s = {} THEN 0 ELSE m[OneOf(s)] + f[s \ {OneOf(s)}]]

LEMMA ChosenPlus ==
  ASSUME NEW S, NEW m, \A x \in S : m[x] \in Int
  PROVE  /\ Chooses(Chosen(S), S)
         /\ Plus(m, S) \in [S \X Int -> Int]
  BY DEF Chooses, Chosen, OneOf, Plus

LEMMA SumIsFold ==
  ASSUME NEW S, IsFiniteSet(S), NEW m, \A x \in S : m[x] \in Int
  PROVE  \E f : Steps(f, S, Chosen(S), Int, 0, Plus(m, S)) /\ Total(m, S) = f[S]
<1>1. Chooses(Chosen(S), S)
  BY ChosenPlus
<1>2. Plus(m, S) \in [S \X Int -> Int]
  BY ChosenPlus
<1>3. \E f : Solves(f, m, S)
  <2>1. PICK f \in [SUBSET S -> Int] : Steps(f, S, Chosen(S), Int, 0, Plus(m, S))
    <3>1. 0 \in Int
      OBVIOUS
    <3>. QED
      BY <1>1, <1>2, <3>1, FoldExists, Zenon
  <2>2. ASSUME NEW s \in SUBSET S, s # {}
        PROVE  f[s] = m[OneOf(s)] + f[s \ {OneOf(s)}]
    <3>1. Chosen(S)[s] = OneOf(s) /\ Chosen(S)[s] \in S
      BY <1>1, <2>2 DEF Chooses, Chosen
    <3>2. f[s \ {Chosen(S)[s]}] \in Int
      OBVIOUS
    <3>3. f[s] = Plus(m, S)[<<Chosen(S)[s], f[s \ {Chosen(S)[s]}]>>]
      BY <2>1, <2>2, <3>2 DEF Steps
    <3>4. f[s] = m[Chosen(S)[s]] + f[s \ {Chosen(S)[s]}]
      BY <3>1, <3>2, <3>3 DEF Plus
    <3>. QED
      BY <3>1, <3>4
  <2>3. f[{}] = 0
    BY <2>1 DEF Steps
  <2>4. f = [s \in SUBSET S |-> f[s]]
    OBVIOUS
  <2>5. Solves(f, m, S)
    BY <2>2, <2>3, <2>4 DEF Solves
  <2>. QED
    BY <2>5
<1>4. PICK f : Solves(f, m, S) /\ Total(m, S) = f[S]
  <2>1. Total(m, S) = (CHOOSE f : Solves(f, m, S))[S]
    BY DEF Total, SumFunctionOnSet, FoldFunctionOnSet, MapThenFoldSet, Solves, OneOf
  <2>. QED
    BY <1>3, <2>1
<1>5. Steps(f, S, Chosen(S), Int, 0, Plus(m, S))
  <2>1. f[{}] = 0
    BY <1>4 DEF Solves
  <2>2. ASSUME NEW s \in SUBSET S, s # {}, f[s \ {Chosen(S)[s]}] \in Int
        PROVE  f[s] = Plus(m, S)[<<Chosen(S)[s], f[s \ {Chosen(S)[s]}]>>]
    <3>1. Chosen(S)[s] = OneOf(s) /\ Chosen(S)[s] \in S
      BY <1>1, <2>2 DEF Chooses, Chosen
    <3>2. f[s] = m[OneOf(s)] + f[s \ {OneOf(s)}]
      BY <1>4, <2>2 DEF Solves
    <3>. QED
      BY <2>2, <3>1, <3>2 DEF Plus
  <2>. QED
    BY <2>1, <2>2 DEF Steps
<1>. QED
  BY <1>4, <1>5

(* The sum over a set, by the element that is taken first.                 *)
LEMMA SumStep ==
  ASSUME NEW S, IsFiniteSet(S), NEW m, \A x \in S : m[x] \in Int
  PROVE  /\ Total(m, S) \in Int
         /\ S = {} => Total(m, S) = 0
         /\ S # {} => \E x \in S : Total(m, S) = m[x] + Total(m, S \ {x})
<1>. DEFINE c == Chosen(S)
            step == Plus(m, S)
<1>1. Chooses(c, S) /\ step \in [S \X Int -> Int]
  BY ChosenPlus
<1>2. PICK f : Steps(f, S, c, Int, 0, step) /\ Total(m, S) = f[S]
  BY SumIsFold, Zenon
<1>3. ASSUME NEW T \in SUBSET S
      PROVE  Total(m, T) = f[T] /\ f[T] \in Int
  <2>1. IsFiniteSet(T) /\ \A x \in T : m[x] \in Int
    BY FS_Subset
  <2>2. PICK g : Steps(g, T, Chosen(T), Int, 0, Plus(m, T)) /\ Total(m, T) = g[T]
    BY <2>1, SumIsFold, Zenon
  <2>3. Steps(g, T, c, Int, 0, step)
    <3>1. g[{}] = 0
      BY <2>2 DEF Steps
    <3>2. ASSUME NEW s \in SUBSET T, s # {}, g[s \ {c[s]}] \in Int
          PROVE  g[s] = step[<<c[s], g[s \ {c[s]}]>>]
      <4>1. Chosen(T)[s] = c[s] /\ c[s] \in T /\ c[s] \in S
        BY <1>1, <3>2 DEF Chooses, Chosen
      <4>2. g[s] = Plus(m, T)[<<c[s], g[s \ {c[s]}]>>]
        BY <2>2, <3>2, <4>1 DEF Steps
      <4>. QED
        BY <3>2, <4>1, <4>2 DEF Plus
    <3>. QED
      BY <3>1, <3>2 DEF Steps
  <2>. HIDE DEF c, step
  <2>4. 0 \in Int
    OBVIOUS
  <2>5. \A s \in SUBSET T : f[s] = g[s] /\ f[s] \in Int
    <3>1. Chooses(c, S)
      BY <1>1
    <3>2. step \in [S \X Int -> Int]
      BY <1>1
    <3>3. Steps(f, S, c, Int, 0, step)
      BY <1>2
    <3>4. Agree(f, g, T, Int)
      BY <2>3, <2>4, <3>1, <3>2, <3>3, FoldUnique, Zenon
    <3>. QED
      BY <3>4 DEF Agree
  <2>. QED
    BY <2>2, <2>5
<1>4. f[{}] = 0
  BY <1>2 DEF Steps
<1>5. ASSUME S # {}
      PROVE  \E x \in S : Total(m, S) = m[x] + Total(m, S \ {x})
  <2>1. c[S] \in S /\ S \ {c[S]} \in SUBSET S
    BY <1>1, <1>5 DEF Chooses
  <2>2. Total(m, S \ {c[S]}) = f[S \ {c[S]}] /\ f[S \ {c[S]}] \in Int
    BY <1>3, <2>1
  <2>3. f[S] = step[<<c[S], f[S \ {c[S]}]>>]
    BY <1>2, <1>5, <2>2 DEF Steps
  <2>4. f[S] = m[c[S]] + f[S \ {c[S]}]
    BY <2>1, <2>2, <2>3 DEF Plus
  <2>. HIDE DEF c, step
  <2>. QED
    BY <1>2, <2>1, <2>2, <2>4
<1>. QED
  BY <1>2, <1>3, <1>4, <1>5

(* The order does not matter: any element may be taken first.              *)
LEMMA SumTakeOut ==
  ASSUME NEW S, IsFiniteSet(S), NEW m, \A x \in S : m[x] \in Int, NEW y \in S
  PROVE  Total(m, S) = m[y] + Total(m, S \ {y})
<1>. DEFINE K == {k \in Nat : \A s \in SUBSET S : \A x \in s : Cardinality(s) <= k
                                => Total(m, s) = m[x] + Total(m, s \ {x})}
<1>0. \A s \in SUBSET S : IsFiniteSet(s) /\ Cardinality(s) \in Nat /\ (Cardinality(s) = 0 => s = {})
  BY FS_Subset, FS_CardinalityType, FS_EmptySet
<1>1. 0 \in K
  <2>1. \A s \in SUBSET S : Cardinality(s) <= 0 => s = {}
    BY <1>0
  <2>. QED
    BY <2>1
<1>2. ASSUME NEW k \in Nat, k \in K
      PROVE  k + 1 \in K
  <2>1. ASSUME NEW s \in SUBSET S, NEW x \in s, Cardinality(s) <= k + 1
        PROVE  Total(m, s) = m[x] + Total(m, s \ {x})
    <3>1. IsFiniteSet(s) /\ \A z \in s : m[z] \in Int
      BY <1>0
    <3>2. PICK z \in s : Total(m, s) = m[z] + Total(m, s \ {z})
      BY <3>1, SumStep
    <3>3. CASE z = x
      BY <3>2, <3>3
    <3>4. CASE z # x
      <4>1. /\ s \ {z} \in SUBSET S /\ x \in s \ {z} /\ Cardinality(s \ {z}) <= k
            /\ s \ {x} \in SUBSET S /\ z \in s \ {x} /\ Cardinality(s \ {x}) <= k
        BY <2>1, <3>4, TakeAway
      <4>2. Total(m, s \ {z}) = m[x] + Total(m, (s \ {z}) \ {x})
        BY <1>2, <4>1
      <4>3. Total(m, s \ {x}) = m[z] + Total(m, (s \ {x}) \ {z})
        BY <1>2, <4>1
      <4>4. (s \ {z}) \ {x} = (s \ {x}) \ {z}
        OBVIOUS
      <4>5. Total(m, (s \ {x}) \ {z}) \in Int
        <5>1. (s \ {x}) \ {z} \in SUBSET S
          OBVIOUS
        <5>. QED
          BY <1>0, <5>1, SumStep
      <4>6. m[x] \in Int /\ m[z] \in Int
        OBVIOUS
      <4>. DEFINE rest == Total(m, (s \ {x}) \ {z})
      <4>7. Total(m, s) = m[z] + (m[x] + rest) /\ Total(m, s \ {x}) = m[z] + rest
        BY <3>2, <4>2, <4>3, <4>4
      <4>8. rest \in Int
        BY <4>5
      <4>. HIDE DEF rest
      <4>. QED
        BY <4>6, <4>7, <4>8
    <3>. QED
      BY <3>3, <3>4
  <2>. QED
    BY <2>1
<1>3. Cardinality(S) \in K
  <2>. HIDE DEF K
  <2>. QED
    BY <1>0, <1>1, <1>2, Induction
<1>. QED
  BY <1>3

-------------------------------------------------------------------------------
\* Sums over the first so many buckets.

Upto(m, k) == Total(m, 0 .. k - 1)

Sums(m, n) ==
  /\ Upto(m, 0) = 0
  /\ \A k \in 0 .. n : Upto(m, k) \in Int
  /\ \A k \in 0 .. n - 1 : Upto(m, k + 1) = Upto(m, k) + m[k]

LEMMA UptoNext ==
  ASSUME NEW n \in Nat, NEW m \in [0 .. n - 1 -> Nat]
  PROVE  Sums(m, n)
<1>1. Upto(m, 0) = 0
  <2>1. 0 .. 0 - 1 = {} /\ IsFiniteSet({})
    BY FS_EmptySet
  <2>2. \A b \in {} : m[b] \in Int
    OBVIOUS
  <2>. QED
    BY <2>1, <2>2, SumStep DEF Upto
<1>2. ASSUME NEW k \in 0 .. n
      PROVE  IsFiniteSet(0 .. k - 1) /\ \A b \in 0 .. k - 1 : m[b] \in Int
  BY FS_Interval
<1>3. ASSUME NEW k \in 0 .. n
      PROVE  Upto(m, k) \in Int
  BY <1>2, SumStep DEF Upto
<1>4. ASSUME NEW k \in 0 .. n - 1
      PROVE  Upto(m, k + 1) = Upto(m, k) + m[k]
  <2>. DEFINE S == 0 .. (k + 1) - 1
  <2>1. k \in S /\ S \ {k} = 0 .. k - 1 /\ k + 1 \in 0 .. n /\ k \in 0 .. n
    OBVIOUS
  <2>2. IsFiniteSet(S) /\ \A b \in S : m[b] \in Int
    BY <1>2, <2>1
  <2>. HIDE DEF S
  <2>3. Total(m, S) = m[k] + Total(m, S \ {k})
    BY <2>1, <2>2, SumTakeOut
  <2>4. Total(m, S) = m[k] + Upto(m, k)
    BY <2>1, <2>3 DEF Upto
  <2>5. Upto(m, k) \in Int /\ m[k] \in Int
    BY <1>3, <2>1
  <2>. QED
    BY <2>4, <2>5 DEF Upto, S
<1>. QED
  BY <1>1, <1>3, <1>4 DEF Sums

LEMMA SumIsUpto ==
  ASSUME NEW n \in Nat, NEW m, DOMAIN m = 0 .. n - 1
  PROVE  SumFunction(m) = Upto(m, n)
BY DEF SumFunction, FoldFunction, SumFunctionOnSet, Upto, Total

LEMMA SumOfNat ==
  ASSUME NEW n \in Nat, NEW m \in [0 .. n - 1 -> Nat]
  PROVE  SumFunction(m) \in Nat
<1>. DEFINE K == {k \in Nat : k <= n => Upto(m, k) \in Nat}
<1>0. Sums(m, n)
  BY UptoNext
<1>1. 0 \in K
  BY <1>0 DEF Sums
<1>2. ASSUME NEW k \in Nat, k \in K
      PROVE  k + 1 \in K
  BY <1>0, <1>2 DEF Sums
<1>. HIDE DEF K
<1>3. n \in K
  BY <1>1, <1>2, Induction
<1>. QED
  BY <1>3, SumIsUpto DEF K

(* Nothing anywhere.                                                       *)
LEMMA SumOfZeros ==
  ASSUME NEW n \in Nat, NEW m \in [0 .. n - 1 -> Nat], \A b \in 0 .. n - 1 : m[b] = 0
  PROVE  SumFunction(m) = 0
<1>. DEFINE K == {k \in Nat : k <= n => Upto(m, k) = 0}
<1>0. Sums(m, n)
  BY UptoNext
<1>1. 0 \in K
  BY <1>0 DEF Sums
<1>2. ASSUME NEW k \in Nat, k \in K
      PROVE  k + 1 \in K
  BY <1>0, <1>2 DEF Sums
<1>. HIDE DEF K
<1>3. n \in K
  BY <1>1, <1>2, Induction
<1>. QED
  BY <1>3, SumIsUpto DEF K

(* One more in one place.                                                  *)
LEMMA SumOneMore ==
  ASSUME NEW n \in Nat, NEW m \in [0 .. n - 1 -> Nat], NEW x \in 0 .. n - 1,
         NEW l \in [0 .. n - 1 -> Nat], l[x] = m[x] + 1, \A b \in 0 .. n - 1 : b # x => l[b] = m[b]
  PROVE  SumFunction(l) = SumFunction(m) + 1
<1>. DEFINE K == {k \in Nat : k <= n => Upto(l, k) = Upto(m, k) + (IF x < k THEN 1 ELSE 0)}
<1>m. Sums(m, n)
  BY UptoNext
<1>l. Sums(l, n)
  BY UptoNext
<1>1. 0 \in K
  BY <1>m, <1>l DEF Sums
<1>2. ASSUME NEW k \in Nat, k \in K, k + 1 <= n
      PROVE  Upto(l, k + 1) = Upto(m, k + 1) + (IF x < k + 1 THEN 1 ELSE 0)
  <2>1. Upto(m, k + 1) = Upto(m, k) + m[k] /\ Upto(l, k + 1) = Upto(l, k) + l[k]
    <3>1. k \in 0 .. n - 1
      BY <1>2
    <3>. QED
      BY <1>m, <1>l, <3>1 DEF Sums
  <2>2. k \in 0 .. n - 1 /\ m[k] \in Nat /\ l[k] = m[k] + (IF x = k THEN 1 ELSE 0)
    BY <1>2
  <2>3. Upto(m, k) \in Int
    BY <1>2, <1>m DEF Sums
  <2>. QED
    BY <1>2, <2>1, <2>2, <2>3
<1>3. n \in K
  <2>1. \A k \in Nat : k \in K => k + 1 \in K
    BY <1>2
  <2>. HIDE DEF K
  <2>. QED
    BY <1>1, <2>1, Induction
<1>. QED
  BY <1>3, SumIsUpto

(* Each place split in two, n apart.                                       *)
LEMMA SumOfHalves ==
  ASSUME NEW n \in Nat, NEW m \in [0 .. n - 1 -> Nat], NEW l \in [0 .. 2 * n - 1 -> Nat],
         \A b \in 0 .. n - 1 : l[b] + l[b + n] = m[b]
  PROVE  SumFunction(l) = SumFunction(m)
<1>. DEFINE K == {k \in Nat : k <= n => Upto(l, k) + Upto(l, n + k) - Upto(l, n) = Upto(m, k)}
<1>m. Sums(m, n)
  BY UptoNext
<1>0. 2 * n \in Nat
  OBVIOUS
<1>l. Sums(l, 2 * n)
  BY <1>0, UptoNext
<1>1. 0 \in K
  BY <1>m, <1>l DEF Sums
<1>2. ASSUME NEW k \in Nat, k \in K, k + 1 <= n
      PROVE  Upto(l, k + 1) + Upto(l, n + (k + 1)) - Upto(l, n) = Upto(m, k + 1)
  <2>1. Upto(m, k + 1) = Upto(m, k) + m[k] /\ Upto(l, k + 1) = Upto(l, k) + l[k]
    BY <1>2, <1>m, <1>l DEF Sums
  <2>2. Upto(l, n + (k + 1)) = Upto(l, n + k) + l[k + n]
    <3>1. n + k \in 0 .. 2 * n - 1 /\ n + (k + 1) = (n + k) + 1 /\ n + k = k + n
      BY <1>2
    <3>. QED
      BY <1>l, <3>1 DEF Sums
  <2>3. /\ m[k] = l[k] + l[k + n] /\ l[k] \in Nat /\ l[k + n] \in Nat /\ Upto(m, k) \in Int
        /\ Upto(l, k) \in Int /\ Upto(l, n + k) \in Int /\ Upto(l, n) \in Int
    BY <1>2, <1>m, <1>l DEF Sums
  <2>4. Upto(l, k) + Upto(l, n + k) - Upto(l, n) = Upto(m, k)
    BY <1>2
  <2>. DEFINE first == Upto(l, k)
              both == Upto(l, n + k)
              half == Upto(l, n)
              whole == Upto(m, k)
              low == l[k]
              high == l[k + n]
  <2>5. (first + low) + (both + high) - half = whole + (low + high)
    <3>1. first + both - half = whole /\ first \in Int /\ both \in Int /\ half \in Int /\ whole \in Int
      BY <2>3, <2>4
    <3>2. low \in Int /\ high \in Int
      BY <2>3
    <3>. HIDE DEF first, both, half, whole, low, high
    <3>. QED
      BY <3>1, <3>2
  <2>. QED
    BY <2>1, <2>2, <2>3, <2>5
<1>3. n \in K
  <2>1. \A k \in Nat : k \in K => k + 1 \in K
    BY <1>2
  <2>. HIDE DEF K
  <2>. QED
    BY <1>1, <2>1, Induction
<1>4. n + n = 2 * n /\ Upto(l, n) \in Int /\ Upto(l, n + n) \in Int /\ 2 * n \in Nat
  BY <1>l DEF Sums
<1>5. Upto(l, n + n) = Upto(m, n)
  BY <1>3, <1>4
<1>6. SumFunction(l) = Upto(l, 2 * n) /\ SumFunction(m) = Upto(m, n)
  BY <1>4, SumIsUpto
<1>. QED
  BY <1>4, <1>5, <1>6

LEMMA Distribute ==
  ASSUME NEW a \in Int, NEW b \in Int, NEW t \in Int
  PROVE  (a + b) * t = a * t + b * t
OBVIOUS

LEMMA TimesMore ==
  ASSUME NEW c \in Nat, NEW a \in Int, NEW b \in Int, a <= b
  PROVE  c * a <= c * b /\ c * a \in Int /\ c * b \in Int
OBVIOUS

(* Limits in proportion add up, and one that is not reached tells.         *)
LEMMA SumWithin ==
  ASSUME NEW n \in Nat, NEW m \in [0 .. n - 1 -> Nat], NEW l \in [0 .. n - 1 -> Nat], NEW t \in Nat,
         \A b \in 0 .. n - 1 : m[b] <= (l[b] + 1) * t /\ (l[b] > 0 => m[b] < (l[b] + 1) * t)
  PROVE  /\ SumFunction(m) <= (SumFunction(l) + n) * t
         /\ SumFunction(l) > 0 => SumFunction(m) < (SumFunction(l) + n) * t
<1>. DEFINE P(k) == /\ Upto(m, k) <= (Upto(l, k) + k) * t /\ Upto(l, k) >= 0
                    /\ Upto(l, k) > 0 => Upto(m, k) < (Upto(l, k) + k) * t
            K == {k \in Nat : k <= n => P(k)}
<1>s. Sums(m, n) /\ Sums(l, n)
  BY UptoNext
<1>1. 0 \in K
  BY <1>s DEF Sums
<1>2. ASSUME NEW k \in Nat, k \in K, k + 1 <= n
      PROVE  P(k + 1)
  <2>1. k \in 0 .. n - 1 /\ k \in 0 .. n
    BY <1>2
  <2>2. Upto(m, k + 1) = Upto(m, k) + m[k] /\ Upto(l, k + 1) = Upto(l, k) + l[k]
    BY <1>s, <2>1 DEF Sums
  <2>. DEFINE m0 == Upto(m, k)
              l0 == Upto(l, k)
              mk == m[k]
              lk == l[k]
  <2>3. m0 \in Int /\ l0 \in Int /\ mk \in Nat /\ lk \in Nat
    BY <1>s, <2>1 DEF Sums
  <2>4. m0 <= (l0 + k) * t /\ l0 >= 0 /\ (l0 > 0 => m0 < (l0 + k) * t)
    BY <1>2
  <2>5. mk <= (lk + 1) * t /\ (lk > 0 => mk < (lk + 1) * t)
    BY <2>1
  <2>6. P(k + 1) <=> /\ m0 + mk <= (l0 + lk + (k + 1)) * t /\ l0 + lk >= 0
                     /\ l0 + lk > 0 => m0 + mk < (l0 + lk + (k + 1)) * t
    BY <2>2
  <2>. HIDE DEF m0, l0, mk, lk, P
  <2>7. (l0 + lk + (k + 1)) * t = (l0 + k) * t + (lk + 1) * t
    <3>1. l0 + lk + (k + 1) = (l0 + k) + (lk + 1) /\ l0 + k \in Int /\ lk + 1 \in Int
      BY <2>3
    <3>. QED
      BY <3>1, Distribute
  <2>8. (l0 + k) * t \in Int /\ (lk + 1) * t \in Int
    BY <2>3
  <2>. DEFINE u == (l0 + k) * t
              v == (lk + 1) * t
  <2>9. /\ m0 <= u /\ l0 >= 0 /\ (l0 > 0 => m0 < u) /\ mk <= v /\ (lk > 0 => mk < v)
        /\ u \in Int /\ v \in Int
    BY <2>4, <2>5, <2>8
  <2>10. (l0 + lk + (k + 1)) * t = u + v
    BY <2>7
  <2>. HIDE DEF u, v
  <2>11. /\ m0 + mk <= u + v /\ l0 + lk >= 0
         /\ l0 + lk > 0 => m0 + mk < u + v
    BY <2>3, <2>9
  <2>. QED
    BY <2>6, <2>10, <2>11
<1>3. n \in K
  <2>1. \A k \in Nat : k \in K => k + 1 \in K
    BY <1>2
  <2>. HIDE DEF K
  <2>. QED
    BY <1>1, <2>1, Induction
<1>4. P(n)
  BY <1>3
<1>5. SumFunction(m) = Upto(m, n) /\ SumFunction(l) = Upto(l, n)
  BY SumIsUpto
<1>. QED
  BY <1>4, <1>5

(* What is enough everywhere is enough for all.                            *)
LEMMA SumEnough ==
  ASSUME NEW n \in Nat, NEW m \in [0 .. n - 1 -> Nat], NEW l \in [0 .. n - 1 -> Nat], NEW t \in Nat,
         \A b \in 0 .. n - 1 : l[b] * t <= m[b]
  PROVE  SumFunction(l) * t <= SumFunction(m)
<1>. DEFINE K == {k \in Nat : k <= n => Upto(l, k) * t <= Upto(m, k)}
<1>s. Sums(m, n) /\ Sums(l, n)
  BY UptoNext
<1>1. 0 \in K
  BY <1>s DEF Sums
<1>2. ASSUME NEW k \in Nat, k \in K, k + 1 <= n
      PROVE  Upto(l, k + 1) * t <= Upto(m, k + 1)
  <2>1. k \in 0 .. n - 1 /\ k \in 0 .. n
    BY <1>2
  <2>2. Upto(m, k + 1) = Upto(m, k) + m[k] /\ Upto(l, k + 1) = Upto(l, k) + l[k]
    BY <1>s, <2>1 DEF Sums
  <2>. DEFINE m0 == Upto(m, k)
              l0 == Upto(l, k)
              mk == m[k]
              lk == l[k]
  <2>3. m0 \in Int /\ l0 \in Int /\ mk \in Nat /\ lk \in Nat
    BY <1>s, <2>1 DEF Sums
  <2>4. l0 * t <= m0 /\ lk * t <= mk
    BY <1>2, <2>1
  <2>. HIDE DEF m0, l0, mk, lk
  <2>5. (l0 + lk) * t = l0 * t + lk * t
    BY <2>3, Distribute
  <2>6. (l0 + lk) * t <= m0 + mk
    <3>. DEFINE u == l0 * t
                v == lk * t
    <3>1. u \in Int /\ v \in Int /\ u <= m0 /\ v <= mk /\ (l0 + lk) * t = u + v
      BY <2>3, <2>4, <2>5
    <3>. HIDE DEF u, v
    <3>. QED
      BY <2>3, <3>1
  <2>. QED
    BY <2>2, <2>6 DEF m0, l0, mk, lk
<1>3. n \in K
  <2>1. \A k \in Nat : k \in K => k + 1 \in K
    BY <1>2
  <2>. HIDE DEF K
  <2>. QED
    BY <1>1, <2>1, Induction
<1>4. SumFunction(m) = Upto(m, n) /\ SumFunction(l) = Upto(l, n)
  BY SumIsUpto
<1>. QED
  BY <1>3, <1>4

-------------------------------------------------------------------------------
\* The items that move to a bucket.

LEMMA MaxIsIn ==
  ASSUME NEW n \in Nat, NEW s \in SUBSET (1 .. n), s # {}
  PROVE  Max(s) \in s /\ \A x \in s : Max(s) >= x
<1>. DEFINE K == {k \in Nat : \A u \in SUBSET (1 .. k) : u # {} => \E x \in u : \A y \in u : x >= y}
<1>1. 0 \in K
  <2>1. \A u \in SUBSET (1 .. 0) : u = {}
    OBVIOUS
  <2>. QED
    BY <2>1, Zenon
<1>2. ASSUME NEW k \in Nat, k \in K, NEW u \in SUBSET (1 .. k + 1), u # {}
      PROVE  \E x \in u : \A y \in u : x >= y
  <2>1. CASE k + 1 \in u
    BY <2>1
  <2>2. CASE k + 1 \notin u
    <3>1. u \in SUBSET (1 .. k)
      BY <2>2
    <3>. QED
      BY <1>2, <3>1
  <2>. QED
    BY <2>1, <2>2
<1>3. n \in K
  <2>1. \A k \in Nat : k \in K => k + 1 \in K
    BY <1>2
  <2>. HIDE DEF K
  <2>. QED
    BY <1>1, <2>1, Induction
<1>4. \E x \in s : \A y \in s : x >= y
  BY <1>3
<1>. QED
  BY <1>4 DEF Max

LEMMA MaxUpto ==
  ASSUME NEW k \in Nat \ {0}
  PROVE  Max(1 .. k) = k /\ (1 .. k) \ {k} = 1 .. k - 1
<1>. DEFINE s == 1 .. k
<1>1. s \in SUBSET (1 .. k) /\ s # {} /\ k \in s /\ \A x \in s : x <= k /\ x \in Nat
  OBVIOUS
<1>2. Max(s) \in s /\ Max(s) >= k
  BY <1>1, MaxIsIn
<1>3. Max(s) = k
  BY <1>1, <1>2
<1>. QED
  BY <1>3

Latest(n) == [s \in SUBSET (1 .. n) |-> Max(s)]

Pushed(item, chain, b, num_bkts) == IF GoesTo(item, b, num_bkts) THEN <<item>> \o chain ELSE chain

Push(old, b, num_bkts) ==
  [p \in (1 .. Len(old)) \X Seq(Items) |-> Pushed(old[p[1]], p[2], b, num_bkts)]

Pushes(f, old, b, num_bkts) ==
  f = [s \in SUBSET (1 .. Len(old)) |->
         IF s = {} THEN <<>> ELSE Pushed(old[Max(s)], f[s \ {Max(s)}], b, num_bkts)]

(* The chain of bucket b after the walk has come to place k.               *)
IsWalk(w, old, b, num_bkts) ==
  /\ w \in [0 .. Len(old) -> Seq(Items)]
  /\ w[0] = <<>>
  /\ \A k \in 1 .. Len(old) : w[k] = Pushed(old[k], w[k - 1], b, num_bkts)

LEMMA PushedIsChain ==
  ASSUME NEW item \in Items, NEW chain \in Seq(Items), NEW b, NEW n
  PROVE  Pushed(item, chain, b, n) \in Seq(Items)
BY DEF Pushed

LEMMA MovedIsWalk ==
  ASSUME NEW old \in Seq(Items), NEW b, NEW n
  PROVE  \E w : IsWalk(w, old, b, n) /\ Moved(old, b, n) = w[Len(old)]
<1>. DEFINE N == Len(old)
            D == 1 .. N
            step == Push(old, b, n)
<1>0. N \in Nat /\ D = DOMAIN old /\ IsFiniteSet(D) /\ \A k \in D : old[k] \in Items
  BY FS_Interval
<1>1. Chooses(Latest(N), D)
  BY <1>0, MaxIsIn DEF Chooses, Latest
<1>2. step \in [D \X Seq(Items) -> Seq(Items)]
  BY <1>0, PushedIsChain DEF Push
<1>3. PICK f \in [SUBSET D -> Seq(Items)] : Steps(f, D, Latest(N), Seq(Items), <<>>, step)
  <2>1. <<>> \in Seq(Items)
    OBVIOUS
  <2>. HIDE DEF step, D, N
  <2>. QED
    BY <1>0, <1>1, <1>2, <2>1, FoldExists, Zenon
<1>4. ASSUME NEW s \in SUBSET D, s # {}
      PROVE  f[s] = Pushed(old[Max(s)], f[s \ {Max(s)}], b, n)
  <2>1. Latest(N)[s] = Max(s) /\ Max(s) \in D
    BY <1>0, <1>4, MaxIsIn DEF Latest
  <2>2. f[s \ {Max(s)}] \in Seq(Items)
    OBVIOUS
  <2>3. f[s] = step[<<Max(s), f[s \ {Max(s)}]>>]
    BY <1>3, <1>4, <2>1, <2>2 DEF Steps
  <2>. QED
    BY <2>1, <2>2, <2>3 DEF Push
<1>5. f[{}] = <<>>
  BY <1>3 DEF Steps
<1>6. Pushes(f, old, b, n)
  <2>1. f = [s \in SUBSET D |-> f[s]]
    OBVIOUS
  <2>. QED
    BY <1>4, <1>5, <2>1 DEF Pushes
<1>7. PICK g : Pushes(g, old, b, n) /\ Moved(old, b, n) = g[D]
  <2>1. Moved(old, b, n) = (CHOOSE g : Pushes(g, old, b, n))[D]
    BY <1>0 DEF Moved, FoldLeft, MapThenFoldSet, Pushes, Pushed
  <2>. QED
    BY <1>6, <2>1
<1>. DEFINE w == [k \in 0 .. N |-> g[1 .. k]]
<1>8. w[0] = <<>>
  BY <1>0, <1>7 DEF Pushes
<1>9. ASSUME NEW k \in 1 .. N
      PROVE  w[k] = Pushed(old[k], w[k - 1], b, n)
  <2>1. k \in Nat \ {0} /\ k - 1 \in 0 .. N /\ 1 .. k \in SUBSET D /\ 1 .. k # {} /\ k \in 0 .. N
    <3>1. k \in Nat \ {0} /\ k <= N
      BY <1>0
    <3>2. k - 1 \in 0 .. N /\ k \in 0 .. N
      BY <1>0, <3>1
    <3>3. 1 \in 1 .. k
      BY <3>1
    <3>4. 1 .. k \in SUBSET (1 .. N)
      BY <1>0, <3>1
    <3>. QED
      BY <3>1, <3>2, <3>3, <3>4
  <2>2. Max(1 .. k) = k /\ (1 .. k) \ {k} = 1 .. k - 1
    BY <2>1, MaxUpto
  <2>3. g[1 .. k] = Pushed(old[Max(1 .. k)], g[(1 .. k) \ {Max(1 .. k)}], b, n)
    BY <1>7, <2>1 DEF Pushes
  <2>. QED
    BY <2>1, <2>2, <2>3
<1>10. \A k \in 0 .. N : w[k] \in Seq(Items)
  <2>0. <<>> \in Seq(Items)
    OBVIOUS
  <2>. HIDE DEF w, N
  <2>. DEFINE K == {k \in Nat : k <= N => w[k] \in Seq(Items)}
  <2>1. 0 \in K
    BY <1>8, <2>0
  <2>2. ASSUME NEW k \in Nat, k \in K, k + 1 <= N
        PROVE  w[k + 1] \in Seq(Items)
    <3>1. k + 1 \in 1 .. N /\ (k + 1) - 1 = k /\ w[k] \in Seq(Items)
      BY <1>0, <2>2
    <3>2. w[k + 1] = Pushed(old[k + 1], w[k], b, n)
      BY <1>9, <3>1
    <3>. QED
      BY <1>0, <3>1, <3>2, PushedIsChain
  <2>3. \A k \in Nat : k \in K => k + 1 \in K
    BY <2>2
  <2>. HIDE DEF K
  <2>4. Nat \subseteq K
    BY <2>1, <2>3, Induction
  <2>. QED
    BY <2>4, <1>0 DEF K
<1>11. w = [k \in 0 .. N |-> w[k]] /\ w[N] = g[D]
  BY <1>0
<1>. HIDE DEF w
<1>12. IsWalk(w, old, b, n)
  BY <1>8, <1>9, <1>10, <1>11 DEF IsWalk
<1>. QED
  BY <1>7, <1>11, <1>12

LEMMA RangeInFront ==
  ASSUME NEW item \in Items, NEW chain \in Seq(Items)
  PROVE  /\ <<item>> \o chain \in Seq(Items) /\ Len(<<item>> \o chain) = Len(chain) + 1
         /\ Range(<<item>> \o chain) = {item} \cup Range(chain)
<1>. DEFINE s == <<item>> \o chain
<1>1. <<item>> \in Seq(Items) /\ Len(<<item>>) = 1 /\ <<item>>[1] = item
  OBVIOUS
<1>2. s \in Seq(Items) /\ Len(s) = Len(chain) + 1 /\ Len(chain) \in Nat
  BY <1>1, ConcatProperties
<1>3. s[1] = item /\ \A i \in 1 .. Len(chain) : s[i + 1] = chain[i]
  OBVIOUS
<1>. HIDE DEF s
<1>4. DOMAIN s = 1 .. Len(chain) + 1 /\ DOMAIN chain = 1 .. Len(chain)
  BY <1>2
<1>5. ASSUME NEW x
      PROVE  x \in Range(s) <=> x = item \/ x \in Range(chain)
  <2>1. \A i \in 1 .. Len(chain) + 1 : i = 1 \/ i - 1 \in 1 .. Len(chain)
    BY <1>2
  <2>2. \A i \in 1 .. Len(chain) : i + 1 \in 1 .. Len(chain) + 1
    BY <1>2
  <2>3. ASSUME NEW i \in 1 .. Len(chain) + 1, i # 1
        PROVE  s[i] = chain[i - 1]
    <3>1. i - 1 \in 1 .. Len(chain) /\ (i - 1) + 1 = i
      BY <1>2, <2>3
    <3>. QED
      BY <1>3, <3>1
  <2>4. 1 \in 1 .. Len(chain) + 1
    BY <1>2
  <2>5. x \in Range(s) <=> \E i \in 1 .. Len(chain) + 1 : s[i] = x
    BY <1>4 DEF Range
  <2>6. x \in Range(chain) <=> \E i \in 1 .. Len(chain) : chain[i] = x
    BY <1>4 DEF Range
  <2>7. CASE x \in Range(s)
    BY <1>3, <2>1, <2>3, <2>5, <2>6, <2>7
  <2>8. CASE x = item \/ x \in Range(chain)
    BY <1>3, <2>2, <2>4, <2>5, <2>6, <2>8
  <2>. QED
    BY <2>7, <2>8
<1>. QED
  BY <1>2, <1>5 DEF s

(* The items that move to bucket b are those of the old chain that belong  *)
(* there.                                                                  *)
LEMMA MovedItems ==
  ASSUME NEW old \in Seq(Items), NEW b, NEW n
  PROVE  /\ Moved(old, b, n) \in Seq(Items)
         /\ \A x : x \in Range(Moved(old, b, n)) <=> x \in Range(old) /\ GoesTo(x, b, n)
<1>1. PICK w : IsWalk(w, old, b, n) /\ Moved(old, b, n) = w[Len(old)]
  BY MovedIsWalk
<1>. DEFINE N == Len(old)
            P(k) == \A x : x \in Range(w[k]) <=> \E j \in 1 .. k : old[j] = x /\ GoesTo(x, b, n)
            K == {k \in Nat : k <= N => P(k)}
<1>2. N \in Nat /\ DOMAIN old = 1 .. N /\ \A k \in 1 .. N : old[k] \in Items
  OBVIOUS
<1>3. 0 \in K
  <2>1. w[0] = <<>>
    BY <1>1 DEF IsWalk
  <2>2. \A x : x \notin Range(w[0])
    BY <2>1 DEF Range
  <2>3. 1 .. 0 = {}
    OBVIOUS
  <2>. QED
    BY <2>2, <2>3
<1>4. ASSUME NEW k \in Nat, k \in K, k + 1 <= N
      PROVE  P(k + 1)
  <2>1. k + 1 \in 1 .. N /\ (k + 1) - 1 = k /\ k \in 0 .. N
    BY <1>2, <1>4
  <2>2. w[k + 1] = Pushed(old[k + 1], w[k], b, n) /\ w[k] \in Seq(Items) /\ old[k + 1] \in Items
    BY <1>1, <1>2, <2>1 DEF IsWalk
  <2>3. \A x : x \in Range(w[k + 1])
                <=> x \in Range(w[k]) \/ (x = old[k + 1] /\ GoesTo(x, b, n))
    BY <2>2, RangeInFront DEF Pushed
  <2>4. \A j : j \in 1 .. k + 1 <=> j \in 1 .. k \/ j = k + 1
    BY <1>4
  <2>5. P(k)
    BY <1>4, <2>1
  <2>. QED
    BY <2>3, <2>4, <2>5
<1>5. P(N)
  <2>1. \A k \in Nat : k \in K => k + 1 \in K
    <3>. HIDE DEF P
    <3>. QED
      BY <1>4
  <2>2. N \in K
    <3>. HIDE DEF K
    <3>. QED
      BY <1>2, <1>3, <2>1, Induction
  <2>. QED
    BY <1>2, <2>2
<1>6. \A x : x \in Range(old) <=> \E j \in 1 .. N : old[j] = x
  BY <1>2 DEF Range
<1>7. w[N] \in Seq(Items)
  BY <1>1, <1>2 DEF IsWalk
<1>. QED
  BY <1>1, <1>5, <1>6, <1>7

(* When each goes to one of two buckets, none gets lost or doubled.        *)
LEMMA MovedApart ==
  ASSUME NEW old \in Seq(Items), NEW b, NEW c, NEW n,
         \A x \in Range(old) : GoesTo(x, b, n) <=> ~ GoesTo(x, c, n)
  PROVE  Len(Moved(old, b, n)) + Len(Moved(old, c, n)) = Len(old)
<1>1. PICK w : IsWalk(w, old, b, n) /\ Moved(old, b, n) = w[Len(old)]
  BY MovedIsWalk
<1>2. PICK v : IsWalk(v, old, c, n) /\ Moved(old, c, n) = v[Len(old)]
  BY MovedIsWalk
<1>. DEFINE N == Len(old)
            P(k) == Len(w[k]) + Len(v[k]) = k
            K == {k \in Nat : k <= N => P(k)}
<1>3. N \in Nat /\ DOMAIN old = 1 .. N /\ \A k \in 1 .. N : old[k] \in Items /\ old[k] \in Range(old)
  BY DEF Range
<1>4. 0 \in K
  <2>1. w[0] = <<>> /\ v[0] = <<>>
    BY <1>1, <1>2 DEF IsWalk
  <2>2. P(0)
    BY <2>1
  <2>. HIDE DEF P
  <2>. QED
    BY <2>2
<1>5. ASSUME NEW k \in Nat, k \in K, k + 1 <= N
      PROVE  P(k + 1)
  <2>1. k + 1 \in 1 .. N /\ (k + 1) - 1 = k /\ k \in 0 .. N
    BY <1>3, <1>5
  <2>2. /\ w[k + 1] = Pushed(old[k + 1], w[k], b, n) /\ w[k] \in Seq(Items) /\ old[k + 1] \in Items
        /\ v[k + 1] = Pushed(old[k + 1], v[k], c, n) /\ v[k] \in Seq(Items)
    BY <1>1, <1>2, <1>3, <2>1 DEF IsWalk
  <2>3. GoesTo(old[k + 1], b, n) <=> ~ GoesTo(old[k + 1], c, n)
    BY <1>3, <2>1
  <2>4. P(k)
    <3>. HIDE DEF P
    <3>. QED
      BY <1>3, <1>5
  <2>. DEFINE lw == Len(w[k])
              lv == Len(v[k])
  <2>7. lw \in Nat /\ lv \in Nat
    BY <2>2, LenProperties
  <2>8. lw + lv = k
    BY <2>4
  <2>5. CASE GoesTo(old[k + 1], b, n)
    <3>1. Len(w[k + 1]) = lw + 1 /\ Len(v[k + 1]) = lv
      BY <2>2, <2>3, <2>5, RangeInFront DEF Pushed
    <3>. HIDE DEF lw, lv
    <3>. QED
      BY <2>7, <2>8, <3>1
  <2>6. CASE ~ GoesTo(old[k + 1], b, n)
    <3>1. Len(w[k + 1]) = lw /\ Len(v[k + 1]) = lv + 1
      BY <2>2, <2>3, <2>6, RangeInFront DEF Pushed
    <3>. HIDE DEF lw, lv
    <3>. QED
      BY <2>7, <2>8, <3>1
  <2>. QED
    BY <2>5, <2>6
<1>6. N \in K
  <2>1. \A k \in Nat : k \in K => k + 1 \in K
    <3>. HIDE DEF P
    <3>. QED
      BY <1>5
  <2>. HIDE DEF K
  <2>. QED
    BY <1>3, <1>4, <2>1, Induction
<1>7. P(N)
  <2>. HIDE DEF P
  <2>. QED
    BY <1>3, <1>6
<1>. QED
  BY <1>1, <1>2, <1>7

-------------------------------------------------------------------------------
\* Division.

LEMMA DivMod ==
  ASSUME NEW h \in Nat, NEW n \in Nat \ {0}
  PROVE  /\ h \div n \in Nat /\ h % n \in 0 .. n - 1
         /\ h = (h \div n) * n + (h % n)
OBVIOUS

LEMMA ModUnique ==
  ASSUME NEW n \in Nat \ {0}, NEW q \in Int, NEW p \in Int, NEW r \in 0 .. n - 1, NEW s \in 0 .. n - 1,
         q * n + r = p * n + s
  PROVE  r = s
<1>1. q * n - p * n = (q - p) * n
  OBVIOUS
<1>2. CASE q - p >= 1
  <2>1. (q - p) * n >= n
    BY <1>2
  <2>. DEFINE u == q * n
              v == p * n
  <2>2. u \in Int /\ v \in Int /\ u - v >= n /\ u + r = v + s
    BY <1>1, <2>1
  <2>. HIDE DEF u, v
  <2>. QED
    BY <2>2
<1>3. CASE q - p <= -1
  <2>1. (q - p) * n <= -n
    BY <1>3
  <2>. DEFINE u == q * n
              v == p * n
  <2>2. u \in Int /\ v \in Int /\ u - v <= -n /\ u + r = v + s
    BY <1>1, <2>1
  <2>. HIDE DEF u, v
  <2>. QED
    BY <2>2
<1>4. CASE q = p
  BY <1>4
<1>. QED
  BY <1>2, <1>3, <1>4

(* An item of old bucket b goes to b or to b + n.                          *)
LEMMA ModTwice ==
  ASSUME NEW h \in Nat, NEW n \in Nat \ {0}
  PROVE  h % (2 * n) = h % n \/ h % (2 * n) = (h % n) + n
<1>. DEFINE q == h \div n
            r == h % n
            p == h \div (2 * n)
            s == h % (2 * n)
<1>1. q \in Nat /\ r \in 0 .. n - 1 /\ h = q * n + r
  BY DivMod
<1>2. p \in Nat /\ s \in 0 .. 2 * n - 1 /\ h = p * (2 * n) + s
  <2>1. 2 * n \in Nat \ {0}
    OBVIOUS
  <2>. QED
    BY <2>1, DivMod
<1>. HIDE DEF q, r, p, s
<1>3. p * (2 * n) = (2 * p) * n /\ (2 * p + 1) * n = (2 * p) * n + n
  BY <1>2
<1>4. CASE s < n
  <2>0. s \in 0 .. n - 1 /\ 2 * p \in Int
    BY <1>2, <1>4
  <2>1. (2 * p) * n + s = q * n + r
    BY <1>1, <1>2, <1>3, Zenon
  <2>2. s = r
    <3>. DEFINE pp == 2 * p
    <3>1. pp \in Int /\ q \in Int /\ pp * n + s = q * n + r
      BY <1>1, <2>0, <2>1
    <3>. HIDE DEF pp
    <3>. QED
      BY <1>1, <2>0, <3>1, ModUnique
  <2>. QED
    BY <2>2 DEF r, s
<1>5. CASE s >= n
  <2>1. s - n \in 0 .. n - 1 /\ 2 * p + 1 \in Int
    BY <1>2, <1>5
  <2>2. (2 * p + 1) * n + (s - n) = q * n + r
    <3>. DEFINE u == (2 * p) * n
                v == q * n
                w == (2 * p + 1) * n
    <3>1. u \in Int /\ v \in Int /\ h = u + s /\ h = v + r /\ w = u + n
      BY <1>1, <1>2, <1>3
    <3>. HIDE DEF u, v, w
    <3>. QED
      BY <1>1, <1>2, <3>1
  <2>3. s - n = r
    <3>. DEFINE pp == 2 * p + 1
                sn == s - n
    <3>1. pp \in Int /\ q \in Int /\ sn \in 0 .. n - 1 /\ pp * n + sn = q * n + r
      BY <1>1, <2>1, <2>2
    <3>. HIDE DEF pp, sn
    <3>2. sn = r
      BY <1>1, <3>1, ModUnique
    <3>. QED
      BY <3>2 DEF sn
  <2>4. s = r + n
    <3>1. s \in Int /\ r \in Int
      BY <1>1, <1>2
    <3>. QED
      BY <2>3, <3>1
  <2>. QED
    BY <2>4 DEF r, s
<1>. QED
  BY <1>2, <1>4, <1>5

LEMMA ModSmall ==
  ASSUME NEW n \in Nat \ {0}, NEW b \in 0 .. 2 * n - 1
  PROVE  b % n = IF b < n THEN b ELSE b - n
<1>0. b \in Nat
  OBVIOUS
<1>1. b \div n \in Nat /\ b % n \in 0 .. n - 1 /\ b = (b \div n) * n + (b % n)
  BY <1>0, DivMod
<1>2. CASE b < n
  <2>1. b \in 0 .. n - 1 /\ (b \div n) * n + (b % n) = 0 * n + b /\ 0 \in Int
    BY <1>1, <1>2
  <2>. QED
    BY <1>1, <1>2, <2>1, ModUnique
<1>3. CASE b >= n
  <2>1. b - n \in 0 .. n - 1 /\ (b \div n) * n + (b % n) = 1 * n + (b - n) /\ 1 \in Int
    BY <1>1, <1>3
  <2>. QED
    BY <1>1, <1>3, <2>1, ModUnique
<1>. QED
  BY <1>2, <1>3

(* Rounded up: the ideal length is enough for all, and no more than any    *)
(* length that is.                                                         *)
LEMMA RoundUp ==
  ASSUME NEW h \in Nat, NEW n \in Nat \ {0}, NEW t \in Nat, h <= t * n,
         NEW i, i = h \div n + (IF h % n # 0 THEN 1 ELSE 0)
  PROVE  i \in Nat /\ h <= i * n /\ i <= t /\ (h > 0 => i > 0)
<1>. DEFINE q == h \div n
            r == h % n
<1>1. q \in Nat /\ r \in 0 .. n - 1 /\ h = q * n + r
  BY DivMod
<1>2. i = q + (IF r # 0 THEN 1 ELSE 0)
  OBVIOUS
<1>. HIDE DEF q, r
<1>3. (q + 1) * n = q * n + n
  BY <1>1
<1>4. q <= t
  <2>. SUFFICES ASSUME q >= t + 1
                PROVE  FALSE
    BY <1>1
  <2>1. q * n >= (t + 1) * n /\ (t + 1) * n = t * n + n
    BY <1>1
  <2>. DEFINE u == q * n
              v == t * n
  <2>2. u \in Int /\ v \in Int /\ h <= v /\ h = u + r /\ u >= v + n
    BY <1>1, <2>1
  <2>. HIDE DEF u, v
  <2>. QED
    BY <1>1, <2>2
<1>5. r # 0 => q # t
  BY <1>1
<1>6. CASE r = 0
  BY <1>1, <1>2, <1>4, <1>6
<1>7. CASE r # 0
  <2>1. i = q + 1 /\ i <= t
    BY <1>1, <1>2, <1>4, <1>5, <1>7
  <2>2. i * n = q * n + n
    BY <1>3, <2>1
  <2>. QED
    BY <1>1, <2>1, <2>2
<1>. QED
  BY <1>6, <1>7

-------------------------------------------------------------------------------
\* The parts of the invariant, for a table t and a list a of items.

Bkts(t) == 0 .. t.num_buckets - 1

IsTable(t) ==
  t \in [buckets : [Bkts(t) -> BucketTypes], num_buckets : Nat \ {0},
         log2_num_buckets : Nat, num_items : Nat, ideal_chain_maxlen : Nat,
         ineff_expands : Nat, noexpand : BOOLEAN]

Counts(t) == [b \in Bkts(t) |-> t.buckets[b].count]
Multipliers(t) == [b \in Bkts(t) |-> t.buckets[b].expand_mult]

Counted(t, a) ==
  /\ t.num_buckets = TwoTo[t.log2_num_buckets]
  /\ \A b \in Bkts(t) : t.buckets[b].count = Len(t.buckets[b].chain)
  /\ t.num_items = Len(a)
  /\ SumFunction(Counts(t)) = t.num_items

(* Every chain has the items of its bucket, and no other.                  *)
Placed(t, a) ==
  \A b \in Bkts(t) : \A x :
    x \in Range(t.buckets[b].chain) <=> x \in Range(a) /\ HASH_TO_BKT(x.hashv, t.num_buckets) = b

Limited(t) ==
  \A b \in Bkts(t) :
    \/ t.buckets[b].count < (t.buckets[b].expand_mult + 1) * HASH_BKT_CAPACITY_THRESH
    \/ t.buckets[b].count <= t.ideal_chain_maxlen

Spacious(t) == t.num_items < 2 * HASH_BKT_CAPACITY_THRESH * t.num_buckets

Paid(t) ==
  /\ SumFunction(Multipliers(t)) <= t.num_buckets
  /\ t.ideal_chain_maxlen <= HASH_BKT_CAPACITY_THRESH

Good(t, a) ==
  /\ IsTable(t) /\ a \in Seq(Items) /\ Counted(t, a) /\ Placed(t, a) /\ Paid(t)
  /\ t.noexpand \/ (Limited(t) /\ Spacious(t))

LEMMA Fields ==
  ASSUME NEW t, IsTable(t)
  PROVE  /\ t.num_buckets \in Nat \ {0} /\ t.log2_num_buckets \in Nat /\ t.num_items \in Nat
         /\ t.ideal_chain_maxlen \in Nat /\ t.ineff_expands \in Nat /\ t.noexpand \in BOOLEAN
         /\ t.buckets \in [Bkts(t) -> BucketTypes]
         /\ \A b \in Bkts(t) : /\ t.buckets[b].chain \in Seq(Items) /\ t.buckets[b].count \in Nat
                               /\ t.buckets[b].expand_mult \in Nat
BY DEF IsTable, BucketTypes

LEMMA SumTypes ==
  ASSUME NEW t, IsTable(t)
  PROVE  /\ Counts(t) \in [Bkts(t) -> Nat] /\ SumFunction(Counts(t)) \in Nat
         /\ Multipliers(t) \in [Bkts(t) -> Nat] /\ SumFunction(Multipliers(t)) \in Nat
<1>1. t.num_buckets \in Nat
  BY Fields
<1>2. Counts(t) \in [Bkts(t) -> Nat] /\ Multipliers(t) \in [Bkts(t) -> Nat]
  BY Fields DEF Counts, Multipliers
<1>. QED
  BY <1>1, <1>2, SumOfNat DEF Bkts

LEMMA InRange ==
  ASSUME NEW s \in Seq(Items)
  PROVE  /\ \A x \in Range(s) : x \in Items /\ x.hashv \in Nat
         /\ \A x : Contains(s, x) <=> x \in Range(s)
<1>1. DOMAIN s = 1 .. Len(s) /\ \A i \in 1 .. Len(s) : s[i] \in Items
  OBVIOUS
<1>2. \A x \in Items : x.hashv \in Nat
  BY HashesAssumption DEF Items
<1>. QED
  BY <1>1, <1>2 DEF Range, Contains

LEMMA ToBucket ==
  ASSUME NEW t, IsTable(t), NEW x \in Items
  PROVE  /\ HASH_TO_BKT(x.hashv, t.num_buckets) \in Bkts(t)
         /\ x.hashv \in Nat
<1>1. x.hashv \in Nat /\ t.num_buckets \in Nat \ {0}
  BY Fields, HashesAssumption DEF Items
<1>. QED
  BY <1>1 DEF HASH_TO_BKT, Bkts

(* What is placed is found, and nothing else.                              *)
LEMMA FoundIsPlaced ==
  ASSUME NEW t, IsTable(t), NEW a \in Seq(Items)
  PROVE  Placed(t, a) <=>
           /\ \A x \in Range(a) : HASH_FIND(t, x)
           /\ \A b \in Bkts(t) : \A x \in Range(t.buckets[b].chain) :
                x \in Range(a) /\ HASH_TO_BKT(x.hashv, t.num_buckets) = b
<1>1. \A b \in Bkts(t) : t.buckets[b].chain \in Seq(Items)
  BY Fields
<1>2. \A x \in Range(a) : HASH_TO_BKT(x.hashv, t.num_buckets) \in Bkts(t)
  BY InRange, ToBucket
<1>3. \A x \in Range(a) :
        HASH_FIND(t, x) <=> x \in Range(t.buckets[HASH_TO_BKT(x.hashv, t.num_buckets)].chain)
  BY <1>1, <1>2, InRange DEF HASH_FIND
<1>. QED
  BY <1>2, <1>3 DEF Placed

LEMMA HashInvIsGood ==
  HashInv <=> Good(tbl, app)
<1>1. IsTable(tbl) /\ app \in Seq(Items) <=> TypeOK
  BY DEF TypeOK, IsTable, Buckets, Bkts
<1>2. Counted(tbl, app) <=> Fsck
  BY DEF Counted, Fsck, Counts, Buckets, Bkts
<1>3. TypeOK => (Placed(tbl, app) <=> FindsWhatWasAdded)
  BY <1>1, FoundIsPlaced DEF FindsWhatWasAdded, Buckets, Bkts
<1>4. (tbl.noexpand \/ (Limited(tbl) /\ Spacious(tbl))) <=> ChainsBounded
  BY DEF ChainsBounded, Limited, Spacious, Buckets, Bkts
<1>5. Paid(tbl) <=> GrowthIsPaidFor
  BY DEF Paid, GrowthIsPaidFor, Multipliers, Buckets, Bkts
<1>. QED
  BY <1>1, <1>2, <1>3, <1>4, <1>5 DEF HashInv, Good

-------------------------------------------------------------------------------
\* An item comes into the table.

Added(t, b, item) == [[t EXCEPT !.num_items = @ + 1] EXCEPT !.buckets[b] = Linked(@, item)]

LEMMA AddedFields ==
  ASSUME NEW t, IsTable(t), NEW b \in Bkts(t), NEW item \in Items
  PROVE  /\ IsTable(Added(t, b, item)) /\ Bkts(Added(t, b, item)) = Bkts(t)
         /\ Added(t, b, item).num_buckets = t.num_buckets
         /\ Added(t, b, item).log2_num_buckets = t.log2_num_buckets
         /\ Added(t, b, item).num_items = t.num_items + 1
         /\ Added(t, b, item).ideal_chain_maxlen = t.ideal_chain_maxlen
         /\ Added(t, b, item).noexpand = t.noexpand
         /\ \A c \in Bkts(t) : c # b => Added(t, b, item).buckets[c] = t.buckets[c]
         /\ Added(t, b, item).buckets[b].chain = <<item>> \o t.buckets[b].chain
         /\ Added(t, b, item).buckets[b].count = t.buckets[b].count + 1
         /\ Added(t, b, item).buckets[b].expand_mult = t.buckets[b].expand_mult
<1>. DEFINE u == Added(t, b, item)
<1>1. /\ t.buckets \in [Bkts(t) -> BucketTypes] /\ t.num_items \in Nat
      /\ t.buckets[b] \in BucketTypes
  BY Fields
<1>2. u = [t EXCEPT !.num_items = t.num_items + 1,
                    !.buckets = [t.buckets EXCEPT ![b] = Linked(t.buckets[b], item)]]
  BY DEF Added, IsTable
<1>3. Linked(t.buckets[b], item) \in BucketTypes
  <2>1. t.buckets[b].chain \in Seq(Items) /\ t.buckets[b].count \in Nat
    BY Fields
  <2>2. <<item>> \o t.buckets[b].chain \in Seq(Items) /\ t.buckets[b].count + 1 \in Nat
    BY <2>1, RangeInFront
  <2>. HIDE DEF u
  <2>. QED
    BY <1>1, <2>2 DEF Linked, BucketTypes
<1>4. u.num_buckets = t.num_buckets /\ u.log2_num_buckets = t.log2_num_buckets
  BY <1>2 DEF IsTable
<1>5. u.num_items = t.num_items + 1 /\ u.ideal_chain_maxlen = t.ideal_chain_maxlen
  BY <1>2 DEF IsTable
<1>6. u.noexpand = t.noexpand
  BY <1>2 DEF IsTable
<1>7. u.buckets = [t.buckets EXCEPT ![b] = Linked(t.buckets[b], item)]
  BY <1>2 DEF IsTable
<1>8. \A c \in Bkts(t) : c # b => u.buckets[c] = t.buckets[c]
  BY <1>1, <1>7
<1>9. u.buckets[b] = Linked(t.buckets[b], item)
  BY <1>1, <1>7
<1>10. /\ u.buckets[b].chain = <<item>> \o t.buckets[b].chain
       /\ u.buckets[b].count = t.buckets[b].count + 1
       /\ u.buckets[b].expand_mult = t.buckets[b].expand_mult
  BY <1>1, <1>9 DEF Linked, BucketTypes
<1>11. Bkts(u) = Bkts(t)
  BY <1>4 DEF Bkts
<1>12. IsTable(u)
  <2>1. u.buckets \in [Bkts(t) -> BucketTypes]
    BY <1>1, <1>3, <1>7
  <2>2. t.num_items + 1 \in Nat
    BY <1>1
  <2>. DEFINE nb == [t.buckets EXCEPT ![b] = Linked(t.buckets[b], item)]
              ni == t.num_items + 1
  <2>3. u = [t EXCEPT !.num_items = ni, !.buckets = nb] /\ nb \in [Bkts(t) -> BucketTypes] /\ ni \in Nat
    BY <1>2, <1>7, <2>1, <2>2
  <2>. HIDE DEF u, nb, ni
  <2>4. u \in [buckets : [Bkts(t) -> BucketTypes], num_buckets : Nat \ {0},
                log2_num_buckets : Nat, num_items : Nat, ideal_chain_maxlen : Nat,
                ineff_expands : Nat, noexpand : BOOLEAN]
    BY <2>3 DEF IsTable
  <2>. QED
    BY <1>11, <2>4 DEF IsTable
<1>. QED
  BY <1>4, <1>5, <1>6, <1>8, <1>10, <1>11, <1>12

LEMMA AddedStillGood ==
  ASSUME NEW t, NEW a \in Seq(Items), IsTable(t), Counted(t, a), Placed(t, a), NEW item \in Items,
         NEW b, b = HASH_TO_BKT(item.hashv, t.num_buckets)
  PROVE  /\ b \in Bkts(t) /\ Append(a, item) \in Seq(Items)
         /\ Counted(Added(t, b, item), Append(a, item))
         /\ Placed(Added(t, b, item), Append(a, item))
<1>. DEFINE u == Added(t, b, item)
            e == Append(a, item)
<1>1. b \in Bkts(t)
  BY ToBucket
<1>2. /\ e \in Seq(Items) /\ Len(e) = Len(a) + 1
      /\ Range(e) = Range(a) \cup {item}
  <2>1. e \in Seq(Items) /\ Len(e) = Len(a) + 1 /\ Len(a) \in Nat
    BY AppendProperties, LenProperties
  <2>2. /\ DOMAIN e = 1 .. Len(a) + 1 /\ DOMAIN a = 1 .. Len(a)
        /\ (\A i \in 1 .. Len(a) : e[i] = a[i]) /\ e[Len(a) + 1] = item
    BY <2>1
  <2>3. \A i : i \in 1 .. Len(a) + 1 <=> i \in 1 .. Len(a) \/ i = Len(a) + 1
    BY <2>1
  <2>. QED
    BY <2>1, <2>2, <2>3 DEF Range
<1>3. /\ IsTable(u) /\ Bkts(u) = Bkts(t) /\ u.num_buckets = t.num_buckets
      /\ u.log2_num_buckets = t.log2_num_buckets /\ u.num_items = t.num_items + 1
  BY <1>1, AddedFields
<1>4. /\ \A c \in Bkts(t) : c # b => u.buckets[c] = t.buckets[c]
      /\ u.buckets[b].chain = <<item>> \o t.buckets[b].chain
      /\ u.buckets[b].count = t.buckets[b].count + 1
  BY <1>1, AddedFields
<1>5. t.buckets[b].chain \in Seq(Items)
  BY <1>1, Fields
<1>. HIDE DEF u, e
<1>6. Placed(u, e)
  <2>. SUFFICES ASSUME NEW c \in Bkts(t), NEW x
                PROVE  x \in Range(u.buckets[c].chain)
                         <=> x \in Range(e) /\ HASH_TO_BKT(x.hashv, t.num_buckets) = c
    BY <1>3 DEF Placed
  <2>1. x \in Range(t.buckets[c].chain) <=> x \in Range(a) /\ HASH_TO_BKT(x.hashv, t.num_buckets) = c
    BY DEF Placed
  <2>2. CASE c = b
    <3>1. x \in Range(u.buckets[c].chain) <=> x = item \/ x \in Range(t.buckets[c].chain)
      BY <1>4, <1>5, <2>2, RangeInFront
    <3>. QED
      BY <1>2, <2>1, <2>2, <3>1
  <2>3. CASE c # b
    BY <1>2, <1>4, <2>1, <2>3
  <2>. QED
    BY <2>2, <2>3
<1>7. SumFunction(Counts(u)) = SumFunction(Counts(t)) + 1
  <2>1. t.num_buckets \in Nat
    BY Fields
  <2>2. Counts(t) \in [Bkts(t) -> Nat] /\ Counts(u) \in [Bkts(t) -> Nat]
    BY <1>3, SumTypes
  <2>3. Counts(u)[b] = Counts(t)[b] + 1 /\ \A c \in Bkts(t) : c # b => Counts(u)[c] = Counts(t)[c]
    BY <1>1, <1>3, <1>4 DEF Counts
  <2>. QED
    BY <1>1, <2>1, <2>2, <2>3, SumOneMore DEF Bkts
<1>8. ASSUME NEW c \in Bkts(t)
      PROVE  u.buckets[c].count = Len(u.buckets[c].chain)
  <2>1. t.buckets[c].count = Len(t.buckets[c].chain)
    BY DEF Counted
  <2>2. CASE c = b
    BY <1>4, <1>5, <2>1, <2>2, RangeInFront
  <2>. QED
    BY <1>4, <2>1, <2>2
<1>9. Counted(u, e)
  <2>1. t.num_buckets = TwoTo[t.log2_num_buckets] /\ t.num_items = Len(a)
        /\ SumFunction(Counts(t)) = t.num_items
    BY DEF Counted
  <2>. QED
    BY <1>2, <1>3, <1>7, <1>8, <2>1 DEF Counted
<1>. QED
  BY <1>1, <1>2, <1>6, <1>9 DEF u, e

-------------------------------------------------------------------------------
\* Twice the buckets.

LEMMA MultiplierIs ==
  ASSUME NEW c \in Nat, NEW i \in Nat \ {0}
  PROVE  /\ ExpandMult(c, i) \in Nat /\ ExpandMult(c, i) * i <= c
         /\ c < (ExpandMult(c, i) + 1) * i \/ c <= i
<1>1. CASE c <= i
  <2>1. ExpandMult(c, i) = 0
    BY <1>1 DEF ExpandMult
  <2>. QED
    BY <1>1, <2>1
<1>2. CASE c > i
  <2>1. ExpandMult(c, i) = c \div i
    BY <1>2 DEF ExpandMult
  <2>. DEFINE q == c \div i
              r == c % i
  <2>2. q \in Nat /\ r \in 0 .. i - 1 /\ c = q * i + r
    BY DivMod
  <2>. HIDE DEF q, r
  <2>3. (q + 1) * i = q * i + i
    BY <2>2
  <2>4. q * i <= c /\ c < (q + 1) * i
    <3>. DEFINE u == q * i
                v == (q + 1) * i
    <3>1. u \in Int /\ c = u + r /\ v = u + i
      BY <2>2, <2>3
    <3>. HIDE DEF u, v
    <3>. QED
      BY <2>2, <3>1
  <2>. QED
    BY <2>1, <2>2, <2>4 DEF q
<1>. QED
  BY <1>1, <1>2

(* Where an item goes decides where it came from.                          *)
LEMMA FromOneBucket ==
  ASSUME NEW h \in Nat, NEW n \in Nat \ {0}, NEW b \in 0 .. 2 * n - 1,
         HASH_TO_BKT(h, 2 * n) = b
  PROVE  HASH_TO_BKT(h, n) = HASH_TO_BKT(b, n)
<1>1. h % n \in 0 .. n - 1 /\ h % (2 * n) = b
  BY DEF HASH_TO_BKT
<1>2. b = h % n \/ b = (h % n) + n
  BY <1>1, ModTwice
<1>3. b % n = IF b < n THEN b ELSE b - n
  BY ModSmall
<1>. DEFINE r == h % n
<1>4. r \in 0 .. n - 1 /\ (b = r \/ b = r + n)
  BY <1>1, <1>2
<1>. HIDE DEF r
<1>5. (IF b < n THEN b ELSE b - n) = r
  BY <1>4
<1>. QED
  BY <1>3, <1>5 DEF HASH_TO_BKT, r

LEMMA NewBucketIs ==
  ASSUME NEW t, IsTable(t), NEW a \in Seq(Items), Placed(t, a),
         NEW b \in 0 .. 2 * t.num_buckets - 1, NEW i \in Nat \ {0}
  PROVE  /\ NewBucket(t, b, i) \in BucketTypes
         /\ NewBucket(t, b, i).count = Len(NewBucket(t, b, i).chain)
         /\ NewBucket(t, b, i).chain
              = Moved(t.buckets[HASH_TO_BKT(b, t.num_buckets)].chain, b, t.num_buckets)
         /\ NewBucket(t, b, i).expand_mult = ExpandMult(NewBucket(t, b, i).count, i)
         /\ \A x : x \in Range(NewBucket(t, b, i).chain)
                     <=> x \in Range(a) /\ HASH_TO_BKT(x.hashv, 2 * t.num_buckets) = b
<1>. DEFINE n == t.num_buckets
            o == HASH_TO_BKT(b, n)
            old == t.buckets[o].chain
            chain == Moved(old, b, n)
            nb == NewBucket(t, b, i)
<1>1. n \in Nat \ {0} /\ b \in Nat
  BY Fields
<1>2. o \in Bkts(t)
  BY <1>1 DEF HASH_TO_BKT, Bkts
<1>3. old \in Seq(Items)
  BY <1>2, Fields
<1>4. chain \in Seq(Items) /\ \A x : x \in Range(chain) <=> x \in Range(old) /\ GoesTo(x, b, n)
  BY <1>3, MovedItems
<1>5. Len(chain) \in Nat /\ ExpandMult(Len(chain), i) \in Nat
  <2>. HIDE DEF chain
  <2>1. Len(chain) \in Nat
    BY <1>4, LenProperties
  <2>. QED
    BY <2>1, MultiplierIs
<1>6. nb = [chain |-> chain, count |-> Len(chain), expand_mult |-> ExpandMult(Len(chain), i)]
  BY DEF NewBucket
<1>7. ASSUME NEW x
      PROVE  x \in Range(chain) <=> x \in Range(a) /\ HASH_TO_BKT(x.hashv, 2 * n) = b
  <2>1. x \in Range(old) <=> x \in Range(a) /\ HASH_TO_BKT(x.hashv, n) = o
    BY <1>2 DEF Placed
  <2>2. GoesTo(x, b, n) <=> HASH_TO_BKT(x.hashv, 2 * n) = b
    BY DEF GoesTo
  <2>3. x \in Range(a) /\ HASH_TO_BKT(x.hashv, 2 * n) = b => HASH_TO_BKT(x.hashv, n) = o
    BY <1>1, InRange, FromOneBucket
  <2>. HIDE DEF n, o, old, chain
  <2>. QED
    BY <1>4, <2>1, <2>2, <2>3
<1>. HIDE DEF chain
<1>8. nb \in BucketTypes
  BY <1>4, <1>5, <1>6 DEF BucketTypes
<1>9. nb.chain = chain /\ nb.count = Len(chain) /\ nb.expand_mult = ExpandMult(Len(chain), i)
  BY <1>6
<1>. QED
  BY <1>7, <1>8, <1>9 DEF chain

(* The items of an old bucket are shared out between the two new ones.     *)
LEMMA NewHalves ==
  ASSUME NEW t, IsTable(t), NEW a \in Seq(Items), Counted(t, a), Placed(t, a),
         NEW b \in Bkts(t), NEW i \in Nat \ {0}
  PROVE  NewBucket(t, b, i).count + NewBucket(t, b + t.num_buckets, i).count = t.buckets[b].count
<1>. DEFINE n == t.num_buckets
            old == t.buckets[b].chain
<1>1. n \in Nat \ {0} /\ old \in Seq(Items)
  BY Fields
<1>2. b \in 0 .. 2 * n - 1 /\ b + n \in 0 .. 2 * n - 1 /\ b < n
  BY <1>1 DEF Bkts
<1>3. HASH_TO_BKT(b, n) = b /\ HASH_TO_BKT(b + n, n) = b
  <2>1. b % n = b
    BY <1>1, <1>2, ModSmall
  <2>2. (b + n) % n = b
    <3>. DEFINE c == b + n
    <3>1. c \in 0 .. 2 * n - 1 /\ ~ (c < n) /\ c - n = b
      BY <1>1, <1>2
    <3>. HIDE DEF c
    <3>2. c % n = b
      BY <1>1, <3>1, ModSmall
    <3>. QED
      BY <3>2 DEF c
  <2>. QED
    BY <2>1, <2>2 DEF HASH_TO_BKT
<1>4. ASSUME NEW x \in Range(old)
      PROVE  GoesTo(x, b, n) <=> ~ GoesTo(x, b + n, n)
  <2>1. x.hashv \in Nat /\ x.hashv % n = b
    BY <1>1, InRange DEF Placed, HASH_TO_BKT
  <2>2. x.hashv % (2 * n) = b \/ x.hashv % (2 * n) = b + n
    BY <1>1, <2>1, ModTwice
  <2>3. b # b + n
    BY <1>1, <1>2
  <2>. QED
    BY <2>2, <2>3 DEF GoesTo, HASH_TO_BKT
<1>5. Len(Moved(old, b, n)) + Len(Moved(old, b + n, n)) = Len(old)
  <2>. HIDE DEF old, n
  <2>. QED
    BY <1>1, <1>4, MovedApart
<1>6. NewBucket(t, b, i).count = Len(Moved(old, b, n))
  BY <1>2, <1>3, NewBucketIs
<1>7. NewBucket(t, b + n, i).count = Len(Moved(old, b + n, n))
  BY <1>2, <1>3, NewBucketIs
<1>8. Len(old) = t.buckets[b].count
  BY DEF Counted
<1>. QED
  BY <1>5, <1>6, <1>7, <1>8

(* The ideal length of a chain after the doubling.                         *)
Ideal(t) ==
  t.num_items \div TwoTo[t.log2_num_buckets + 1]
    + (IF t.num_items % (2 * t.num_buckets) # 0 THEN 1 ELSE 0)

Expanded(t) == HASH_EXPAND_BUCKETS(t)

LEMMA IdealIs ==
  ASSUME NEW t, IsTable(t), NEW a, Counted(t, a), t.num_items > 0,
         t.num_items <= HASH_BKT_CAPACITY_THRESH * (2 * t.num_buckets)
  PROVE  /\ Ideal(t) \in Nat \ {0} /\ Ideal(t) <= HASH_BKT_CAPACITY_THRESH
         /\ t.num_items <= Ideal(t) * (2 * t.num_buckets)
<1>. DEFINE n == 2 * t.num_buckets
            h == t.num_items
<1>1. n \in Nat \ {0} /\ h \in Nat /\ HASH_BKT_CAPACITY_THRESH \in Nat
  BY Fields, ThreshAssumption
<1>2. TwoTo[t.log2_num_buckets + 1] = n
  <2>1. TwoTo[t.log2_num_buckets + 1] = 2 * TwoTo[t.log2_num_buckets]
    BY Fields, TwoToNext
  <2>. QED
    BY <2>1 DEF Counted
<1>3. Ideal(t) = h \div n + (IF h % n # 0 THEN 1 ELSE 0)
  BY <1>2 DEF Ideal
<1>4. h > 0 /\ h <= HASH_BKT_CAPACITY_THRESH * n
  OBVIOUS
<1>. HIDE DEF n, h
<1>5. Ideal(t) \in Nat /\ h <= Ideal(t) * n /\ Ideal(t) <= HASH_BKT_CAPACITY_THRESH /\ Ideal(t) > 0
  BY <1>1, <1>3, <1>4, RoundUp
<1>. QED
  BY <1>5 DEF n, h

LEMMA ExpandedFields ==
  ASSUME NEW t, IsTable(t), NEW a \in Seq(Items), Placed(t, a), Ideal(t) \in Nat \ {0}
  PROVE  /\ IsTable(Expanded(t)) /\ Bkts(Expanded(t)) = 0 .. 2 * t.num_buckets - 1
         /\ Expanded(t).num_buckets = 2 * t.num_buckets
         /\ Expanded(t).log2_num_buckets = t.log2_num_buckets + 1
         /\ Expanded(t).num_items = t.num_items
         /\ Expanded(t).ideal_chain_maxlen = Ideal(t)
         /\ \A b \in 0 .. 2 * t.num_buckets - 1 :
              Expanded(t).buckets[b] = NewBucket(t, b, Ideal(t))
<1>. DEFINE n == 2 * t.num_buckets
            new == [b \in 0 .. n - 1 |-> NewBucket(t, b, Ideal(t))]
            nonideal == SumFunction([b \in 0 .. n - 1 |-> Max({0, new[b].count - Ideal(t)})])
            ineff == IF nonideal > t.num_items \div 2 THEN t.ineff_expands + 1 ELSE 0
            no == t.noexpand \/ ineff > 1
            log2 == t.log2_num_buckets + 1
            u == Expanded(t)
<1>1. u = [buckets |-> new, num_buckets |-> n, log2_num_buckets |-> log2,
           num_items |-> t.num_items, ideal_chain_maxlen |-> Ideal(t), ineff_expands |-> ineff,
           noexpand |-> no]
  BY DEF Expanded, HASH_EXPAND_BUCKETS, Ideal
<1>2. new \in [0 .. n - 1 -> BucketTypes] /\ \A b \in 0 .. n - 1 : new[b] = NewBucket(t, b, Ideal(t))
  BY NewBucketIs
<1>3. n \in Nat \ {0} /\ log2 \in Nat /\ t.num_items \in Nat
  BY Fields
<1>. HIDE DEF n, new, log2, nonideal
<1>4. ineff \in Nat
  BY Fields
<1>. HIDE DEF ineff
<1>5. no \in BOOLEAN
  BY Fields
<1>. HIDE DEF no, u
<1>6. /\ u.num_buckets = n /\ u.log2_num_buckets = log2 /\ u.num_items = t.num_items
      /\ u.ideal_chain_maxlen = Ideal(t) /\ u.buckets = new
  BY <1>1
<1>7. Bkts(u) = 0 .. n - 1
  BY <1>6 DEF Bkts
<1>8. IsTable(u)
  BY <1>1, <1>2, <1>3, <1>4, <1>5, <1>7 DEF IsTable
<1>. QED
  BY <1>2, <1>6, <1>7, <1>8 DEF n, log2, u

LEMMA ExpandedGood ==
  ASSUME NEW t, NEW a \in Seq(Items), IsTable(t), Counted(t, a), Placed(t, a), t.num_items > 0,
         t.num_items <= HASH_BKT_CAPACITY_THRESH * (2 * t.num_buckets)
  PROVE  Good(Expanded(t), a)
<1>. DEFINE n == t.num_buckets
            i == Ideal(t)
            u == Expanded(t)
            T == HASH_BKT_CAPACITY_THRESH
<1>0. T \in Nat \ {0} /\ n \in Nat \ {0} /\ 2 * n \in Nat \ {0} /\ t.num_items \in Nat
  BY ThreshAssumption, Fields
<1>1. i \in Nat \ {0} /\ i <= T /\ t.num_items <= i * (2 * n)
  BY IdealIs
<1>2. IsTable(u) /\ Bkts(u) = 0 .. 2 * n - 1
  BY <1>1, ExpandedFields
<1>3. /\ u.num_buckets = 2 * n /\ u.log2_num_buckets = t.log2_num_buckets + 1
      /\ u.num_items = t.num_items /\ u.ideal_chain_maxlen = i
  BY <1>1, ExpandedFields
<1>4. \A b \in 0 .. 2 * n - 1 : u.buckets[b] = NewBucket(t, b, i)
  BY <1>1, ExpandedFields
<1>. HIDE DEF u, i
<1>5. ASSUME NEW b \in 0 .. 2 * n - 1
      PROVE  /\ u.buckets[b].count = Len(u.buckets[b].chain)
             /\ u.buckets[b].expand_mult = ExpandMult(u.buckets[b].count, i)
             /\ \A x : x \in Range(u.buckets[b].chain)
                         <=> x \in Range(a) /\ HASH_TO_BKT(x.hashv, 2 * n) = b
  BY <1>1, <1>4, NewBucketIs
<1>6. Placed(u, a)
  BY <1>2, <1>3, <1>5 DEF Placed
<1>7. Counted(u, a)
  <2>1. SumFunction(Counts(u)) = SumFunction(Counts(t))
    <3>1. n \in Nat /\ Counts(t) \in [0 .. n - 1 -> Nat]
      BY <1>0, SumTypes DEF Bkts
    <3>2. Counts(u) \in [0 .. 2 * n - 1 -> Nat]
      BY <1>2, SumTypes
    <3>3. \A b \in 0 .. n - 1 : Counts(u)[b] + Counts(u)[b + n] = Counts(t)[b]
      <4>. SUFFICES ASSUME NEW b \in 0 .. n - 1
                    PROVE  Counts(u)[b] + Counts(u)[b + n] = Counts(t)[b]
        OBVIOUS
      <4>1. b \in Bkts(t) /\ b \in 0 .. 2 * n - 1 /\ b + n \in 0 .. 2 * n - 1
        <5>1. b \in Bkts(t)
          BY DEF Bkts
        <5>2. n \in Nat /\ b \in Nat /\ b < n
          BY <1>0
        <5>. HIDE DEF n
        <5>3. b \in 0 .. 2 * n - 1 /\ b + n \in 0 .. 2 * n - 1
          BY <5>2
        <5>. QED
          BY <5>1, <5>3
      <4>2. Counts(u)[b] = NewBucket(t, b, i).count /\ Counts(u)[b + n] = NewBucket(t, b + n, i).count
        BY <1>2, <1>4, <4>1 DEF Counts
      <4>3. Counts(t)[b] = t.buckets[b].count
        BY <4>1 DEF Counts
      <4>. QED
        BY <1>1, <4>1, <4>2, <4>3, NewHalves
    <3>. HIDE DEF n
    <3>. QED
      BY <3>1, <3>2, <3>3, SumOfHalves
  <2>2. 2 * n = TwoTo[t.log2_num_buckets + 1]
    <3>1. TwoTo[t.log2_num_buckets + 1] = 2 * TwoTo[t.log2_num_buckets]
      BY Fields, TwoToNext
    <3>. QED
      BY <3>1 DEF Counted
  <2>3. t.num_items = Len(a) /\ SumFunction(Counts(t)) = t.num_items
    BY DEF Counted
  <2>. QED
    BY <1>2, <1>3, <1>5, <2>1, <2>2, <2>3 DEF Counted
<1>8. /\ \A b \in 0 .. 2 * n - 1 : u.buckets[b].count \in Nat /\ u.buckets[b].expand_mult \in Nat
  BY <1>2, Fields
<1>9. ASSUME NEW b \in 0 .. 2 * n - 1
      PROVE  /\ u.buckets[b].expand_mult * i <= u.buckets[b].count
             /\ u.buckets[b].count < (u.buckets[b].expand_mult + 1) * i \/ u.buckets[b].count <= i
  BY <1>1, <1>5, <1>8, MultiplierIs
<1>10. Limited(u)
  <2>. SUFFICES ASSUME NEW b \in 0 .. 2 * n - 1
                PROVE  \/ u.buckets[b].count < (u.buckets[b].expand_mult + 1) * T
                       \/ u.buckets[b].count <= i
    BY <1>2, <1>3 DEF Limited
  <2>. DEFINE c == u.buckets[b].count
              m == u.buckets[b].expand_mult
  <2>1. c \in Nat /\ m \in Nat /\ (c < (m + 1) * i \/ c <= i)
    BY <1>8, <1>9
  <2>. HIDE DEF c, m
  <2>. DEFINE m1 == m + 1
              r == m1 * i
              s == m1 * T
  <2>2. r <= s /\ r \in Int /\ s \in Int
    <3>1. m1 \in Nat /\ i \in Int /\ T \in Int /\ i <= T
      BY <1>0, <1>1, <2>1
    <3>. HIDE DEF m1, T
    <3>. QED
      BY <3>1, TimesMore
  <2>3. c < s \/ c <= i
    <3>1. c \in Nat /\ (c < r \/ c <= i)
      BY <2>1
    <3>. HIDE DEF r, s
    <3>. QED
      BY <2>2, <3>1
  <2>. QED
    BY <2>3 DEF c, m
<1>11. Spacious(u)
  <2>1. t.num_items <= T * (2 * n) /\ T * (2 * n) < 2 * T * (2 * n)
    BY <1>0
  <2>. QED
    BY <1>0, <1>3, <2>1 DEF Spacious
<1>12. SumFunction(Multipliers(u)) <= 2 * n
  <2>. DEFINE s == SumFunction(Multipliers(u))
              w == 2 * n
  <2>1. Counts(u) \in [0 .. w - 1 -> Nat] /\ Multipliers(u) \in [0 .. w - 1 -> Nat] /\ s \in Nat
    BY <1>2, SumTypes
  <2>2. \A b \in 0 .. w - 1 : Multipliers(u)[b] * i <= Counts(u)[b]
    BY <1>2, <1>9 DEF Multipliers, Counts
  <2>3. SumFunction(Counts(u)) <= i * w
    BY <1>1, <1>3, <1>7 DEF Counted
  <2>4. w \in Nat \ {0}
    BY <1>0
  <2>5. s * i <= SumFunction(Counts(u)) /\ SumFunction(Counts(u)) \in Nat
    <3>. HIDE DEF w
    <3>. QED
      BY <1>1, <2>1, <2>2, <2>4, SumEnough, SumOfNat
  <2>. HIDE DEF s, w
  <2>6. s * i <= i * w
    <3>. DEFINE c == SumFunction(Counts(u))
                p == s * i
                q == i * w
    <3>1. p <= c /\ c <= q /\ c \in Nat
      BY <2>3, <2>5
    <3>2. p \in Int /\ q \in Int
      BY <1>1, <2>1, <2>4
    <3>. HIDE DEF c, p, q
    <3>3. p <= q
      BY <3>1, <3>2
    <3>. QED
      BY <3>3 DEF p, q
  <2>7. s <= w
    BY <1>1, <2>1, <2>4, <2>6
  <2>. QED
    BY <2>7 DEF s, w
<1>13. Paid(u)
  BY <1>1, <1>3, <1>12 DEF Paid
<1>. QED
  BY <1>2, <1>6, <1>7, <1>10, <1>11, <1>13 DEF Good, u

-------------------------------------------------------------------------------
\* The invariant.

LEMMA MadeGood == Good(HASH_MAKE_TABLE, <<>>)
<1>. DEFINE k == HASH_INITIAL_NUM_BUCKETS_LOG2
            n == TwoTo[k]
            t == HASH_MAKE_TABLE
            T == HASH_BKT_CAPACITY_THRESH
<1>0. n \in Nat \ {0} /\ k \in Nat /\ T \in Nat \ {0}
  BY Log2Assumption, ThreshAssumption, TwoToNext
<1>1. <<>> \in Seq(Items) /\ Len(<<>>) = 0 /\ Range(<<>>) = {}
  BY DEF Range
<1>2. /\ t.buckets = [b \in 0 .. n - 1 |-> EmptyBucket] /\ t.num_buckets = n
      /\ t.log2_num_buckets = k /\ t.num_items = 0 /\ t.ideal_chain_maxlen = 0
  BY DEF HASH_MAKE_TABLE
<1>3. EmptyBucket \in BucketTypes
  BY <1>1 DEF EmptyBucket, BucketTypes
<1>4. Bkts(t) = 0 .. n - 1
  BY <1>2 DEF Bkts
<1>5. IsTable(t)
  <2>1. t.buckets \in [0 .. n - 1 -> BucketTypes]
    BY <1>2, <1>3
  <2>. HIDE DEF n
  <2>. QED
    BY <1>0, <1>2, <1>4, <2>1 DEF IsTable, HASH_MAKE_TABLE
<1>6. \A b \in 0 .. n - 1 : /\ t.buckets[b].chain = <<>> /\ t.buckets[b].count = 0
                            /\ t.buckets[b].expand_mult = 0
  BY <1>2 DEF EmptyBucket
<1>. HIDE DEF t, n, k, T
<1>7. SumFunction(Counts(t)) = 0 /\ SumFunction(Multipliers(t)) = 0
  <2>1. \A b \in 0 .. n - 1 : Counts(t)[b] = 0 /\ Multipliers(t)[b] = 0
    BY <1>4, <1>6 DEF Counts, Multipliers
  <2>2. Counts(t) \in [0 .. n - 1 -> Nat] /\ Multipliers(t) \in [0 .. n - 1 -> Nat]
    BY <1>4, <1>5, SumTypes
  <2>. QED
    BY <1>0, <2>1, <2>2, SumOfZeros
<1>8. Counted(t, <<>>)
  BY <1>1, <1>2, <1>4, <1>6, <1>7 DEF Counted, n
<1>9. Placed(t, <<>>)
  BY <1>1, <1>4, <1>6 DEF Placed
<1>10. Paid(t)
  BY <1>0, <1>2, <1>7 DEF Paid, T
<1>11. Limited(t)
  <2>1. 0 < (0 + 1) * T
    BY <1>0
  <2>. QED
    BY <1>4, <1>6, <2>1 DEF Limited, T
<1>12. Spacious(t)
  <2>1. 0 < 2 * T * n
    BY <1>0
  <2>. QED
    BY <1>2, <2>1 DEF Spacious, T
<1>. QED
  BY <1>1, <1>5, <1>8, <1>9, <1>10, <1>11, <1>12 DEF Good, t

(* An addition that leaves its bucket short of its limit leaves the table  *)
(* with room: limits that no bucket is past add up to less than twice the  *)
(* threshold for each.                                                     *)
LEMMA LimitedIsSpacious ==
  ASSUME NEW t, NEW a, IsTable(t), Counted(t, a), Paid(t), Limited(t)
  PROVE  Spacious(t)
<1>. DEFINE n == t.num_buckets
            m == Counts(t)
            l == Multipliers(t)
            T == HASH_BKT_CAPACITY_THRESH
            s == SumFunction(l)
            c == SumFunction(m)
<1>1. n \in Nat \ {0} /\ T \in Nat \ {0} /\ t.ideal_chain_maxlen \in Nat
  BY Fields, ThreshAssumption
<1>2. /\ m \in [0 .. n - 1 -> Nat] /\ c \in Nat /\ l \in [0 .. n - 1 -> Nat] /\ s \in Nat
  BY SumTypes DEF Bkts
<1>3. s <= n /\ t.ideal_chain_maxlen <= T /\ c = t.num_items
  BY DEF Paid, Counted
<1>4. ASSUME NEW b \in 0 .. n - 1
      PROVE  m[b] <= (l[b] + 1) * T /\ (l[b] > 0 => m[b] < (l[b] + 1) * T)
  <2>. DEFINE mb == m[b]
              lb == l[b]
              p == (lb + 1) * T
  <2>1. mb \in Nat /\ lb \in Nat
    BY <1>2
  <2>2. mb < p \/ mb <= t.ideal_chain_maxlen
    BY DEF Limited, Counts, Multipliers, Bkts
  <2>3. mb < p \/ mb <= T
    <3>. HIDE DEF mb, p, T
    <3>. QED
      BY <1>1, <1>3, <2>1, <2>2
  <2>. HIDE DEF mb, lb, T
  <2>4. T <= p /\ p \in Int /\ (lb > 0 => T < p)
    <3>1. p = lb * T + T
      BY <1>1, <2>1
    <3>2. lb * T \in Nat /\ (lb > 0 => lb * T >= T)
      BY <1>1, <2>1
    <3>. DEFINE q == lb * T
    <3>. HIDE DEF q
    <3>3. p = q + T /\ q \in Nat /\ (lb > 0 => q >= T)
      BY <3>1, <3>2 DEF q
    <3>. QED
      BY <1>1, <3>3
  <2>. HIDE DEF p
  <2>5. mb <= p /\ (lb > 0 => mb < p)
    BY <1>1, <2>1, <2>3, <2>4
  <2>. QED
    BY <2>5 DEF mb, lb, p, T
<1>5. c <= (s + n) * T /\ (s > 0 => c < (s + n) * T)
  <2>. HIDE DEF n, m, l, T
  <2>. QED
    BY <1>1, <1>2, <1>4, SumWithin
<1>. HIDE DEF n, m, l, T, s, c
<1>6. c < 2 * T * n
  <2>. DEFINE p == (s + n) * T
              q == 2 * T * n
              o == T * n
  <2>1. p \in Int /\ q \in Int /\ o \in Int /\ q = o + o /\ o >= T
    BY <1>1, <1>2
  <2>2. p <= q
    <3>. DEFINE d == s + n
                e == n + n
    <3>1. d \in Int /\ e \in Int /\ d <= e
      BY <1>1, <1>2, <1>3
    <3>2. p = T * d /\ q = T * e
      BY <1>1, <1>2
    <3>. HIDE DEF d, e, p, q
    <3>. QED
      BY <1>1, <3>1, <3>2, TimesMore
  <2>3. s = 0 => p = o
    BY <1>1
  <2>4. c <= p /\ (s > 0 => c < p)
    BY <1>5
  <2>. HIDE DEF p, q, o
  <2>5. c < q
    BY <1>1, <1>2, <2>1, <2>2, <2>3, <2>4
  <2>. QED
    BY <2>5 DEF q
<1>. QED
  BY <1>3, <1>6 DEF Spacious, n, T

LEMMA AddGood ==
  ASSUME NEW t, NEW a, Good(t, a), NEW item \in Items
  PROVE  Good(HASH_ADD(t, item), Append(a, item))
<1>. DEFINE b == HASH_TO_BKT(item.hashv, t.num_buckets)
            u == Added(t, b, item)
            e == Append(a, item)
            T == HASH_BKT_CAPACITY_THRESH
            over == u.buckets[b].count >= (u.buckets[b].expand_mult + 1) * T
<1>1. /\ IsTable(t) /\ a \in Seq(Items) /\ Counted(t, a) /\ Placed(t, a) /\ Paid(t)
      /\ t.noexpand \/ (Limited(t) /\ Spacious(t))
  BY DEF Good
<1>2. b \in Bkts(t) /\ e \in Seq(Items) /\ Counted(u, e) /\ Placed(u, e)
  BY <1>1, AddedStillGood
<1>3. /\ IsTable(u) /\ Bkts(u) = Bkts(t) /\ u.num_buckets = t.num_buckets
      /\ u.num_items = t.num_items + 1 /\ u.ideal_chain_maxlen = t.ideal_chain_maxlen
      /\ u.noexpand = t.noexpand
  BY <1>1, <1>2, AddedFields
<1>4. /\ \A c \in Bkts(t) : c # b => u.buckets[c] = t.buckets[c]
      /\ u.buckets[b].expand_mult = t.buckets[b].expand_mult
  BY <1>1, <1>2, AddedFields
<1>5. HASH_ADD(t, item) = IF over /\ ~ t.noexpand THEN Expanded(u) ELSE u
  <2>1. [t EXCEPT !.num_items = @ + 1].noexpand = t.noexpand
    BY <1>1 DEF IsTable
  <2>. QED
    BY <2>1 DEF HASH_ADD, HASH_ADD_TO_BKT, Added, Expanded
<1>6. /\ t.num_buckets \in Nat \ {0} /\ t.num_items \in Nat /\ T \in Nat \ {0}
      /\ t.noexpand \in BOOLEAN
  BY <1>1, Fields, ThreshAssumption
<1>. HIDE DEF b, u, e
<1>7. CASE over /\ ~ t.noexpand
  <2>1. t.num_items < 2 * T * t.num_buckets
    BY <1>1, <1>7 DEF Spacious
  <2>2. u.num_items > 0 /\ u.num_items <= T * (2 * u.num_buckets)
    <3>. DEFINE p == 2 * T * t.num_buckets
    <3>1. p = T * (2 * t.num_buckets) /\ p \in Int
      BY <1>6
    <3>2. t.num_items < p
      BY <2>1
    <3>. HIDE DEF p
    <3>3. t.num_items + 1 > 0 /\ t.num_items + 1 <= p
      BY <1>6, <3>1, <3>2
    <3>. QED
      BY <1>3, <3>1, <3>3
  <2>3. Good(Expanded(u), e)
    BY <1>2, <1>3, <2>2, ExpandedGood
  <2>. QED
    BY <1>5, <1>7, <2>3 DEF e
<1>8. CASE ~ (over /\ ~ t.noexpand)
  <2>1. HASH_ADD(t, item) = u
    BY <1>5, <1>8
  <2>2. \A c \in Bkts(t) : u.buckets[c].expand_mult = t.buckets[c].expand_mult
    BY <1>4
  <2>3. Multipliers(u) = Multipliers(t)
    BY <1>3, <2>2 DEF Multipliers
  <2>4. Paid(u)
    BY <1>1, <1>3, <2>3 DEF Paid
  <2>5. ASSUME ~ t.noexpand
        PROVE  Limited(u) /\ Spacious(u)
    <3>1. ~ over
      BY <1>8, <2>5
    <3>2. u.buckets[b].count < (u.buckets[b].expand_mult + 1) * T
      <4>. DEFINE c == u.buckets[b].count
                  p == (u.buckets[b].expand_mult + 1) * T
      <4>1. c \in Nat /\ p \in Int
        BY <1>2, <1>3, <1>6, Fields
      <4>2. ~ (c >= p)
        BY <3>1
      <4>. HIDE DEF c, p
      <4>3. c < p
        BY <4>1, <4>2
      <4>. QED
        BY <4>3 DEF c, p
    <3>3. Limited(t)
      BY <1>1, <2>5
    <3>4. Limited(u)
      BY <1>3, <1>4, <3>2, <3>3 DEF Limited
    <3>. QED
      BY <1>2, <1>3, <2>4, <3>4, LimitedIsSpacious
  <2>6. u.noexpand \/ (Limited(u) /\ Spacious(u))
    BY <1>3, <1>6, <2>5
  <2>. QED
    BY <1>2, <1>3, <2>1, <2>4, <2>6 DEF Good, e
<1>. QED
  BY <1>7, <1>8

-------------------------------------------------------------------------------
(* The invariant is inductive, for every hash function and any number of   *)
(* additions (HASH_ADD, HASH_EXPAND_BUCKETS).                              *)
THEOREM Invariance == Spec => []HashInv
<1>. DEFINE GoodInv == Good(tbl, app)
<1>1. Init => GoodInv
  BY MadeGood DEF Init
<1>2. GoodInv /\ [Next]_<<tbl, app>> => GoodInv'
  <2>. SUFFICES ASSUME Good(tbl, app), [Next]_<<tbl, app>>
                PROVE  Good(tbl', app')
    OBVIOUS
  <2>1. CASE Add
    <3>1. PICK hashv \in Hashes :
            /\ tbl' = HASH_ADD(tbl, [key |-> Len(app) + 1, hashv |-> hashv])
            /\ app' = Append(app, [key |-> Len(app) + 1, hashv |-> hashv])
      BY <2>1 DEF Add
    <3>. DEFINE item == [key |-> Len(app) + 1, hashv |-> hashv]
    <3>2. Len(app) + 1 \in Nat \ {0}
      BY DEF Good
    <3>3. item \in Items
      BY <3>2 DEF Items
    <3>4. tbl' = HASH_ADD(tbl, item) /\ app' = Append(app, item)
      BY <3>1
    <3>. HIDE DEF item
    <3>. QED
      BY <3>3, <3>4, AddGood
  <2>2. CASE Full \/ UNCHANGED <<tbl, app>>
    BY <2>2 DEF Full
  <2>. QED
    BY <2>1, <2>2 DEF Next
<1>. HIDE DEF GoodInv
<1>3. GoodInv => HashInv
  BY HashInvIsGood DEF GoodInv
<1>. QED
  BY <1>1, <1>2, <1>3, PTL DEF Spec

(* Types, and always a bucket to put an item into.                         *)
THEOREM TypeCorrect == Spec => []TypeOK
<1>1. HashInv => TypeOK
  BY DEF HashInv
<1>. QED
  BY <1>1, Invariance, PTL

(* Counts agree with chains, their sum with the number of items, and the   *)
(* number of buckets with its logarithm, whatever has been doubled when    *)
(* (HASH_FSCK).                                                            *)
THEOREM CountsAgree == Spec => []Fsck
<1>1. HashInv => Fsck
  BY DEF HashInv
<1>. QED
  BY <1>1, Invariance, PTL

(* HASH_FIND finds every item that HASH_ADD has added, and no other, over  *)
(* any number of doublings: what TagStore takes for granted.               *)
THEOREM FindsAll == Spec => []FindsWhatWasAdded
<1>1. HashInv => FindsWhatWasAdded
  BY DEF HashInv
<1>. QED
  BY <1>1, Invariance, PTL

(* Until doubling is given up, chains are as short as their bucket lets    *)
(* them be, and buckets as many as the items call for, whatever the hash   *)
(* function (HASH_ADD_TO_BKT, HASH_EXPAND_BUCKETS).                        *)
THEOREM BoundedChains == Spec => []ChainsBounded
<1>1. HashInv => ChainsBounded
  BY DEF HashInv
<1>. QED
  BY <1>1, Invariance, PTL
===============================================================================
