----------------------------- MODULE SumTheorems -----------------------------
(***************************************************************************)
(* Lemmas about the sums of Functions: SumFunctionOnSet(f, S) is the sum   *)
(* of f[s] over the finite set S.  The figures and the shares of charges   *)
(* are such sums.                                                          *)
(*                                                                         *)
(* Induction is over sets: a set of naturals that has 0 and successors is  *)
(* Nat, a set of subsets of S that has {} and is closed under adding an    *)
(* element of S has S.                                                     *)
(***************************************************************************)
EXTENDS Integers, FiniteSets, Functions, FiniteSetTheorems, WellFoundedInduction, TLAPS

LEMMA Naturals ==
  ASSUME NEW N \in SUBSET Nat, 0 \in N, \A n \in N : n + 1 \in N
  PROVE  N = Nat
<1> DEFINE rest == Nat \ N
<1>1. ASSUME rest # {} PROVE FALSE
  <2>1. PICK n \in rest : \A m \in rest : ~(<<m, n>> \in OpToRel(<, Nat))
    <3> HIDE DEF rest
    <3>1. rest \subseteq Nat
      BY DEF rest
    <3> QED BY <1>1, <3>1, NatLessThanWellFounded, WFMin
  <2>2. n \in Nat /\ n # 0 /\ n \notin N
    OBVIOUS
  <2>3. n - 1 \in Nat /\ n - 1 < n /\ (n - 1) + 1 = n
    BY <2>2
  <2>4. n - 1 \notin rest
    BY <2>1, <2>2, <2>3 DEF OpToRel
  <2>5. n - 1 \in N
    BY <2>3, <2>4
  <2> QED BY <2>2, <2>3, <2>5
<1> QED BY <1>1

LEMMA Subsets ==
  ASSUME NEW S, IsFiniteSet(S), NEW F \in SUBSET (SUBSET S), {} \in F,
         \A T \in F : \A x \in S \ T : T \cup {x} \in F
  PROVE  S \in F
<1> DEFINE N == {n \in Nat : \A T \in SUBSET S : Cardinality(T) = n => T \in F}
<1>1. 0 \in N
  BY FS_Subset, FS_EmptySet
<1>2. ASSUME NEW n \in N, NEW T \in SUBSET S, Cardinality(T) = n + 1 PROVE T \in F
  <2>1. IsFiniteSet(T) /\ n \in Nat
    BY FS_Subset
  <2>2. T # {}
    BY <1>2, <2>1, FS_EmptySet
  <2>3. PICK x \in T : TRUE
    BY <2>2
  <2>4. Cardinality(T \ {x}) = n
    <3>1. Cardinality(T \ {x}) = Cardinality(T) - 1
      BY <2>1, <2>3, FS_RemoveElement
    <3> QED BY <1>2, <2>1, <3>1
  <2>5. T \ {x} \in F
    BY <2>4
  <2>6. (T \ {x}) \cup {x} = T /\ x \in S \ (T \ {x})
    OBVIOUS
  <2> QED BY <2>5, <2>6
<1>3. N = Nat
  <2>1. \A n \in N : n + 1 \in N
    BY <1>2
  <2> HIDE DEF N
  <2>2. N \in SUBSET Nat
    BY DEF N
  <2> QED BY <1>1, <2>1, <2>2, Naturals
<1>4. Cardinality(S) \in Nat
  BY FS_CardinalityType
<1> QED BY <1>3, <1>4

\* The image of a finite set, which is no smaller when f is injective on it.
LEMMA ImageIsFinite ==
  ASSUME NEW S, IsFiniteSet(S), NEW f
  PROVE  /\ IsFiniteSet({f[s] : s \in S})
         /\ (\A s, t \in S : f[s] = f[t] => s = t)
              => Cardinality({f[s] : s \in S}) = Cardinality(S)
<1> DEFINE Image(T) == {f[s] : s \in T}
           OneToOne == \A s, t \in S : f[s] = f[t] => s = t
           F == {T \in SUBSET S : /\ IsFiniteSet(Image(T))
                                  /\ OneToOne => Cardinality(Image(T)) = Cardinality(T)}
<1>1. {} \in F
  <2>1. Image({}) = {}
    OBVIOUS
  <2> QED BY <2>1, FS_EmptySet
<1>2. ASSUME NEW T \in F, NEW x \in S \ T PROVE T \cup {x} \in F
  <2>1. IsFiniteSet(T) /\ IsFiniteSet(Image(T)) /\ T \in SUBSET S
    BY FS_Subset
  <2>2. Image(T \cup {x}) = Image(T) \cup {f[x]}
    OBVIOUS
  <2>3. OneToOne => f[x] \notin Image(T)
    OBVIOUS
  <2>4. OneToOne => Cardinality(Image(T)) = Cardinality(T)
    OBVIOUS
  <2> HIDE DEF Image, OneToOne
  <2>5. IsFiniteSet(Image(T) \cup {f[x]})
    BY <2>1, FS_AddElement
  <2>6. OneToOne => Cardinality(Image(T) \cup {f[x]}) = Cardinality(T \cup {x})
    <3>1. x \notin T
      OBVIOUS
    <3>2. Cardinality(T \cup {x}) = Cardinality(T) + 1
      BY <2>1, <3>1, FS_AddElement
    <3>3. ASSUME OneToOne PROVE Cardinality(Image(T) \cup {f[x]}) = Cardinality(Image(T)) + 1
      BY <2>1, <2>3, <3>3, FS_AddElement
    <3> QED BY <2>4, <3>2, <3>3
  <2> QED BY <2>1, <2>2, <2>5, <2>6
<1> HIDE DEF F
<1>3. S \in F
  <2>1. F \in SUBSET (SUBSET S)
    BY DEF F
  <2> QED BY <1>1, <1>2, <2>1, Subsets
<1> QED BY <1>3 DEF F

-----------------------------------------------------------------------------
(* The recursive function behind a sum *)

Pick(s) == CHOOSE x \in s : TRUE

IsSum(f, D, g) ==
  g = [s \in D |-> IF s = {} THEN 0 ELSE f[Pick(s)] + g[s \ {Pick(s)}]]

LEMMA SumByRecursion ==
  ASSUME NEW f, NEW S
  PROVE  SumFunctionOnSet(f, S) = (CHOOSE g : IsSum(f, SUBSET S, g))[S]
  BY DEF SumFunctionOnSet, FoldFunctionOnSet, MapThenFoldSet, IsSum, Pick

LEMMA PickIsMember == \A s : s # {} => Pick(s) \in s
  BY DEF Pick

LEMMA SumExists ==
  ASSUME NEW f, NEW S, IsFiniteSet(S)
  PROVE  \E g : IsSum(f, SUBSET S, g)
<1> DEFINE D(n) == {s \in SUBSET S : Cardinality(s) <= n}
           N == {n \in Nat : \E g : IsSum(f, D(n), g)}
<1>0. \A s \in SUBSET S : IsFiniteSet(s) /\ Cardinality(s) \in Nat
  BY FS_Subset, FS_CardinalityType
<1>1. 0 \in N
  <2>1. \A s \in D(0) : s = {}
    BY <1>0, FS_EmptySet
  <2>2. IsSum(f, D(0), [s \in D(0) |-> 0])
    BY <2>1 DEF IsSum
  <2> QED BY <2>2
<1>2. ASSUME NEW n \in N PROVE n + 1 \in N
  <2> n \in Nat
    OBVIOUS
  <2>1. PICK g : IsSum(f, D(n), g)
    OBVIOUS
  <2> DEFINE h == [s \in D(n + 1) |->
                     IF s \in D(n) THEN g[s] ELSE f[Pick(s)] + g[s \ {Pick(s)}]]
  <2>2. ASSUME NEW s \in D(n + 1), s # {}
        PROVE  s \ {Pick(s)} \in D(n)
    <3>1. Cardinality(s \ {Pick(s)}) = Cardinality(s) - 1 /\ s \ {Pick(s)} \in SUBSET S
      BY <1>0, <2>2, PickIsMember, FS_RemoveElement
    <3>2. Cardinality(s) \in Nat /\ Cardinality(s) <= n + 1
      BY <1>0
    <3>3. Cardinality(s \ {Pick(s)}) <= n
      BY <3>1, <3>2
    <3> QED BY <3>1, <3>3
  <2>3. \A s \in D(n) : s \in D(n + 1)
    BY <1>0
  <2>4. ASSUME NEW s \in D(n + 1)
        PROVE  h[s] = IF s = {} THEN 0 ELSE f[Pick(s)] + h[s \ {Pick(s)}]
    <3>1. CASE s \in D(n) /\ s = {}
      BY <2>1, <3>1 DEF IsSum
    <3>2. CASE s \in D(n) /\ s # {}
      <4>1. h[s] = g[s] /\ g[s] = f[Pick(s)] + g[s \ {Pick(s)}]
        BY <2>1, <3>2 DEF IsSum
      <4>2. s \ {Pick(s)} \in D(n)
        BY <2>2, <3>2
      <4>3. h[s \ {Pick(s)}] = g[s \ {Pick(s)}]
        BY <2>3, <4>2
      <4> QED BY <3>2, <4>1, <4>3
    <3>3. CASE s \notin D(n)
      <4>1. s # {}
        BY <1>0, <3>3, FS_EmptySet
      <4>2. s \ {Pick(s)} \in D(n)
        BY <2>2, <4>1
      <4>3. h[s \ {Pick(s)}] = g[s \ {Pick(s)}]
        BY <2>3, <4>2
      <4> QED BY <3>3, <4>1, <4>3
    <3> QED BY <3>1, <3>2, <3>3
  <2>5. IsSum(f, D(n + 1), h)
    <3>1. h = [s \in D(n + 1) |-> h[s]]
      OBVIOUS
    <3> HIDE DEF h, D
    <3>2. h = [s \in D(n + 1) |-> IF s = {} THEN 0 ELSE f[Pick(s)] + h[s \ {Pick(s)}]]
      BY <2>4, <3>1
    <3> QED BY <3>2 DEF IsSum
  <2> HIDE DEF h, D
  <2>6. \E x : IsSum(f, D(n + 1), x)
    BY <2>5
  <2> QED BY <2>6
<1>3. N = Nat
  <2> HIDE DEF N
  <2>1. N \in SUBSET Nat
    BY DEF N
  <2> QED BY <1>1, <1>2, <2>1, Naturals
<1>4. D(Cardinality(S)) = SUBSET S
  BY <1>0, FS_Subset
<1>5. Cardinality(S) \in N
  BY <1>0, <1>3
<1> QED BY <1>4, <1>5

\* What the function says of a set does not depend on its domain.
LEMMA SumUnique ==
  ASSUME NEW f, NEW S, IsFiniteSet(S), NEW T \in SUBSET S, NEW g, NEW h,
         IsSum(f, SUBSET S, g), IsSum(f, SUBSET T, h)
  PROVE  g[T] = h[T]
<1> DEFINE N == {n \in Nat : \A s \in SUBSET T : Cardinality(s) = n => g[s] = h[s]}
<1>0. \A s \in SUBSET T : IsFiniteSet(s) /\ Cardinality(s) \in Nat /\ s \in SUBSET S
  BY FS_Subset, FS_CardinalityType
<1>1. 0 \in N
  <2>1. g[{}] = 0 /\ h[{}] = 0
    BY DEF IsSum
  <2> QED BY <1>0, <2>1, FS_EmptySet
<1>2. ASSUME NEW n \in N, NEW s \in SUBSET T, Cardinality(s) = n + 1 PROVE g[s] = h[s]
  <2>1. s # {} /\ n \in Nat
    BY <1>2, FS_EmptySet
  <2>2. Cardinality(s \ {Pick(s)}) = n /\ s \ {Pick(s)} \in SUBSET T
    BY <1>0, <1>2, <2>1, PickIsMember, FS_RemoveElement
  <2>3. g[s \ {Pick(s)}] = h[s \ {Pick(s)}]
    BY <2>2
  <2>4. g[s] = f[Pick(s)] + g[s \ {Pick(s)}]
    BY <1>0, <2>1 DEF IsSum
  <2>5. h[s] = f[Pick(s)] + h[s \ {Pick(s)}]
    BY <2>1 DEF IsSum
  <2> QED BY <2>3, <2>4, <2>5
<1>3. N = Nat
  <2>1. ASSUME NEW n \in N PROVE n + 1 \in N
    <3>1. n + 1 \in Nat
      OBVIOUS
    <3>2. ASSUME NEW s \in SUBSET T, Cardinality(s) = n + 1 PROVE g[s] = h[s]
      BY <1>2, <3>2
    <3> QED BY <3>1, <3>2
  <2> HIDE DEF N
  <2>2. N \in SUBSET Nat
    BY DEF N
  <2> QED BY <1>1, <2>1, <2>2, Naturals
<1> QED BY <1>0, <1>3

-----------------------------------------------------------------------------
(* What every proof about sums uses *)

LEMMA SumStep ==
  ASSUME NEW f, NEW S, IsFiniteSet(S)
  PROVE  SumFunctionOnSet(f, S) =
           IF S = {} THEN 0 ELSE f[Pick(S)] + SumFunctionOnSet(f, S \ {Pick(S)})
<1> DEFINE T == S \ {Pick(S)}
           g == CHOOSE g : IsSum(f, SUBSET S, g)
           h == CHOOSE h : IsSum(f, SUBSET T, h)
<1>1. IsFiniteSet(T) /\ T \in SUBSET S
  BY FS_Subset
<1>2. IsSum(f, SUBSET S, g) /\ IsSum(f, SUBSET T, h)
  BY <1>1, SumExists
<1>3. SumFunctionOnSet(f, S) = g[S] /\ SumFunctionOnSet(f, T) = h[T]
  BY SumByRecursion
<1> HIDE DEF g, h
<1>4. g[T] = h[T]
  BY <1>1, <1>2, SumUnique
<1>5. g[S] = IF S = {} THEN 0 ELSE f[Pick(S)] + g[T]
  BY <1>2 DEF IsSum
<1> QED BY <1>3, <1>4, <1>5

LEMMA SumEmpty == \A f : SumFunctionOnSet(f, {}) = 0
  BY SumStep, FS_EmptySet

LEMMA SumInt ==
  ASSUME NEW S, IsFiniteSet(S), NEW f, \A s \in S : f[s] \in Int
  PROVE  SumFunctionOnSet(f, S) \in Int
<1> DEFINE N == {n \in Nat : \A T \in SUBSET S : Cardinality(T) = n => SumFunctionOnSet(f, T) \in Int}
<1>0. \A T \in SUBSET S : IsFiniteSet(T) /\ Cardinality(T) \in Nat
  BY FS_Subset, FS_CardinalityType
<1>1. 0 \in N
  BY <1>0, FS_EmptySet, SumEmpty
<1>2. ASSUME NEW n \in N, NEW T \in SUBSET S, Cardinality(T) = n + 1
      PROVE  SumFunctionOnSet(f, T) \in Int
  <2>1. T # {} /\ n \in Nat
    BY <1>2, FS_EmptySet
  <2>2. Pick(T) \in T
    BY <2>1, PickIsMember
  <2>3. Cardinality(T \ {Pick(T)}) = Cardinality(T) - 1
    BY <1>0, <2>2, FS_RemoveElement
  <2>4. SumFunctionOnSet(f, T \ {Pick(T)}) \in Int
    BY <1>2, <2>1, <2>3
  <2>5. f[Pick(T)] \in Int
    BY <2>2
  <2> QED BY <1>0, <2>1, <2>4, <2>5, SumStep
<1>3. N = Nat
  <2>1. ASSUME NEW n \in N PROVE n + 1 \in N
    <3>1. n + 1 \in Nat
      OBVIOUS
    <3>2. ASSUME NEW T \in SUBSET S, Cardinality(T) = n + 1 PROVE SumFunctionOnSet(f, T) \in Int
      BY <1>2, <3>2
    <3> QED BY <3>1, <3>2
  <2> HIDE DEF N
  <2>2. N \in SUBSET Nat
    BY DEF N
  <2> QED BY <1>1, <2>1, <2>2, Naturals
<1> QED BY <1>0, <1>3

\* Any element can be taken out, not only the one the recursion picks.
LEMMA SumRemove ==
  ASSUME NEW S, IsFiniteSet(S), NEW f, \A s \in S : f[s] \in Int, NEW x \in S
  PROVE  SumFunctionOnSet(f, S) = f[x] + SumFunctionOnSet(f, S \ {x})
<1> DEFINE Removes(T) == \A y \in T : SumFunctionOnSet(f, T) = f[y] + SumFunctionOnSet(f, T \ {y})
           N == {n \in Nat : \A T \in SUBSET S : Cardinality(T) = n => Removes(T)}
<1>0. \A T \in SUBSET S : IsFiniteSet(T) /\ Cardinality(T) \in Nat /\ SumFunctionOnSet(f, T) \in Int
  BY FS_Subset, FS_CardinalityType, SumInt
<1>1. 0 \in N
  BY <1>0, FS_EmptySet
<1>2. ASSUME NEW n \in N, NEW T \in SUBSET S, Cardinality(T) = n + 1, NEW y \in T
      PROVE  SumFunctionOnSet(f, T) = f[y] + SumFunctionOnSet(f, T \ {y})
  <2> DEFINE p == Pick(T)
  <2>1. p \in T /\ n \in Nat
    BY PickIsMember
  <2>2. SumFunctionOnSet(f, T) = f[p] + SumFunctionOnSet(f, T \ {p})
    BY <1>0, <2>1, SumStep
  <2> HIDE DEF p
  <2>3. CASE y # p
    <3>1. /\ Cardinality(T \ {p}) = Cardinality(T) - 1
          /\ Cardinality(T \ {y}) = Cardinality(T) - 1
      BY <1>0, <2>1, FS_RemoveElement
    <3>2. Cardinality(T \ {p}) = n /\ Cardinality(T \ {y}) = n
      BY <1>2, <2>1, <3>1
    <3>3. Removes(T \ {p}) /\ Removes(T \ {y})
      BY <3>2
    <3>4. /\ SumFunctionOnSet(f, T \ {p}) = f[y] + SumFunctionOnSet(f, (T \ {p}) \ {y})
          /\ SumFunctionOnSet(f, T \ {y}) = f[p] + SumFunctionOnSet(f, (T \ {y}) \ {p})
      BY <2>1, <2>3, <3>3
    <3>5. (T \ {p}) \ {y} = (T \ {y}) \ {p}
      OBVIOUS
    <3>6. f[p] \in Int /\ f[y] \in Int /\ SumFunctionOnSet(f, (T \ {p}) \ {y}) \in Int
      BY <1>0, <2>1
    <3>7. SumFunctionOnSet(f, T \ {p}) = f[y] + SumFunctionOnSet(f, (T \ {p}) \ {y})
      BY <3>4
    <3>8. SumFunctionOnSet(f, T \ {y}) = f[p] + SumFunctionOnSet(f, (T \ {p}) \ {y})
      BY <3>4, <3>5
    <3> QED BY <2>2, <3>6, <3>7, <3>8
  <2> QED BY <2>2, <2>3
<1>3. N = Nat
  <2>1. ASSUME NEW n \in N PROVE n + 1 \in N
    <3>1. n + 1 \in Nat
      OBVIOUS
    <3>2. ASSUME NEW T \in SUBSET S, Cardinality(T) = n + 1 PROVE Removes(T)
      BY <1>2, <3>2
    <3> QED BY <3>1, <3>2
  <2> HIDE DEF N
  <2>2. N \in SUBSET Nat
    BY DEF N
  <2> QED BY <1>1, <2>1, <2>2, Naturals
<1> QED BY <1>0, <1>3

LEMMA SumAdd ==
  ASSUME NEW S, IsFiniteSet(S), NEW x, x \notin S, NEW f, \A s \in S \cup {x} : f[s] \in Int
  PROVE  SumFunctionOnSet(f, S \cup {x}) = f[x] + SumFunctionOnSet(f, S)
<1>1. IsFiniteSet(S \cup {x}) /\ (S \cup {x}) \ {x} = S /\ x \in S \cup {x}
  BY FS_AddElement
<1> QED BY <1>1, SumRemove

-----------------------------------------------------------------------------
(* Sums of equal, greater and combined terms *)

LEMMA SumEqual ==
  ASSUME NEW S, IsFiniteSet(S), NEW f, NEW g, \A s \in S : f[s] \in Int /\ f[s] = g[s]
  PROVE  SumFunctionOnSet(f, S) = SumFunctionOnSet(g, S)
<1> DEFINE F == {T \in SUBSET S : SumFunctionOnSet(f, T) = SumFunctionOnSet(g, T)}
<1>1. {} \in F
  BY SumEmpty
<1>2. ASSUME NEW T \in F, NEW x \in S \ T PROVE T \cup {x} \in F
  <2>1. IsFiniteSet(T)
    BY FS_Subset
  <2>2. /\ SumFunctionOnSet(f, T \cup {x}) = f[x] + SumFunctionOnSet(f, T)
        /\ SumFunctionOnSet(g, T \cup {x}) = g[x] + SumFunctionOnSet(g, T)
    BY <2>1, SumAdd
  <2> QED BY <2>2
<1> HIDE DEF F
<1>3. S \in F
  <2>1. F \in SUBSET (SUBSET S)
    BY DEF F
  <2> QED BY <1>1, <1>2, <2>1, Subsets
<1> QED BY <1>3 DEF F

LEMMA SumLeq ==
  ASSUME NEW S, IsFiniteSet(S), NEW f, NEW g,
         \A s \in S : f[s] \in Int /\ g[s] \in Int /\ f[s] <= g[s]
  PROVE  SumFunctionOnSet(f, S) <= SumFunctionOnSet(g, S)
<1> DEFINE F == {T \in SUBSET S : SumFunctionOnSet(f, T) <= SumFunctionOnSet(g, T)}
<1>1. {} \in F
  BY SumEmpty
<1>2. ASSUME NEW T \in F, NEW x \in S \ T PROVE T \cup {x} \in F
  <2>1. IsFiniteSet(T)
    BY FS_Subset
  <2>2. /\ SumFunctionOnSet(f, T \cup {x}) = f[x] + SumFunctionOnSet(f, T)
        /\ SumFunctionOnSet(g, T \cup {x}) = g[x] + SumFunctionOnSet(g, T)
        /\ SumFunctionOnSet(f, T) \in Int /\ SumFunctionOnSet(g, T) \in Int
    BY <2>1, SumAdd, SumInt
  <2> QED BY <2>2
<1> HIDE DEF F
<1>3. S \in F
  <2>1. F \in SUBSET (SUBSET S)
    BY DEF F
  <2> QED BY <1>1, <1>2, <2>1, Subsets
<1> QED BY <1>3 DEF F

LEMMA SumPlus ==
  ASSUME NEW S, IsFiniteSet(S), NEW f, NEW g, NEW h,
         \A s \in S : f[s] \in Int /\ g[s] \in Int /\ h[s] = f[s] + g[s]
  PROVE  SumFunctionOnSet(h, S) = SumFunctionOnSet(f, S) + SumFunctionOnSet(g, S)
<1> DEFINE F == {T \in SUBSET S : SumFunctionOnSet(h, T) =
                                    SumFunctionOnSet(f, T) + SumFunctionOnSet(g, T)}
<1>1. {} \in F
  BY SumEmpty
<1>2. ASSUME NEW T \in F, NEW x \in S \ T PROVE T \cup {x} \in F
  <2>1. IsFiniteSet(T)
    BY FS_Subset
  <2>2. \A s \in T \cup {x} : f[s] \in Int /\ g[s] \in Int /\ h[s] \in Int
    OBVIOUS
  <2>3. /\ SumFunctionOnSet(f, T \cup {x}) = f[x] + SumFunctionOnSet(f, T)
        /\ SumFunctionOnSet(g, T \cup {x}) = g[x] + SumFunctionOnSet(g, T)
        /\ SumFunctionOnSet(h, T \cup {x}) = h[x] + SumFunctionOnSet(h, T)
        /\ SumFunctionOnSet(f, T) \in Int /\ SumFunctionOnSet(g, T) \in Int
    BY <2>1, <2>2, SumAdd, SumInt
  <2> QED BY <2>3
<1> HIDE DEF F
<1>3. S \in F
  <2>1. F \in SUBSET (SUBSET S)
    BY DEF F
  <2> QED BY <1>1, <1>2, <2>1, Subsets
<1> QED BY <1>3 DEF F

LEMMA SumTimes ==
  ASSUME NEW S, IsFiniteSet(S), NEW f, NEW g, NEW k \in Int,
         \A s \in S : f[s] \in Int /\ g[s] = k * f[s]
  PROVE  SumFunctionOnSet(g, S) = k * SumFunctionOnSet(f, S)
<1> DEFINE F == {T \in SUBSET S : SumFunctionOnSet(g, T) = k * SumFunctionOnSet(f, T)}
<1>1. {} \in F
  BY SumEmpty
<1>2. ASSUME NEW T \in F, NEW x \in S \ T PROVE T \cup {x} \in F
  <2>1. IsFiniteSet(T)
    BY FS_Subset
  <2>2. \A s \in T \cup {x} : f[s] \in Int /\ g[s] \in Int
    OBVIOUS
  <2>3. /\ SumFunctionOnSet(f, T \cup {x}) = f[x] + SumFunctionOnSet(f, T)
        /\ SumFunctionOnSet(g, T \cup {x}) = g[x] + SumFunctionOnSet(g, T)
        /\ SumFunctionOnSet(f, T) \in Int /\ f[x] \in Int
    BY <2>1, <2>2, SumAdd, SumInt
  <2>4. \A a, b \in Int : k * (a + b) = k * a + k * b
    OBVIOUS
  <2> QED BY <2>3, <2>4
<1> HIDE DEF F
<1>3. S \in F
  <2>1. F \in SUBSET (SUBSET S)
    BY DEF F
  <2> QED BY <1>1, <1>2, <2>1, Subsets
<1> QED BY <1>3 DEF F

LEMMA SumConstant ==
  ASSUME NEW S, IsFiniteSet(S), NEW f, NEW k \in Int, \A s \in S : f[s] = k
  PROVE  SumFunctionOnSet(f, S) = Cardinality(S) * k
<1> DEFINE F == {T \in SUBSET S : SumFunctionOnSet(f, T) = Cardinality(T) * k}
<1>1. {} \in F
  BY SumEmpty, FS_EmptySet
<1>2. ASSUME NEW T \in F, NEW x \in S \ T PROVE T \cup {x} \in F
  <2>1. IsFiniteSet(T)
    BY FS_Subset
  <2>2. SumFunctionOnSet(f, T \cup {x}) = k + SumFunctionOnSet(f, T)
    <3>1. f[x] = k /\ x \notin T /\ \A s \in T \cup {x} : f[s] \in Int
      OBVIOUS
    <3> QED BY <2>1, <3>1, SumAdd
  <2>3. Cardinality(T \cup {x}) = Cardinality(T) + 1 /\ Cardinality(T) \in Nat
    BY <2>1, FS_AddElement, FS_CardinalityType
  <2>4. \A n \in Nat : k + n * k = (n + 1) * k
    OBVIOUS
  <2> QED BY <2>2, <2>3, <2>4
<1> HIDE DEF F
<1>3. S \in F
  <2>1. F \in SUBSET (SUBSET S)
    BY DEF F
  <2> QED BY <1>1, <1>2, <2>1, Subsets
<1> QED BY <1>3 DEF F

LEMMA SumNat ==
  ASSUME NEW S, IsFiniteSet(S), NEW f, \A s \in S : f[s] \in Nat
  PROVE  /\ SumFunctionOnSet(f, S) \in Nat
         /\ \A x \in S : f[x] <= SumFunctionOnSet(f, S)
<1> DEFINE zero == [s \in S |-> 0]
<1>1. ASSUME NEW T \in SUBSET S PROVE SumFunctionOnSet(f, T) \in Nat
  <2>1. IsFiniteSet(T)
    BY FS_Subset
  <2>2. SumFunctionOnSet(zero, T) = Cardinality(T) * 0 /\ Cardinality(T) \in Nat
    BY <2>1, SumConstant, FS_CardinalityType
  <2>3. SumFunctionOnSet(zero, T) <= SumFunctionOnSet(f, T) /\ SumFunctionOnSet(f, T) \in Int
    BY <2>1, SumLeq, SumInt
  <2> QED BY <2>2, <2>3
<1>2. ASSUME NEW x \in S PROVE f[x] <= SumFunctionOnSet(f, S)
  <2>1. SumFunctionOnSet(f, S) = f[x] + SumFunctionOnSet(f, S \ {x})
    BY SumRemove
  <2>2. SumFunctionOnSet(f, S \ {x}) \in Nat /\ f[x] \in Nat
    BY <1>1
  <2> QED BY <2>1, <2>2
<1> QED BY <1>1, <1>2

\* Terms that are apart by at most k/2 each.
LEMMA SumsApart ==
  ASSUME NEW S, IsFiniteSet(S), NEW f, NEW g, NEW k \in Int,
         \A s \in S : f[s] \in Int /\ g[s] \in Int /\ 2 * f[s] - 2 * g[s] <= k
  PROVE  2 * SumFunctionOnSet(f, S) - 2 * SumFunctionOnSet(g, S) <= Cardinality(S) * k
<1> DEFINE ff == [s \in S |-> 2 * f[s]]
           gg == [s \in S |-> 2 * g[s]]
           kk == [s \in S |-> k]
           sum == [s \in S |-> 2 * g[s] + k]
<1>1. \A s \in S : /\ ff[s] \in Int /\ ff[s] = 2 * f[s]
                   /\ gg[s] \in Int /\ gg[s] = 2 * g[s]
                   /\ kk[s] \in Int /\ kk[s] = k
                   /\ sum[s] \in Int /\ sum[s] = gg[s] + kk[s]
                   /\ ff[s] <= sum[s]
  OBVIOUS
<1> HIDE DEF ff, gg, kk, sum
<1>2. SumFunctionOnSet(ff, S) = 2 * SumFunctionOnSet(f, S)
  BY <1>1, SumTimes
<1>3. SumFunctionOnSet(gg, S) = 2 * SumFunctionOnSet(g, S)
  BY <1>1, SumTimes
<1>4. SumFunctionOnSet(kk, S) = Cardinality(S) * k
  BY <1>1, SumConstant
<1>5. SumFunctionOnSet(sum, S) = SumFunctionOnSet(gg, S) + SumFunctionOnSet(kk, S)
  BY <1>1, SumPlus
<1>6. SumFunctionOnSet(ff, S) <= SumFunctionOnSet(sum, S)
  BY <1>1, SumLeq
<1>7. /\ SumFunctionOnSet(f, S) \in Int /\ SumFunctionOnSet(g, S) \in Int
      /\ SumFunctionOnSet(kk, S) \in Int
  BY <1>1, SumInt
<1> QED BY <1>2, <1>3, <1>4, <1>5, <1>6, <1>7

-----------------------------------------------------------------------------
(* Sums over other sets *)

LEMMA SumUnion ==
  ASSUME NEW S, IsFiniteSet(S), NEW R, IsFiniteSet(R), S \cap R = {},
         NEW f, \A s \in S \cup R : f[s] \in Int
  PROVE  SumFunctionOnSet(f, S \cup R) = SumFunctionOnSet(f, S) + SumFunctionOnSet(f, R)
<1> DEFINE F == {T \in SUBSET S : SumFunctionOnSet(f, T \cup R) =
                                    SumFunctionOnSet(f, T) + SumFunctionOnSet(f, R)}
<1>1. {} \in F
  <2>1. {} \cup R = R
    OBVIOUS
  <2> QED BY <2>1, SumEmpty, SumInt
<1>2. ASSUME NEW T \in F, NEW x \in S \ T PROVE T \cup {x} \in F
  <2>1. IsFiniteSet(T) /\ IsFiniteSet(T \cup R)
    BY FS_Subset, FS_Union
  <2>2. (T \cup {x}) \cup R = (T \cup R) \cup {x} /\ x \notin T \cup R
    OBVIOUS
  <2>3. /\ SumFunctionOnSet(f, T \cup {x}) = f[x] + SumFunctionOnSet(f, T)
        /\ SumFunctionOnSet(f, (T \cup R) \cup {x}) = f[x] + SumFunctionOnSet(f, T \cup R)
    BY <2>1, <2>2, SumAdd
  <2>4. /\ SumFunctionOnSet(f, T) \in Int /\ SumFunctionOnSet(f, R) \in Int /\ f[x] \in Int
    BY <2>1, SumInt
  <2>5. SumFunctionOnSet(f, T \cup R) = SumFunctionOnSet(f, T) + SumFunctionOnSet(f, R)
    OBVIOUS
  <2>6. SumFunctionOnSet(f, (T \cup {x}) \cup R) = f[x] + SumFunctionOnSet(f, T \cup R)
    BY <2>2, <2>3
  <2> DEFINE a == SumFunctionOnSet(f, T)
             b == SumFunctionOnSet(f, R)
  <2>7. f[x] + (a + b) = (f[x] + a) + b
    <3> HIDE DEF a, b
    <3>1. a \in Int /\ b \in Int /\ f[x] \in Int
      BY <2>4 DEF a, b
    <3> QED BY <3>1
  <2>8. SumFunctionOnSet(f, (T \cup {x}) \cup R) =
          SumFunctionOnSet(f, T \cup {x}) + SumFunctionOnSet(f, R)
    BY <2>3, <2>5, <2>6, <2>7
  <2> QED BY <2>8
<1> HIDE DEF F
<1>3. S \in F
  <2>1. F \in SUBSET (SUBSET S)
    BY DEF F
  <2> QED BY <1>1, <1>2, <2>1, Subsets
<1> QED BY <1>3 DEF F

\* Terms outside R are zero.
LEMMA SumNonzero ==
  ASSUME NEW S, IsFiniteSet(S), NEW R \in SUBSET S, NEW f,
         \A s \in S : f[s] \in Int, \A s \in S \ R : f[s] = 0
  PROVE  SumFunctionOnSet(f, S) = SumFunctionOnSet(f, R)
<1>1. /\ IsFiniteSet(R) /\ IsFiniteSet(S \ R) /\ R \cup (S \ R) = S /\ R \cap (S \ R) = {}
  BY FS_Subset
<1>2. SumFunctionOnSet(f, S) = SumFunctionOnSet(f, R) + SumFunctionOnSet(f, S \ R)
  BY <1>1, SumUnion
<1>3. SumFunctionOnSet(f, S \ R) = Cardinality(S \ R) * 0
  BY <1>1, SumConstant
<1>4. Cardinality(S \ R) \in Nat /\ SumFunctionOnSet(f, R) \in Int
  BY <1>1, FS_CardinalityType, SumInt
<1> QED BY <1>2, <1>3, <1>4

\* The elements of S renamed by an injection m.
LEMMA SumRename ==
  ASSUME NEW S, IsFiniteSet(S), NEW m, \A s, t \in S : m[s] = m[t] => s = t,
         NEW f, NEW g, \A s \in S : f[s] \in Int /\ g[m[s]] = f[s]
  PROVE  SumFunctionOnSet(f, S) = SumFunctionOnSet(g, {m[s] : s \in S})
<1> DEFINE Image(T) == {m[s] : s \in T}
           F == {T \in SUBSET S : /\ IsFiniteSet(Image(T))
                                  /\ SumFunctionOnSet(f, T) = SumFunctionOnSet(g, Image(T))}
<1>1. {} \in F
  <2>1. Image({}) = {}
    OBVIOUS
  <2> QED BY <2>1, SumEmpty, FS_EmptySet
<1>2. ASSUME NEW T \in F, NEW x \in S \ T PROVE T \cup {x} \in F
  <2>1. IsFiniteSet(T) /\ IsFiniteSet(Image(T))
    BY FS_Subset
  <2>2. Image(T \cup {x}) = Image(T) \cup {m[x]} /\ m[x] \notin Image(T)
    OBVIOUS
  <2>3. \A i \in Image(T) \cup {m[x]} : g[i] \in Int
    OBVIOUS
  <2>4. SumFunctionOnSet(f, T \cup {x}) = f[x] + SumFunctionOnSet(f, T)
    BY <2>1, SumAdd
  <2> HIDE DEF Image
  <2>5. SumFunctionOnSet(g, Image(T) \cup {m[x]}) = g[m[x]] + SumFunctionOnSet(g, Image(T))
    BY <2>1, <2>2, <2>3, SumAdd
  <2>6. IsFiniteSet(Image(T) \cup {m[x]})
    BY <2>1, FS_AddElement
  <2> QED BY <2>2, <2>4, <2>5, <2>6
<1> HIDE DEF F
<1>3. S \in F
  <2>1. F \in SUBSET (SUBSET S)
    BY DEF F
  <2> QED BY <1>1, <1>2, <2>1, Subsets
<1> QED BY <1>3 DEF F

\* A table summed by groups: the group of s is k[s], the sum of a group total[i].
LEMMA SumGroups ==
  ASSUME NEW S, IsFiniteSet(S), NEW K, IsFiniteSet(K), NEW k, \A s \in S : k[s] \in K,
         NEW f, \A s \in S : f[s] \in Int, NEW total,
         \A i \in K : total[i] = SumFunctionOnSet(f, {s \in S : k[s] = i})
  PROVE  SumFunctionOnSet(total, K) = SumFunctionOnSet(f, S)
<1> DEFINE Of(J) == {s \in S : k[s] \in J}
           F == {J \in SUBSET K : SumFunctionOnSet(total, J) = SumFunctionOnSet(f, Of(J))}
<1>1. {} \in F
  <2>1. Of({}) = {}
    OBVIOUS
  <2> QED BY <2>1, SumEmpty
<1>2. ASSUME NEW J \in F, NEW i \in K \ J PROVE J \cup {i} \in F
  <2> DEFINE new == {s \in S : k[s] = i}
  <2>1. IsFiniteSet(J) /\ IsFiniteSet(Of(J)) /\ IsFiniteSet(new)
    BY FS_Subset
  <2>2. Of(J \cup {i}) = Of(J) \cup new /\ Of(J) \cap new = {}
    OBVIOUS
  <2>3. \A s \in Of(J) \cup new : f[s] \in Int
    OBVIOUS
  <2>4. \A j \in J \cup {i} : total[j] \in Int
    <3>1. ASSUME NEW j \in K PROVE total[j] \in Int
      <4>1. {s \in S : k[s] = j} \in SUBSET S
        OBVIOUS
      <4>2. IsFiniteSet({s \in S : k[s] = j})
        BY <4>1, FS_Subset
      <4> QED BY <4>2, SumInt, SMTT(30)
    <3> QED BY <3>1
  <2>5. SumFunctionOnSet(total, J \cup {i}) = total[i] + SumFunctionOnSet(total, J)
    BY <2>1, <2>4, SumAdd
  <2>6. /\ total[i] = SumFunctionOnSet(f, new)
        /\ SumFunctionOnSet(total, J) = SumFunctionOnSet(f, Of(J))
    OBVIOUS
  <2> HIDE DEF Of, new
  <2>7. SumFunctionOnSet(f, Of(J) \cup new) = SumFunctionOnSet(f, Of(J)) + SumFunctionOnSet(f, new)
    BY <2>1, <2>2, <2>3, SumUnion
  <2>8. SumFunctionOnSet(f, Of(J)) \in Int /\ SumFunctionOnSet(f, new) \in Int
    BY <2>1, <2>3, SumInt
  <2> DEFINE a == SumFunctionOnSet(f, Of(J))
             b == SumFunctionOnSet(f, new)
  <2>9. a + b = b + a
    <3> HIDE DEF a, b
    <3>1. a \in Int /\ b \in Int
      BY <2>8 DEF a, b
    <3> QED BY <3>1
  <2>10. SumFunctionOnSet(total, J \cup {i}) = SumFunctionOnSet(f, Of(J \cup {i}))
    BY <2>2, <2>5, <2>6, <2>7, <2>9
  <2> QED BY <2>10 DEF Of
<1>3. Of(K) = S
  OBVIOUS
<1> HIDE DEF F
<1>4. K \in F
  <2>1. F \in SUBSET (SUBSET K)
    BY DEF F
  <2> QED BY <1>1, <1>2, <2>1, Subsets
<1> QED BY <1>3, <1>4 DEF F

\* a[s][i] is a table of numbers with rows S and columns K, column its transpose.
IsTable(a, column, S, K) ==
  \A s \in S, i \in K : a[s][i] \in Int /\ column[i][s] = a[s][i]

AreSums(sum, rows, S, K) == \A s \in S : sum[s] = SumFunctionOnSet(rows[s], K)

\* A table summed by rows and by columns.
LEMMA SumSwap ==
  ASSUME NEW S, IsFiniteSet(S), NEW K, IsFiniteSet(K),
         NEW a, NEW column, IsTable(a, column, S, K),
         NEW ofRow, AreSums(ofRow, a, S, K),
         NEW ofColumn, AreSums(ofColumn, column, K, S)
  PROVE  SumFunctionOnSet(ofRow, S) = SumFunctionOnSet(ofColumn, K)
<1> USE DEF IsTable, AreSums
<1> DEFINE upTo(T) == [i \in K |-> SumFunctionOnSet(column[i], T)]
           F == {T \in SUBSET S : SumFunctionOnSet(ofRow, T) = SumFunctionOnSet(upTo(T), K)}
<1>0. \A T \in SUBSET S : IsFiniteSet(T) /\ \A i \in K : SumFunctionOnSet(column[i], T) \in Int
  BY FS_Subset, SumInt
<1>1. {} \in F
  <2>1. \A i \in K : upTo({})[i] = 0
    BY SumEmpty
  <2>2. SumFunctionOnSet(upTo({}), K) = Cardinality(K) * 0
    <3> HIDE DEF upTo
    <3>1. 0 \in Int
      OBVIOUS
    <3> QED BY <2>1, <3>1, SumConstant
  <2>3. Cardinality(K) \in Nat
    BY FS_CardinalityType
  <2> QED BY <2>2, <2>3, SumEmpty
<1>2. ASSUME NEW T \in F, NEW x \in S \ T PROVE T \cup {x} \in F
  <2>1. IsFiniteSet(T) /\ \A i \in K : upTo(T)[i] \in Int
    BY <1>0
  <2>2. \A i \in K : upTo(T \cup {x})[i] = a[x][i] + upTo(T)[i]
    <3> SUFFICES ASSUME NEW i \in K PROVE upTo(T \cup {x})[i] = a[x][i] + upTo(T)[i]
      OBVIOUS
    <3>1. column[i][x] = a[x][i] /\ \A s \in T \cup {x} : column[i][s] \in Int
      OBVIOUS
    <3>2. SumFunctionOnSet(column[i], T \cup {x}) = column[i][x] + SumFunctionOnSet(column[i], T)
      BY <2>1, <3>1, SumAdd
    <3> QED BY <3>1, <3>2
  <2>3. SumFunctionOnSet(upTo(T \cup {x}), K) =
          SumFunctionOnSet(a[x], K) + SumFunctionOnSet(upTo(T), K)
    <3> HIDE DEF upTo
    <3>1. \A i \in K : a[x][i] \in Int
      OBVIOUS
    <3> DEFINE f == a[x]
               g == upTo(T)
               h == upTo(T \cup {x})
    <3>2. \A i \in K : f[i] \in Int /\ g[i] \in Int /\ h[i] = f[i] + g[i]
      BY <2>1, <2>2, <3>1
    <3> HIDE DEF f, g, h
    <3>3. SumFunctionOnSet(h, K) = SumFunctionOnSet(f, K) + SumFunctionOnSet(g, K)
      BY <3>2, SumPlus
    <3> QED BY <3>3 DEF f, g, h
  <2>4. ofRow[x] = SumFunctionOnSet(a[x], K) /\ \A s \in T \cup {x} : ofRow[s] \in Int
    BY SumInt
  <2>5. SumFunctionOnSet(ofRow, T \cup {x}) = ofRow[x] + SumFunctionOnSet(ofRow, T)
    <3> HIDE DEF upTo
    <3> QED BY <2>1, <2>4, SumAdd
  <2>6. SumFunctionOnSet(ofRow, T) = SumFunctionOnSet(upTo(T), K)
    OBVIOUS
  <2>7. T \cup {x} \in SUBSET S
    OBVIOUS
  <2> HIDE DEF upTo
  <2>8. SumFunctionOnSet(ofRow, T \cup {x}) = SumFunctionOnSet(upTo(T \cup {x}), K)
    BY <2>3, <2>4, <2>5, <2>6
  <2> QED BY <2>7, <2>8
<1>3. S \in F
  <2> HIDE DEF F
  <2>1. F \in SUBSET (SUBSET S)
    BY DEF F
  <2> QED BY <1>1, <1>2, <2>1, Subsets
<1>4. \A i \in K : upTo(S)[i] = ofColumn[i] /\ upTo(S)[i] \in Int
  BY <1>0
<1>5. SumFunctionOnSet(ofRow, S) = SumFunctionOnSet(upTo(S), K)
  BY <1>3
<1> HIDE DEF upTo
<1>6. SumFunctionOnSet(upTo(S), K) = SumFunctionOnSet(ofColumn, K)
  BY <1>4, SumEqual
<1> QED BY <1>5, <1>6

=============================================================================
