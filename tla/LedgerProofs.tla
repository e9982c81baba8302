---------------------------- MODULE LedgerProofs ----------------------------
(***************************************************************************)
(* Proofs about the ledger, for any requests, commands, wallets and goals. *)
(*                                                                         *)
(* StepKinds classifies every step by what it does to the books and to the *)
(* answers: it leaves them alone, moves one request on, answers one        *)
(* request, or commits one transaction.  The type of the requests, the     *)
(* inductive invariant Consistent and the refinement of OnceOnly are then  *)
(* argued over these four kinds; the second inductive invariant, GoalsInv, *)
(* says what contributions aim at and what commands may name.  Balances    *)
(* and reports are sums: the first section is what they need of sums over  *)
(* finite sets, the last two follow a state's figures back to single       *)
(* transactions.                                                           *)
(***************************************************************************)
EXTENDS Reports, FiniteSetTheorems, WellFoundedInduction, TLAPS

-----------------------------------------------------------------------------
(***************************************************************************)
(* Sums over finite sets.  A sum is a recursive function over the subsets  *)
(* of its set; what it is for every set follows by induction, here over    *)
(* the strict subsets of a finite set.                                     *)
(***************************************************************************)

\* What holds of a set as soon as it holds of all its strict subsets, holds of
\* every finite set.
LEMMA SetInduction ==
  ASSUME NEW S, IsFiniteSet(S), NEW Q,
         \A T \in SUBSET S : (\A U \in SUBSET T : U # T => U \in Q) => T \in Q
  PROVE  S \in Q
<1> DEFINE Bad == {T \in SUBSET S : T \notin Q}
           Less == StrictSubsetOrdering(S)
<1>1. IsWellFoundedOn(Less, SUBSET S)
  BY FS_StrictSubsetOrderingWellFounded, FS_FiniteSubsetsOfFinite
<1>2. SUFFICES ASSUME Bad # {} PROVE FALSE
  OBVIOUS
<1>3. PICK T \in Bad : \A U \in Bad : ~ (<<U, T>> \in Less)
  <2>1. Bad \subseteq SUBSET S
    OBVIOUS
  <2> HIDE DEF Bad, Less
  <2> QED BY <1>1, <1>2, <2>1, WFMin
<1>4. \A U \in SUBSET T : U # T => U \in Q
  BY <1>3 DEF StrictSubsetOrdering
<1> QED BY <1>3, <1>4

\* The element a sum takes next.
Any(s) == CHOOSE y \in s : TRUE

\* g is what the definition of a sum over S recurs on.
Sums(f, g, S) ==
  g = [s \in SUBSET S |-> IF s = {} THEN 0
                          ELSE f[Any(s)] + g[s \ {Any(s)}]]

LEMMA SumDef ==
  ASSUME NEW f, NEW S
  PROVE  SumFunctionOnSet(f, S) = (CHOOSE g : Sums(f, g, S))[S]
BY DEF SumFunctionOnSet, FoldFunctionOnSet, MapThenFoldSet, Sums, Any

LEMMA SumsAt ==
  ASSUME NEW f, NEW S, NEW g, Sums(f, g, S), NEW s \in SUBSET S
  PROVE  /\ s = {} => g[s] = 0
         /\ s # {} => Any(s) \in s /\ g[s] = f[Any(s)] + g[s \ {Any(s)}]
<1>1. s # {} => Any(s) \in s
  BY DEF Any
<1> QED BY <1>1 DEF Sums

\* All such functions agree.
LEMMA SumsAgree ==
  ASSUME NEW f, NEW S, NEW T, NEW g, NEW h, Sums(f, g, S), Sums(f, h, T),
         NEW s \in SUBSET (S \intersect T), IsFiniteSet(s)
  PROVE  g[s] = h[s]
<1> DEFINE Q == {t \in SUBSET s : g[t] = h[t]}
<1>1. ASSUME NEW t \in SUBSET s, \A u \in SUBSET t : u # t => u \in Q
      PROVE  t \in Q
  <2>1. CASE t = {}
    <3>1. g[t] = 0 /\ h[t] = 0
      BY <2>1, SumsAt
    <3> QED BY <3>1
  <2>2. CASE t # {}
    <3> DEFINE x == Any(t)
    <3>1. t \in SUBSET S /\ t \in SUBSET T
      OBVIOUS
    <3>a. x \in t
      BY <2>2 DEF Any
    <3>2. g[t] = f[x] + g[t \ {x}]
      BY <2>2, <3>1, SumsAt
    <3>3. h[t] = f[x] + h[t \ {x}]
      BY <2>2, <3>1, SumsAt
    <3>4. g[t \ {x}] = h[t \ {x}]
      BY <1>1, <3>a
    <3> QED BY <3>2, <3>3, <3>4
  <2> QED BY <2>1, <2>2
<1>2. s \in Q
  <2> HIDE DEF Q
  <2> QED BY <1>1, SetInduction
<1> QED BY <1>2

LEMMA SumsExist ==
  ASSUME NEW f, NEW S, IsFiniteSet(S)
  PROVE  \E g : Sums(f, g, S)
<1> DEFINE Q == {T \in SUBSET S : \E g : Sums(f, g, T)}
           G(u) == CHOOSE g : Sums(f, g, u)
<1>1. ASSUME NEW T \in SUBSET S, \A U \in SUBSET T : U # T => U \in Q
      PROVE  T \in Q
  <2>1. \A u \in SUBSET T : u # T => Sums(f, G(u), u)
    BY <1>1
  <2> DEFINE h == [s \in SUBSET T |-> IF s = {} THEN 0
                                      ELSE f[Any(s)] + G(s \ {Any(s)})[s \ {Any(s)}]]
  <2>2. ASSUME NEW u \in SUBSET T, u # T PROVE h[u] = G(u)[u]
    <3> HIDE DEF G
    <3>0. Sums(f, G(u), u)
      BY <2>1, <2>2
    <3>1. CASE u = {}
      <4>1. h[u] = 0
        BY <3>1
      <4>2. G(u)[u] = 0
        BY <3>0, <3>1, SumsAt
      <4> QED BY <4>1, <4>2
    <3>2. CASE u # {}
      <4> DEFINE x == Any(u)
                 v == u \ {x}
      <4>1. x \in u /\ v \in SUBSET u /\ v \in SUBSET T /\ v # T
        BY <3>2 DEF Any
      <4>2. h[u] = f[x] + G(v)[v]
        BY <3>2
      <4>3. G(u)[u] = f[x] + G(u)[v]
        BY <3>0, <3>2, SumsAt
      <4>4. Sums(f, G(v), v)
        BY <2>1, <4>1
      <4>5. v \in SUBSET (u \intersect v) /\ IsFiniteSet(v)
        BY <4>1, FS_Subset
      <4>6. G(u)[v] = G(v)[v]
        <5> HIDE DEF v
        <5> QED BY <3>0, <4>4, <4>5, SumsAgree
      <4> QED BY <4>2, <4>3, <4>6
    <3> QED BY <3>1, <3>2
  <2>3. \A s \in SUBSET T : s # {} => G(s \ {Any(s)})[s \ {Any(s)}] = h[s \ {Any(s)}]
    <3> SUFFICES ASSUME NEW s \in SUBSET T, s # {}
                 PROVE  G(s \ {Any(s)})[s \ {Any(s)}] = h[s \ {Any(s)}]
      OBVIOUS
    <3>1. s \ {Any(s)} \in SUBSET T /\ s \ {Any(s)} # T
      BY DEF Any
    <3> HIDE DEF h, G
    <3> QED BY <2>2, <3>1
  <2>4. h = [s \in SUBSET T |-> IF s = {} THEN 0 ELSE f[Any(s)] + h[s \ {Any(s)}]]
    <3> HIDE DEF G
    <3> QED BY <2>3
  <2>5. Sums(f, h, T)
    <3> HIDE DEF h
    <3> QED BY <2>4 DEF Sums
  <2> QED BY <2>5
<1>2. S \in Q
  <2> HIDE DEF Q
  <2> QED BY <1>1, SetInduction
<1> QED BY <1>2

LEMMA SumUnfold ==
  ASSUME NEW f, NEW S, IsFiniteSet(S)
  PROVE  /\ SumFunctionOnSet(f, {}) = 0
         /\ S # {} => /\ Any(S) \in S
                      /\ SumFunctionOnSet(f, S) = f[Any(S)] + SumFunctionOnSet(f, S \ {Any(S)})
<1>1. ASSUME NEW T, IsFiniteSet(T)
      PROVE  \E g : Sums(f, g, T) /\ SumFunctionOnSet(f, T) = g[T]
  <2> DEFINE g == CHOOSE h : Sums(f, h, T)
  <2>1. Sums(f, g, T)
    BY <1>1, SumsExist
  <2>2. SumFunctionOnSet(f, T) = g[T]
    BY SumDef
  <2> QED BY <2>1, <2>2
<1>2. SumFunctionOnSet(f, {}) = 0
  <2>1. IsFiniteSet({})
    BY FS_EmptySet
  <2>2. PICK g : Sums(f, g, {}) /\ SumFunctionOnSet(f, {}) = g[{}]
    BY <1>1, <2>1
  <2>3. g[{}] = 0
    BY <2>2, SumsAt
  <2> QED BY <2>2, <2>3
<1>3. ASSUME S # {}
      PROVE  /\ Any(S) \in S
             /\ SumFunctionOnSet(f, S) = f[Any(S)] + SumFunctionOnSet(f, S \ {Any(S)})
  <2> DEFINE T == S \ {Any(S)}
  <2>1. T \in SUBSET S /\ T \in SUBSET (S \intersect T) /\ IsFiniteSet(T)
    BY FS_Subset
  <2>2. PICK g : Sums(f, g, S) /\ SumFunctionOnSet(f, S) = g[S]
    BY <1>1
  <2>3. PICK h : Sums(f, h, T) /\ SumFunctionOnSet(f, T) = h[T]
    BY <1>1, <2>1
  <2>4. g[T] = h[T]
    <3> HIDE DEF T
    <3> QED BY <2>1, <2>2, <2>3, SumsAgree
  <2>5. Any(S) \in S /\ g[S] = f[Any(S)] + g[T]
    BY <1>3, <2>2, SumsAt
  <2> QED BY <2>2, <2>3, <2>4, <2>5
<1> QED BY <1>2, <1>3

\* A sum is an integer, and any element can be taken off.
LEMMA SumTake ==
  ASSUME NEW S, IsFiniteSet(S), NEW f, \A x \in S : f[x] \in Int
  PROVE  /\ SumFunctionOnSet(f, S) \in Int
         /\ \A x \in S : SumFunctionOnSet(f, S) = f[x] + SumFunctionOnSet(f, S \ {x})
<1> DEFINE Sum(T) == SumFunctionOnSet(f, T)
           Q == {T \in SUBSET S : /\ Sum(T) \in Int
                                  /\ \A x \in T : Sum(T) = f[x] + Sum(T \ {x})}
<1>0. \A T \in SUBSET S : IsFiniteSet(T)
  BY FS_Subset
<1>1. Sum({}) = 0
  BY FS_EmptySet, SumUnfold
<1>2. ASSUME NEW T \in SUBSET S, T # {}
      PROVE  Any(T) \in T /\ Sum(T) = f[Any(T)] + Sum(T \ {Any(T)})
  BY <1>0, <1>2, SumUnfold
<1> HIDE DEF Sum
<1>3. ASSUME NEW T \in SUBSET S, \A U \in SUBSET T : U # T => U \in Q
      PROVE  T \in Q
  <2>1. CASE T = {}
    BY <1>1, <2>1
  <2>2. CASE T # {}
    <3>1. PICK y \in T : Sum(T) = f[y] + Sum(T \ {y})
      BY <1>2, <2>2
    <3>2. T \ {y} \in Q /\ f[y] \in Int /\ Sum(T \ {y}) \in Int
      BY <1>3, <3>1
    <3>3. ASSUME NEW x \in T, x # y PROVE Sum(T) = f[x] + Sum(T \ {x})
      <4>1. f[x] \in Int /\ x \in T \ {y} /\ y \in T \ {x}
        BY <3>3
      <4>2. T \ {x} \in Q /\ (T \ {x}) \ {y} \in Q
        BY <1>3, <3>3
      <4>3. (T \ {x}) \ {y} = (T \ {y}) \ {x}
        OBVIOUS
      <4>4. Sum(T \ {x}) = f[y] + Sum((T \ {x}) \ {y}) /\ Sum(T \ {x}) \in Int
        BY <4>1, <4>2
      <4>5. Sum(T \ {y}) = f[x] + Sum((T \ {x}) \ {y})
        BY <3>2, <4>1, <4>3
      <4>6. Sum((T \ {x}) \ {y}) \in Int
        BY <4>2
      <4> HIDE DEF Q
      <4> QED BY <3>1, <3>2, <4>1, <4>4, <4>5, <4>6
    <3>4. Sum(T) \in Int
      <4> HIDE DEF Q
      <4> QED BY <3>1, <3>2
    <3>5. \A x \in T : Sum(T) = f[x] + Sum(T \ {x})
      <4> HIDE DEF Q
      <4> QED BY <3>1, <3>3
    <3> QED BY <3>4, <3>5
  <2> QED BY <2>1, <2>2
<1>4. S \in Q
  <2> HIDE DEF Q
  <2> QED BY <1>3, SetInduction
<1> QED BY <1>4 DEF Sum

\* Equal terms have equal sums, larger ones no smaller a sum.
LEMMA SumCompare ==
  ASSUME NEW S, IsFiniteSet(S), NEW f, NEW h,
         \A x \in S : f[x] \in Int /\ h[x] \in Int
  PROVE  /\ (\A x \in S : f[x] = h[x]) => SumFunctionOnSet(f, S) = SumFunctionOnSet(h, S)
         /\ (\A x \in S : f[x] <= h[x]) => SumFunctionOnSet(f, S) <= SumFunctionOnSet(h, S)
<1> DEFINE F(T) == SumFunctionOnSet(f, T)
           H(T) == SumFunctionOnSet(h, T)
           Q == {T \in SUBSET S : F(T) <= H(T)}
<1>1. ASSUME NEW T \in SUBSET S
      PROVE  /\ F(T) \in Int /\ \A x \in T : F(T) = f[x] + F(T \ {x})
             /\ H(T) \in Int /\ \A x \in T : H(T) = h[x] + H(T \ {x})
  <2>1. IsFiniteSet(T)
    BY FS_Subset
  <2> QED BY <2>1, SumTake
<1>2. F({}) = 0 /\ H({}) = 0
  BY FS_EmptySet, SumUnfold
<1> HIDE DEF F, H
<1>3. ASSUME \A x \in S : f[x] <= h[x] PROVE F(S) <= H(S)
  <2>1. ASSUME NEW T \in SUBSET S, \A U \in SUBSET T : U # T => U \in Q
        PROVE  T \in Q
    <3>1. CASE T = {}
      BY <1>2, <3>1
    <3>2. CASE T # {}
      <4>1. PICK x \in T : TRUE
        BY <3>2
      <4>2. T \ {x} \in Q /\ T \ {x} \in SUBSET S
        BY <2>1
      <4>3. F(T \ {x}) \in Int /\ H(T \ {x}) \in Int /\ F(T \ {x}) <= H(T \ {x})
        BY <1>1, <4>2
      <4>4. F(T) = f[x] + F(T \ {x}) /\ H(T) = h[x] + H(T \ {x})
        BY <1>1
      <4>5. f[x] \in Int /\ h[x] \in Int /\ f[x] <= h[x]
        BY <1>3
      <4>6. F(T) <= H(T)
        BY <4>3, <4>4, <4>5
      <4> QED BY <4>6
    <3> QED BY <3>1, <3>2
  <2>2. S \in Q
    <3> HIDE DEF Q
    <3> QED BY <2>1, SetInduction
  <2> QED BY <2>2
<1> DEFINE R == {T \in SUBSET S : F(T) = H(T)}
<1>4. ASSUME \A x \in S : f[x] = h[x] PROVE F(S) = H(S)
  <2>1. ASSUME NEW T \in SUBSET S, \A U \in SUBSET T : U # T => U \in R
        PROVE  T \in R
    <3>1. CASE T = {}
      BY <1>2, <3>1
    <3>2. CASE T # {}
      <4>1. PICK x \in T : TRUE
        BY <3>2
      <4>2. T \ {x} \in R
        BY <2>1
      <4>3. F(T) = f[x] + F(T \ {x}) /\ H(T) = h[x] + H(T \ {x})
        BY <1>1
      <4>4. F(T) = H(T)
        BY <1>4, <4>2, <4>3
      <4> QED BY <4>4
    <3> QED BY <3>1, <3>2
  <2>2. S \in R
    <3> HIDE DEF R
    <3> QED BY <2>1, SetInduction
  <2> QED BY <2>2
<1> QED BY <1>3, <1>4 DEF F, H

\* Sums and differences of terms add up to those of their sums.
LEMMA SumPlus ==
  ASSUME NEW S, IsFiniteSet(S), NEW f, NEW g, NEW h,
         \A x \in S : f[x] \in Int /\ g[x] \in Int /\ h[x] = f[x] + g[x]
  PROVE  SumFunctionOnSet(h, S) = SumFunctionOnSet(f, S) + SumFunctionOnSet(g, S)
<1> DEFINE F(T) == SumFunctionOnSet(f, T)
           G(T) == SumFunctionOnSet(g, T)
           H(T) == SumFunctionOnSet(h, T)
           Q == {T \in SUBSET S : H(T) = F(T) + G(T)}
<1>1. ASSUME NEW T \in SUBSET S
      PROVE  /\ F(T) \in Int /\ \A x \in T : F(T) = f[x] + F(T \ {x})
             /\ G(T) \in Int /\ \A x \in T : G(T) = g[x] + G(T \ {x})
             /\ H(T) \in Int /\ \A x \in T : H(T) = h[x] + H(T \ {x})
  <2>1. IsFiniteSet(T) /\ \A x \in S : h[x] \in Int
    BY FS_Subset
  <2> QED BY <2>1, SumTake
<1>2. F({}) = 0 /\ G({}) = 0 /\ H({}) = 0
  BY FS_EmptySet, SumUnfold
<1> HIDE DEF F, G, H
<1>3. ASSUME NEW T \in SUBSET S, \A U \in SUBSET T : U # T => U \in Q
      PROVE  T \in Q
  <2>1. CASE T = {}
    BY <1>2, <2>1
  <2>2. CASE T # {}
    <3>1. PICK x \in T : TRUE
      BY <2>2
    <3>2. T \ {x} \in Q /\ T \ {x} \in SUBSET S
      BY <1>3
    <3>3. /\ F(T \ {x}) \in Int /\ G(T \ {x}) \in Int /\ H(T \ {x}) \in Int
          /\ F(T) = f[x] + F(T \ {x}) /\ G(T) = g[x] + G(T \ {x}) /\ H(T) = h[x] + H(T \ {x})
      BY <1>1, <3>2
    <3>4. f[x] \in Int /\ g[x] \in Int /\ h[x] = f[x] + g[x]
      OBVIOUS
    <3>5. H(T \ {x}) = F(T \ {x}) + G(T \ {x})
      BY <3>2
    <3>6. H(T) = F(T) + G(T)
      <4> HIDE DEF Q
      <4> QED BY <3>3, <3>4, <3>5
    <3> QED BY <3>6
  <2> QED BY <2>1, <2>2
<1>4. S \in Q
  <2> HIDE DEF Q
  <2> QED BY <1>3, SetInduction
<1> QED BY <1>4 DEF F, G, H

LEMMA SumMinus ==
  ASSUME NEW S, IsFiniteSet(S), NEW f, NEW g, NEW h,
         \A x \in S : f[x] \in Int /\ g[x] \in Int /\ h[x] = f[x] - g[x]
  PROVE  SumFunctionOnSet(h, S) = SumFunctionOnSet(f, S) - SumFunctionOnSet(g, S)
<1> DEFINE F(T) == SumFunctionOnSet(f, T)
           G(T) == SumFunctionOnSet(g, T)
           H(T) == SumFunctionOnSet(h, T)
           Q == {T \in SUBSET S : H(T) = F(T) - G(T)}
<1>1. ASSUME NEW T \in SUBSET S
      PROVE  /\ F(T) \in Int /\ \A x \in T : F(T) = f[x] + F(T \ {x})
             /\ G(T) \in Int /\ \A x \in T : G(T) = g[x] + G(T \ {x})
             /\ H(T) \in Int /\ \A x \in T : H(T) = h[x] + H(T \ {x})
  <2>1. IsFiniteSet(T) /\ \A x \in S : h[x] \in Int
    BY FS_Subset
  <2> QED BY <2>1, SumTake
<1>2. F({}) = 0 /\ G({}) = 0 /\ H({}) = 0
  BY FS_EmptySet, SumUnfold
<1> HIDE DEF F, G, H
<1>3. ASSUME NEW T \in SUBSET S, \A U \in SUBSET T : U # T => U \in Q
      PROVE  T \in Q
  <2>1. CASE T = {}
    BY <1>2, <2>1
  <2>2. CASE T # {}
    <3>1. PICK x \in T : TRUE
      BY <2>2
    <3>2. T \ {x} \in Q /\ T \ {x} \in SUBSET S
      BY <1>3
    <3>3. /\ F(T \ {x}) \in Int /\ G(T \ {x}) \in Int /\ H(T \ {x}) \in Int
          /\ F(T) = f[x] + F(T \ {x}) /\ G(T) = g[x] + G(T \ {x}) /\ H(T) = h[x] + H(T \ {x})
      BY <1>1, <3>2
    <3>4. f[x] \in Int /\ g[x] \in Int /\ h[x] = f[x] - g[x]
      OBVIOUS
    <3>5. H(T \ {x}) = F(T \ {x}) - G(T \ {x})
      BY <3>2
    <3>6. H(T) = F(T) - G(T)
      <4> HIDE DEF Q
      <4> QED BY <3>3, <3>4, <3>5
    <3> QED BY <3>6
  <2> QED BY <2>1, <2>2
<1>4. S \in Q
  <2> HIDE DEF Q
  <2> QED BY <1>3, SetInduction
<1> QED BY <1>4 DEF F, G, H

\* A sum over a part of a set is one over the set with other terms zero.
LEMMA SumPart ==
  ASSUME NEW S, IsFiniteSet(S), NEW P \in SUBSET S, NEW f, NEW h,
         \A x \in P : f[x] \in Int /\ h[x] = f[x],
         \A x \in S \ P : h[x] = 0
  PROVE  SumFunctionOnSet(f, P) = SumFunctionOnSet(h, S)
<1> DEFINE F(T) == SumFunctionOnSet(f, T)
           H(T) == SumFunctionOnSet(h, T)
           Q == {T \in SUBSET S : F(T \intersect P) = H(T)}
<1>1. ASSUME NEW T \in SUBSET S
      PROVE  /\ H(T) \in Int /\ \A x \in T : H(T) = h[x] + H(T \ {x})
             /\ F(T \intersect P) \in Int
             /\ \A x \in T \intersect P : F(T \intersect P) = f[x] + F((T \intersect P) \ {x})
  <2>1. IsFiniteSet(T) /\ IsFiniteSet(T \intersect P) /\ \A x \in S : h[x] \in Int
    BY FS_Subset
  <2>2. H(T) \in Int /\ \A x \in T : H(T) = h[x] + H(T \ {x})
    BY <2>1, SumTake
  <2>3. /\ F(T \intersect P) \in Int
        /\ \A x \in T \intersect P : F(T \intersect P) = f[x] + F((T \intersect P) \ {x})
    BY <2>1, SumTake
  <2> QED BY <2>2, <2>3
<1>2. F({}) = 0 /\ H({}) = 0
  BY FS_EmptySet, SumUnfold
<1> HIDE DEF F, H
<1>3. ASSUME NEW T \in SUBSET S, \A U \in SUBSET T : U # T => U \in Q
      PROVE  T \in Q
  <2>1. CASE T = {}
    <3>1. T \intersect P = {}
      BY <2>1
    <3> QED BY <1>2, <2>1, <3>1
  <2>2. CASE T # {}
    <3>1. PICK x \in T : TRUE
      BY <2>2
    <3>2. T \ {x} \in Q /\ T \ {x} \in SUBSET S
      BY <1>3
    <3>3. F((T \ {x}) \intersect P) = H(T \ {x}) /\ H(T \ {x}) \in Int
      BY <1>1, <3>2
    <3>4. H(T) = h[x] + H(T \ {x})
      BY <1>1
    <3>5. F(T \intersect P) = H(T)
      <4>1. CASE x \in P
        <5>1. (T \ {x}) \intersect P = (T \intersect P) \ {x}
          OBVIOUS
        <5>2. F(T \intersect P) = f[x] + F((T \intersect P) \ {x})
          BY <1>1, <4>1
        <5>3. f[x] = h[x]
          BY <4>1
        <5>4. F((T \intersect P) \ {x}) = H(T \ {x})
          BY <3>3, <5>1
        <5>5. F(T \intersect P) = h[x] + H(T \ {x})
          BY <5>2, <5>3, <5>4
        <5> QED BY <3>4, <5>5
      <4>2. CASE x \notin P
        <5>1. (T \ {x}) \intersect P = T \intersect P /\ h[x] = 0
          BY <4>2
        <5>2. F(T \intersect P) = H(T \ {x})
          BY <3>3, <5>1
        <5>3. H(T) = H(T \ {x})
          BY <3>3, <3>4, <5>1
        <5> QED BY <5>2, <5>3
      <4> QED BY <4>1, <4>2
    <3> QED BY <3>5
  <2> QED BY <2>1, <2>2
<1>4. S \in Q
  <2> HIDE DEF Q
  <2> QED BY <1>3, SetInduction
<1>5. S \intersect P = P
  OBVIOUS
<1> QED BY <1>4, <1>5 DEF F, H

\* A sum of natural numbers grows with its set.
LEMMA SumGrows ==
  ASSUME NEW S, IsFiniteSet(S), NEW P \in SUBSET S, NEW f, \A x \in S : f[x] \in Nat
  PROVE  /\ SumFunctionOnSet(f, P) \in Nat
         /\ SumFunctionOnSet(f, P) <= SumFunctionOnSet(f, S)
<1> DEFINE h == [x \in S |-> IF x \in P THEN f[x] ELSE 0]
           z == [x \in S |-> 0]
<1>1. IsFiniteSet(P)
  BY FS_Subset
<1>2. SumFunctionOnSet(f, P) = SumFunctionOnSet(h, S)
  <2>1. (\A x \in P : f[x] \in Int /\ h[x] = f[x]) /\ \A x \in S \ P : h[x] = 0
    OBVIOUS
  <2> HIDE DEF h
  <2> QED BY <2>1, SumPart
<1>3. SumFunctionOnSet(h, S) <= SumFunctionOnSet(f, S)
  <2>1. \A x \in S : h[x] \in Int /\ f[x] \in Int /\ h[x] <= f[x]
    OBVIOUS
  <2> HIDE DEF h
  <2> QED BY <2>1, SumCompare
<1>4. SumFunctionOnSet(z, P) <= SumFunctionOnSet(f, P)
  <2>1. \A x \in P : z[x] \in Int /\ f[x] \in Int /\ z[x] <= f[x]
    OBVIOUS
  <2> HIDE DEF z
  <2> QED BY <1>1, <2>1, SumCompare
<1>5. SumFunctionOnSet(z, P) = 0
  <2>1. \A x \in P : z[x] = 0
    OBVIOUS
  <2>2. SumFunctionOnSet(z, {}) = SumFunctionOnSet(z, P)
    <3>1. {} \in SUBSET P /\ (\A x \in {} : z[x] \in Int /\ z[x] = z[x]) /\ \A x \in P \ {} : z[x] = 0
      BY <2>1
    <3> HIDE DEF z
    <3> QED BY <1>1, <3>1, SumPart
  <2>3. SumFunctionOnSet(z, {}) = 0
    <3> HIDE DEF z
    <3> QED BY FS_EmptySet, SumUnfold
  <2> QED BY <2>2, <2>3
<1>6. SumFunctionOnSet(f, P) \in Int
  BY <1>1, SumTake
<1> QED BY <1>2, <1>3, <1>4, <1>5, <1>6

\* A sum with at most one term that is not zero.
LEMMA SumOne ==
  ASSUME NEW S, IsFiniteSet(S), NEW f
  PROVE  /\ (\A x \in S : f[x] = 0) => SumFunctionOnSet(f, S) = 0
         /\ \A x \in S : f[x] \in Int /\ (\A y \in S \ {x} : f[y] = 0)
                           => SumFunctionOnSet(f, S) = f[x]
<1>0. SumFunctionOnSet(f, {}) = 0
  BY FS_EmptySet, SumUnfold
<1>1. ASSUME NEW T \in SUBSET S, \A x \in T : f[x] = 0
      PROVE  SumFunctionOnSet(f, T) = 0
  <2>1. IsFiniteSet(T)
    BY FS_Subset
  <2>2. SumFunctionOnSet(f, {}) = SumFunctionOnSet(f, T)
    BY <1>1, <2>1, SumPart
  <2> QED BY <1>0, <2>2
<1>2. ASSUME NEW x \in S, f[x] \in Int, \A y \in S \ {x} : f[y] = 0
      PROVE  SumFunctionOnSet(f, S) = f[x]
  <2>1. SumFunctionOnSet(f, S) = f[x] + SumFunctionOnSet(f, S \ {x})
    <3>1. \A y \in S : f[y] \in Int
      BY <1>2
    <3> QED BY <3>1, SumTake
  <2>2. SumFunctionOnSet(f, S \ {x}) = 0
    BY <1>1, <1>2
  <2> QED BY <1>2, <2>1, <2>2
<1> QED BY <1>1, <1>2

\* The columns of table f are the rows of g.
Transposed(f, g, X, Y) == \A x \in X, y \in Y : f[x][y] \in Int /\ g[y][x] = f[x][y]

\* The sums of the rows of a table and those of its columns add up to the same.
LEMMA SumExchange ==
  ASSUME NEW X, IsFiniteSet(X), NEW Y, IsFiniteSet(Y), NEW f, NEW g, Transposed(f, g, X, Y),
         NEW row, \A x \in X : row[x] = SumFunctionOnSet(f[x], Y),
         NEW col, \A y \in Y : col[y] = SumFunctionOnSet(g[y], X)
  PROVE  SumFunctionOnSet(row, X) = SumFunctionOnSet(col, Y)
<1> DEFINE C(T) == [y \in Y |-> SumFunctionOnSet(g[y], T)]
           R(T) == SumFunctionOnSet(row, T)
           D(T) == SumFunctionOnSet(C(T), Y)
           Q == {T \in SUBSET X : R(T) = D(T)}
<1>0. \A x \in X, y \in Y : f[x][y] \in Int /\ g[y][x] = f[x][y]
  BY DEF Transposed
<1>1. \A x \in X : row[x] \in Int
  BY <1>0, SumTake
<1>2. ASSUME NEW T \in SUBSET X
      PROVE  R(T) \in Int /\ \A x \in T : R(T) = row[x] + R(T \ {x})
  <2>1. IsFiniteSet(T)
    BY FS_Subset
  <2> QED BY <1>1, <2>1, SumTake
<1>3. ASSUME NEW T \in SUBSET X, NEW y \in Y
      PROVE  C(T)[y] \in Int /\ \A x \in T : C(T)[y] = f[x][y] + C(T \ {x})[y]
  <2>1. IsFiniteSet(T) /\ \A x \in T : g[y][x] \in Int /\ g[y][x] = f[x][y]
    BY <1>0, FS_Subset
  <2>2. SumFunctionOnSet(g[y], T) \in Int
        /\ \A x \in T : SumFunctionOnSet(g[y], T) = g[y][x] + SumFunctionOnSet(g[y], T \ {x})
    BY <2>1, SumTake
  <2> QED BY <2>1, <2>2
<1>4. R({}) = 0 /\ D({}) = 0
  <2>1. R({}) = 0 /\ \A y \in Y : C({})[y] = 0
    BY FS_EmptySet, SumUnfold
  <2> HIDE DEF C
  <2> QED BY <2>1, SumOne
<1>5. ASSUME NEW T \in SUBSET X, NEW x \in T
      PROVE  D(T) = row[x] + D(T \ {x}) /\ D(T \ {x}) \in Int
  <2>1. T \ {x} \in SUBSET X
    OBVIOUS
  <2>2. \A y \in Y : /\ f[x][y] \in Int /\ C(T \ {x})[y] \in Int
                     /\ C(T)[y] = f[x][y] + C(T \ {x})[y]
    <3> SUFFICES ASSUME NEW y \in Y
                 PROVE  /\ f[x][y] \in Int /\ C(T \ {x})[y] \in Int
                        /\ C(T)[y] = f[x][y] + C(T \ {x})[y]
      OBVIOUS
    <3>1. C(T)[y] = f[x][y] + C(T \ {x})[y] /\ C(T \ {x})[y] \in Int
      BY <1>3, <2>1
    <3> HIDE DEF C
    <3> QED BY <1>0, <3>1
  <2>3. D(T \ {x}) \in Int
    <3> HIDE DEF C
    <3> QED BY <2>2, SumTake
  <2>4. row[x] = SumFunctionOnSet(f[x], Y) /\ row[x] \in Int
    BY <1>1
  <2>5. D(T) = SumFunctionOnSet(f[x], Y) + D(T \ {x})
    <3>1. PICK fx, cx, ct : fx = f[x] /\ cx = C(T \ {x}) /\ ct = C(T)
      OBVIOUS
    <3> HIDE DEF C
    <3>2. \A y \in Y : fx[y] \in Int /\ cx[y] \in Int /\ ct[y] = fx[y] + cx[y]
      BY <2>2, <3>1
    <3>3. SumFunctionOnSet(ct, Y) = SumFunctionOnSet(fx, Y) + SumFunctionOnSet(cx, Y)
      BY <3>2, SumPlus
    <3> QED BY <3>1, <3>3
  <2> HIDE DEF D
  <2> QED BY <2>3, <2>4, <2>5
<1> HIDE DEF R, D
<1>6. ASSUME NEW T \in SUBSET X, \A U \in SUBSET T : U # T => U \in Q
      PROVE  T \in Q
  <2>1. CASE T = {}
    BY <1>4, <2>1
  <2>2. CASE T # {}
    <3>1. PICK x \in T : TRUE
      BY <2>2
    <3>2. T \ {x} \in Q
      BY <1>6
    <3>3. R(T) = D(T)
      BY <1>2, <1>5, <3>2
    <3> QED BY <3>3
  <2> QED BY <2>1, <2>2
<1>7. R(X) = D(X)
  <2>1. X \in Q
    <3> HIDE DEF Q
    <3> QED BY <1>6, SetInduction
  <2> QED BY <2>1
<1>8. \A y \in Y : C(X)[y] = col[y] /\ C(X)[y] \in Int
  BY <1>3
<1>9. D(X) = SumFunctionOnSet(col, Y)
  <2>1. \A y \in Y : C(X)[y] \in Int /\ col[y] \in Int /\ C(X)[y] = col[y]
    BY <1>8
  <2> HIDE DEF C
  <2> QED BY <2>1, SumCompare DEF D
<1> QED BY <1>7, <1>9 DEF R

-----------------------------------------------------------------------------
(***************************************************************************)
(* The four kinds of step.                                                 *)
(***************************************************************************)

Quiet == UNCHANGED <<pc, reply, ledger, results>>

\* r goes on to label l, having met what the code checks on the way there.
Moves(r, l) ==
  /\ pc[r] # "done"
  /\ pc' = [pc EXCEPT ![r] = l]
  /\ UNCHANGED <<reply, ledger, results>>
  /\ l = "insert" /\ Reverses(r) # NoRequest =>
       Reverses(r) \in ledger /\ Kind(Reverses(r)) # "reverse"
  /\ l = "record" =>
       /\ pc[r] = "insert"
       /\ Reverses(r) # NoRequest => ~ReversalPending(r) /\ ~Reversed(Reverses(r))
  /\ l = "measure" => pc[r] = "record"
  /\ l \in {"measure", "commit"} =>
       \/ pc[r] = "measure"
       \/ pc[r] = "record" /\ ~IdentityPending(r) /\ results[Identity(r)] = NoRequest

\* r is answered a: a refusal, or the transaction recorded for its identity.
Ends(r, a) ==
  /\ pc[r] # "done"
  /\ pc' = [pc EXCEPT ![r] = "done"]
  /\ reply' = [reply EXCEPT ![r] = a]
  /\ UNCHANGED <<ledger, results>>
  /\ a \in Refusals \/ (a = results[Identity(r)] /\ a # NoRequest /\ Same(a, r))

\* r's transaction commits, and r is answered a: itself, or that it failed.
Commits(r, a) ==
  /\ pc[r] = "commit"
  /\ pc' = [pc EXCEPT ![r] = "done"]
  /\ reply' = [reply EXCEPT ![r] = a]
  /\ ledger' = ledger \union {r}
  /\ results' = [results EXCEPT ![Identity(r)] = r]

Kinds == \/ Quiet
         \/ \E r \in Requests : \/ \E l \in Labels \ {"done"} : Moves(r, l)
                                \/ \E a \in Requests \union Refusals : Ends(r, a)
                                \/ \E a \in {r, "error"} : Commits(r, a)

LEMMA IdentityType == \A r \in Requests : Identity(r) \in Identities
  BY DEF Identities

\* What AnswerRecorded answers with.
LEMMA RecordedEnds ==
  ASSUME NEW r \in Requests, BooksOK, pc[r] # "done",
         results[Identity(r)] # NoRequest, AnswerRecorded(r), UNCHANGED books
  PROVE  \E a \in Requests \union Refusals : Ends(r, a)
<1>1. results[Identity(r)] \in Requests
  BY IdentityType DEF BooksOK
<1>2. CASE Same(results[Identity(r)], r)
  BY <1>1, <1>2 DEF AnswerRecorded, Answer, Ends, books
<1>3. CASE ~Same(results[Identity(r)], r)
  <2>1. Ends(r, "mismatch")
    BY <1>3 DEF AnswerRecorded, Answer, Ends, books, Refusals
  <2>2. QED
    BY <2>1 DEF Refusals
<1>4. QED
  BY <1>2, <1>3

LEMMA RefusalEnds ==
  ASSUME NEW r \in Requests, NEW a \in Refusals, pc[r] # "done",
         Answer(r, a), UNCHANGED books
  PROVE  \E b \in Requests \union Refusals : Ends(r, b)
<1>1. Ends(r, a)
  BY DEF Answer, Ends, books
<1>2. QED
  BY <1>1

\* Every step of the ledger is of one of the four kinds.
LEMMA StepKinds ==
  ASSUME BooksOK, [Next]_vars
  PROVE  Kinds
<1> USE DEF books
<1>0. /\ {"missing", "invalid", "mismatch", "reversed", "error"} = Refusals
      /\ {"check", "insert", "record", "measure", "commit", "conflict"} \subseteq Labels \ {"done"}
  BY DEF Refusals, Labels
<1>1. ASSUME NEW r \in Requests, Replay(r)
      PROVE  Kinds
  <2>1. CASE results[Identity(r)] # NoRequest
    BY <1>1, <2>1, RecordedEnds DEF Replay, Kinds
  <2>2. CASE results[Identity(r)] = NoRequest
    <3>1. Moves(r, "check")
      BY <1>1, <2>2 DEF Replay, Goto, Moves
    <3>2. QED
      BY <3>1, <1>0 DEF Kinds
  <2>3. QED
    BY <2>1, <2>2
<1>2. ASSUME NEW r \in Requests, CheckMove(r)
      PROVE  Kinds
  <2>0. Reverses(r) = NoRequest
    BY <1>2, LedgerAssumption DEF CheckMove, Kind, Reverses
  <2>1. CASE Goto(r, "insert")
    <3>1. Moves(r, "insert")
      BY <1>2, <2>0, <2>1 DEF CheckMove, Goto, Moves
    <3>2. QED
      BY <3>1, <1>0 DEF Kinds
  <2>2. CASE Answer(r, "missing")
    BY <1>2, <2>2, <1>0, RefusalEnds DEF CheckMove, Kinds
  <2>3. QED
    BY <1>2, <2>1, <2>2 DEF CheckMove
<1>3. ASSUME NEW r \in Requests, CheckReverse(r)
      PROVE  Kinds
  <2> DEFINE t == Reverses(r)
  <2>1. CASE Goto(r, "insert") /\ t \in ledger /\ Kind(t) # "reverse"
    <3>1. Moves(r, "insert")
      BY <1>3, <2>1 DEF CheckReverse, Goto, Moves
    <3>2. QED
      BY <3>1, <1>0 DEF Kinds
  <2>2. CASE \E a \in Refusals : Answer(r, a)
    BY <1>3, <2>2, RefusalEnds DEF CheckReverse, Kinds
  <2>3. \/ Goto(r, "insert") /\ t \in ledger /\ Kind(t) # "reverse"
        \/ Answer(r, "missing") \/ Answer(r, "invalid") \/ Answer(r, "reversed")
    BY <1>3 DEF CheckReverse
  <2>4. QED
    BY <2>1, <2>2, <2>3, <1>0
<1>4. ASSUME NEW r \in Requests, CheckContribute(r)
      PROVE  Kinds
  <2>0. Reverses(r) = NoRequest
    BY <1>4, LedgerAssumption DEF CheckContribute, Kind, Reverses
  <2>1. CASE Goto(r, "insert")
    <3>1. Moves(r, "insert")
      BY <1>4, <2>0, <2>1 DEF CheckContribute, Goto, Moves
    <3>2. QED
      BY <3>1, <1>0 DEF Kinds
  <2>2. CASE Answer(r, "missing")
    BY <1>4, <2>2, <1>0, RefusalEnds DEF CheckContribute, Kinds
  <2>3. QED
    BY <1>4, <2>1, <2>2 DEF CheckContribute
<1>5. ASSUME NEW r \in Requests, InsertTransaction(r)
      PROVE  Kinds
  <2>1. CASE Goto(r, "conflict")
    <3>1. Moves(r, "conflict")
      BY <1>5, <2>1 DEF InsertTransaction, Goto, Moves
    <3>2. QED
      BY <3>1, <1>0 DEF Kinds
  <2>2. CASE /\ Goto(r, "record")
             /\ Reverses(r) # NoRequest => ~ReversalPending(r) /\ ~Reversed(Reverses(r))
    <3>1. Moves(r, "record")
      BY <1>5, <2>2 DEF InsertTransaction, Goto, Moves
    <3>2. QED
      BY <3>1, <1>0 DEF Kinds
  <2>3. QED
    BY <1>5, <2>1, <2>2 DEF InsertTransaction
<1>6. ASSUME NEW r \in Requests, InsertResult(r)
      PROVE  Kinds
  <2>1. CASE Goto(r, "conflict")
    <3>1. Moves(r, "conflict")
      BY <1>6, <2>1 DEF InsertResult, Goto, Moves
    <3>2. QED
      BY <3>1, <1>0 DEF Kinds
  <2>2. ASSUME NEW l \in {"measure", "commit"}, Goto(r, l), results[Identity(r)] = NoRequest
        PROVE  Kinds
    <3>1. Moves(r, l)
      BY <1>6, <2>2 DEF InsertResult, Goto, Moves
    <3>2. QED
      BY <3>1, <1>0 DEF Kinds
  <2>3. QED
    BY <1>6, <2>1, <2>2 DEF InsertResult
<1>7. ASSUME NEW r \in Requests, Measure(r)
      PROVE  Kinds
  <2>1. Moves(r, "commit")
    BY <1>7 DEF Measure, Goto, Moves
  <2>2. QED
    BY <2>1, <1>0 DEF Kinds
<1>8. ASSUME NEW r \in Requests, Commit(r) \/ CommitUnheard(r)
      PROVE  Kinds
  <2>1. \E a \in {r, "error"} : Commits(r, a)
    BY <1>8 DEF Commit, CommitUnheard, Persists, Answer, Commits
  <2>2. QED
    BY <2>1 DEF Kinds
<1>9. ASSUME NEW r \in Requests, ReplayAfterConflict(r)
      PROVE  Kinds
  <2>1. CASE results[Identity(r)] # NoRequest
    BY <1>9, <2>1, RecordedEnds DEF ReplayAfterConflict, Kinds
  <2>2. CASE results[Identity(r)] = NoRequest
    <3>1. \E a \in Refusals : Answer(r, a)
      BY <1>9, <2>2, <1>0 DEF ReplayAfterConflict
    <3>2. QED
      BY <1>9, <3>1, RefusalEnds DEF ReplayAfterConflict, Kinds
  <2>3. QED
    BY <2>1, <2>2
<1>10. ASSUME NEW r \in Requests, Fail(r)
       PROVE  Kinds
  BY <1>10, <1>0, RefusalEnds DEF Fail, Kinds
<1>11. ASSUME NEW w \in Wallets,
              CreateWallet(w) \/ UpdateWallet(w) \/ CheckArchiveWallet(w)
                \/ ArchiveWallet(w) \/ RestoreWallet(w)
       PROVE  Kinds
  BY <1>11 DEF CreateWallet, UpdateWallet, CheckArchiveWallet, ArchiveWallet,
               RestoreWallet, request, Quiet, Kinds
<1>12. ASSUME NEW g \in Goals,
              CreateGoal(g) \/ UpdateGoal(g) \/ ArchiveGoal(g) \/ RestoreGoal(g)
       PROVE  Kinds
  BY <1>12 DEF CreateGoal, UpdateGoal, ArchiveGoal, RestoreGoal, request, Quiet, Kinds
<1>13. CASE UNCHANGED vars
  BY <1>13 DEF vars, request, Quiet, Kinds
<1>14. QED
  BY <1>1, <1>2, <1>3, <1>4, <1>5, <1>6, <1>7, <1>8, <1>9, <1>10, <1>11, <1>12, <1>13
     DEF Next, Step

-----------------------------------------------------------------------------
(***************************************************************************)
(* Type correctness.                                                       *)
(***************************************************************************)

\* What the four kinds of step touch stays well typed.
LEMMA KindsType ==
  ASSUME RequestOK, BooksOK, Kinds
  PROVE  /\ pc' \in [Requests -> Labels]
         /\ reply' \in [Requests -> Requests \union Refusals \union {"none"}]
         /\ BooksOK'
<1>1. CASE Quiet
  BY <1>1 DEF Quiet, RequestOK, BooksOK
<1>2. ASSUME NEW r \in Requests, NEW l \in Labels \ {"done"}, Moves(r, l)
      PROVE  /\ pc' \in [Requests -> Labels]
             /\ reply' \in [Requests -> Requests \union Refusals \union {"none"}]
             /\ BooksOK'
  BY <1>2 DEF Moves, RequestOK, BooksOK
<1>3. ASSUME NEW r \in Requests, NEW a \in Requests \union Refusals, Ends(r, a)
      PROVE  /\ pc' \in [Requests -> Labels]
             /\ reply' \in [Requests -> Requests \union Refusals \union {"none"}]
             /\ BooksOK'
  BY <1>3 DEF Ends, RequestOK, BooksOK, Labels
<1>4. ASSUME NEW r \in Requests, NEW a \in {r, "error"}, Commits(r, a)
      PROVE  /\ pc' \in [Requests -> Labels]
             /\ reply' \in [Requests -> Requests \union Refusals \union {"none"}]
             /\ BooksOK'
  <2>1. BooksOK'
    BY <1>4, IdentityType DEF Commits, BooksOK
  <2>2. QED
    BY <1>4, <2>1 DEF Commits, RequestOK, Labels, Refusals
<1>5. QED
  BY <1>1, <1>2, <1>3, <1>4 DEF Kinds

\* What a contribution remembers of its goal stays well typed.
LEMMA SawType ==
  ASSUME TypeOK, [Next]_vars
  PROVE  /\ saw' \in [Requests -> [achieved : BOOLEAN, target : Nat]]
         /\ reaches' \in [Requests -> BOOLEAN]
<1>1. CASE UNCHANGED <<saw, reaches>>
  BY <1>1 DEF TypeOK, RequestOK
<1>2. ASSUME NEW r \in Requests, CheckContribute(r)
      PROVE  /\ saw' \in [Requests -> [achieved : BOOLEAN, target : Nat]]
             /\ reaches' \in [Requests -> BOOLEAN]
  <2>1. Command[r].goal \in Goals
    BY <1>2, LedgerAssumption DEF CheckContribute, Kind
  <2>2. [achieved |-> achieved[Command[r].goal], target |-> target[Command[r].goal]]
          \in [achieved : BOOLEAN, target : Nat]
    BY <2>1 DEF TypeOK, WalletOK
  <2>3. QED
    BY <1>2, <2>2 DEF CheckContribute, TypeOK, RequestOK
<1>3. ASSUME NEW r \in Requests, Measure(r)
      PROVE  /\ saw' \in [Requests -> [achieved : BOOLEAN, target : Nat]]
             /\ reaches' \in [Requests -> BOOLEAN]
  <2>1. PICK b \in BOOLEAN : reaches' = [reaches EXCEPT ![r] = b]
    <3>1. (~saw[r].achieved /\ Balance(ledger \union {r}, Command[r].to) >= saw[r].target)
            \in BOOLEAN
      OBVIOUS
    <3>2. QED
      BY <1>3, <3>1 DEF Measure
  <2>2. QED
    BY <1>3, <2>1 DEF Measure, TypeOK, RequestOK
<1>4. QED
  BY <1>1, <1>2, <1>3
     DEF Next, Step, vars, request, Replay, CheckMove, CheckReverse, InsertTransaction,
         InsertResult, Commit, CommitUnheard, Persists, ReplayAfterConflict, Fail,
         CreateWallet, UpdateWallet,
         CheckArchiveWallet, ArchiveWallet, RestoreWallet, CreateGoal, UpdateGoal,
         ArchiveGoal, RestoreGoal

\* Wallets and goals stay well typed.
LEMMA WalletType ==
  ASSUME TypeOK, [Next]_vars
  PROVE  WalletOK'
<1> USE DEF TypeOK, WalletOK
<1>1. CASE UNCHANGED <<wallet, closing, goals>>
  BY <1>1 DEF goals
<1>2. ASSUME NEW r \in Requests, Persists(r)
      PROVE  WalletOK'
  <2>1. \A g \in Goals : (achieved[g] \/ (reaches[r] /\ g = Command[r].goal)) \in BOOLEAN
    OBVIOUS
  <2>2. achieved' \in [Goals -> BOOLEAN]
    BY <1>2, <2>1 DEF Persists
  <2>3. QED
    BY <1>2, <2>2 DEF Persists
<1>3. ASSUME NEW w \in Wallets,
             CreateWallet(w) \/ UpdateWallet(w) \/ CheckArchiveWallet(w)
               \/ ArchiveWallet(w) \/ RestoreWallet(w)
      PROVE  WalletOK'
  BY <1>3 DEF CreateWallet, UpdateWallet, CheckArchiveWallet, ArchiveWallet,
              RestoreWallet, Bump, goals
<1>4. ASSUME NEW g \in Goals, UpdateGoal(g)
      PROVE  WalletOK'
  <2>1. PICK t \in Targets : /\ target' = [target EXCEPT ![g] = t]
                             /\ lowest' = [lowest EXCEPT ![g] = IF t < @ THEN t ELSE @]
    BY <1>4 DEF UpdateGoal
  <2>2. t \in Nat
    BY LedgerAssumption
  <2>3. target' \in [Goals -> Nat] /\ lowest' \in [Goals -> Nat]
    BY <2>1, <2>2
  <2>4. QED
    BY <1>4, <2>3 DEF UpdateGoal
<1>5. ASSUME NEW g \in Goals, CreateGoal(g) \/ ArchiveGoal(g) \/ RestoreGoal(g)
      PROVE  WalletOK'
  BY <1>5, LedgerAssumption DEF CreateGoal, ArchiveGoal, RestoreGoal
<1>6. QED
  BY <1>1, <1>2, <1>3, <1>4, <1>5
     DEF Next, Step, vars, Replay, CheckMove, CheckReverse, CheckContribute,
         InsertTransaction, InsertResult, Measure, Commit, CommitUnheard,
         ReplayAfterConflict, Fail

\* The rows and the requests' local state are well typed in every reachable
\* state of the ledger.
THEOREM TypeCorrect == Spec => []TypeOK
<1>1. Init => TypeOK
  <2>1. Init => RequestOK
    BY DEF Init, RequestOK, Labels, Unseen
  <2>2. Init => BooksOK
    BY DEF Init, BooksOK
  <2>3. Init => WalletOK
    <3>1. Targets \subseteq Nat
      BY LedgerAssumption
    <3>2. [Goals -> Targets] \subseteq [Goals -> Nat]
      BY <3>1
    <3>3. QED
      BY <3>2 DEF Init, WalletOK
  <2>4. QED
    BY <2>1, <2>2, <2>3 DEF TypeOK
<1>2. TypeOK /\ [Next]_vars => TypeOK'
  BY StepKinds, KindsType, SawType, WalletType DEF TypeOK, RequestOK
<1>3. QED
  BY <1>1, <1>2, PTL DEF Spec

-----------------------------------------------------------------------------
(***************************************************************************)
(* The inductive invariant.  Its parts say what the checks of a request    *)
(* that is under way still guarantee when it commits: nobody else is       *)
(* recorded, or about to be, under its identity (Reserved), and its        *)
(* original is there, is no reversal, and is not reversed nor about to be  *)
(* reversed by another transaction (Undoing, Claiming).                    *)
(***************************************************************************)

ResultsNamed ==
  \A i \in Identities :
    results[i] # NoRequest => results[i] \in ledger /\ Identity(results[i]) = i

LedgerNamed ==
  \A t \in ledger : results[Identity(t)] = t /\ reply[t] \in {t, "error"}

NotYetAnswered == \A r \in Requests : pc[r] # "done" => reply[r] = "none"

AnswersNamed ==
  \A r \in Requests : reply[r] \in Requests =>
    reply[r] \in ledger /\ Identity(reply[r]) = Identity(r) /\ Same(reply[r], r)

Reserved ==
  \A r \in Requests : pc[r] \in {"measure", "commit"} =>
    results[Identity(r)] = NoRequest /\ ~IdentityPending(r)

Undoing ==
  \A r \in Requests :
    pc[r] \in {"insert", "record", "measure", "commit"} /\ Reverses(r) # NoRequest =>
      Reverses(r) \in ledger /\ Kind(Reverses(r)) # "reverse"

Claiming ==
  \A r \in Requests :
    pc[r] \in {"record", "measure", "commit"} /\ Reverses(r) # NoRequest =>
      ~Reversed(Reverses(r)) /\ ~ReversalPending(r)

Consistent == /\ ResultsNamed /\ LedgerNamed /\ NotYetAnswered /\ AnswersNamed
              /\ Reserved /\ Undoing /\ Claiming /\ ReversedOnce

\* The books and the answers agree after every step.
LEMMA BooksStep ==
  ASSUME RequestOK, BooksOK, Consistent, Kinds
  PROVE  ResultsNamed' /\ LedgerNamed' /\ NotYetAnswered' /\ AnswersNamed'
<1> USE DEF RequestOK, BooksOK, Consistent
<1>0. /\ NoRequest \notin Requests
      /\ Refusals \intersect Requests = {}
      /\ "none" \notin Requests \union Refusals
  BY LedgerAssumption DEF Refusals
<1>1. CASE Quiet
  BY <1>1 DEF Quiet, ResultsNamed, LedgerNamed, NotYetAnswered, AnswersNamed
<1>2. ASSUME NEW r \in Requests, NEW l \in Labels \ {"done"}, Moves(r, l)
      PROVE  ResultsNamed' /\ LedgerNamed' /\ NotYetAnswered' /\ AnswersNamed'
  BY <1>2 DEF Moves, ResultsNamed, LedgerNamed, NotYetAnswered, AnswersNamed
<1>3. ASSUME NEW r \in Requests, NEW a \in Requests \union Refusals, Ends(r, a)
      PROVE  ResultsNamed' /\ LedgerNamed' /\ NotYetAnswered' /\ AnswersNamed'
  <2>0. reply[r] = "none" /\ r \notin ledger
    BY <1>3, <1>0 DEF Ends, NotYetAnswered, LedgerNamed, Refusals
  <2>1. ResultsNamed'
    BY <1>3 DEF Ends, ResultsNamed
  <2>2. LedgerNamed'
    BY <1>3, <2>0 DEF Ends, LedgerNamed
  <2>3. NotYetAnswered'
    BY <1>3 DEF Ends, NotYetAnswered
  <2>4. a \in Requests => a \in ledger /\ Identity(a) = Identity(r) /\ Same(a, r)
    BY <1>3, <1>0, IdentityType DEF Ends, ResultsNamed
  <2>5. AnswersNamed'
    BY <1>3, <2>4 DEF Ends, AnswersNamed
  <2>6. QED
    BY <2>1, <2>2, <2>3, <2>5
<1>4. ASSUME NEW r \in Requests, NEW a \in {r, "error"}, Commits(r, a)
      PROVE  ResultsNamed' /\ LedgerNamed' /\ NotYetAnswered' /\ AnswersNamed'
  <2>0. reply[r] = "none" /\ r \notin ledger /\ results[Identity(r)] = NoRequest
    BY <1>4, <1>0 DEF Commits, NotYetAnswered, LedgerNamed, Reserved, Refusals
  <2>1. ResultsNamed'
    BY <1>4, IdentityType DEF Commits, ResultsNamed
  <2>2. \A t \in ledger : Identity(t) # Identity(r) /\ t # r
    BY <2>0, <1>0 DEF LedgerNamed
  <2>3. LedgerNamed'
    BY <1>4, <2>2, IdentityType DEF Commits, LedgerNamed
  <2>4. NotYetAnswered'
    BY <1>4 DEF Commits, NotYetAnswered
  <2>5. AnswersNamed'
    BY <1>4, <1>0 DEF Commits, AnswersNamed, Same, Refusals
  <2>6. QED
    BY <2>1, <2>3, <2>4, <2>5
<1>5. QED
  BY <1>1, <1>2, <1>3, <1>4 DEF Kinds

\* The reservations of the requests under way hold after every step.
LEMMA ReservationStep ==
  ASSUME RequestOK, BooksOK, Consistent, Kinds
  PROVE  Reserved' /\ Undoing' /\ Claiming' /\ ReversedOnce'
<1> USE DEF RequestOK, BooksOK, Consistent
<1>0. NoRequest \notin Requests
  BY LedgerAssumption
<1>1. CASE Quiet
  BY <1>1 DEF Quiet, Reserved, Undoing, Claiming, ReversedOnce,
              IdentityPending, ReversalPending, Reversed
<1>2. ASSUME NEW r \in Requests, NEW l \in Labels \ {"done"}, Moves(r, l)
      PROVE  Reserved' /\ Undoing' /\ Claiming' /\ ReversedOnce'
  <2>0. /\ pc' = [pc EXCEPT ![r] = l]
        /\ ledger' = ledger /\ results' = results
    BY <1>2 DEF Moves
  <2>1. Reserved'
    BY <1>2, <2>0 DEF Moves, Reserved, IdentityPending
  <2>2. Undoing'
    BY <1>2, <2>0 DEF Moves, Undoing
  <2>3. Claiming'
    BY <1>2, <2>0 DEF Moves, Claiming, ReversalPending, Reversed
  <2>4. ReversedOnce'
    BY <2>0 DEF ReversedOnce
  <2>5. QED
    BY <2>1, <2>2, <2>3, <2>4
<1>3. ASSUME NEW r \in Requests, NEW a \in Requests \union Refusals, Ends(r, a)
      PROVE  Reserved' /\ Undoing' /\ Claiming' /\ ReversedOnce'
  <2>0. /\ pc' = [pc EXCEPT ![r] = "done"]
        /\ ledger' = ledger /\ results' = results
    BY <1>3 DEF Ends
  <2>1. Reserved'
    BY <2>0 DEF Reserved, IdentityPending
  <2>2. Undoing' /\ Claiming' /\ ReversedOnce'
    BY <2>0 DEF Undoing, Claiming, ReversedOnce, ReversalPending, Reversed
  <2>3. QED
    BY <2>1, <2>2
<1>4. ASSUME NEW r \in Requests, NEW a \in {r, "error"}, Commits(r, a)
      PROVE  Reserved' /\ Undoing' /\ Claiming' /\ ReversedOnce'
  <2>0. /\ pc[r] = "commit"
        /\ pc' = [pc EXCEPT ![r] = "done"]
        /\ ledger' = ledger \union {r}
        /\ results' = [results EXCEPT ![Identity(r)] = r]
    BY <1>4 DEF Commits
  <2>1. Reserved'
    <3> SUFFICES ASSUME NEW q \in Requests, pc'[q] \in {"measure", "commit"}
                 PROVE  results'[Identity(q)] = NoRequest /\ ~IdentityPending(q)'
      BY DEF Reserved
    <3>1. q # r /\ pc[q] \in {"measure", "commit"}
      BY <2>0
    <3>2. Identity(q) # Identity(r)
      BY <2>0, <3>1 DEF Reserved, IdentityPending
    <3>3. QED
      BY <2>0, <3>1, <3>2, IdentityType DEF Reserved, IdentityPending
  <2>2. Undoing'
    BY <2>0 DEF Undoing
  <2>3. Claiming'
    <3> SUFFICES ASSUME NEW q \in Requests, Reverses(q) # NoRequest,
                        pc'[q] \in {"record", "measure", "commit"}
                 PROVE  ~Reversed(Reverses(q))' /\ ~ReversalPending(q)'
      BY DEF Claiming
    <3>1. q # r /\ pc[q] \in {"record", "measure", "commit"}
      BY <2>0
    <3>2. Reverses(q) # Reverses(r)
      BY <2>0, <3>1 DEF Claiming, ReversalPending
    <3>3. QED
      BY <2>0, <3>1, <3>2 DEF Claiming, ReversalPending, Reversed
  <2>4. ReversedOnce'
    <3>1. Reverses(r) # NoRequest =>
            /\ Reverses(r) \in ledger
            /\ Kind(Reverses(r)) # "reverse"
            /\ \A p \in ledger : Reverses(p) # Reverses(r)
      BY <2>0 DEF Undoing, Claiming, Reversed
    <3>2. QED
      BY <2>0, <3>1 DEF ReversedOnce
  <2>5. QED
    BY <2>1, <2>2, <2>3, <2>4
<1>5. QED
  BY <1>1, <1>2, <1>3, <1>4 DEF Kinds

LEMMA ConsistentInit == Init => Consistent
<1> SUFFICES ASSUME Init PROVE Consistent
  OBVIOUS
<1>1. "none" \notin Requests
  BY LedgerAssumption
<1>2. ResultsNamed /\ LedgerNamed /\ NotYetAnswered /\ AnswersNamed
  BY <1>1 DEF Init, ResultsNamed, LedgerNamed, NotYetAnswered, AnswersNamed
<1>3. Reserved /\ Undoing /\ Claiming /\ ReversedOnce
  BY DEF Init, Reserved, Undoing, Claiming, ReversedOnce
<1>4. QED
  BY <1>2, <1>3 DEF Consistent

\* The inductive invariant holds in every reachable state.
THEOREM AlwaysConsistent == Spec => []Consistent
<1>1. TypeOK /\ Consistent /\ [Next]_vars => Consistent'
  BY StepKinds, BooksStep, ReservationStep DEF TypeOK, Consistent
<1>2. QED
  BY <1>1, ConsistentInit, TypeCorrect, PTL DEF Spec

\* No transaction is reversed twice, and no reversal is reversed, whatever
\* reversals race (ledger-commands.service.ts, reverse and persist).
THEOREM ReversalsUnique == Spec => []ReversedOnce
<1>1. Consistent => ReversedOnce
  BY DEF Consistent
<1>2. QED
  BY <1>1, AlwaysConsistent, PTL

\* Under one Idempotency-Key every successful answer names one transaction, and
\* that transaction is committed with the payload of the request.
THEOREM RetriesSafe == Spec => []RepliesAgree
<1>1. TypeOK /\ Consistent => RepliesAgree
  <2> SUFFICES ASSUME TypeOK, Consistent, NEW q \in Requests, NEW r \in Requests,
                      Identity(q) = Identity(r), reply[q] \in Requests, reply[r] \in Requests
               PROVE  reply[q] = reply[r] /\ reply[q] \in ledger /\ Same(reply[q], r)
    BY DEF RepliesAgree
  <2>1. /\ reply[q] \in ledger /\ Identity(reply[q]) = Identity(q)
        /\ reply[r] \in ledger /\ Identity(reply[r]) = Identity(r) /\ Same(reply[r], r)
    BY DEF Consistent, AnswersNamed
  <2>2. results[Identity(reply[q])] = reply[q] /\ results[Identity(reply[r])] = reply[r]
    BY <2>1 DEF Consistent, LedgerNamed
  <2>3. QED
    BY <2>1, <2>2
<1>2. QED
  BY <1>1, TypeCorrect, AlwaysConsistent, PTL

\* A request that was refused for a reason has no transaction in the ledger,
\* and one that failed after its commit is recorded under its Idempotency-Key.
THEOREM RefusalsHarmless == Spec => []RefusedLeavesNothing
<1>1. TypeOK /\ Consistent => RefusedLeavesNothing
  BY LedgerAssumption DEF TypeOK, BooksOK, Consistent, LedgerNamed, RefusedLeavesNothing, Refusals
<1>2. QED
  BY <1>1, TypeCorrect, AlwaysConsistent, PTL

-----------------------------------------------------------------------------
(***************************************************************************)
(* Refinement: a step is a stutter of OnceOnly, a refusal, a repeated      *)
(* answer, or the execution of a command.                                  *)
(***************************************************************************)

LEMMA OnceStep ==
  ASSUME TypeOK, Consistent, [Next]_vars
  PROVE  [Once!Next]_(Once!vars)
<1> USE DEF Once!vars, Once!Next, Once!Reply, Once!Unanswered
<1>k. Kinds
  BY StepKinds DEF TypeOK
<1>1. CASE Quiet
  BY <1>1 DEF Quiet
<1>2. ASSUME NEW r \in Requests, NEW l \in Labels \ {"done"}, Moves(r, l)
      PROVE  [Once!Next]_(Once!vars)
  BY <1>2 DEF Moves
<1>3. ASSUME NEW r \in Requests, NEW a \in Requests \union Refusals, Ends(r, a)
      PROVE  [Once!Next]_(Once!vars)
  <2>0. reply[r] = "none"
    BY <1>3 DEF Ends, Consistent, NotYetAnswered
  <2>1. CASE a \in Refusals
    <3>1. Once!Refuse(r)
      BY <1>3, <2>0, <2>1 DEF Ends, Once!Refuse
    <3>2. QED
      BY <3>1
  <2>2. CASE a = results[Identity(r)] /\ a # NoRequest /\ Same(a, r)
    <3>1. a \in ledger /\ Identity(a) = Identity(r)
      BY <2>2, IdentityType DEF Consistent, ResultsNamed
    <3>2. Once!Repeat(r)
      BY <1>3, <2>0, <2>2, <3>1 DEF Ends, Once!Repeat
    <3>3. QED
      BY <3>2
  <2>3. QED
    BY <1>3, <2>1, <2>2 DEF Ends
<1>4. ASSUME NEW r \in Requests, NEW a \in {r, "error"}, Commits(r, a)
      PROVE  [Once!Next]_(Once!vars)
  <2>0. reply[r] = "none" /\ results[Identity(r)] = NoRequest
    BY <1>4 DEF Commits, Consistent, NotYetAnswered, Reserved
  <2>1. \A q \in ledger : Identity(q) # Identity(r)
    BY <2>0, LedgerAssumption DEF Consistent, LedgerNamed, TypeOK, BooksOK
  <2>2. Reverses(r) # NoRequest =>
          /\ Reverses(r) \in ledger
          /\ Reverses(Reverses(r)) = NoRequest
          /\ \A q \in ledger : Reverses(q) # Reverses(r)
    <3>1. Reverses(r) # NoRequest =>
            /\ Reverses(r) \in ledger /\ Kind(Reverses(r)) # "reverse"
            /\ \A q \in ledger : Reverses(q) # Reverses(r)
      BY <1>4 DEF Commits, Consistent, Undoing, Claiming, Reversed
    <3>2. \A t \in Requests : Kind(t) # "reverse" => Reverses(t) = NoRequest
      BY LedgerAssumption DEF Kind, Reverses
    <3>3. QED
      BY <3>1, <3>2 DEF TypeOK, BooksOK
  <2>3. Once!Execute(r) \/ Once!ExecuteUnheard(r)
    BY <1>4, <2>0, <2>1, <2>2
       DEF Commits, Once!TakeEffect, Once!Execute, Once!ExecuteUnheard
  <2>4. QED
    BY <2>3
<1>5. QED
  BY <1>k, <1>1, <1>2, <1>3, <1>4 DEF Kinds

\* The ledger implements once-only execution of keyed, reversible commands.
THEOREM LedgerImplementsOnceOnly == Spec => OnceSpec
<1>1. Init => Once!Init
  BY DEF Init, Once!Init, Once!Unanswered
<1>2. QED
  BY <1>1, OnceStep, TypeCorrect, AlwaysConsistent, PTL DEF Spec, OnceSpec, Once!Spec

-----------------------------------------------------------------------------
(***************************************************************************)
(* Balances.  A reversal and its original are a row and a column of one    *)
(* table, and ReversedOnce says that each has exactly one entry of it.     *)
(***************************************************************************)

\* What the entries of each transaction are on a wallet.
Entries(w) == [t \in Requests |->
                 (IF Posting(t).to = w THEN Posting(t).amount ELSE 0)
                   - (IF Posting(t).from = w THEN Posting(t).amount ELSE 0)]

Standing == {t \in ledger : Reverses(t) = NoRequest /\ ~Reversed(t)}

\* The entries of a transaction, and of the one that reverses it.
LEMMA PostingType ==
  ASSUME NEW t \in Requests
  PROVE  /\ Posting(t).from \in Wallets \union {External}
         /\ Posting(t).to \in Wallets \union {External}
         /\ Posting(t).amount \in Nat
         /\ Kind(t) = "reverse" <=> Reverses(t) # NoRequest
<1>1. Command[t] \in Commands /\ (Kind(t) = "reverse" <=> Reverses(t) # NoRequest)
  BY LedgerAssumption DEF Kind, Reverses
<1>2. CASE Kind(t) = "reverse"
  <2>1. Reverses(t) \in Requests
    BY <1>1, <1>2 DEF Reverses, Commands
  <2>2. Command[Reverses(t)] \in Commands
    BY <2>1, LedgerAssumption
  <2>3. Posting(t) = [from |-> Command[Reverses(t)].to, to |-> Command[Reverses(t)].from,
                      amount |-> Command[Reverses(t)].amount]
    BY <1>2 DEF Posting
  <2> QED BY <1>1, <2>2, <2>3 DEF Commands
<1>3. CASE Kind(t) # "reverse"
  <2>1. Posting(t) = [from |-> Command[t].from, to |-> Command[t].to, amount |-> Command[t].amount]
    BY <1>3 DEF Posting
  <2> QED BY <1>1, <2>1 DEF Commands
<1> QED BY <1>2, <1>3

LEMMA Inverted ==
  ASSUME NEW r \in Requests, Kind(r) = "reverse", Kind(Reverses(r)) # "reverse"
  PROVE  /\ Reverses(r) \in Requests
         /\ Posting(r).from = Posting(Reverses(r)).to
         /\ Posting(r).to = Posting(Reverses(r)).from
         /\ Posting(r).amount = Posting(Reverses(r)).amount
<1>1. Reverses(r) \in Requests
  BY LedgerAssumption DEF Kind, Reverses, Commands
<1> QED BY <1>1 DEF Posting

\* A balance is a sum over the transactions.
LEMMA BalanceIsSum ==
  ASSUME NEW T \in SUBSET Requests, NEW w
  PROVE  /\ IsFiniteSet(T)
         /\ \A t \in Requests : Entries(w)[t] \in Int
         /\ Balance(T, w) = SumFunctionOnSet(Entries(w), T)
         /\ Balance(T, w) \in Int
<1> DEFINE ins  == [t \in Requests |-> IF Posting(t).to = w THEN Posting(t).amount ELSE 0]
           outs == [t \in Requests |-> IF Posting(t).from = w THEN Posting(t).amount ELSE 0]
           I == {t \in T : Posting(t).to = w}
           O == {t \in T : Posting(t).from = w}
<1>1. IsFiniteSet(T)
  BY LedgerAssumption, FS_Subset
<1>2. \A t \in Requests : Moved[t] = Posting(t).amount /\ Moved[t] \in Int
  BY PostingType DEF Moved
<1>3. \A t \in T : ins[t] \in Int /\ outs[t] \in Int /\ Entries(w)[t] = ins[t] - outs[t]
  BY PostingType DEF Entries
<1>4. /\ \A t \in I : Moved[t] \in Int /\ ins[t] = Moved[t]
      /\ \A t \in T \ I : ins[t] = 0
  BY <1>2
<1>5. /\ \A t \in O : Moved[t] \in Int /\ outs[t] = Moved[t]
      /\ \A t \in T \ O : outs[t] = 0
  BY <1>2
<1>6. \A t \in Requests : Entries(w)[t] \in Int
  BY PostingType DEF Entries
<1>7. Inflow(T, w) = SumFunctionOnSet(ins, T)
  <2>1. Inflow(T, w) = SumFunctionOnSet(Moved, I)
    BY DEF Inflow
  <2>2. I \in SUBSET T
    OBVIOUS
  <2> HIDE DEF I, ins
  <2> QED BY <1>1, <1>4, <2>1, <2>2, SumPart
<1>8. Outflow(T, w) = SumFunctionOnSet(outs, T)
  <2>1. Outflow(T, w) = SumFunctionOnSet(Moved, O)
    BY DEF Outflow
  <2>2. O \in SUBSET T
    OBVIOUS
  <2> HIDE DEF O, outs
  <2> QED BY <1>1, <1>5, <2>1, <2>2, SumPart
<1>9. SumFunctionOnSet(Entries(w), T) = SumFunctionOnSet(ins, T) - SumFunctionOnSet(outs, T)
  <2> HIDE DEF ins, outs
  <2> QED BY <1>1, <1>3, SumMinus
<1>10. SumFunctionOnSet(Entries(w), T) \in Int
  BY <1>1, <1>6, SumTake
<1> HIDE DEF ins, outs
<1> QED BY <1>1, <1>6, <1>7, <1>8, <1>9, <1>10 DEF Balance

\* What reversals invert is summed over the standing transactions alone.
LEMMA ReversalsCancel ==
  ASSUME ledger \subseteq Requests, ReversedOnce, NEW f,
         \A t \in ledger : f[t] \in Int,
         \A r \in ledger : Reverses(r) # NoRequest => f[r] = 0 - f[Reverses(r)]
  PROVE  SumFunctionOnSet(f, ledger) = SumFunctionOnSet(f, Standing)
<1> DEFINE R == {r \in ledger : Reverses(r) # NoRequest}
           N == {t \in ledger : Reverses(t) = NoRequest /\ Reversed(t)}
           a == [t \in ledger |-> IF t \in Standing THEN f[t] ELSE 0]
           b == [t \in ledger |-> IF t \in R THEN f[t] ELSE 0]
           n == [t \in ledger |-> IF t \in N THEN f[t] ELSE 0]
           bn == [t \in ledger |-> b[t] + n[t]]
           m == [t \in ledger |-> IF t \in R THEN f[Reverses(t)] ELSE 0]
           F == [r \in ledger |-> [t \in ledger |-> IF Reverses(r) = t THEN f[t] ELSE 0]]
           G == [t \in ledger |-> [r \in ledger |-> IF Reverses(r) = t THEN f[t] ELSE 0]]
           Sum(g) == SumFunctionOnSet(g, ledger)
<1>0. NoRequest \notin ledger /\ IsFiniteSet(ledger)
  BY LedgerAssumption, FS_Subset
<1>1. \A r \in R : Reverses(r) \in ledger /\ \A p \in R : Reverses(p) = Reverses(r) => p = r
  BY DEF ReversedOnce
<1>2. \A r \in R : Reverses(Reverses(r)) = NoRequest
  BY <1>1, PostingType DEF ReversedOnce
<1>3. \A t \in ledger : t \in N <=> \E r \in R : Reverses(r) = t
  BY <1>0, <1>2 DEF Reversed
<1>4. Sum(f) = Sum(a) + Sum(bn)
  <2>1. \A t \in ledger : /\ a[t] \in Int /\ bn[t] \in Int
                          /\ f[t] = a[t] + bn[t]
    <3> SUFFICES ASSUME NEW t \in ledger
                 PROVE  a[t] \in Int /\ bn[t] \in Int /\ f[t] = a[t] + bn[t]
      OBVIOUS
    <3>1. f[t] \in Int
      OBVIOUS
    <3>2. CASE t \in R
      <4>1. a[t] = 0 /\ bn[t] = f[t] + 0
        BY <3>2 DEF Standing
      <4> QED BY <3>1, <4>1
    <3>3. CASE t \in N
      <4>1. a[t] = 0 /\ bn[t] = 0 + f[t]
        BY <3>3 DEF Standing
      <4> QED BY <3>1, <4>1
    <3>4. CASE t \notin R /\ t \notin N
      <4>1. a[t] = f[t] /\ bn[t] = 0 + 0
        BY <3>4 DEF Standing
      <4> QED BY <3>1, <4>1
    <3> QED BY <3>2, <3>3, <3>4
  <2> HIDE DEF a, bn
  <2> QED BY <1>0, <2>1, SumPlus
<1>5. Sum(a) = SumFunctionOnSet(f, Standing)
  <2>1. Standing \in SUBSET ledger
    BY DEF Standing
  <2>2. /\ \A t \in Standing : f[t] \in Int /\ a[t] = f[t]
        /\ \A t \in ledger \ Standing : a[t] = 0
    BY <2>1
  <2> HIDE DEF a
  <2> QED BY <1>0, <2>1, <2>2, SumPart
<1>6. Sum(bn) = Sum(b) + Sum(n)
  <2>1. \A t \in ledger : b[t] \in Int /\ n[t] \in Int /\ bn[t] = b[t] + n[t]
    OBVIOUS
  <2> HIDE DEF b, n, bn
  <2> QED BY <1>0, <2>1, SumPlus
<1>7. Sum(m) = Sum(n)
  <2>1. Transposed(F, G, ledger, ledger)
    BY DEF Transposed
  <2>2. ASSUME NEW r \in ledger PROVE m[r] = SumFunctionOnSet(F[r], ledger)
    <3>1. CASE r \in R
      <4>1. PICK t \in ledger : t = Reverses(r)
        BY <1>1, <3>1
      <4>2. /\ F[r][t] = f[t] /\ F[r][t] \in Int
            /\ \A y \in ledger \ {t} : F[r][y] = 0
        BY <4>1
      <4>3. SumFunctionOnSet(F[r], ledger) = f[t]
        <5> HIDE DEF F
        <5> QED BY <1>0, <4>2, SumOne
      <4>4. m[r] = f[t]
        BY <3>1, <4>1
      <4> QED BY <4>3, <4>4
    <3>2. CASE r \notin R
      <4>1. m[r] = 0 /\ \A y \in ledger : F[r][y] = 0
        BY <1>0, <3>2
      <4>2. SumFunctionOnSet(F[r], ledger) = 0
        <5> HIDE DEF F
        <5> QED BY <1>0, <4>1, SumOne
      <4> QED BY <4>1, <4>2
    <3> QED BY <3>1, <3>2
  <2>3. ASSUME NEW t \in ledger PROVE n[t] = SumFunctionOnSet(G[t], ledger)
    <3>1. CASE t \in N
      <4>1. PICK r \in R : Reverses(r) = t
        BY <1>3, <3>1
      <4>2. /\ G[t][r] = f[t] /\ G[t][r] \in Int
            /\ \A q \in ledger \ {r} : G[t][q] = 0
        BY <1>0, <1>1, <4>1
      <4>3. SumFunctionOnSet(G[t], ledger) = f[t]
        <5> HIDE DEF G
        <5> QED BY <1>0, <4>1, <4>2, SumOne
      <4>4. n[t] = f[t]
        BY <3>1
      <4> QED BY <4>3, <4>4
    <3>2. CASE t \notin N
      <4>1. \A q \in ledger : G[t][q] = 0
        BY <1>0, <1>3, <3>2
      <4>2. SumFunctionOnSet(G[t], ledger) = 0
        <5> HIDE DEF G
        <5> QED BY <1>0, <4>1, SumOne
      <4> QED BY <3>2, <4>2
    <3> QED BY <3>1, <3>2
  <2> HIDE DEF F, G, m, n
  <2> QED BY <1>0, <2>1, <2>2, <2>3, SumExchange
<1>8. Sum(b) + Sum(m) = 0
  <2> DEFINE z == [t \in ledger |-> 0]
  <2>1. \A t \in ledger : b[t] \in Int /\ m[t] \in Int /\ z[t] = b[t] + m[t] /\ z[t] = 0
    BY <1>1
  <2>2. Sum(z) = 0
    <3> HIDE DEF z
    <3> QED BY <1>0, <2>1, SumOne
  <2>3. Sum(z) = Sum(b) + Sum(m)
    <3> HIDE DEF z, b, m
    <3> QED BY <1>0, <2>1, SumPlus
  <2> QED BY <2>2, <2>3
<1>9. Sum(a) \in Int
  <2>1. \A t \in ledger : a[t] \in Int
    OBVIOUS
  <2> HIDE DEF a
  <2> QED BY <1>0, <2>1, SumTake
<1> HIDE DEF a, b, n, bn, m, Sum
<1>10. Sum(f) = Sum(a)
  BY <1>4, <1>6, <1>7, <1>8, <1>9
<1> QED BY <1>5, <1>10 DEF Sum

\* The balance of every wallet is what the standing transactions add up to, for
\* any commands and however many of them are reversed.
THEOREM BalancesAlwaysStand == Spec => []BalancesStand
<1>1. TypeOK /\ Consistent => BalancesStand
  <2> SUFFICES ASSUME ledger \subseteq Requests, ReversedOnce, NEW w \in Wallets
               PROVE  Balance(ledger, w) = Balance(Standing, w)
    BY DEF TypeOK, BooksOK, Consistent, BalancesStand, Standing
  <2>1. Standing \in SUBSET Requests
    BY DEF Standing
  <2>2. \A t \in ledger : Entries(w)[t] \in Int
    BY BalanceIsSum
  <2>3. ASSUME NEW r \in ledger, Reverses(r) # NoRequest
        PROVE  Entries(w)[r] = 0 - Entries(w)[Reverses(r)]
    <3>1. Kind(r) = "reverse" /\ Kind(Reverses(r)) # "reverse"
      BY <2>3, PostingType DEF ReversedOnce
    <3>2. Reverses(r) \in Requests /\ Posting(r).amount \in Int
      BY <3>1, Inverted, PostingType
    <3> QED BY <3>1, <3>2, Inverted DEF Entries
  <2>4. SumFunctionOnSet(Entries(w), ledger) = SumFunctionOnSet(Entries(w), Standing)
    BY <2>2, <2>3, ReversalsCancel
  <2> QED BY <2>1, <2>4, BalanceIsSum
<1> QED BY <1>1, TypeCorrect, AlwaysConsistent, PTL

-----------------------------------------------------------------------------
(***************************************************************************)
(* Goals and reports.  A contribution aims at no less than the lowest      *)
(* target (Aiming), and once it has measured that it reaches its aim, what *)
(* has flowed into the envelope only grows (Reaching).  A command that has *)
(* passed its check names wallets that its author manages (Managed).       *)
(***************************************************************************)

Lowered == \A g \in Goals : lowest[g] <= target[g]

Aiming ==
  \A r \in Requests :
    Kind(r) = "contribute" /\ pc[r] \in {"insert", "record", "measure", "commit"}
      => lowest[Command[r].goal] <= saw[r].target

Reaching ==
  \A r \in Requests :
    /\ pc[r] = "measure" => Kind(r) = "contribute"
    /\ reaches[r] => Kind(r) = "contribute" /\ pc[r] \in {"commit", "done"}
    /\ reaches[r] /\ pc[r] = "commit" =>
         Inflow(ledger \union {r}, Command[r].to) >= saw[r].target

Managed ==
  \A r \in Requests :
    Kind(r) = "move" /\ (r \in ledger \/ pc[r] \in {"insert", "record", "measure", "commit"})
      => \A w \in Touched(r) : <<User(r), w>> \in Manages

GoalsInv == Lowered /\ Aiming /\ Reaching /\ AchievedWasFunded /\ Managed

\* What flows into a wallet grows with the ledger, and is at least the balance.
LEMMA InflowGrows ==
  ASSUME NEW U \in SUBSET Requests, NEW T \in SUBSET U, NEW w
  PROVE  /\ Inflow(T, w) \in Nat /\ Inflow(U, w) \in Nat
         /\ Inflow(T, w) <= Inflow(U, w)
         /\ Balance(T, w) <= Inflow(T, w)
<1> DEFINE I == {t \in U : Posting(t).to = w}
           J == {t \in T : Posting(t).to = w}
           O == {t \in T : Posting(t).from = w}
<1>1. IsFiniteSet(I) /\ IsFiniteSet(O)
  BY LedgerAssumption, FS_Subset
<1>2. /\ \A t \in I : Moved[t] \in Nat
      /\ \A t \in O : Moved[t] \in Nat
  BY PostingType DEF Moved
<1>3. J \in SUBSET I /\ I \in SUBSET I /\ O \in SUBSET O
  OBVIOUS
<1>4. Inflow(T, w) = SumFunctionOnSet(Moved, J) /\ Inflow(U, w) = SumFunctionOnSet(Moved, I)
      /\ Outflow(T, w) = SumFunctionOnSet(Moved, O)
  BY DEF Inflow, Outflow
<1> HIDE DEF I, J, O
<1>5. SumFunctionOnSet(Moved, J) \in Nat /\ SumFunctionOnSet(Moved, J) <= SumFunctionOnSet(Moved, I)
  BY <1>1, <1>2, <1>3, SumGrows
<1>6. SumFunctionOnSet(Moved, I) \in Nat
  BY <1>1, <1>2, <1>3, SumGrows
<1>7. SumFunctionOnSet(Moved, O) \in Nat
  BY <1>1, <1>2, <1>3, SumGrows
<1> QED BY <1>4, <1>5, <1>6, <1>7 DEF Balance

\* Request r goes on, having done what the step it leaves requires of it.
Proceeds(r, l) ==
  /\ pc[r] # "done"
  /\ pc' = [pc EXCEPT ![r] = l]
  /\ pc[r] = "commit" => l = "done"
  /\ l = "insert"  => /\ Kind(r) # "contribute"
                      /\ Kind(r) = "move" => \A w \in Touched(r) : <<User(r), w>> \in Manages
  /\ l = "record"  => pc[r] = "insert"
  /\ l = "measure" => pc[r] = "record" /\ Kind(r) = "contribute"
  /\ l = "commit"  => pc[r] = "record" /\ Kind(r) # "contribute"

\* The steps that goals do not notice.
Aside ==
  /\ UNCHANGED <<saw, reaches, ledger, target, achieved, lowest>>
  /\ pc' = pc \/ \E r \in Requests, l \in Labels : Proceeds(r, l)

\* The steps that they do.
Noticed ==
  \/ \E r \in Requests : CheckContribute(r) \/ Measure(r) \/ Commit(r) \/ CommitUnheard(r)
  \/ \E g \in Goals : UpdateGoal(g)

LEMMA GoalSteps ==
  ASSUME [Next]_vars
  PROVE  Aside \/ Noticed
<1> USE DEF books, goals
<1>0. {"check", "insert", "record", "measure", "commit", "conflict", "done"} \subseteq Labels
  BY DEF Labels
<1>1. ASSUME NEW r \in Requests, Replay(r) PROVE Aside
  <2>1. Proceeds(r, "check") \/ Proceeds(r, "done")
    BY <1>1 DEF Replay, AnswerRecorded, Goto, Answer, Proceeds
  <2> QED BY <1>0, <1>1, <2>1 DEF Replay, Aside
<1>2. ASSUME NEW r \in Requests, CheckMove(r) PROVE Aside
  <2>1. Proceeds(r, "insert") \/ Proceeds(r, "done")
    BY <1>2 DEF CheckMove, Usable, Goto, Answer, Proceeds
  <2> QED BY <1>0, <1>2, <2>1 DEF CheckMove, Aside
<1>3. ASSUME NEW r \in Requests, CheckReverse(r) PROVE Aside
  <2>1. Proceeds(r, "insert") \/ Proceeds(r, "done")
    BY <1>3 DEF CheckReverse, Goto, Answer, Proceeds
  <2> QED BY <1>0, <1>3, <2>1 DEF CheckReverse, Aside
<1>4. ASSUME NEW r \in Requests, InsertTransaction(r) PROVE Aside
  <2>1. Proceeds(r, "record") \/ Proceeds(r, "conflict")
    BY <1>4 DEF InsertTransaction, Goto, Proceeds
  <2> QED BY <1>0, <1>4, <2>1 DEF InsertTransaction, Aside
<1>5. ASSUME NEW r \in Requests, InsertResult(r) PROVE Aside
  <2>1. Proceeds(r, "conflict") \/ Proceeds(r, "measure") \/ Proceeds(r, "commit")
    BY <1>5 DEF InsertResult, Goto, Proceeds
  <2> QED BY <1>0, <1>5, <2>1 DEF InsertResult, Aside
<1>6. ASSUME NEW r \in Requests, ReplayAfterConflict(r) PROVE Aside
  <2>1. Proceeds(r, "done")
    BY <1>6 DEF ReplayAfterConflict, AnswerRecorded, Answer, Proceeds
  <2> QED BY <1>0, <1>6, <2>1 DEF ReplayAfterConflict, Aside
<1>7. ASSUME NEW r \in Requests, Fail(r) PROVE Aside
  <2>1. Proceeds(r, "done")
    BY <1>7 DEF Fail, Answer, Proceeds
  <2> QED BY <1>0, <1>7, <2>1 DEF Fail, Aside
<1>8. ASSUME NEW w \in Wallets,
             CreateWallet(w) \/ UpdateWallet(w) \/ CheckArchiveWallet(w)
               \/ ArchiveWallet(w) \/ RestoreWallet(w)
      PROVE  Aside
  BY <1>8 DEF CreateWallet, UpdateWallet, CheckArchiveWallet, ArchiveWallet,
              RestoreWallet, request, Aside
<1>9. ASSUME NEW g \in Goals, CreateGoal(g) \/ ArchiveGoal(g) \/ RestoreGoal(g)
      PROVE  Aside
  BY <1>9 DEF CreateGoal, ArchiveGoal, RestoreGoal, request, Aside
<1>10. CASE UNCHANGED vars
  BY <1>10 DEF vars, request, Aside
<1> QED BY <1>1, <1>2, <1>3, <1>4, <1>5, <1>6, <1>7, <1>8, <1>9, <1>10
           DEF Next, Step, Noticed

LEMMA AsideKept ==
  ASSUME TypeOK, GoalsInv, Aside
  PROVE  GoalsInv'
<1> USE DEF GoalsInv
<1>0. pc \in [Requests -> Labels] /\ UNCHANGED <<saw, reaches, ledger, target, achieved, lowest>>
  BY DEF TypeOK, RequestOK, Aside
<1>1. Lowered'
  BY <1>0 DEF Lowered
<1>2. AchievedWasFunded'
  BY <1>0 DEF AchievedWasFunded, Inflow
<1>3. CASE pc' = pc
  BY <1>0, <1>1, <1>2, <1>3 DEF Aiming, Reaching, Managed, Inflow
<1>4. ASSUME NEW r \in Requests, NEW l \in Labels, Proceeds(r, l) PROVE GoalsInv'
  <2>0. /\ pc'[r] = l /\ \A q \in Requests \ {r} : pc'[q] = pc[q]
    BY <1>0, <1>4 DEF Proceeds
  <2>1. Aiming'
    <3> SUFFICES ASSUME NEW q \in Requests, Kind(q) = "contribute",
                        pc'[q] \in {"insert", "record", "measure", "commit"}
                 PROVE  lowest[Command[q].goal] <= saw[q].target
      BY <1>0 DEF Aiming
    <3>1. pc[q] \in {"insert", "record", "measure", "commit"}
      BY <1>4, <2>0 DEF Proceeds
    <3> QED BY <3>1 DEF Aiming
  <2>2. Reaching'
    <3> SUFFICES ASSUME NEW q \in Requests
                 PROVE  /\ pc'[q] = "measure" => Kind(q) = "contribute"
                        /\ reaches[q] => Kind(q) = "contribute" /\ pc'[q] \in {"commit", "done"}
                        /\ reaches[q] /\ pc'[q] = "commit" =>
                             Inflow(ledger \union {q}, Command[q].to) >= saw[q].target
      BY <1>0 DEF Reaching, Inflow
    <3>1. CASE q = r
      BY <1>4, <2>0, <3>1 DEF Reaching, Proceeds
    <3>2. CASE q # r
      BY <2>0, <3>2 DEF Reaching
    <3> QED BY <3>1, <3>2
  <2>3. Managed'
    <3> SUFFICES ASSUME NEW q \in Requests, Kind(q) = "move",
                        q \in ledger \/ pc'[q] \in {"insert", "record", "measure", "commit"}
                 PROVE  \A w \in Touched(q) : <<User(q), w>> \in Manages
      BY <1>0 DEF Managed
    <3>1. CASE q = r /\ l = "insert"
      BY <1>4, <3>1 DEF Proceeds
    <3>2. CASE ~(q = r /\ l = "insert")
      <4>1. q \in ledger \/ pc[q] \in {"insert", "record", "measure", "commit"}
        BY <1>4, <2>0, <3>2 DEF Proceeds
      <4> QED BY <4>1 DEF Managed
    <3> QED BY <3>1, <3>2
  <2> QED BY <1>1, <1>2, <2>1, <2>2, <2>3
<1> QED BY <1>3, <1>4 DEF Aside

LEMMA NoticedKept ==
  ASSUME TypeOK, GoalsInv, Noticed
  PROVE  GoalsInv'
<1> USE DEF GoalsInv
<1>0. /\ pc \in [Requests -> Labels] /\ ledger \in SUBSET Requests
      /\ saw \in [Requests -> [achieved : BOOLEAN, target : Nat]]
      /\ reaches \in [Requests -> BOOLEAN]
      /\ target \in [Goals -> Nat] /\ lowest \in [Goals -> Nat]
  BY DEF TypeOK, RequestOK, BooksOK, WalletOK
<1>a. \A r \in Requests : Kind(r) = "contribute" =>
        Command[r].goal \in Goals /\ Command[r].to = Envelope[Command[r].goal]
  BY LedgerAssumption DEF Kind
<1>1. ASSUME NEW r \in Requests, CheckContribute(r) PROVE GoalsInv'
  <2>0. UNCHANGED <<reaches, ledger, target, achieved, lowest>>
        /\ pc[r] = "check" /\ Kind(r) = "contribute" /\ ~reaches[r]
    BY <1>1 DEF CheckContribute, books, goals, Reaching
  <2>1. /\ \A q \in Requests \ {r} : pc'[q] = pc[q] /\ saw'[q] = saw[q]
        /\ \/ pc'[r] = "done"
           \/ pc'[r] = "insert" /\ saw'[r].target = target[Command[r].goal]
    BY <1>0, <1>1 DEF CheckContribute, Goto, Answer
  <2>2. Lowered' /\ AchievedWasFunded'
    BY <2>0 DEF Lowered, AchievedWasFunded, Inflow
  <2>3. Aiming'
    BY <1>a, <2>0, <2>1 DEF Aiming, Lowered
  <2>4. Reaching'
    BY <2>0, <2>1 DEF Reaching, Inflow
  <2>5. Managed'
    BY <2>0, <2>1 DEF Managed
  <2> QED BY <2>2, <2>3, <2>4, <2>5
<1>2. ASSUME NEW r \in Requests, Measure(r) PROVE GoalsInv'
  <2>0. UNCHANGED <<saw, ledger, target, achieved, lowest>>
        /\ pc[r] = "measure" /\ Kind(r) = "contribute"
    BY <1>2 DEF Measure, books, goals, Reaching
  <2>1. /\ pc'[r] = "commit" /\ \A q \in Requests \ {r} : pc'[q] = pc[q] /\ reaches'[q] = reaches[q]
        /\ reaches'[r] => Balance(ledger \union {r}, Command[r].to) >= saw[r].target
    BY <1>0, <1>2 DEF Measure, Goto
  <2>2. Lowered' /\ AchievedWasFunded'
    BY <2>0 DEF Lowered, AchievedWasFunded, Inflow
  <2>3. Aiming'
    BY <2>0, <2>1 DEF Aiming
  <2>4. Reaching'
    <3>1. reaches'[r] => Inflow(ledger \union {r}, Command[r].to) >= saw[r].target
      <4>1. /\ Inflow(ledger \union {r}, Command[r].to) \in Nat
            /\ Balance(ledger \union {r}, Command[r].to) <= Inflow(ledger \union {r}, Command[r].to)
        BY <1>0, InflowGrows
      <4>2. Balance(ledger \union {r}, Command[r].to) \in Int /\ saw[r].target \in Nat
        BY <1>0, BalanceIsSum
      <4> QED BY <2>1, <4>1, <4>2
    <3> QED BY <2>0, <2>1, <3>1 DEF Reaching, Inflow
  <2>5. Managed'
    BY <2>0, <2>1 DEF Managed
  <2> QED BY <2>2, <2>3, <2>4, <2>5
<1>3. ASSUME NEW r \in Requests, Commit(r) \/ CommitUnheard(r) PROVE GoalsInv'
  <2>0. /\ UNCHANGED <<saw, reaches, target, lowest>> /\ pc[r] = "commit"
        /\ ledger' = ledger \union {r}
        /\ achieved' = [g \in Goals |-> achieved[g] \/ (reaches[r] /\ g = Command[r].goal)]
    BY <1>3 DEF Commit, CommitUnheard, Persists
  <2>1. pc'[r] = "done" /\ \A q \in Requests \ {r} : pc'[q] = pc[q]
    BY <1>0, <1>3 DEF Commit, CommitUnheard, Persists, Answer
  <2>2. Lowered' /\ Aiming'
    BY <2>0, <2>1 DEF Lowered, Aiming
  <2>3. AchievedWasFunded'
    <3> SUFFICES ASSUME NEW g \in Goals, achieved'[g]
                 PROVE  Inflow(ledger', Envelope[g]) >= lowest[g]
      BY <2>0 DEF AchievedWasFunded, Inflow
    <3>1. CASE achieved[g]
      <4>1. Inflow(ledger, Envelope[g]) >= lowest[g]
        BY <3>1 DEF AchievedWasFunded
      <4>2. /\ Inflow(ledger, Envelope[g]) \in Nat /\ Inflow(ledger', Envelope[g]) \in Nat
            /\ Inflow(ledger, Envelope[g]) <= Inflow(ledger', Envelope[g])
        BY <1>0, <2>0, InflowGrows
      <4> QED BY <1>0, <4>1, <4>2
    <3>2. CASE ~achieved[g]
      <4>1. reaches[r] /\ g = Command[r].goal
        BY <2>0, <3>2
      <4>2. Inflow(ledger', Envelope[g]) >= saw[r].target /\ lowest[g] <= saw[r].target
        BY <1>a, <2>0, <4>1 DEF Reaching, Aiming
      <4>3. Inflow(ledger', Envelope[g]) \in Nat
        BY <1>0, <2>0, InflowGrows
      <4> QED BY <1>0, <4>2, <4>3
    <3> QED BY <3>1, <3>2
  <2>4. Reaching'
    <3> SUFFICES ASSUME NEW q \in Requests
                 PROVE  /\ pc'[q] = "measure" => Kind(q) = "contribute"
                        /\ reaches[q] => Kind(q) = "contribute" /\ pc'[q] \in {"commit", "done"}
                        /\ reaches[q] /\ pc'[q] = "commit" =>
                             Inflow(ledger' \union {q}, Command[q].to) >= saw[q].target
      BY <2>0 DEF Reaching, Inflow
    <3>1. CASE q = r
      BY <2>0, <2>1, <3>1 DEF Reaching
    <3>2. ASSUME q # r, reaches[q], pc'[q] = "commit"
          PROVE  Inflow(ledger' \union {q}, Command[q].to) >= saw[q].target
      <4>1. Inflow(ledger \union {q}, Command[q].to) >= saw[q].target
        BY <2>1, <3>2 DEF Reaching
      <4>2. ledger \union {q} \in SUBSET (ledger' \union {q}) /\ ledger' \union {q} \in SUBSET Requests
        BY <1>0, <2>0
      <4>3. /\ Inflow(ledger \union {q}, Command[q].to) \in Nat
            /\ Inflow(ledger' \union {q}, Command[q].to) \in Nat
            /\ Inflow(ledger \union {q}, Command[q].to) <= Inflow(ledger' \union {q}, Command[q].to)
        BY <4>2, InflowGrows
      <4>4. saw[q].target \in Nat
        BY <1>0
      <4> QED BY <4>1, <4>3, <4>4
    <3> QED BY <2>1, <3>1, <3>2 DEF Reaching
  <2>5. Managed'
    BY <2>0, <2>1 DEF Managed
  <2> QED BY <2>2, <2>3, <2>4, <2>5
<1>4. ASSUME NEW g \in Goals, UpdateGoal(g) PROVE GoalsInv'
  <2>0. UNCHANGED <<pc, saw, reaches, ledger, achieved>>
    BY <1>4 DEF UpdateGoal, request, books
  <2>1. \A h \in Goals : lowest'[h] \in Nat /\ lowest'[h] <= lowest[h] /\ lowest'[h] <= target'[h]
    <3>1. PICK t \in Nat : /\ target' = [target EXCEPT ![g] = t]
                           /\ lowest' = [lowest EXCEPT ![g] = IF t < @ THEN t ELSE @]
      BY <1>4, LedgerAssumption DEF UpdateGoal
    <3> QED BY <1>0, <3>1 DEF Lowered
  <2>2. Lowered'
    BY <2>1 DEF Lowered
  <2>3. Aiming'
    <3> SUFFICES ASSUME NEW q \in Requests, Kind(q) = "contribute",
                        pc[q] \in {"insert", "record", "measure", "commit"}
                 PROVE  lowest'[Command[q].goal] <= saw[q].target
      BY <2>0 DEF Aiming
    <3>1. Command[q].goal \in Goals /\ lowest[Command[q].goal] <= saw[q].target
      BY <1>a DEF Aiming
    <3> QED BY <1>0, <2>1, <3>1
  <2>4. AchievedWasFunded'
    <3> SUFFICES ASSUME NEW h \in Goals, achieved[h]
                 PROVE  Inflow(ledger, Envelope[h]) >= lowest'[h]
      BY <2>0 DEF AchievedWasFunded, Inflow
    <3>1. Inflow(ledger, Envelope[h]) >= lowest[h]
      BY DEF AchievedWasFunded
    <3>2. Inflow(ledger, Envelope[h]) \in Nat
      BY <1>0, InflowGrows
    <3> QED BY <1>0, <2>1, <3>1, <3>2
  <2>5. Reaching' /\ Managed'
    BY <2>0 DEF Reaching, Managed, Inflow
  <2> QED BY <2>2, <2>3, <2>4, <2>5
<1> QED BY <1>1, <1>2, <1>3, <1>4 DEF Noticed

\* The inductive invariant of goals and of what commands manage.
THEOREM GoalsInvariant == Spec => []GoalsInv
<1>1. Init => GoalsInv
  <2> SUFFICES ASSUME Init PROVE GoalsInv
    OBVIOUS
  <2>1. target \in [Goals -> Nat] /\ lowest = target
    BY LedgerAssumption DEF Init
  <2>2. Lowered
    BY <2>1 DEF Lowered
  <2> QED BY <2>2 DEF Init, GoalsInv, Aiming, Reaching, AchievedWasFunded, Managed
<1>2. TypeOK /\ GoalsInv /\ [Next]_vars => GoalsInv'
  BY GoalSteps, AsideKept, NoticedKept
<1> QED BY <1>1, <1>2, TypeCorrect, PTL DEF Spec

\* A goal that is marked achieved was paid at least the smallest target it ever
\* had, for any contributions that measure and commit in any order.
THEOREM AchievedAlwaysFunded == Spec => []AchievedWasFunded
<1>1. GoalsInv => AchievedWasFunded
  BY DEF GoalsInv
<1> QED BY <1>1, GoalsInvariant, PTL

-----------------------------------------------------------------------------
(***************************************************************************)
(* Reports.  Every figure is a sum over transactions.  What the months or  *)
(* the authors add up to is one sum (SumPartition), and so are the shown   *)
(* balances, wallet by wallet (WalletsAddUp); the sums are then over the   *)
(* same transactions, those that count for nothing aside.                  *)
(***************************************************************************)

Amounts == [t \in Requests |-> Amount(t)]
Losses  == [t \in Requests |-> 0 - Amount(t)]

\* The members of a set that k maps to y.
Class(k, S, y) == {x \in S : k[x] = y}

\* The sums over the classes of a partition add up to the sum of all.
LEMMA SumPartition ==
  ASSUME NEW S, IsFiniteSet(S), NEW K, IsFiniteSet(K), NEW k, \A x \in S : k[x] \in K,
         NEW f, \A x \in S : f[x] \in Int,
         NEW c, \A y \in K : c[y] = SumFunctionOnSet(f, Class(k, S, y))
  PROVE  SumFunctionOnSet(c, K) = SumFunctionOnSet(f, S)
<1> DEFINE F == [x \in S |-> [y \in K |-> IF k[x] = y THEN f[x] ELSE 0]]
           G == [y \in K |-> [x \in S |-> IF k[x] = y THEN f[x] ELSE 0]]
<1>1. Transposed(F, G, S, K)
  BY DEF Transposed
<1>2. ASSUME NEW x \in S PROVE f[x] = SumFunctionOnSet(F[x], K)
  <2>1. PICK y \in K : y = k[x]
    OBVIOUS
  <2>2. F[x][y] = f[x] /\ F[x][y] \in Int /\ \A z \in K \ {y} : F[x][z] = 0
    BY <2>1
  <2> HIDE DEF F
  <2> QED BY <2>2, SumOne
<1>3. ASSUME NEW y \in K PROVE c[y] = SumFunctionOnSet(G[y], S)
  <2> DEFINE P == {x \in S : k[x] = y}
  <2>1. /\ P \in SUBSET S
        /\ \A x \in P : f[x] \in Int /\ G[y][x] = f[x]
        /\ \A x \in S \ P : G[y][x] = 0
    OBVIOUS
  <2>2. c[y] = SumFunctionOnSet(f, P)
    BY DEF Class
  <2>3. SumFunctionOnSet(f, P) = SumFunctionOnSet(G[y], S)
    <3> HIDE DEF G, P
    <3> QED BY <2>1, SumPart
  <2> QED BY <2>2, <2>3
<1> HIDE DEF F, G
<1> QED BY <1>1, <1>2, <1>3, SumExchange

\* The months, the readers and what one of them sees are finite.
LEMMA FiniteReports ==
  /\ IsFiniteSet(Months) /\ IsFiniteSet(Readers)
  /\ \A u : IsFiniteSet(Shows(u))
  /\ \A t \in Requests : Month[t] \in Months
<1>1. IsFiniteSet(Months)
  <2>1. Month \in Surjection(Requests, Months)
    BY ReportsAssumption DEF Surjection, Months
  <2> QED BY <2>1, LedgerAssumption, FS_Surjection
<1>2. IsFiniteSet(Readers)
  <2> DEFINE first == [x \in Sees |-> x[1]]
  <2>1. first \in Surjection(Sees, Readers)
    BY DEF Surjection, Readers
  <2> HIDE DEF first
  <2> QED BY <2>1, ReportsAssumption, FS_Surjection
<1>3. ASSUME NEW u PROVE IsFiniteSet(Shows(u))
  <2> DEFINE pair == [w \in Shows(u) |-> <<u, w>>]
  <2>1. pair \in Injection(Shows(u), Sees)
    BY DEF Injection, IsInjective, Shows
  <2> HIDE DEF pair
  <2> QED BY <2>1, ReportsAssumption, FS_Injection
<1> QED BY <1>1, <1>2, <1>3 DEF Months

\* Totals, and totals of losses, are integers; the signs can be moved out.
LEMMA TotalType ==
  ASSUME NEW T \in SUBSET Requests
  PROVE  /\ IsFiniteSet(T)
         /\ \A t \in Requests : /\ Amounts[t] = Amount(t) /\ Losses[t] = 0 - Amount(t)
                                /\ Amounts[t] \in Int /\ Losses[t] \in Int
         /\ Total(T) = SumFunctionOnSet(Amounts, T) /\ Total(T) \in Int
         /\ -Total(T) = SumFunctionOnSet(Losses, T)
<1>1. IsFiniteSet(T)
  BY LedgerAssumption, FS_Subset
<1>2. \A t \in Requests : Amount(t) \in Int
  BY PostingType DEF Amount
<1>3. \A t \in Requests : /\ Amounts[t] = Amount(t) /\ Losses[t] = 0 - Amount(t)
                          /\ Amounts[t] \in Int /\ Losses[t] \in Int
  BY <1>2 DEF Amounts, Losses
<1>4. Total(T) = SumFunctionOnSet(Amounts, T)
  BY DEF Total, Amounts
<1>5. Total(T) \in Int
  BY <1>1, <1>3, <1>4, SumTake
<1>6. -Total(T) = SumFunctionOnSet(Losses, T)
  <2> DEFINE z == [t \in Requests |-> 0]
  <2>1. \A t \in T : z[t] \in Int /\ Amounts[t] \in Int /\ Losses[t] = z[t] - Amounts[t] /\ z[t] = 0
    BY <1>3
  <2> HIDE DEF z
  <2>2. SumFunctionOnSet(z, T) = 0
    BY <1>1, <2>1, SumOne
  <2>3. SumFunctionOnSet(Losses, T) = SumFunctionOnSet(z, T) - SumFunctionOnSet(Amounts, T)
    BY <1>1, <2>1, SumMinus
  <2> QED BY <1>4, <1>5, <2>2, <2>3
<1> QED BY <1>1, <1>3, <1>4, <1>5, <1>6

\* What is missing from a total counts for nothing.
LEMMA TotalPart ==
  ASSUME NEW T \in SUBSET Requests, NEW P \in SUBSET T, \A t \in T \ P : Amount(t) = 0
  PROVE  Total(P) = Total(T)
<1>1. \A t \in P : Amounts[t] \in Int /\ Amounts[t] = Amounts[t]
  BY TotalType
<1>2. \A t \in T \ P : Amounts[t] = 0
  BY TotalType
<1>3. IsFiniteSet(T) /\ P \in SUBSET Requests
  BY TotalType
<1>4. SumFunctionOnSet(Amounts, P) = SumFunctionOnSet(Amounts, T)
  BY <1>1, <1>2, <1>3, SumPart
<1> QED BY <1>3, <1>4, TotalType

\* Gains and losses of a set of transactions.
LEMMA TotalSplit ==
  ASSUME NEW T \in SUBSET Requests
  PROVE  Total({t \in T : Amount(t) >= 0}) + Total({t \in T : Amount(t) < 0}) = Total(T)
<1> DEFINE P == {t \in T : Amount(t) >= 0}
           N == {t \in T : Amount(t) < 0}
           p == [t \in Requests |-> IF t \in P THEN Amounts[t] ELSE 0]
           n == [t \in Requests |-> IF t \in N THEN Amounts[t] ELSE 0]
<1>0. /\ IsFiniteSet(T) /\ P \in SUBSET T /\ N \in SUBSET T
      /\ \A t \in Requests : Amounts[t] = Amount(t) /\ Amounts[t] \in Int
  BY TotalType
<1>1. \A t \in T : p[t] \in Int /\ n[t] \in Int /\ Amounts[t] = p[t] + n[t]
  BY <1>0
<1>2. (\A t \in P : Amounts[t] \in Int /\ p[t] = Amounts[t]) /\ \A t \in T \ P : p[t] = 0
  BY <1>0
<1>3. (\A t \in N : Amounts[t] \in Int /\ n[t] = Amounts[t]) /\ \A t \in T \ N : n[t] = 0
  BY <1>0
<1>4. /\ Total(P) = SumFunctionOnSet(Amounts, P)
      /\ Total(N) = SumFunctionOnSet(Amounts, N)
      /\ Total(T) = SumFunctionOnSet(Amounts, T)
  BY DEF Total, Amounts
<1> HIDE DEF P, N, p, n
<1>5. SumFunctionOnSet(Amounts, P) = SumFunctionOnSet(p, T)
  BY <1>0, <1>2, SumPart
<1>6. SumFunctionOnSet(Amounts, N) = SumFunctionOnSet(n, T)
  BY <1>0, <1>3, SumPart
<1>7. SumFunctionOnSet(Amounts, T) = SumFunctionOnSet(p, T) + SumFunctionOnSet(n, T)
  BY <1>0, <1>1, SumPlus
<1>8. Total(P) + Total(N) = Total(T)
  BY <1>4, <1>5, <1>6, <1>7
<1> QED BY <1>8 DEF P, N

\* The wallets that a reader sees hold what the transactions that he sees amount
\* to, because he sees all the wallets of each of them.
LEMMA WalletsAddUp ==
  ASSUME NEW u, NEW T \in SUBSET Requests, \A t \in T : Touched(t) \subseteq Shows(u)
  PROVE  SumFunction([w \in Shows(u) |-> Balance(T, w)]) = Total(T)
<1> DEFINE W == Shows(u)
           F == [t \in T |-> [w \in W |-> Entries(w)[t]]]
           G == [w \in W |-> [t \in T |-> Entries(w)[t]]]
           b == [w \in W |-> Balance(T, w)]
<1>0. IsFiniteSet(T) /\ IsFiniteSet(W)
  BY FiniteReports, TotalType
<1>1. Transposed(F, G, T, W)
  BY BalanceIsSum DEF Transposed
<1>2. ASSUME NEW t \in T PROVE Amounts[t] = SumFunctionOnSet(F[t], W)
  <2> DEFINE p == Posting(t)
             i == [w \in W |-> IF p.to = w THEN p.amount ELSE 0]
             o == [w \in W |-> IF p.from = w THEN p.amount ELSE 0]
  <2>0. p.amount \in Int /\ p.from \in Wallets \union {External} /\ p.to \in Wallets \union {External}
    BY PostingType
  <2>1. (p.to \in Wallets <=> p.to \in W) /\ (p.from \in Wallets <=> p.from \in W)
    BY <2>0, LedgerAssumption DEF Touched, Shows
  <2>2. \A w \in W : i[w] \in Int /\ o[w] \in Int /\ F[t][w] = i[w] - o[w]
    BY <2>0 DEF Entries
  <2>3. SumFunctionOnSet(i, W) = IF p.to \in W THEN p.amount ELSE 0
    <3>1. CASE p.to \in W
      <4>1. i[p.to] = p.amount /\ i[p.to] \in Int /\ \A w \in W \ {p.to} : i[w] = 0
        BY <2>0, <3>1
      <4> HIDE DEF i, p
      <4> QED BY <1>0, <3>1, <4>1, SumOne
    <3>2. CASE p.to \notin W
      <4>1. \A w \in W : i[w] = 0
        BY <3>2
      <4> HIDE DEF i, p
      <4> QED BY <1>0, <3>2, <4>1, SumOne
    <3> QED BY <3>1, <3>2
  <2>4. SumFunctionOnSet(o, W) = IF p.from \in W THEN p.amount ELSE 0
    <3>1. CASE p.from \in W
      <4>1. o[p.from] = p.amount /\ o[p.from] \in Int /\ \A w \in W \ {p.from} : o[w] = 0
        BY <2>0, <3>1
      <4> HIDE DEF o, p
      <4> QED BY <1>0, <3>1, <4>1, SumOne
    <3>2. CASE p.from \notin W
      <4>1. \A w \in W : o[w] = 0
        BY <3>2
      <4> HIDE DEF o, p
      <4> QED BY <1>0, <3>2, <4>1, SumOne
    <3> QED BY <3>1, <3>2
  <2>5. SumFunctionOnSet(F[t], W) = SumFunctionOnSet(i, W) - SumFunctionOnSet(o, W)
    <3> HIDE DEF F, i, o, W
    <3> QED BY <1>0, <2>2, SumMinus
  <2>6. Amounts[t] = (IF p.to \in W THEN p.amount ELSE 0) - (IF p.from \in W THEN p.amount ELSE 0)
    BY <2>1 DEF Amounts, Amount
  <2> HIDE DEF F, i, o, W, p
  <2> QED BY <2>3, <2>4, <2>5, <2>6
<1>3. ASSUME NEW w \in W PROVE b[w] = SumFunctionOnSet(G[w], T)
  <2>1. b[w] = SumFunctionOnSet(Entries(w), T)
    BY BalanceIsSum
  <2>2. \A t \in T : Entries(w)[t] \in Int /\ G[w][t] \in Int /\ Entries(w)[t] = G[w][t]
    BY BalanceIsSum
  <2> HIDE DEF b, G, W
  <2> QED BY <1>0, <2>1, <2>2, SumCompare
<1>4. SumFunctionOnSet(Amounts, T) = SumFunctionOnSet(b, W)
  <2> HIDE DEF F, G, b, W
  <2> QED BY <1>0, <1>1, <1>2, <1>3, SumExchange
<1>5. SumFunction(b) = SumFunctionOnSet(b, W)
  BY DEF SumFunction
<1> QED BY <1>4, <1>5, TotalType

\* A transfer amounts to nothing, an expense names a wallet, and a category has
\* the kind of the commands that name it.
LEMMA Types ==
  ASSUME NEW t \in Requests
  PROVE  /\ Type(t) \in {"INCOME", "EXPENSE", "TRANSFER", "REVERSAL"}
         /\ Type(t) = "REVERSAL" <=> Kind(t) = "reverse"
         /\ Type(t) = "TRANSFER" => Amount(t) = 0
         /\ Type(t) = "EXPENSE" => Kind(t) = "move" /\ Touched(t) \intersect Wallets # {}
         /\ Category[t] \in Categories => Type(t) = KindOf[Category[t]]
<1>1. /\ Command[t] \in Commands /\ External \notin Wallets
      /\ Kind(t) = "move" => {Command[t].from, Command[t].to} # {External}
      /\ Kind(t) = "contribute" => Command[t].from \in Wallets /\ Command[t].to \in Wallets
  BY LedgerAssumption DEF Kind
<1>2. Category[t] \in Categories => Type(t) = KindOf[Category[t]]
  BY ReportsAssumption
<1>3. CASE Kind(t) = "reverse"
  <2>1. Type(t) = "REVERSAL"
    BY <1>3 DEF Type
  <2> QED BY <1>2, <1>3, <2>1
<1>4. CASE Kind(t) # "reverse"
  <2>1. Posting(t) = [from |-> Command[t].from, to |-> Command[t].to, amount |-> Command[t].amount]
    BY <1>4 DEF Posting
  <2>2. /\ Command[t].from \in Wallets \union {External}
        /\ Command[t].to \in Wallets \union {External}
        /\ Command[t].amount \in Nat
        /\ Kind(t) \in {"move", "contribute"}
    BY <1>1, <1>4 DEF Commands, Kind
  <2>3. CASE Kind(t) = "move" /\ Command[t].from = External
    <3>1. Type(t) = "INCOME"
      BY <1>1, <2>3 DEF Type
    <3> QED BY <1>2, <2>3, <3>1
  <2>4. CASE Kind(t) = "move" /\ Command[t].from # External /\ Command[t].to = External
    <3>1. Type(t) = "EXPENSE"
      BY <2>4 DEF Type
    <3>2. Command[t].from \in Touched(t)
      BY <2>1, <2>4 DEF Touched
    <3> QED BY <1>2, <2>2, <2>4, <3>1, <3>2
  <2>5. CASE Command[t].from # External /\ Command[t].to # External
    <3>1. Type(t) = "TRANSFER"
      BY <1>4, <2>5 DEF Type
    <3>2. Amount(t) = Command[t].amount - Command[t].amount
      BY <2>1, <2>2, <2>5 DEF Amount
    <3> QED BY <1>2, <1>4, <2>2, <3>1, <3>2
  <2> QED BY <1>1, <2>2, <2>3, <2>4, <2>5
<1> QED BY <1>3, <1>4

\* What the months of a report add up to.
LEMMA MonthsAddUp ==
  ASSUME NEW T \in SUBSET Requests, NEW f, \A t \in T : f[t] \in Int,
         NEW c, \A m \in Months : c[m] = SumFunctionOnSet(f, {t \in T : Month[t] = m})
  PROVE  SumFunctionOnSet(c, Months) = SumFunctionOnSet(f, T)
<1>1. IsFiniteSet(T) /\ IsFiniteSet(Months) /\ \A t \in T : Month[t] \in Months
  BY FiniteReports, TotalType
<1>2. \A m \in Months : c[m] = SumFunctionOnSet(f, Class(Month, T, m))
  BY DEF Class
<1> QED BY <1>1, <1>2, SumPartition

\* The cash flows of the months add up to the balances that are shown.
LEMMA FlowsAddUp ==
  ASSUME ledger \subseteq Requests, NEW u
  PROVE  OverallFlow(u) = CurrentBalance(u)
<1> DEFINE V == Visible(u)
           T == {t \in V : Type(t) \in {"INCOME", "EXPENSE", "REVERSAL"}}
           c == [m \in Months |-> Income(u, {m}) - Expense(u, {m})]
<1>1. V \in SUBSET Requests /\ \A t \in V : Touched(t) \subseteq Shows(u)
  BY DEF Visible
<1>2. T \in SUBSET V /\ T \in SUBSET Requests /\ \A t \in V \ T : Amount(t) = 0
  BY <1>1, Types
<1>3. ASSUME NEW m \in Months
      PROVE  c[m] = SumFunctionOnSet(Amounts, {t \in T : Month[t] = m})
  <2> DEFINE F == Flow(u, {m})
             g == Total({t \in F : Amount(t) >= 0})
             l == Total({t \in F : Amount(t) < 0})
  <2>1. F = {t \in T : Month[t] = m} /\ F \in SUBSET Requests
    BY <1>2 DEF Flow, In
  <2>2. g \in Int /\ l \in Int
    <3>1. /\ {t \in F : Amount(t) >= 0} \in SUBSET Requests
          /\ {t \in F : Amount(t) < 0} \in SUBSET Requests
      BY <2>1
    <3> QED BY <3>1, TotalType
  <2>3. g + l = Total(F)
    BY <2>1, TotalSplit
  <2>4. Total(F) = SumFunctionOnSet(Amounts, F)
    BY <2>1, TotalType
  <2>5. c[m] = g - (-l)
    BY DEF Income, Expense
  <2> HIDE DEF F, g, l, c, T
  <2> QED BY <2>1, <2>2, <2>3, <2>4, <2>5
<1>4. \A t \in T : Amounts[t] \in Int
  BY <1>2, TotalType
<1>5. SumFunctionOnSet(c, Months) = SumFunctionOnSet(Amounts, T)
  <2> HIDE DEF c, T
  <2> QED BY <1>2, <1>3, <1>4, MonthsAddUp
<1>6. OverallFlow(u) = SumFunctionOnSet(c, Months)
  BY DEF OverallFlow, SumFunction
<1>7. CurrentBalance(u) = Total(V)
  BY <1>1, WalletsAddUp DEF CurrentBalance
<1>8. Total(T) = Total(V)
  <2> HIDE DEF T, V
  <2> QED BY <1>1, <1>2, TotalPart
<1>9. Total(T) = SumFunctionOnSet(Amounts, T)
  BY <1>2, TotalType
<1> HIDE DEF c, T, V
<1> QED BY <1>5, <1>6, <1>7, <1>8, <1>9

\* A category of expenses, for a reader who sees all wallets, over all months.
LEMMA ActualsAddUp ==
  ASSUME ledger \subseteq Requests, NEW u, Shows(u) = Wallets, NEW c, KindOf[c] = "EXPENSE"
  PROVE  OverallActual(u, c)
           = SumFunctionOnSet(Losses, {t \in ledger : /\ Type(t) \in {"INCOME", "EXPENSE", "REVERSAL"}
                                                      /\ CategoryOf(t) = c})
<1> DEFINE A == {t \in ledger : /\ Type(t) \in {"INCOME", "EXPENSE", "REVERSAL"}
                               /\ CategoryOf(t) = c}
           a == [m \in Months |-> Actual(u, c, {m})]
<1>1. Visible(u) = ledger
  BY PostingType DEF Visible, Touched
<1>2. A \in SUBSET Requests /\ \A t \in A : Losses[t] \in Int
  BY TotalType
<1>3. ASSUME NEW m \in Months
      PROVE  a[m] = SumFunctionOnSet(Losses, {t \in A : Month[t] = m})
  <2> DEFINE P == {t \in Flow(u, {m}) : CategoryOf(t) = c}
             Q == {t \in A : Month[t] = m}
  <2>1. P = Q /\ Q \in SUBSET Requests
    BY <1>1 DEF Flow, In
  <2>2. a[m] = -Total(P)
    BY DEF Actual
  <2> HIDE DEF P, Q, a
  <2>3. a[m] = SumFunctionOnSet(Losses, Q)
    BY <2>1, <2>2, TotalType
  <2> QED BY <2>3 DEF Q
<1>4. SumFunctionOnSet(a, Months) = SumFunctionOnSet(Losses, A)
  <2> HIDE DEF a, A
  <2> QED BY <1>2, <1>3, MonthsAddUp
<1>5. OverallActual(u, c) = SumFunctionOnSet(a, Months)
  BY DEF OverallActual, SumFunction
<1> QED BY <1>4, <1>5

\* What an author is said to have spent in a category, over all months.
LEMMA SpentAddsUp ==
  ASSUME ledger \subseteq Requests, NEW a, NEW c
  PROVE  OverallSpent(a, c)
           = SumFunctionOnSet(Losses, {t \in Spending : Author(t) = a /\ CategoryOf(t) = c})
<1> DEFINE D == {t \in Spending : Author(t) = a /\ CategoryOf(t) = c}
           s == [m \in Months |-> Statistics(a, c, {m})]
<1>1. D \in SUBSET Requests /\ \A t \in D : Losses[t] \in Int
  BY TotalType DEF Spending
<1>2. ASSUME NEW m \in Months
      PROVE  s[m] = SumFunctionOnSet(Losses, {t \in D : Month[t] = m})
  <2> DEFINE P == {t \in In(Spending, {m}) : Author(t) = a /\ CategoryOf(t) = c}
             Q == {t \in D : Month[t] = m}
  <2>1. P = Q /\ Q \in SUBSET Requests
    BY <1>1 DEF In
  <2>2. s[m] = -Total(P)
    BY DEF Statistics
  <2> HIDE DEF P, Q, s
  <2>3. s[m] = SumFunctionOnSet(Losses, Q)
    BY <2>1, <2>2, TotalType
  <2> QED BY <2>3 DEF Q
<1>3. SumFunctionOnSet(s, Months) = SumFunctionOnSet(Losses, D)
  <2> HIDE DEF s, D
  <2> QED BY <1>1, <1>2, MonthsAddUp
<1>4. OverallSpent(a, c) = SumFunctionOnSet(s, Months)
  BY DEF OverallSpent, SumFunction
<1> QED BY <1>3, <1>4

\* The author of what was spent, or of what a reversal gives back, is a reader:
\* he manages a wallet that it names.
LEMMA AuthorsRead ==
  ASSUME ledger \subseteq Requests, ReversedOnce, Managed, NEW t \in Spending
  PROVE  Author(t) \in Readers
<1>1. ASSUME NEW q \in ledger, Type(q) = "EXPENSE" PROVE User(q) \in Readers
  <2>1. q \in Requests
    OBVIOUS
  <2>2. Kind(q) = "move" /\ Touched(q) \intersect Wallets # {}
    BY <1>1, <2>1, Types
  <2>3. PICK w \in Touched(q) : <<User(q), w>> \in Manages
    BY <2>1, <2>2 DEF Managed
  <2>4. <<User(q), w>> \in Sees
    BY <2>3, ReportsAssumption
  <2>5. <<User(q), w>>[1] = User(q)
    OBVIOUS
  <2> QED BY <2>4, <2>5 DEF Readers
<1>2. t \in ledger /\ t \in Requests
  BY DEF Spending
<1>3. CASE Type(t) = "EXPENSE"
  <2>1. Kind(t) = "move"
    BY <1>2, <1>3, Types
  <2> QED BY <1>1, <1>2, <1>3, <2>1 DEF Author
<1>4. CASE Type(t) = "REVERSAL" /\ Type(Reverses(t)) = "EXPENSE"
  <2>1. Kind(t) = "reverse" /\ Reverses(t) # NoRequest
    BY <1>2, <1>4, Types, PostingType
  <2>2. Reverses(t) \in ledger
    BY <1>2, <2>1 DEF ReversedOnce
  <2> QED BY <1>1, <1>4, <2>1, <2>2 DEF Author
<1> QED BY <1>3, <1>4 DEF Spending

\* A category of expenses holds expenses and the reversals of expenses only.
LEMMA SpendingOfCategory ==
  ASSUME ledger \subseteq Requests, ReversedOnce, NEW c \in Categories, KindOf[c] = "EXPENSE"
  PROVE  {t \in ledger : Type(t) \in {"INCOME", "EXPENSE", "REVERSAL"} /\ CategoryOf(t) = c}
           = {t \in Spending : CategoryOf(t) = c}
<1>1. ASSUME NEW t \in ledger, CategoryOf(t) = c PROVE t \in Spending
  <2>1. t \in Requests
    OBVIOUS
  <2>2. CASE Kind(t) = "reverse"
    <3>1. Reverses(t) \in ledger /\ Reverses(t) \in Requests
      BY <2>1, <2>2, PostingType DEF ReversedOnce
    <3>2. Category[Reverses(t)] = c
      BY <1>1, <2>2 DEF CategoryOf
    <3>3. Type(Reverses(t)) = "EXPENSE"
      BY <3>1, <3>2, Types
    <3>4. Type(t) = "REVERSAL"
      BY <2>1, <2>2, Types
    <3> QED BY <3>3, <3>4 DEF Spending
  <2>3. CASE Kind(t) # "reverse"
    <3>1. Category[t] = c
      BY <1>1, <2>3 DEF CategoryOf
    <3>2. Type(t) = "EXPENSE"
      BY <2>1, <3>1, Types
    <3> QED BY <3>2 DEF Spending
  <2> QED BY <2>2, <2>3
<1>2. \A t \in Spending : t \in ledger /\ Type(t) \in {"INCOME", "EXPENSE", "REVERSAL"}
  BY DEF Spending
<1> QED BY <1>1, <1>2

\* Nobody is said to have spent what was reversed.
LEMMA SpentStands ==
  ASSUME ledger \subseteq Requests, ReversedOnce, NEW a, NEW c
  PROVE  SumFunctionOnSet(Losses, {t \in Spending : Author(t) = a /\ CategoryOf(t) = c})
           = SumFunctionOnSet(Losses, {t \in Standing : /\ Type(t) = "EXPENSE" /\ User(t) = a
                                                        /\ Category[t] = c})
<1> DEFINE D == {t \in Spending : Author(t) = a /\ CategoryOf(t) = c}
           E == {t \in Standing : Type(t) = "EXPENSE" /\ User(t) = a /\ Category[t] = c}
           h == [t \in Requests |-> IF t \in D THEN Losses[t] ELSE 0]
<1>1. /\ D \in SUBSET ledger /\ E \in SUBSET Standing /\ Standing \in SUBSET ledger
      /\ IsFiniteSet(ledger) /\ IsFiniteSet(Standing)
  <2>1. D \in SUBSET ledger /\ E \in SUBSET Standing /\ Standing \in SUBSET ledger
    BY DEF Spending, Standing
  <2> QED BY <2>1, TotalType
<1>2. \A t \in Requests : Losses[t] \in Int /\ Losses[t] = 0 - Amount(t)
  BY TotalType
<1>3. \A t \in ledger : h[t] \in Int
  BY <1>2
<1>4. ASSUME NEW t \in Standing PROVE t \in D <=> t \in E
  <2>1. t \in ledger /\ t \in Requests /\ Kind(t) # "reverse"
    BY PostingType DEF Standing
  <2>2. Author(t) = User(t) /\ CategoryOf(t) = Category[t]
    BY <2>1 DEF Author, CategoryOf
  <2>3. t \in Spending <=> Type(t) = "EXPENSE"
    BY <2>1, Types DEF Spending
  <2> QED BY <2>2, <2>3
<1>5. ASSUME NEW r \in ledger, Reverses(r) # NoRequest PROVE h[r] = 0 - h[Reverses(r)]
  <2> DEFINE q == Reverses(r)
  <2>1. /\ Kind(r) = "reverse" /\ q \in ledger /\ Kind(q) # "reverse"
        /\ r \in Requests /\ q \in Requests
    BY <1>5, PostingType DEF ReversedOnce
  <2>2. r \in Spending <=> q \in Spending
    <3>1. Type(r) = "REVERSAL" /\ Type(q) # "REVERSAL"
      BY <2>1, Types
    <3> QED BY <2>1, <3>1 DEF Spending
  <2>3. Author(r) = Author(q) /\ CategoryOf(r) = CategoryOf(q)
    BY <2>1 DEF Author, CategoryOf
  <2>4. r \in D <=> q \in D
    BY <2>2, <2>3
  <2>5. Losses[r] = 0 - Losses[q]
    <3>1. /\ Posting(r).from = Posting(q).to /\ Posting(r).to = Posting(q).from
          /\ Posting(r).amount = Posting(q).amount
      BY <2>1, Inverted
    <3>2. Posting(q).amount \in Int
      BY <2>1, PostingType
    <3>3. Amount(r) = 0 - Amount(q)
      <4> HIDE DEF q
      <4> QED BY <3>1, <3>2 DEF Amount
    <3> QED BY <1>2, <2>1, <3>3
  <2>6. Losses[q] \in Int
    BY <1>2, <2>1
  <2>7. /\ h[r] = IF r \in D THEN Losses[r] ELSE 0
        /\ h[q] = IF q \in D THEN Losses[q] ELSE 0
    BY <2>1
  <2> HIDE DEF D, h, q
  <2>8. h[r] = 0 - h[q]
    BY <2>4, <2>5, <2>6, <2>7
  <2> QED BY <2>8 DEF q
<1>6. (\A t \in D : Losses[t] \in Int /\ h[t] = Losses[t]) /\ \A t \in ledger \ D : h[t] = 0
  BY <1>1, <1>2
<1>7. (\A t \in E : Losses[t] \in Int /\ h[t] = Losses[t]) /\ \A t \in Standing \ E : h[t] = 0
  <2> HIDE DEF D, E
  <2> QED BY <1>1, <1>2, <1>4
<1> HIDE DEF D, E, h
<1>8. SumFunctionOnSet(Losses, D) = SumFunctionOnSet(h, ledger)
  BY <1>1, <1>6, SumPart
<1>9. SumFunctionOnSet(Losses, E) = SumFunctionOnSet(h, Standing)
  BY <1>1, <1>7, SumPart
<1>10. SumFunctionOnSet(h, ledger) = SumFunctionOnSet(h, Standing)
  BY <1>3, <1>5, ReversalsCancel
<1>11. SumFunctionOnSet(Losses, D) = SumFunctionOnSet(Losses, E)
  BY <1>8, <1>9, <1>10
<1> QED BY <1>11 DEF D, E

\* The three reports agree, for any readers, months, categories and commands.
THEOREM ReportsAlwaysAgree == Spec => []ReportsAgree
<1>1. TypeOK /\ Consistent /\ GoalsInv => ReportsAgree
  <2> SUFFICES ASSUME ledger \subseteq Requests, ReversedOnce, Managed
               PROVE  ReportsAgree
    BY DEF TypeOK, BooksOK, Consistent, GoalsInv
  <2>1. \A u \in Readers : OverallFlow(u) = CurrentBalance(u)
    BY FlowsAddUp
  <2>2. ASSUME NEW c \in Categories, KindOf[c] = "EXPENSE", NEW u \in Readers, Shows(u) = Wallets
        PROVE  OverallActual(u, c) = SumFunction([a \in Readers |-> OverallSpent(a, c)])
    <3> DEFINE B == {t \in Spending : CategoryOf(t) = c}
               k == [t \in B |-> Author(t)]
               s == [a \in Readers |-> OverallSpent(a, c)]
    <3>1. IsFiniteSet(B) /\ IsFiniteSet(Readers) /\ \A t \in B : Losses[t] \in Int
      <4>1. B \in SUBSET Requests
        BY DEF Spending
      <4> QED BY <4>1, FiniteReports, TotalType
    <3>2. \A t \in B : k[t] \in Readers
      BY AuthorsRead
    <3>3. ASSUME NEW a \in Readers PROVE s[a] = SumFunctionOnSet(Losses, Class(k, B, a))
      <4>1. Class(k, B, a) = {t \in Spending : Author(t) = a /\ CategoryOf(t) = c}
        BY DEF Class
      <4>2. s[a] = OverallSpent(a, c)
        OBVIOUS
      <4> QED BY <4>1, <4>2, SpentAddsUp
    <3>4. OverallActual(u, c) = SumFunctionOnSet(Losses, B)
      BY <2>2, ActualsAddUp, SpendingOfCategory
    <3>5. SumFunction(s) = SumFunctionOnSet(s, Readers)
      BY DEF SumFunction
    <3>6. SumFunctionOnSet(s, Readers) = SumFunctionOnSet(Losses, B)
      <4> HIDE DEF B, k, s
      <4> QED BY <3>1, <3>2, <3>3, SumPartition
    <3> QED BY <3>4, <3>5, <3>6
  <2>3. ASSUME NEW c \in Categories, NEW a \in Readers
        PROVE  OverallSpent(a, c) = -Total({t \in Standing : /\ Type(t) = "EXPENSE" /\ User(t) = a
                                                             /\ Category[t] = c})
    <3> DEFINE D == {t \in Spending : Author(t) = a /\ CategoryOf(t) = c}
               E == {t \in Standing : Type(t) = "EXPENSE" /\ User(t) = a /\ Category[t] = c}
    <3>1. E \in SUBSET Requests
      BY DEF Standing
    <3>2. -Total(E) = SumFunctionOnSet(Losses, E)
      BY <3>1, TotalType
    <3>3. OverallSpent(a, c) = SumFunctionOnSet(Losses, D)
      BY SpentAddsUp
    <3>4. SumFunctionOnSet(Losses, D) = SumFunctionOnSet(Losses, E)
      BY SpentStands
    <3> QED BY <3>2, <3>3, <3>4
  <2> QED BY <2>1, <2>2, <2>3 DEF ReportsAgree, Standing
<1> QED BY <1>1, TypeCorrect, AlwaysConsistent, GoalsInvariant, PTL
=============================================================================
