----------------------------- MODULE JobsProofs ------------------------------
(***************************************************************************)
(* Theorems of the jobs that sleep by the clock of the process: TickerSync,*)
(* for any tickers, any number of callers and any lengths of the sleeps,   *)
(* and WeeklyReport, about whom a run reaches, how often and with which    *)
(* figures, for any owners, portfolios, closes and lengths of the day and  *)
(* the week.  The figures are sums over holdings; what is needed of such   *)
(* sums comes first.                                                       *)
(***************************************************************************)
EXTENDS TickerSync, WeeklyReport, FiniteSetTheorems, WellFoundedInduction, TLAPS

------------------------------------------------------------------------------
(* Sums over finite sets                                                    *)

(* Induction, for a set: what has 0 and every successor has all of Nat.     *)
LEMMA AllOfNat ==
  ASSUME NEW T, 0 \in T, \A n \in Nat : n \in T => n + 1 \in T
  PROVE  Nat \subseteq T
<1> DEFINE S == Nat \ T
           R == OpToRel(<, Nat)
<1>1. IsWellFoundedOn(R, Nat) /\ S \subseteq Nat
  BY NatLessThanWellFounded
<1>2. \A x, y \in Nat : x < y => <<x, y>> \in R
  BY DEF OpToRel
<1> HIDE DEF R
<1> SUFFICES ASSUME S # {} PROVE FALSE
  OBVIOUS
<1>3. PICK m \in S : \A n \in S : <<n, m>> \notin R
  BY <1>1, WFMin
<1>4. m \in Nat /\ m # 0 /\ m - 1 \in Nat /\ m - 1 < m
  OBVIOUS
<1>5. <<m - 1, m>> \in R
  BY <1>2, <1>4
<1>6. m - 1 \in T
  BY <1>3, <1>4, <1>5
<1>7. m \in T
  BY <1>4, <1>6
<1> QED
  BY <1>3, <1>7

(* Induction over the subsets of a finite set, for a set T of them.         *)
LEMMA AllSubsets ==
  ASSUME NEW S, IsFiniteSet(S), NEW T, {} \in T,
         \A s \in SUBSET S : s # {} /\ (\A x \in s : s \ {x} \in T) => s \in T
  PROVE  \A s \in SUBSET S : s \in T
<1> DEFINE K == {k \in Nat : \A s \in SUBSET S : Cardinality(s) = k => s \in T}
<1>1. \A s \in SUBSET S : IsFiniteSet(s) /\ Cardinality(s) \in Nat
  BY FS_Subset, FS_CardinalityType
<1>2. 0 \in K
  BY <1>1, FS_EmptySet
<1>3. ASSUME NEW k \in Nat, k \in K PROVE k + 1 \in K
  <2> SUFFICES ASSUME NEW s \in SUBSET S, Cardinality(s) = k + 1 PROVE s \in T
    OBVIOUS
  <2>0. Cardinality({}) = 0 /\ k + 1 # 0
    BY FS_EmptySet
  <2>1. s # {}
    BY <2>0
  <2>2. ASSUME NEW x \in s PROVE s \ {x} \in T
    <3>1. Cardinality(s \ {x}) = k
      BY <1>1, FS_RemoveElement
    <3> QED
      BY <1>3, <3>1
  <2> QED
    BY <2>1, <2>2
<1>4. Nat \subseteq K
  <2> HIDE DEF K
  <2> QED
    BY <1>2, <1>3, AllOfNat
<1> QED
  BY <1>1, <1>4

(* The recursion of a sum over S, as SumFunctionOnSet has it.               *)
Some(s) == CHOOSE x \in s : TRUE

SumSteps(f, S, g) ==
    [s \in SUBSET S |-> IF s = {} THEN 0 ELSE f[Some(s)] + g[s \ {Some(s)}]]

(* A sum is what that recursion gives for all of S.                         *)
LEMMA SumIs ==
  ASSUME NEW f, NEW S
  PROVE  SumFunctionOnSet(f, S) = (CHOOSE g : g = SumSteps(f, S, g))[S]
BY DEF SumFunctionOnSet, FoldFunctionOnSet, MapThenFoldSet, SumSteps, Some

(* It has a value.                                                          *)
LEMMA SumExists ==
  ASSUME NEW f, NEW S, IsFiniteSet(S), \A x \in S : f[x] \in Int
  PROVE  \E g \in [SUBSET S -> Int] : g = SumSteps(f, S, g)
<1> DEFINE Upto(g, k) == \A s \in SUBSET S : Cardinality(s) <= k => g[s] = SumSteps(f, S, g)[s]
           K == {k \in Nat : \E g \in [SUBSET S -> Int] : Upto(g, k)}
<1>1. \A s \in SUBSET S : /\ IsFiniteSet(s) /\ Cardinality(s) \in Nat
                           /\ Cardinality(s) <= Cardinality(S)
  BY FS_Subset, FS_CardinalityType
<1>2. 0 \in K
  <2> DEFINE g == [s \in SUBSET S |-> 0]
  <2>1. ASSUME NEW s \in SUBSET S, Cardinality(s) <= 0 PROVE g[s] = SumSteps(f, S, g)[s]
    <3>1. s = {}
      BY <1>1, <2>1, FS_EmptySet
    <3> QED
      BY <3>1 DEF SumSteps
  <2>2. g \in [SUBSET S -> Int]
    OBVIOUS
  <2> HIDE DEF g
  <2> QED
    BY <2>1, <2>2
<1>3. ASSUME NEW k \in Nat, k \in K PROVE k + 1 \in K
  <2>1. PICK g \in [SUBSET S -> Int] : Upto(g, k)
    BY <1>3
  <2> DEFINE h == [s \in SUBSET S |-> IF Cardinality(s) = k + 1 THEN SumSteps(f, S, g)[s] ELSE g[s]]
  <2>2. ASSUME NEW s \in SUBSET S, s # {}
        PROVE  /\ Some(s) \in s /\ s \ {Some(s)} \in SUBSET S
               /\ Cardinality(s \ {Some(s)}) = Cardinality(s) - 1
    <3>1. Some(s) \in s
      BY <2>2 DEF Some
    <3> QED
      BY <1>1, <3>1, FS_RemoveElement
  <2>3. ASSUME NEW s \in SUBSET S PROVE SumSteps(f, S, g)[s] \in Int
    <3>1. CASE s = {}
      BY <3>1 DEF SumSteps
    <3>2. CASE s # {}
      <4>1. f[Some(s)] \in Int /\ g[s \ {Some(s)}] \in Int
        BY <2>2, <3>2
      <4> QED
        BY <3>2, <4>1 DEF SumSteps
    <3> QED
      BY <3>1, <3>2
  <2>4. h \in [SUBSET S -> Int]
    BY <2>3
  <2>5. ASSUME NEW s \in SUBSET S, Cardinality(s) <= k + 1
        PROVE  h[s] = SumSteps(f, S, h)[s]
    <3>1. SumSteps(f, S, h)[s] = SumSteps(f, S, g)[s]
      <4>1. CASE s = {}
        BY <4>1 DEF SumSteps
      <4>2. CASE s # {}
        <5>1. Cardinality(s \ {Some(s)}) # k + 1
          BY <1>1, <2>2, <2>5, <4>2
        <5>2. h[s \ {Some(s)}] = g[s \ {Some(s)}]
          BY <2>2, <4>2, <5>1
        <5> HIDE DEF h
        <5> QED
          BY <5>2 DEF SumSteps
      <4> QED
        BY <4>1, <4>2
    <3>2. h[s] = SumSteps(f, S, g)[s]
      BY <1>1, <2>1, <2>5
    <3> QED
      BY <3>1, <3>2
  <2> HIDE DEF h
  <2>6. Upto(h, k + 1)
    BY <2>5
  <2> QED
    BY <2>4, <2>6
<1>4. Nat \subseteq K
  <2> HIDE DEF K
  <2> QED
    BY <1>2, <1>3, AllOfNat
<1>5. PICK g \in [SUBSET S -> Int] : Upto(g, Cardinality(S))
  BY <1>1, <1>4
<1>6. g = SumSteps(f, S, g)
  BY <1>1, <1>5 DEF SumSteps
<1> QED
  BY <1>6

(* The sum over a subset is what the recursion gives on the way.            *)
LEMMA SumUnique ==
  ASSUME NEW f, NEW S, IsFiniteSet(S), NEW U \in SUBSET S,
         NEW g, g = SumSteps(f, S, g), NEW h, h = SumSteps(f, U, h)
  PROVE  \A s \in SUBSET U : g[s] = h[s]
<1> DEFINE T == {s \in SUBSET U : g[s] = h[s]}
<1>1. IsFiniteSet(U)
  BY FS_Subset
<1>2. \A s \in SUBSET S : g[s] = IF s = {} THEN 0 ELSE f[Some(s)] + g[s \ {Some(s)}]
  BY DEF SumSteps
<1>3. \A s \in SUBSET U : h[s] = IF s = {} THEN 0 ELSE f[Some(s)] + h[s \ {Some(s)}]
  BY DEF SumSteps
<1>4. {} \in T
  BY <1>2, <1>3
<1>5. ASSUME NEW s \in SUBSET U, s # {}, \A x \in s : s \ {x} \in T PROVE s \in T
  <2>1. Some(s) \in s
    BY <1>5 DEF Some
  <2>2. g[s \ {Some(s)}] = h[s \ {Some(s)}]
    BY <1>5, <2>1
  <2> QED
    BY <1>2, <1>3, <1>5, <2>2
<1>6. \A s \in SUBSET U : s \in T
  <2> HIDE DEF T
  <2> QED
    BY <1>1, <1>4, <1>5, AllSubsets
<1> QED
  BY <1>6

(* A sum is its terms one by one, in any order.                             *)
LEMMA SumStep ==
  ASSUME NEW f, NEW S, IsFiniteSet(S), \A x \in S : f[x] \in Int
  PROVE  /\ SumFunctionOnSet(f, {}) = 0
         /\ \A s \in SUBSET S : /\ SumFunctionOnSet(f, s) \in Int
                                /\ \A x \in s : SumFunctionOnSet(f, s) =
                                                f[x] + SumFunctionOnSet(f, s \ {x})
<1>1. PICK g \in [SUBSET S -> Int] : g = SumSteps(f, S, g)
  BY SumExists
<1>2. ASSUME NEW U \in SUBSET S PROVE g[U] = SumFunctionOnSet(f, U)
  <2> DEFINE h == CHOOSE h : h = SumSteps(f, U, h)
  <2>1. IsFiniteSet(U) /\ \A x \in U : f[x] \in Int
    BY FS_Subset
  <2>2. \E e : e = SumSteps(f, U, e)
    BY <2>1, SumExists
  <2>3. h = SumSteps(f, U, h)
    BY <2>2
  <2>4. SumFunctionOnSet(f, U) = h[U]
    BY SumIs
  <2> HIDE DEF h
  <2>5. \A s \in SUBSET U : g[s] = h[s]
    BY <1>1, <2>3, SumUnique
  <2> QED
    BY <2>4, <2>5
<1> DEFINE T == {s \in SUBSET S : \A x \in s : g[s] = f[x] + g[s \ {x}]}
<1>3. \A s \in SUBSET S : g[s] = IF s = {} THEN 0 ELSE f[Some(s)] + g[s \ {Some(s)}]
  BY <1>1 DEF SumSteps
<1>4. {} \in T
  OBVIOUS
<1>5. ASSUME NEW s \in SUBSET S, s # {}, \A x \in s : s \ {x} \in T PROVE s \in T
  <2> SUFFICES ASSUME NEW x \in s PROVE g[s] = f[x] + g[s \ {x}]
    OBVIOUS
  <2> DEFINE c == Some(s)
  <2>1. c \in s
    BY <1>5 DEF Some
  <2>2. g[s] = f[c] + g[s \ {c}]
    BY <1>3, <1>5
  <2> HIDE DEF c
  <2>3. CASE x = c
    BY <2>2, <2>3
  <2>4. CASE x # c
    <3>1. s \ {c} \in T /\ x \in s \ {c} /\ s \ {x} \in T /\ c \in s \ {x}
      BY <1>5, <2>1, <2>4
    <3>2. g[s \ {c}] = f[x] + g[(s \ {c}) \ {x}] /\ g[s \ {x}] = f[c] + g[(s \ {x}) \ {c}]
      BY <3>1
    <3>3. (s \ {c}) \ {x} = (s \ {x}) \ {c} /\ (s \ {c}) \ {x} \in SUBSET S
      OBVIOUS
    <3>4. f[x] \in Int /\ f[c] \in Int /\ g[(s \ {c}) \ {x}] \in Int
      BY <1>1, <2>1, <3>3
    <3> HIDE DEF T
    <3>5. g[s] = f[c] + (f[x] + g[(s \ {c}) \ {x}])
      BY <2>2, <3>2
    <3>6. g[s \ {x}] = f[c] + g[(s \ {c}) \ {x}]
      BY <3>2, <3>3
    <3> QED
      BY <3>4, <3>5, <3>6
  <2> QED
    BY <2>3, <2>4
<1>6. \A s \in SUBSET S : s \in T
  <2> HIDE DEF T
  <2> QED
    BY <1>4, <1>5, AllSubsets
<1>7. \A s \in SUBSET S : \A x \in s : g[s] = f[x] + g[s \ {x}] /\ s \ {x} \in SUBSET S
  BY <1>6
<1>8. g[{}] = 0 /\ {} \in SUBSET S
  BY <1>3
<1> QED
  BY <1>1, <1>2, <1>7, <1>8

(* The sum of a function with a finite domain is an integer.                *)
LEMMA SumTyped ==
  ASSUME NEW S, IsFiniteSet(S), NEW f \in [S -> Int]
  PROVE  SumFunction(f) \in Int /\ (S = {} => SumFunction(f) = 0)
<1>1. SumFunction(f) = SumFunctionOnSet(f, S)
  BY DEF SumFunction
<1>2. \A x \in S : f[x] \in Int
  OBVIOUS
<1> QED
  BY <1>1, <1>2, SumStep

(* A sum of the differences is the difference of the sums.                  *)
LEMMA SumDifference ==
  ASSUME NEW S, IsFiniteSet(S), NEW f \in [S -> Int], NEW g \in [S -> Int],
         NEW h \in [S -> Int], \A x \in S : h[x] = f[x] - g[x]
  PROVE  SumFunction(h) = SumFunction(f) - SumFunction(g)
<1> DEFINE F(s) == SumFunctionOnSet(f, s)
           G(s) == SumFunctionOnSet(g, s)
           H(s) == SumFunctionOnSet(h, s)
           T == {s \in SUBSET S : H(s) = F(s) - G(s)}
<1>1. /\ F({}) = 0 /\ G({}) = 0 /\ H({}) = 0
      /\ \A s \in SUBSET S : F(s) \in Int /\ G(s) \in Int /\ H(s) \in Int
      /\ \A s \in SUBSET S : \A x \in s : /\ F(s) = f[x] + F(s \ {x})
                                          /\ G(s) = g[x] + G(s \ {x})
                                          /\ H(s) = h[x] + H(s \ {x})
  <2>1. \A x \in S : f[x] \in Int /\ g[x] \in Int /\ h[x] \in Int
    OBVIOUS
  <2> QED
    BY <2>1, SumStep
<1>2. SumFunction(f) = F(S) /\ SumFunction(g) = G(S) /\ SumFunction(h) = H(S)
  BY DEF SumFunction
<1> HIDE DEF F, G, H
<1>3. {} \in T
  BY <1>1
<1>4. ASSUME NEW s \in SUBSET S, s # {}, \A x \in s : s \ {x} \in T PROVE s \in T
  <2>1. PICK x \in s : TRUE
    BY <1>4
  <2>2. /\ F(s) = f[x] + F(s \ {x}) /\ G(s) = g[x] + G(s \ {x}) /\ H(s) = h[x] + H(s \ {x})
        /\ F(s \ {x}) \in Int /\ G(s \ {x}) \in Int /\ f[x] \in Int /\ g[x] \in Int
    BY <1>1, <2>1
  <2>3. H(s \ {x}) = F(s \ {x}) - G(s \ {x}) /\ h[x] = f[x] - g[x]
    BY <1>4, <2>1
  <2> QED
    BY <2>2, <2>3
<1>5. \A s \in SUBSET S : s \in T
  <2> HIDE DEF T
  <2> QED
    BY <1>3, <1>4, AllSubsets
<1> QED
  BY <1>2, <1>5

(* A sum is below another if its terms are, after scaling both.             *)
LEMMA SumOrder ==
  ASSUME NEW S, IsFiniteSet(S), NEW f, NEW g, \A x \in S : f[x] \in Int /\ g[x] \in Int,
         NEW a \in Int, NEW b \in Int, \A x \in S : f[x] * a <= g[x] * b
  PROVE  SumFunctionOnSet(f, S) * a <= SumFunctionOnSet(g, S) * b
<1> DEFINE F(s) == SumFunctionOnSet(f, s)
           G(s) == SumFunctionOnSet(g, s)
           T == {s \in SUBSET S : F(s) * a <= G(s) * b}
<1>1. /\ F({}) = 0 /\ G({}) = 0
      /\ \A s \in SUBSET S : F(s) \in Int /\ G(s) \in Int
      /\ \A s \in SUBSET S : \A x \in s : F(s) = f[x] + F(s \ {x}) /\ G(s) = g[x] + G(s \ {x})
  <2> HIDE DEF T
  <2>1. (\A x \in S : f[x] \in Int) /\ (\A x \in S : g[x] \in Int)
    OBVIOUS
  <2>2. /\ F({}) = 0
        /\ \A s \in SUBSET S : F(s) \in Int /\ \A x \in s : F(s) = f[x] + F(s \ {x})
    BY <2>1, SumStep
  <2>3. /\ G({}) = 0
        /\ \A s \in SUBSET S : G(s) \in Int /\ \A x \in s : G(s) = g[x] + G(s \ {x})
    BY <2>1, SumStep
  <2> HIDE DEF F, G
  <2> QED
    BY <2>2, <2>3
<1> HIDE DEF F, G
<1>2. {} \in T
  BY <1>1
<1>3. ASSUME NEW s \in SUBSET S, s # {}, \A x \in s : s \ {x} \in T PROVE s \in T
  <2>1. PICK x \in s : TRUE
    BY <1>3
  <2>2. /\ F(s) = f[x] + F(s \ {x}) /\ G(s) = g[x] + G(s \ {x})
        /\ F(s \ {x}) \in Int /\ G(s \ {x}) \in Int /\ f[x] \in Int /\ g[x] \in Int
    BY <1>1, <2>1
  <2>3. f[x] * a <= g[x] * b /\ F(s \ {x}) * a <= G(s \ {x}) * b
    BY <1>3, <2>1
  <2>4. F(s) * a = f[x] * a + F(s \ {x}) * a /\ G(s) * b = g[x] * b + G(s \ {x}) * b
    BY <2>2
  <2>5. /\ f[x] * a \in Int /\ F(s \ {x}) * a \in Int
        /\ g[x] * b \in Int /\ G(s \ {x}) * b \in Int
    BY <2>2
  <2> QED
    BY <2>3, <2>4, <2>5
<1>4. \A s \in SUBSET S : s \in T
  <2> HIDE DEF T
  <2> QED
    BY <1>2, <1>3, AllSubsets
<1> QED
  BY <1>4 DEF F, G

(* If the terms are strictly below, so is a sum that has any.               *)
LEMMA SumStrict ==
  ASSUME NEW S, IsFiniteSet(S), NEW f, NEW g, \A x \in S : f[x] \in Int /\ g[x] \in Int,
         NEW a \in Int, NEW b \in Int, \A x \in S : f[x] * a < g[x] * b, S # {}
  PROVE  SumFunctionOnSet(f, S) * a < SumFunctionOnSet(g, S) * b
<1>1. PICK x \in S : TRUE
  OBVIOUS
<1> DEFINE R == S \ {x}
           F == SumFunctionOnSet(f, R)
           G == SumFunctionOnSet(g, R)
<1>2. /\ SumFunctionOnSet(f, S) = f[x] + F /\ SumFunctionOnSet(g, S) = g[x] + G
      /\ F \in Int /\ G \in Int /\ f[x] \in Int /\ g[x] \in Int
  BY <1>1, SumStep
<1>3. IsFiniteSet(R) /\ \A y \in R : y \in S
  BY FS_Subset
<1>4. \A y \in R : f[y] * a <= g[y] * b
  <2> SUFFICES ASSUME NEW y \in R PROVE f[y] * a <= g[y] * b
    OBVIOUS
  <2>1. f[y] * a \in Int /\ g[y] * b \in Int /\ f[y] * a < g[y] * b
    BY <1>3
  <2> QED
    BY <2>1
<1>5. F * a <= G * b
  <2> HIDE DEF R
  <2> QED
    BY <1>3, <1>4, SumOrder
<1>6. f[x] * a < g[x] * b
  BY <1>1
<1> HIDE DEF F, G
<1>7. (f[x] + F) * a = f[x] * a + F * a /\ (g[x] + G) * b = g[x] * b + G * b
  BY <1>2
<1>8. f[x] * a \in Int /\ F * a \in Int /\ g[x] * b \in Int /\ G * b \in Int
  BY <1>2
<1> QED
  BY <1>2, <1>5, <1>6, <1>7, <1>8

(* Some of the terms add up to no more than all, if none is negative.       *)
LEMMA SumPart ==
  ASSUME NEW S, IsFiniteSet(S), NEW P \in SUBSET S, NEW f, \A x \in S : f[x] \in Nat
  PROVE  SumFunctionOnSet(f, P) <= SumFunctionOnSet(f, S)
<1> DEFINE F(s) == SumFunctionOnSet(f, s)
           T == {s \in SUBSET S : F(s \cap P) <= F(s)}
<1>1. /\ F({}) = 0
      /\ \A s \in SUBSET S : F(s) \in Int /\ \A x \in s : F(s) = f[x] + F(s \ {x})
  <2> HIDE DEF T
  <2>1. \A x \in S : f[x] \in Int
    OBVIOUS
  <2> QED
    BY <2>1, SumStep
<1> HIDE DEF F
<1>2. {} \in T
  <2>1. {} \cap P = {}
    OBVIOUS
  <2> QED
    BY <1>1, <2>1
<1>3. ASSUME NEW s \in SUBSET S, s # {}, \A x \in s : s \ {x} \in T PROVE s \in T
  <2>1. PICK x \in s : TRUE
    BY <1>3
  <2>2. /\ F(s) = f[x] + F(s \ {x}) /\ F(s \ {x}) \in Int /\ f[x] \in Nat
        /\ F((s \ {x}) \cap P) <= F(s \ {x}) /\ F((s \ {x}) \cap P) \in Int
    BY <1>1, <1>3, <2>1
  <2>3. CASE x \in P
    <3>1. (s \cap P) \ {x} = (s \ {x}) \cap P /\ x \in s \cap P /\ s \cap P \in SUBSET S
      BY <2>3
    <3>2. F(s \cap P) = f[x] + F((s \cap P) \ {x})
      BY <1>1, <3>1
    <3>3. F(s \cap P) = f[x] + F((s \ {x}) \cap P)
      BY <3>1, <3>2
    <3> QED
      BY <2>2, <3>3
  <2>4. CASE x \notin P
    <3>1. s \cap P = (s \ {x}) \cap P
      BY <2>4
    <3>2. F(s \cap P) = F((s \ {x}) \cap P)
      BY <3>1
    <3> QED
      BY <2>2, <3>2
  <2> QED
    BY <2>3, <2>4
<1>4. \A s \in SUBSET S : s \in T
  <2> HIDE DEF T
  <2> QED
    BY <1>2, <1>3, AllSubsets
<1>5. S \cap P = P
  OBVIOUS
<1> QED
  BY <1>4, <1>5 DEF F

(* Sums of the same terms are the same.                                     *)
LEMMA SumSame ==
  ASSUME NEW S, IsFiniteSet(S), NEW f, NEW g, \A x \in S : f[x] \in Int /\ f[x] = g[x]
  PROVE  SumFunctionOnSet(f, S) = SumFunctionOnSet(g, S)
<1>1. \A x \in S : g[x] \in Int
  OBVIOUS
<1>2. /\ \A x \in S : f[x] \in Int /\ g[x] \in Int
      /\ \A x \in S : f[x] * 1 <= g[x] * 1 /\ g[x] * 1 <= f[x] * 1
  <2> SUFFICES ASSUME NEW x \in S
               PROVE  /\ f[x] \in Int /\ g[x] \in Int
                      /\ f[x] * 1 <= g[x] * 1 /\ g[x] * 1 <= f[x] * 1
    OBVIOUS
  <2>1. f[x] \in Int /\ g[x] = f[x]
    OBVIOUS
  <2> QED
    BY <2>1
<1>3. SumFunctionOnSet(f, S) \in Int /\ SumFunctionOnSet(g, S) \in Int
  BY <1>1, SumStep
<1>4. 1 \in Int
  OBVIOUS
<1>5. /\ SumFunctionOnSet(f, S) * 1 <= SumFunctionOnSet(g, S) * 1
      /\ SumFunctionOnSet(g, S) * 1 <= SumFunctionOnSet(f, S) * 1
  BY <1>2, <1>4, SumOrder
<1> QED
  BY <1>3, <1>5
------------------------------------------------------------------------------
(* The figures                                                              *)

(* The quantities and prices a figure is computed from.                     *)
IsHoldings(rows) ==
    /\ IsFiniteSet(rows)
    /\ \A h \in rows : h.qty \in Nat \ {0} /\ h.entry \in Int \cup {NoAmount}

IsQuote(q) == q = NoAmount \/ (q.current \in Nat /\ q.weekAgo \in Nat \cup {NoAmount})

(* A finite set of integers has a last one.                                 *)
LEMMA MaxExists ==
  ASSUME NEW S \in SUBSET Int, IsFiniteSet(S), S # {}
  PROVE  Max(S) \in S
<1> DEFINE T == {s \in SUBSET S : s = {} \/ \E m \in s : \A y \in s : m >= y}
<1>1. {} \in T
  OBVIOUS
<1>2. ASSUME NEW s \in SUBSET S, s # {}, \A x \in s : s \ {x} \in T PROVE s \in T
  <2>1. PICK x \in s : TRUE
    BY <1>2
  <2>2. s \ {x} \in T /\ x \in Int
    BY <1>2, <2>1
  <2>3. CASE s \ {x} = {}
    <3>1. \A y \in s : x >= y
      BY <2>2, <2>3
    <3> QED
      BY <3>1
  <2>4. CASE s \ {x} # {}
    <3>1. PICK m \in s \ {x} : \A y \in s \ {x} : m >= y
      BY <2>2, <2>4
    <3>2. CASE m >= x
      <4>1. \A y \in s : m >= y
        BY <3>1, <3>2
      <4> QED
        BY <4>1
    <3>3. CASE ~(m >= x)
      <4>1. \A y \in s : x >= y
        BY <2>2, <3>1, <3>3
      <4> QED
        BY <4>1
    <3> QED
      BY <3>2, <3>3
  <2> QED
    BY <2>3, <2>4
<1>3. S \in T
  <2> HIDE DEF T
  <2> QED
    BY <1>1, <1>2, AllSubsets
<1>4. \E m \in S : \A y \in S : m >= y
  BY <1>3
<1> QED
  BY <1>4 DEF Max

(* Every quote has a close, and none or one of a week ago.                  *)
LEMMA QuotesTyped == \A q \in Quotes : IsQuote(q)
<1> SUFFICES ASSUME NEW points \in Histories, DOMAIN points # {}
             PROVE  IsQuote(WeekPrices(points))
  BY DEF Quotes, IsQuote
<1> DEFINE D == DOMAIN points
           old == {d \in D : d <= Max(D) - WeekDays}
<1>1. IsFiniteSet(D) /\ D \subseteq Int /\ \A d \in D : points[d] \in Nat
  BY HistoriesAssumption
<1>2. Max(D) \in D
  BY <1>1, MaxExists
<1>3. old = {} \/ Max(old) \in D
  <2>1. old \in SUBSET D /\ IsFiniteSet(old)
    BY <1>1, FS_Subset
  <2> HIDE DEF old, D
  <2>2. old # {} => Max(old) \in old
    BY <1>1, <2>1, MaxExists
  <2> QED
    BY <2>1, <2>2
<1>4. WeekPrices(points) = [current |-> points[Max(D)],
                            weekAgo |-> IF old = {} THEN NoAmount ELSE points[Max(old)]]
  BY DEF WeekPrices
<1> HIDE DEF old, D
<1>5. points[Max(D)] \in Nat /\ (old = {} \/ points[Max(old)] \in Nat)
  BY <1>1, <1>2, <1>3
<1>6. /\ WeekPrices(points).current = points[Max(D)]
      /\ WeekPrices(points).weekAgo = IF old = {} THEN NoAmount ELSE points[Max(old)]
  BY <1>4
<1> QED
  BY <1>5, <1>6 DEF IsQuote

(* A line compared with the whole, as a term of the sums.                   *)
LEMMA ScaleLine ==
  ASSUME NEW cur \in Int, NEW ago \in Int, NEW qty \in Nat \ {0}, NEW N \in Int, NEW O \in Int
  PROVE  /\ ~((cur - ago) * O <= (N - O) * ago) => (ago * qty) * N < (cur * qty) * O
         /\ ~((N - O) * ago <= (cur - ago) * O) => (cur * qty) * O < (ago * qty) * N
<1>1. (cur - ago) * O = cur * O - ago * O /\ (N - O) * ago = N * ago - ago * O
  OBVIOUS
<1>2. (ago * qty) * N = (N * ago) * qty /\ (cur * qty) * O = (cur * O) * qty
  OBVIOUS
<1>3. /\ cur * O \in Int /\ ago * O \in Int /\ N * ago \in Int
      /\ (cur - ago) * O \in Int /\ (N - O) * ago \in Int
  OBVIOUS
<1>4. \A x \in Int, y \in Int : x < y => x * qty < y * qty
  OBVIOUS
<1>5. ~((cur - ago) * O <= (N - O) * ago) => N * ago < cur * O
  BY <1>1, <1>3
<1>6. ~((N - O) * ago <= (cur - ago) * O) => cur * O < N * ago
  BY <1>1, <1>3
<1> QED
  BY <1>2, <1>3, <1>4, <1>5, <1>6

(* The change of the portfolio is between those of its lines.               *)
LEMMA ChangeBetween ==
  ASSUME NEW rows, IsHoldings(rows), NEW quote, \A h \in rows : IsQuote(quote[h.share])
  PROVE  ChangeBetweenLines(rows, quote)
<1> DEFINE lines == Compared(rows, quote)
           changes == {LineChange(h, quote) : h \in lines}
<1>0. lines = Compared(rows, quote) /\ changes = {LineChange(h, quote) : h \in lines}
  OBVIOUS
<1> SUFFICES ASSUME NoAmount \notin changes
             PROVE  IF lines = {} THEN ReportChange(rows, quote) = NoAmount
                    ELSE /\ \E c \in changes : AtMost(c, ReportChange(rows, quote))
                         /\ \E c \in changes : AtMost(ReportChange(rows, quote), c)
  BY DEF ChangeBetweenLines
<1> HIDE DEF lines, changes
<1> DEFINE new == [h \in lines |-> quote[h.share].current * h.qty]
           old == [h \in lines |-> quote[h.share].weekAgo * h.qty]
           N == SumFunction(new)
           O == SumFunction(old)
<1>1. IsFiniteSet(lines) /\ lines \subseteq rows
  <2>1. lines \subseteq rows
    BY <1>0 DEF Compared, ReportLines
  <2> QED
    BY <2>1, FS_Subset DEF IsHoldings
<1>2. ASSUME NEW h \in lines
      PROVE  /\ h.qty \in Nat \ {0}
             /\ quote[h.share].current \in Nat /\ quote[h.share].weekAgo \in Nat \ {0}
             /\ LineChange(h, quote) = <<quote[h.share].current - quote[h.share].weekAgo,
                                         quote[h.share].weekAgo>>
  <2>1. quote[h.share] # NoAmount /\ quote[h.share].weekAgo # NoAmount
    BY <1>0 DEF Compared, ReportLines
  <2>2. h.qty \in Nat \ {0} /\ IsQuote(quote[h.share])
    BY <1>1 DEF IsHoldings
  <2>3. LineChange(h, quote) # NoAmount
    BY <1>0
  <2> QED
    BY <2>1, <2>2, <2>3 DEF IsQuote, LineChange, Ratio
<1>3. ASSUME NEW h \in lines PROVE new[h] \in Nat /\ old[h] \in Nat \ {0}
  <2>1. \A a \in Nat, b \in Nat : a * b \in Nat
    OBVIOUS
  <2>2. \A a \in Nat \ {0}, b \in Nat \ {0} : a * b > 0
    OBVIOUS
  <2> QED
    BY <1>2, <2>1, <2>2
<1>4. ReportChange(rows, quote) = Ratio(N - O, O)
  BY <1>0 DEF ReportChange
<1>5. N = SumFunctionOnSet(new, lines) /\ O = SumFunctionOnSet(old, lines)
  BY DEF SumFunction
<1>6. N \in Int /\ O \in Int /\ (lines = {} => O = 0)
  <2>1. \A h \in lines : new[h] \in Int /\ old[h] \in Int
    BY <1>3
  <2> HIDE DEF new, old
  <2>2. SumFunctionOnSet(new, lines) \in Int
    BY <1>1, <2>1, SumStep
  <2>3. SumFunctionOnSet(old, lines) \in Int /\ SumFunctionOnSet(old, {}) = 0
    BY <1>1, <2>1, SumStep
  <2> QED
    BY <1>5, <2>2, <2>3
<1> HIDE DEF N, O
<1>7. CASE lines = {}
  BY <1>4, <1>6, <1>7 DEF Ratio
<1>8. CASE lines # {}
  <2>1. O > 0
    <3>0. 0 \in Int /\ 1 \in Int /\ \A h \in lines : old[h] \in Int /\ old[h] \in Int
      BY <1>3
    <3>1. \A h \in lines : old[h] * 0 < old[h] * 1
      BY <1>3
    <3> HIDE DEF new, old
    <3>2. O * 0 < O * 1
      BY <1>1, <1>5, <1>8, <3>0, <3>1, SumStrict
    <3> QED
      BY <1>6, <3>2
  <2>2. ReportChange(rows, quote) = <<N - O, O>>
    BY <1>4, <2>1 DEF Ratio
  <2>3. \A h \in lines : new[h] \in Int /\ old[h] \in Int
    BY <1>3
  <2>4. O * N = N * O
    BY <1>6
  <2>5. \E c \in changes : AtMost(c, ReportChange(rows, quote))
    <3> SUFFICES ASSUME \A c \in changes : ~AtMost(c, ReportChange(rows, quote)) PROVE FALSE
      BY <1>0
    <3>1. ASSUME NEW h \in lines PROVE old[h] * N < new[h] * O
      <4> DEFINE cur == quote[h.share].current
                 ago == quote[h.share].weekAgo
      <4>1. ~AtMost(LineChange(h, quote), ReportChange(rows, quote))
        BY <1>0
      <4>2. ~((cur - ago) * O <= (N - O) * ago)
        BY <1>2, <2>2, <4>1 DEF AtMost
      <4>3. /\ cur \in Int /\ ago \in Int /\ h.qty \in Nat \ {0}
            /\ new[h] = cur * h.qty /\ old[h] = ago * h.qty
        BY <1>2
      <4> HIDE DEF cur, ago, new, old
      <4>4. (ago * h.qty) * N < (cur * h.qty) * O
        BY <1>6, <4>2, <4>3, ScaleLine
      <4> QED
        BY <4>3, <4>4
    <3> HIDE DEF new, old
    <3>2. O * N < N * O
      BY <1>1, <1>5, <1>6, <1>8, <2>3, <3>1, SumStrict
    <3> QED
      BY <1>6, <2>4, <3>2
  <2>6. \E c \in changes : AtMost(ReportChange(rows, quote), c)
    <3> SUFFICES ASSUME \A c \in changes : ~AtMost(ReportChange(rows, quote), c) PROVE FALSE
      BY <1>0
    <3>1. ASSUME NEW h \in lines PROVE new[h] * O < old[h] * N
      <4>1. ~AtMost(ReportChange(rows, quote), LineChange(h, quote))
        BY <1>0
      <4>2. ~((N - O) * quote[h.share].weekAgo
              <= (quote[h.share].current - quote[h.share].weekAgo) * O)
        BY <1>2, <2>2, <4>1 DEF AtMost
      <4> QED
        BY <1>2, <1>6, <4>2, ScaleLine
    <3> HIDE DEF new, old
    <3>2. N * O < O * N
      BY <1>1, <1>5, <1>6, <1>8, <2>3, <3>1, SumStrict
    <3> QED
      BY <1>6, <2>4, <3>2
  <2> QED
    BY <1>8, <2>5, <2>6
<1> QED
  BY <1>7, <1>8

(* The three computations agree on the same holdings and closes.            *)
LEMMA FiguresAreSame ==
  ASSUME NEW rows, IsHoldings(rows),
         NEW quote, \A h \in rows : h.share \in DOMAIN quote /\ IsQuote(quote[h.share])
  PROVE  SameFigures(rows, quote)
<1> DEFINE price == [s \in DOMAIN quote |->
                       IF quote[s] = NoAmount THEN NoAmount ELSE quote[s].current]
           pnl == PnlSummary(rows, price)
           value == ReportValue(rows, quote)
           weighed == {h \in rows : Weight(h, rows, price) # NoAmount}
<1>0. /\ price = [s \in DOMAIN quote |->
                    IF quote[s] = NoAmount THEN NoAmount ELSE quote[s].current]
      /\ pnl = PnlSummary(rows, price) /\ value = ReportValue(rows, quote)
      /\ weighed = {h \in rows : Weight(h, rows, price) # NoAmount}
  OBVIOUS
<1> HIDE DEF price, pnl, value, weighed
<1> DEFINE priced == Priced(rows, price)
           valued == Valued(rows, price)
           worth == [h \in priced |-> price[h.share] * h.qty]
           paid == [h \in valued |-> h.entry * h.qty]
           today == [h \in valued |-> price[h.share] * h.qty]
           gain == [h \in valued |-> (price[h.share] - h.entry) * h.qty]
<1>1. ASSUME NEW h \in rows
      PROVE  /\ price[h.share] = IF quote[h.share] = NoAmount THEN NoAmount
                                 ELSE quote[h.share].current
             /\ quote[h.share] # NoAmount => price[h.share] \in Nat
             /\ price[h.share] # NoAmount <=> quote[h.share] # NoAmount
             /\ h.qty \in Nat \ {0} /\ h.entry \in Int \cup {NoAmount}
  BY <1>0, WeekAssumption DEF IsHoldings, IsQuote
<1>2. /\ valued \subseteq priced /\ priced \subseteq rows
      /\ IsFiniteSet(priced) /\ IsFiniteSet(valued)
  <2>1. valued \subseteq priced /\ priced \subseteq rows
    BY DEF Valued, Priced
  <2> QED
    BY <2>1, FS_Subset DEF IsHoldings
<1>3. ASSUME NEW h \in priced PROVE price[h.share] \in Nat /\ h.qty \in Nat \ {0}
  BY <1>1, <1>2 DEF Priced
<1>4. ASSUME NEW h \in valued PROVE h.entry \in Int /\ price[h.share] \in Nat /\ h.qty \in Nat \ {0}
  BY <1>1, <1>2, <1>3 DEF Valued
<1>5. \A h \in priced : worth[h] \in Nat /\ worth[h] = price[h.share] * h.qty
  <2>1. \A a \in Nat, b \in Nat : a * b \in Nat
    OBVIOUS
  <2> QED
    BY <1>3, <2>1
<1>6. \A h \in valued : /\ paid[h] \in Int /\ today[h] \in Int /\ gain[h] \in Int
                        /\ today[h] = worth[h] /\ gain[h] = today[h] - paid[h]
                        /\ paid[h] = h.entry * h.qty
  <2> SUFFICES ASSUME NEW h \in valued
               PROVE  /\ paid[h] \in Int /\ today[h] \in Int /\ gain[h] \in Int
                      /\ today[h] = worth[h] /\ gain[h] = today[h] - paid[h]
                      /\ paid[h] = h.entry * h.qty
    OBVIOUS
  <2>1. \A p \in Int, e \in Int, q \in Int : /\ p * q \in Int /\ e * q \in Int
                                              /\ (p - e) * q = p * q - e * q
    OBVIOUS
  <2>2. /\ paid[h] = h.entry * h.qty /\ today[h] = price[h.share] * h.qty
        /\ gain[h] = (price[h.share] - h.entry) * h.qty /\ worth[h] = price[h.share] * h.qty
    BY <1>2
  <2> HIDE DEF worth, paid, today, gain, valued
  <2>3. /\ price[h.share] * h.qty \in Int /\ h.entry * h.qty \in Int
        /\ (price[h.share] - h.entry) * h.qty = price[h.share] * h.qty - h.entry * h.qty
    BY <1>4, <2>1
  <2> QED
    BY <2>2, <2>3
<1>7. value = SumFunction(worth)
  <2>1. ReportLines(rows, quote) = priced
    BY <1>1 DEF ReportLines, Priced
  <2>2. \A h \in priced : quote[h.share].current = price[h.share]
    BY <1>1, <1>2 DEF Priced
  <2>3. [h \in priced |-> quote[h.share].current * h.qty] = worth
    BY <2>2
  <2> QED
    BY <1>0, <2>1, <2>3 DEF ReportValue
<1>8. /\ pnl.invested = SumFunction(paid) /\ pnl.value = SumFunction(today)
      /\ pnl.profit = SumFunction(gain)
  BY <1>0 DEF PnlSummary
<1>9. \A h \in rows : Weight(h, rows, price) =
                        IF h \in priced THEN Ratio(price[h.share] * h.qty, value) ELSE NoAmount
  BY <1>7 DEF Weight, Priced
<1>10. /\ worth \in [priced -> Int] /\ paid \in [valued -> Int]
       /\ today \in [valued -> Int] /\ gain \in [valued -> Int]
  <2>1. worth = [h \in priced |-> worth[h]]
    OBVIOUS
  <2>2. /\ paid = [h \in valued |-> paid[h]] /\ today = [h \in valued |-> today[h]]
        /\ gain = [h \in valued |-> gain[h]]
    OBVIOUS
  <2> HIDE DEF priced, valued, worth, paid, today, gain
  <2>3. worth \in [priced -> Int]
    BY <1>5, <2>1
  <2> QED
    BY <1>6, <2>2, <2>3
<1> HIDE DEF worth, paid, today, gain, priced, valued
<1>11. value \in Int /\ pnl.value \in Int /\ pnl.invested \in Int
  BY <1>2, <1>7, <1>8, <1>10, SumTyped
<1>12. \A h \in priced : value > 0 => Weight(h, rows, price) = <<worth[h], value>>
  BY <1>2, <1>5, <1>9 DEF Ratio
<1>13. weighed = IF value > 0 THEN priced ELSE {}
  <2>1. ASSUME NEW h \in rows PROVE Weight(h, rows, price) # NoAmount <=> h \in priced /\ value > 0
    <3>1. CASE h \in priced /\ value > 0
      <4>1. <<worth[h], value>> \in Int \X Int
        BY <1>5, <1>11, <3>1
      <4> QED
        BY <1>12, <3>1, <4>1, WeekAssumption
    <3>2. CASE ~(h \in priced /\ value > 0)
      BY <1>9, <3>2 DEF Ratio
    <3> QED
      BY <3>1, <3>2
  <2> QED
    BY <1>0, <1>2, <2>1
<1>14. \A h \in weighed : Weight(h, rows, price)[2] = value /\ Weight(h, rows, price)[1] = worth[h]
  BY <1>12, <1>13
<1>15. weighed # {} => SumFunction([h \in weighed |-> Weight(h, rows, price)[1]]) = value
  <2> SUFFICES ASSUME weighed # {}
               PROVE  SumFunction([h \in weighed |-> Weight(h, rows, price)[1]]) = value
    OBVIOUS
  <2>1. weighed = priced
    BY <1>13
  <2>2. [h \in weighed |-> Weight(h, rows, price)[1]] = [h \in priced |-> worth[h]]
    BY <1>14, <2>1
  <2>3. [h \in priced |-> worth[h]] = worth
    BY <1>10
  <2> QED
    BY <1>7, <2>2, <2>3
<1>16. pnl.profit = pnl.value - pnl.invested
  BY <1>2, <1>6, <1>8, <1>10, SumDifference
<1>17. pnl.value <= value
  <2>1. /\ SumFunction(today) = SumFunctionOnSet(today, valued)
        /\ SumFunction(worth) = SumFunctionOnSet(worth, priced)
    BY <1>10 DEF SumFunction
  <2>2. \A h \in valued : today[h] \in Int /\ today[h] = worth[h]
    BY <1>6
  <2>3. SumFunctionOnSet(today, valued) = SumFunctionOnSet(worth, valued)
    BY <1>2, <2>2, SumSame
  <2>4. \A h \in priced : worth[h] \in Nat
    BY <1>5
  <2>5. SumFunctionOnSet(worth, valued) <= SumFunctionOnSet(worth, priced)
    BY <1>2, <2>4, SumPart
  <2> QED
    BY <1>7, <1>8, <2>1, <2>3, <2>5
<1>18. ASSUME valued = rows
       PROVE  Balance(rows, price) = [value |-> value, cost |-> pnl.invested,
                                      profit |-> pnl.profit]
  <2>1. priced = rows /\ \A h \in rows : h.entry # NoAmount
    BY <1>2, <1>4, <1>18, WeekAssumption
  <2>2. [h \in rows |-> price[h.share] * h.qty] = worth /\ [h \in rows |-> h.entry * h.qty] = paid
    BY <1>18, <2>1 DEF worth, paid
  <2>3. Balance(rows, price) =
          [value |-> value, cost |-> pnl.invested,
           profit |-> IF pnl.invested = NoAmount THEN NoAmount ELSE value - pnl.invested]
    BY <1>7, <1>8, <2>1, <2>2 DEF Balance
  <2>4. pnl.invested # NoAmount
    BY <1>11, WeekAssumption
  <2>5. today = worth
    BY <1>6, <1>10, <1>18, <2>1
  <2> QED
    BY <1>7, <1>8, <1>16, <2>3, <2>4, <2>5
<1> QED
  BY <1>13, <1>14, <1>15, <1>16, <1>17, <1>18
     DEF priced, valued, weighed, value, pnl, price, SameFigures

------------------------------------------------------------------------------
(* TickerSync                                                               *)

USE SyncAssumption, MaxTimeAssumption

SyncTyped ==
    /\ now \in Nat /\ syncWake \in Nat /\ trouble \in Nat
    /\ listed \subseteq Listable
    /\ listedSince \in [Listable -> Nat]
    /\ sync \in [Syncers -> [stage : SyncStages, since : Nat, got : SUBSET Listable]]

(* The job is on time: it sleeps no longer than an interval, and a request  *)
(* of it is young.                                                          *)
OnTime ==
    IF sync[Job].stage = "idle"
    THEN now <= syncWake /\ syncWake <= now + SyncInterval
    ELSE sync[Job].since <= now /\ now <= sync[Job].since + AnswerTime

(* A time by which the job asks, again or still, for t.                     *)
InReach(t, time) == \/ time <= listedSince[t] + SyncInterval + AnswerTime
                    \/ time <= trouble + SyncRetry

(* What is missing will be asked for soon, or has been listed after the     *)
(* answer that the job is about to store.                                   *)
MissingInReach ==
    \A t \in listed \ catalogue :
        /\ listedSince[t] <= now
        /\ sync[Job].stage = "idle" => InReach(t, syncWake)
        /\ sync[Job].stage # "idle" => InReach(t, sync[Job].since)
        /\ sync[Job].stage = "storing" /\ t \notin sync[Job].got =>
             sync[Job].since <= listedSince[t]

SyncInv == SyncTyped /\ OnTime /\ MissingInReach

(* A step of one synchronisation leaves the others as they are.             *)
LEMMA OnlyOne ==
  ASSUME SyncTyped, NEW p \in Syncers,
         NEW x \in [stage : SyncStages, since : Nat, got : SUBSET Listable],
         sync' = [sync EXCEPT ![p] = x]
  PROVE  /\ sync' \in [Syncers -> [stage : SyncStages, since : Nat, got : SUBSET Listable]]
         /\ sync'[p] = x
         /\ Job \in Syncers
         /\ p # Job => sync'[Job] = sync[Job]
BY DEF SyncTyped, Syncers

(* A synchronisation can rest.                                              *)
LEMMA RestingTyped ==
  /\ Resting \in [stage : SyncStages, since : Nat, got : SUBSET Listable]
  /\ Resting.stage = "idle"
BY DEF Resting, SyncStages

(* The inductive invariant holds initially.                                 *)
LEMMA InitSync == ClockInit /\ SyncInit => SyncInv
<1> SUFFICES ASSUME ClockInit, SyncInit PROVE SyncInv
  OBVIOUS
<1>1. SyncTyped
  BY RestingTyped DEF ClockInit, SyncInit, SyncTyped
<1>2. sync[Job].stage = "idle"
  BY RestingTyped DEF SyncInit, Syncers
<1>3. OnTime /\ MissingInReach
  BY <1>2 DEF ClockInit, SyncInit, OnTime, MissingInReach, InReach
<1> QED
  BY <1>1, <1>3 DEF SyncInv

(* Asking keeps the invariant: the job asks at the end of its sleep.        *)
LEMMA AskKeeps ==
  ASSUME SyncInv, NEW p \in Syncers, SyncAsk(p), UNCHANGED now
  PROVE  SyncInv'
<1> DEFINE x == [stage |-> "asking", since |-> now, got |-> {}]
<1>1. x \in [stage : SyncStages, since : Nat, got : SUBSET Listable]
  BY DEF SyncInv, SyncTyped, SyncStages
<1>2. sync' = [sync EXCEPT ![p] = x]
  BY DEF SyncAsk
<1>3. SyncTyped' /\ sync'[p] = x /\ (p # Job => sync'[Job] = sync[Job])
  BY <1>1, <1>2, OnlyOne DEF SyncInv, SyncTyped, SyncAsk
<1>4. CASE p # Job
  BY <1>3, <1>4 DEF SyncInv, OnTime, MissingInReach, InReach, SyncAsk
<1>5. CASE p = Job
  <2>1. now = syncWake /\ sync[Job].stage = "idle"
    BY <1>5 DEF SyncInv, OnTime, SyncTyped, SyncAsk
  <2>2. sync'[Job].stage = "asking" /\ sync'[Job].since = now
    BY <1>3, <1>5
  <2>3. OnTime'
    BY <2>2 DEF SyncInv, OnTime, SyncTyped, SyncAsk
  <2>4. MissingInReach'
    BY <2>1, <2>2 DEF SyncInv, MissingInReach, InReach, SyncTyped, SyncAsk
  <2> QED
    BY <1>3, <2>3, <2>4 DEF SyncInv
<1> QED
  BY <1>4, <1>5

(* An answer keeps it: what is not in it is listed later.                   *)
LEMMA AnswerKeeps ==
  ASSUME SyncInv, NEW p \in Syncers, CollectorAnswers(p), UNCHANGED now
  PROVE  SyncInv'
<1> DEFINE x == [sync[p] EXCEPT !.stage = "storing", !.got = listed]
<1>1. x \in [stage : SyncStages, since : Nat, got : SUBSET Listable]
      /\ x.stage = "storing" /\ x.got = listed /\ x.since = sync[p].since
  BY DEF SyncInv, SyncTyped, SyncStages
<1>2. sync' = [sync EXCEPT ![p] = x]
  BY DEF CollectorAnswers, SyncInv, SyncTyped
<1> HIDE DEF x
<1>3. SyncTyped' /\ sync'[p] = x /\ (p # Job => sync'[Job] = sync[Job])
  BY <1>1, <1>2, OnlyOne DEF SyncInv, SyncTyped, CollectorAnswers
<1>4. CASE p # Job
  BY <1>3, <1>4 DEF SyncInv, OnTime, MissingInReach, InReach, CollectorAnswers
<1>5. CASE p = Job
  <2>1. sync[Job].stage = "asking"
    BY <1>5 DEF CollectorAnswers
  <2>2. /\ sync'[Job].stage = "storing" /\ sync'[Job].got = listed
        /\ sync'[Job].since = sync[Job].since
    BY <1>1, <1>3, <1>5
  <2>3. OnTime'
    BY <2>1, <2>2 DEF SyncInv, OnTime, CollectorAnswers
  <2>4. MissingInReach'
    BY <2>1, <2>2 DEF SyncInv, MissingInReach, InReach, CollectorAnswers
  <2> QED
    BY <1>3, <2>3, <2>4 DEF SyncInv
<1> QED
  BY <1>4, <1>5

(* Storing keeps it: the job sleeps an interval, and what is still missing  *)
(* was listed after it had asked.                                           *)
LEMMA StoreKeeps ==
  ASSUME SyncInv, NEW p \in Syncers, SyncStore(p), UNCHANGED now
  PROVE  SyncInv'
<1>1. sync'[p] = Resting /\ (p # Job => sync'[Job] = sync[Job])
      /\ sync' \in [Syncers -> [stage : SyncStages, since : Nat, got : SUBSET Listable]]
  BY RestingTyped, OnlyOne DEF SyncInv, SyncStore
<1>2. SyncTyped'
  BY <1>1 DEF SyncInv, SyncTyped, SyncStore
<1>3. CASE p # Job
  <2>1. /\ sync'[Job] = sync[Job] /\ syncWake' = syncWake /\ trouble' = trouble
        /\ listed' = listed /\ listedSince' = listedSince
        /\ listed' \ catalogue' \subseteq listed \ catalogue
    BY <1>1, <1>3 DEF SyncStore
  <2>2. OnTime'
    BY <2>1 DEF SyncInv, OnTime
  <2>3. MissingInReach'
    BY <2>1 DEF SyncInv, MissingInReach, InReach
  <2> QED
    BY <1>2, <2>2, <2>3 DEF SyncInv
<1>4. CASE p = Job
  <2>1. sync[Job].stage = "storing" /\ sync'[Job].stage = "idle"
        /\ syncWake' = now + SyncInterval
    BY <1>1, <1>4, RestingTyped DEF SyncStore
  <2>2. OnTime'
    BY <2>1 DEF SyncInv, OnTime, SyncTyped, SyncStore
  <2>3. MissingInReach'
    <3> SUFFICES ASSUME NEW t \in (listed \ catalogue)'
                 PROVE  listedSince[t] <= now
                        /\ syncWake' <= listedSince[t] + SyncInterval + AnswerTime
      BY <2>1 DEF MissingInReach, InReach, SyncStore
    <3>1. t \in listed \ catalogue /\ t \notin sync[Job].got
      BY <1>4 DEF SyncStore
    <3>2. sync[Job].since <= listedSince[t] /\ listedSince[t] <= now
      BY <2>1, <3>1 DEF SyncInv, MissingInReach
    <3>3. now <= sync[Job].since + AnswerTime
      BY <2>1 DEF SyncInv, OnTime
    <3>4. listedSince[t] \in Nat /\ sync[Job].since \in Nat /\ now \in Nat
      BY <3>1 DEF SyncInv, SyncTyped, Syncers
    <3> QED
      BY <2>1, <3>2, <3>3, <3>4
  <2> QED
    BY <1>2, <2>2, <2>3 DEF SyncInv
<1> QED
  BY <1>3, <1>4

(* A failure keeps it: the job tries again soon.                            *)
LEMMA FailureKeeps ==
  ASSUME SyncInv, NEW p \in Syncers, SyncFails(p), UNCHANGED now
  PROVE  SyncInv'
<1>1. sync'[p] = Resting /\ (p # Job => sync'[Job] = sync[Job])
      /\ sync' \in [Syncers -> [stage : SyncStages, since : Nat, got : SUBSET Listable]]
  BY RestingTyped, OnlyOne DEF SyncInv, SyncFails
<1>2. SyncTyped'
  BY <1>1 DEF SyncInv, SyncTyped, SyncFails
<1>3. CASE p # Job
  <2>1. /\ sync'[Job] = sync[Job] /\ syncWake' = syncWake /\ trouble' = trouble
        /\ listed' = listed /\ listedSince' = listedSince
        /\ listed' \ catalogue' \subseteq listed \ catalogue
    BY <1>1, <1>3 DEF SyncFails
  <2>2. OnTime'
    BY <2>1 DEF SyncInv, OnTime
  <2>3. MissingInReach'
    BY <2>1 DEF SyncInv, MissingInReach, InReach
  <2> QED
    BY <1>2, <2>2, <2>3 DEF SyncInv
<1>4. CASE p = Job
  <2>1. sync'[Job].stage = "idle" /\ syncWake' = now + SyncRetry /\ trouble' = now
    BY <1>1, <1>4, RestingTyped DEF SyncFails
  <2>2. OnTime' /\ MissingInReach'
    BY <2>1 DEF SyncInv, OnTime, MissingInReach, InReach, SyncTyped, SyncFails
  <2> QED
    BY <1>2, <2>2 DEF SyncInv
<1> QED
  BY <1>3, <1>4

(* Another list keeps it: what is new on it is listed since now.            *)
LEMMA RelistKeeps ==
  ASSUME SyncInv, NEW tickers \in SUBSET Listable, Relist(tickers), UNCHANGED now
  PROVE  SyncInv'
<1>1. SyncTyped' /\ OnTime'
  BY DEF SyncInv, SyncTyped, OnTime, Relist
<1>2. MissingInReach'
  <2> SUFFICES ASSUME NEW t \in tickers \ catalogue
               PROVE  /\ listedSince'[t] <= now
                      /\ sync[Job].stage = "idle" => InReach(t, syncWake)'
                      /\ sync[Job].stage # "idle" => InReach(t, sync[Job].since)'
                      /\ sync[Job].stage = "storing" /\ t \notin sync[Job].got =>
                           sync[Job].since <= listedSince'[t]
    BY DEF MissingInReach, Relist
  <2>1. CASE t \in listed
    BY <2>1 DEF SyncInv, MissingInReach, InReach, Relist
  <2>2. CASE t \notin listed
    <3>1. listedSince'[t] = now
      BY <2>2 DEF Relist
    <3>2. sync[Job].since \in Nat
      BY DEF SyncInv, SyncTyped, Syncers
    <3> QED
      BY <3>1, <3>2 DEF SyncInv, OnTime, SyncTyped, InReach, Relist
  <2> QED
    BY <2>1, <2>2
<1> QED
  BY <1>1, <1>2 DEF SyncInv

(* A restart keeps it: the job begins with a request.                       *)
LEMMA SyncRestartKeeps ==
  ASSUME SyncInv, SyncRestart, UNCHANGED now
  PROVE  SyncInv'
<1>1. SyncTyped'
  BY RestingTyped DEF SyncInv, SyncTyped, SyncRestart
<1>2. sync'[Job].stage = "idle" /\ syncWake' = now /\ trouble' = now
  BY RestingTyped DEF SyncRestart, Syncers
<1>3. OnTime' /\ MissingInReach'
  BY <1>2 DEF SyncInv, SyncTyped, OnTime, MissingInReach, InReach, SyncRestart
<1> QED
  BY <1>1, <1>3 DEF SyncInv

(* Time keeps it as long as the job is in time.                             *)
LEMMA SyncTickKeeps ==
  ASSUME SyncInv, InTime, Tick, UNCHANGED syncVars
  PROVE  SyncInv'
<1>1. sync[Job].since \in Nat
  BY DEF SyncInv, SyncTyped, Syncers
<1>2. SyncTyped' /\ OnTime'
  BY <1>1 DEF SyncInv, SyncTyped, OnTime, InTime, Tick, syncVars
<1>3. MissingInReach'
  BY DEF SyncInv, SyncTyped, MissingInReach, InReach, Tick, syncVars
<1> QED
  BY <1>2, <1>3 DEF SyncInv

(* Every step keeps the invariant.                                          *)
LEMMA NextSync == SyncInv /\ [SyncNext]_<<now, syncVars>> => SyncInv'
<1> SUFFICES ASSUME SyncInv, [SyncNext]_<<now, syncVars>> PROVE SyncInv'
  OBVIOUS
<1>1. CASE UNCHANGED <<now, syncVars>>
  BY <1>1 DEF SyncInv, SyncTyped, OnTime, MissingInReach, InReach, syncVars
<1>2. CASE SyncNext
  BY <1>2, AskKeeps, AnswerKeeps, StoreKeeps, FailureKeeps, RelistKeeps, SyncRestartKeeps,
     SyncTickKeeps DEF SyncNext
<1> QED
  BY <1>1, <1>2

(* A ticker the collector goes on listing gets into the catalogue in time,  *)
(* however many callers of the endpoint synchronise beside the job.         *)
THEOREM CatalogueInTime == SyncSpec => []CatalogueCatchesUp
<1>1. ClockInit /\ SyncInit => SyncInv
  BY InitSync
<1>2. SyncInv /\ [SyncNext]_<<now, syncVars>> => SyncInv'
  BY NextSync
<1>3. SyncInv => CatalogueCatchesUp
  <2> SUFFICES ASSUME SyncInv, NEW t \in listed \ catalogue
               PROVE  \/ now <= listedSince[t] + SyncInterval + 2 * AnswerTime
                      \/ now <= trouble + SyncRetry + AnswerTime
    BY DEF CatalogueCatchesUp
  <2>1. listedSince[t] \in Nat /\ sync[Job].since \in Nat
    BY DEF SyncInv, SyncTyped, Syncers
  <2>2. CASE sync[Job].stage = "idle"
    BY <2>1, <2>2 DEF SyncInv, SyncTyped, OnTime, MissingInReach, InReach
  <2>3. CASE sync[Job].stage # "idle"
    BY <2>1, <2>3 DEF SyncInv, SyncTyped, OnTime, MissingInReach, InReach
  <2> QED
    BY <2>2, <2>3
<1> QED
  BY <1>1, <1>2, <1>3, PTL DEF SyncSpec

(* Catalogue, synchronisations and clock are well-formed.                   *)
THEOREM SyncTypeCorrect == SyncSpec => []SyncTypeOK
<1> DEFINE Inv == now \in 0 .. MaxTime /\ SyncTypeOK
           Doing == [stage : SyncStages, since : 0 .. MaxTime, got : SUBSET Listable]
<1>1. ClockInit /\ SyncInit => Inv
  <2> SUFFICES ASSUME ClockInit, SyncInit PROVE Inv
    OBVIOUS
  <2>1. Resting \in Doing /\ now = 0 /\ now \in 0 .. MaxTime
    BY DEF Resting, SyncStages, ClockInit
  <2> QED
    BY <2>1 DEF SyncInit, SyncTypeOK
<1>2. Inv /\ [SyncNext]_<<now, syncVars>> => Inv'
  <2> SUFFICES ASSUME Inv, [SyncNext]_<<now, syncVars>> PROVE Inv'
    OBVIOUS
  <2>1. /\ now \in 0 .. MaxTime /\ now + SyncInterval \in 0 .. MaxTime + SyncInterval
        /\ now + SyncRetry \in 0 .. MaxTime + SyncInterval
        /\ now \in 0 .. MaxTime + SyncInterval
    OBVIOUS
  <2>2. Resting \in Doing
    BY DEF Resting, SyncStages
  <2>3. ASSUME UNCHANGED now, NEW p \in Syncers, SyncAsk(p) PROVE Inv'
    <3>1. [stage |-> "asking", since |-> now, got |-> {}] \in Doing
      BY DEF SyncStages
    <3> QED
      BY <2>1, <2>3, <3>1 DEF SyncAsk, SyncTypeOK
  <2>4. ASSUME UNCHANGED now, NEW p \in Syncers, CollectorAnswers(p) PROVE Inv'
    <3>1. sync[p] \in Doing /\ listed \in SUBSET Listable
      BY DEF SyncTypeOK
    <3>2. [sync[p] EXCEPT !.stage = "storing", !.got = listed] \in Doing
      BY <3>1 DEF SyncStages
    <3>3. sync' = [sync EXCEPT ![p] = [sync[p] EXCEPT !.stage = "storing", !.got = listed]]
      BY <2>4, <3>1 DEF CollectorAnswers, SyncTypeOK
    <3> QED
      BY <2>1, <2>4, <3>2, <3>3 DEF CollectorAnswers, SyncTypeOK
  <2>5. ASSUME UNCHANGED now, NEW p \in Syncers, SyncStore(p) PROVE Inv'
    <3>1. sync[p].got \in SUBSET Listable
      BY DEF SyncTypeOK
    <3> QED
      BY <2>1, <2>2, <2>5, <3>1 DEF SyncStore, SyncTypeOK
  <2>6. ASSUME UNCHANGED now, NEW p \in Syncers, SyncFails(p) PROVE Inv'
    BY <2>1, <2>2, <2>6 DEF SyncFails, SyncTypeOK
  <2>7. ASSUME UNCHANGED now, NEW tickers \in SUBSET Listable, Relist(tickers) PROVE Inv'
    BY <2>1, <2>7 DEF Relist, SyncTypeOK
  <2>8. CASE SyncRestart /\ UNCHANGED now
    BY <2>1, <2>2, <2>8 DEF SyncRestart, SyncTypeOK
  <2>9. CASE Tick /\ UNCHANGED syncVars
    BY <2>1, <2>9 DEF Tick, syncVars, SyncTypeOK
  <2>10. CASE UNCHANGED <<now, syncVars>>
    BY <2>10 DEF syncVars, SyncTypeOK
  <2> QED
    BY <2>3, <2>4, <2>5, <2>6, <2>7, <2>8, <2>9, <2>10 DEF SyncNext
<1>3. Inv => SyncTypeOK
  OBVIOUS
<1> QED
  BY <1>1, <1>2, <1>3, PTL DEF SyncSpec

HIDE SyncAssumption

------------------------------------------------------------------------------
(* WeeklyReport                                                             *)

USE PortfoliosAssumption

Fields == {"stage", "day", "rows", "quote", "todo", "tried"}

(* The shape of a run; its prices may be anything.                          *)
IsRun(run) ==
    /\ Fields \subseteq DOMAIN run
    /\ run.stage \in ReportStages /\ run.day \in Int
    /\ run.rows = {} \/ run.rows \in Portfolios

Told == {u \in Owners : HasLines(u)}

(* Between the mails, who has something to be told was mailed or will be,   *)
(* and nobody else was.                                                     *)
ToldOrToDo ==
    IF report.stage = "mails"
    THEN report.tried \subseteq Told /\ Told \subseteq report.tried \cup report.todo
    ELSE report.tried = {}

ReportInv == now \in Int /\ IsRun(report) /\ ToldOrToDo

(* A run that has not begun is a run.                                       *)
LEMMA NoRunTyped ==
  ASSUME NEW day \in Int
  PROVE  IsRun(NoRun(day)) /\ NoRun(day).stage = "sleeping" /\ NoRun(day).tried = {}
BY DEF NoRun, IsRun, Fields, ReportStages

(* The owners of holdings are owners.                                       *)
LEMMA OwnersOfRows ==
  ASSUME NEW rows \in Portfolios
  PROVE  {h.owner : h \in rows} \subseteq Owners
OBVIOUS

(* Who has something to be told owns something.                             *)
LEMMA ToldOwn ==
  ASSUME NEW rows, NEW quote
  PROVE  {u \in Owners : ReportLines(Of(u, rows), quote) # {}} \subseteq {h.owner : h \in rows}
<1> SUFFICES ASSUME NEW u \in Owners, ReportLines(Of(u, rows), quote) # {}
             PROVE  u \in {h.owner : h \in rows}
  OBVIOUS
<1>1. PICK h \in Of(u, rows) : TRUE
  BY DEF ReportLines
<1> QED
  BY <1>1 DEF Of

(* The inductive invariant holds initially.                                 *)
LEMMA InitReport == ClockInit /\ ReportInit => ReportInv
<1> SUFFICES ASSUME ClockInit, ReportInit PROVE ReportInv
  OBVIOUS
<1>1. IsRun(report) /\ report.stage = "sleeping" /\ report.tried = {}
  BY NoRunTyped DEF ReportInit
<1> QED
  BY <1>1 DEF ReportInv, ClockInit, ToldOrToDo

(* Going to sleep keeps it.                                                 *)
LEMMA SleepKeeps ==
  ASSUME ReportInv, now' = now, report' = NoRun(report.day)
  PROVE  ReportInv'
<1>1. report.day \in Int
  BY DEF ReportInv, IsRun
<1>2. IsRun(report') /\ report'.stage = "sleeping" /\ report'.tried = {}
  BY <1>1, NoRunTyped
<1> QED
  BY <1>2 DEF ReportInv, ToldOrToDo, IsRun

(* A run begins, and reads the holdings.                                    *)
LEMMA BeginKeeps ==
  ASSUME ReportInv, now' = now, Check \/ ReadHoldings
  PROVE  ReportInv'
<1>1. CASE report' = NoRun(report.day)
  BY <1>1, SleepKeeps
<1>2. report.stage # "mails"
  BY DEF Check, ReadHoldings
<1>3. CASE report' = [report EXCEPT !.stage = "holdings", !.day = Day(now)]
  <2>1. Day(now) \in Int
    BY IntervalAssumption DEF ReportInv, Day
  <2> QED
    BY <1>2, <1>3, <2>1 DEF ReportInv, IsRun, Fields, ReportStages, ToldOrToDo
<1>4. ASSUME NEW rows \in Portfolios \ {{}},
             report' = [report EXCEPT !.stage = "prices", !.rows = rows]
      PROVE  ReportInv'
  BY <1>2, <1>4 DEF ReportInv, IsRun, Fields, ReportStages, ToldOrToDo
<1> QED
  BY <1>1, <1>3, <1>4 DEF Check, ReadHoldings, Sleep

(* When the prices are known everybody with a holding is to do.             *)
LEMMA PricesKeep ==
  ASSUME ReportInv, now' = now, FetchPrices
  PROVE  ReportInv'
<1>1. CASE report' = NoRun(report.day)
  BY <1>1, SleepKeeps
<1>2. ASSUME NEW quote \in [Shares(report.rows) -> Quotes],
             report' = [report EXCEPT !.stage = "mails", !.quote = quote,
                                      !.todo = {h.owner : h \in report.rows}]
      PROVE  ReportInv'
  <2>1. report.stage = "prices" /\ IsRun(report) /\ report.tried = {}
    BY DEF FetchPrices, ReportInv, ToldOrToDo
  <2>2. /\ IsRun(report') /\ report'.stage = "mails" /\ report'.tried = {}
        /\ report'.todo = {h.owner : h \in report'.rows}
    BY <1>2, <2>1 DEF IsRun, Fields, ReportStages
  <2>3. Told' \subseteq report'.todo
    BY <2>2, ToldOwn DEF Told, HasLines
  <2> QED
    BY <2>2, <2>3 DEF ReportInv, ToldOrToDo, IsRun
<1> QED
  BY <1>1, <1>2 DEF FetchPrices, Sleep

(* A mail is for somebody who is to do and has something to be told.        *)
LEMMA MailKeeps ==
  ASSUME ReportInv, now' = now, NEW u \in Owners, MailOwner(u)
  PROVE  ReportInv'
<1>1. /\ report.stage = "mails" /\ u \in report.todo
      /\ report' = [report EXCEPT !.todo = @ \ {u},
                                  !.tried = IF HasLines(u) THEN @ \cup {u} ELSE @]
  BY DEF MailOwner
<1>2. /\ IsRun(report') /\ report'.stage = "mails"
      /\ report'.rows = report.rows /\ report'.quote = report.quote
      /\ report'.todo = report.todo \ {u}
      /\ report'.tried = IF HasLines(u) THEN report.tried \cup {u} ELSE report.tried
  BY <1>1 DEF ReportInv, IsRun, Fields
<1>3. \A v : HasLines(v)' <=> HasLines(v)
  BY <1>2 DEF HasLines
<1>4. Told' = Told
  BY <1>3 DEF Told
<1>5. u \in Told <=> HasLines(u)
  BY DEF Told
<1>6. report.tried \subseteq Told /\ Told \subseteq report.tried \cup report.todo
  BY <1>1 DEF ReportInv, ToldOrToDo
<1>7. report'.tried \subseteq Told /\ Told \subseteq report'.tried \cup report'.todo
  BY <1>2, <1>5, <1>6
<1> QED
  BY <1>2, <1>4, <1>7 DEF ReportInv, ToldOrToDo, IsRun

(* Every step keeps the invariant.                                          *)
LEMMA NextReport == ReportInv /\ [ReportNext]_<<now, reportVars>> => ReportInv'
<1> SUFFICES ASSUME ReportInv, [ReportNext]_<<now, reportVars>> PROVE ReportInv'
  OBVIOUS
<1>1. CASE now' \in Int /\ UNCHANGED reportVars
  BY <1>1 DEF ReportInv, reportVars, ToldOrToDo, Told, HasLines, IsRun
<1>2. CASE EndRun /\ UNCHANGED now
  BY <1>2, SleepKeeps DEF EndRun, Sleep
<1>3. CASE ReportRestart /\ UNCHANGED now
  BY <1>3, SleepKeeps DEF ReportRestart, Boot
<1>4. CASE UNCHANGED <<now, reportVars>>
  BY <1>1, <1>4 DEF ReportInv
<1>5. CASE Tick /\ UNCHANGED reportVars
  BY <1>1, <1>5 DEF ReportInv, Tick
<1> QED
  BY <1>2, <1>3, <1>4, <1>5, BeginKeeps, PricesKeep, MailKeeps DEF ReportNext

(* A run that no restart cuts short has mailed everybody with a share that  *)
(* could be priced, whichever mails fail.                                   *)
THEOREM EverybodyIsMailed == ReportSpec => NobodyIsForgotten
<1>1. ClockInit /\ ReportInit => ReportInv
  BY InitReport
<1>2. ReportInv /\ [ReportNext]_<<now, reportVars>> => ReportInv'
  BY NextReport
<1>3. ReportInv /\ [ReportNext]_<<now, reportVars>>
      => [report.stage = "mails" /\ report'.stage = "sleeping" /\ boot' # now
            => report.tried = {u \in Owners : HasLines(u)}]_report
  <2> SUFFICES ASSUME ReportInv, [ReportNext]_<<now, reportVars>>,
                      report.stage = "mails", report'.stage = "sleeping", boot' # now
               PROVE  report.tried = Told
    BY DEF Told
  <2>1. CASE EndRun
    BY <2>1 DEF EndRun, ReportInv, ToldOrToDo
  <2>2. CASE ReportRestart
    BY <2>2 DEF ReportRestart, Boot
  <2>3. ASSUME NEW u \in Owners, MailOwner(u) PROVE FALSE
    BY <2>3 DEF MailOwner, ReportInv, IsRun, Fields
  <2>4. CASE Check \/ ReadHoldings \/ FetchPrices
    BY <2>4 DEF Check, ReadHoldings, FetchPrices
  <2>5. CASE UNCHANGED reportVars
    BY <2>5 DEF reportVars
  <2> QED
    BY <2>1, <2>2, <2>3, <2>4, <2>5 DEF ReportNext, reportVars
<1> QED
  BY <1>1, <1>2, <1>3, PTL DEF ReportSpec, NobodyIsForgotten

------------------------------------------------------------------------------
(* Days and weeks.                                                          *)

(* What \div and % are.                                                     *)
LEMMA Division ==
  ASSUME NEW x \in Nat, NEW d \in Nat \ {0}
  PROVE  /\ x \div d \in Nat
         /\ x = d * (x \div d) + (x % d) /\ x % d \in 0 .. d - 1
OBVIOUS

(* A later instant is not of an earlier day.                                *)
LEMMA DayGrows ==
  ASSUME NEW x \in Nat, NEW y \in Nat, x <= y
  PROVE  Day(x) \in Nat /\ Day(x) <= Day(y)
<1>1. \A d \in Nat \ {0} : x \div d \in Nat /\ x \div d <= y \div d
  OBVIOUS
<1> QED
  BY <1>1, IntervalAssumption DEF Day

(* A sleep ends on a later day.                                             *)
LEMMA SleepIsADay ==
  ASSUME NEW x \in Nat
  PROVE  x + Interval \in Nat /\ Day(x) < Day(x + Interval)
<1>1. \A y, d \in Nat : d # 0 /\ x + d <= y => (x \div d) + 1 <= y \div d
  OBVIOUS
<1>2. x + Interval \in Nat /\ x + DayLength <= x + Interval
  BY IntervalAssumption
<1>3. Day(x) + 1 <= Day(x + Interval)
  BY <1>1, <1>2, IntervalAssumption DEF Day
<1>4. Day(x) \in Nat /\ Day(x + Interval) \in Nat
  BY <1>2, DayGrows
<1> QED
  BY <1>2, <1>3, <1>4

(* Two days of the same weekday are a week apart.                           *)
LEMMA WeekApart ==
  ASSUME NEW x \in Nat, NEW y \in Nat, NEW d \in Nat \ {0}, x < y, x % d = y % d
  PROVE  x + d <= y
<1> DEFINE a == x \div d
           b == y \div d
<1>1. /\ a \in Nat /\ b \in Nat /\ x = d * a + (x % d) /\ y = d * b + (y % d)
      /\ x % d \in 0 .. d - 1 /\ y % d \in 0 .. d - 1
  BY Division
<1> HIDE DEF a, b
<1>2. d * (b - a) = d * b - d * a
  BY <1>1
<1>3. d * (b - a) = y - x
  BY <1>1, <1>2
<1>4. b > a
  BY <1>1, <1>3
<1>5. d * (b - a) >= d
  BY <1>1, <1>4
<1> QED
  BY <1>3, <1>5

(* day is one of the report and not in the future.                          *)
OfReport(day) == day \in Nat /\ day % WeekDays = ReportDay /\ day <= Day(now)

(* The sleep ends after the day of every report that was mailed; a run is   *)
(* of a later day than the last report of whoever it has not tried yet.     *)
Weekly ==
    /\ now \in Nat /\ wake \in Nat
    /\ mailedOn \in [Owners -> Int]
    /\ \A u \in Owners : mailedOn[u] # -1 => OfReport(mailedOn[u])
    /\ IF report.stage = "sleeping"
       THEN \A u \in Owners : mailedOn[u] # -1 => mailedOn[u] < Day(wake)
       ELSE /\ OfReport(report.day)
            /\ \A u \in Owners \ report.tried :
                 mailedOn[u] # -1 => mailedOn[u] < report.day

WInv == ReportInv /\ Weekly

(* Nobody was mailed when the process starts for the first time.            *)
LEMMA InitWeekly == ClockInit /\ ReportInit => Weekly
<1> SUFFICES ASSUME ClockInit, ReportInit PROVE Weekly
  OBVIOUS
<1>1. now \in Nat /\ wake \in Nat
  BY SleepIsADay DEF ClockInit, ReportInit
<1>2. report.stage = "sleeping"
  BY NoRunTyped DEF ReportInit
<1>3. mailedOn \in [Owners -> Int] /\ \A u \in Owners : mailedOn[u] = -1
  BY DEF ReportInit
<1> QED
  BY <1>1, <1>2, <1>3 DEF Weekly

(* Going to sleep, for a day or more, keeps it.                             *)
LEMMA SleepWeekly ==
  ASSUME WInv, now' = now, wake' = now + Interval, report' = NoRun(report.day),
         mailedOn' = mailedOn
  PROVE  Weekly'
<1>1. report'.stage = "sleeping"
  BY NoRunTyped DEF WInv, ReportInv, IsRun
<1>2. /\ now \in Nat /\ wake' \in Nat
      /\ Day(now) < Day(wake') /\ Day(now) \in Nat /\ Day(wake') \in Nat
  BY SleepIsADay, DayGrows DEF WInv, Weekly
<1>3. \A u \in Owners : mailedOn'[u] # -1 => mailedOn'[u] < Day(wake')
  BY <1>2 DEF WInv, Weekly, OfReport
<1> QED
  BY <1>1, <1>2, <1>3 DEF WInv, Weekly, OfReport, Day

(* A run begins after the sleep, on a later day than every report.          *)
LEMMA CheckWeekly ==
  ASSUME WInv, now' = now, Check
  PROVE  Weekly'
<1>1. CASE report' = NoRun(report.day) /\ wake' = now + Interval
  BY <1>1, SleepWeekly DEF Check
<1>2. CASE IsReportDay(now) /\ report' = [report EXCEPT !.stage = "holdings", !.day = Day(now)]
  <2>1. /\ report.stage = "sleeping" /\ now >= wake /\ wake' = wake /\ mailedOn' = mailedOn
        /\ report.tried = {}
    BY <1>2 DEF Check, WInv, ReportInv, ToldOrToDo, Sleep, IsRun, Fields, NoRun
  <2>2. Day(wake) \in Nat /\ Day(now) \in Nat /\ Day(wake) <= Day(now)
    BY <2>1, DayGrows DEF WInv, Weekly
  <2>3. report'.stage = "holdings" /\ report'.day = Day(now) /\ report'.tried = report.tried
    BY <1>2 DEF WInv, ReportInv, IsRun, Fields
  <2>4. Day(now) % WeekDays = ReportDay
    BY <1>2 DEF IsReportDay
  <2>5. \A u \in Owners : mailedOn[u] # -1 => mailedOn[u] < Day(now)
    BY <2>1, <2>2 DEF WInv, Weekly
  <2> QED
    BY <2>1, <2>2, <2>3, <2>4, <2>5 DEF WInv, Weekly, OfReport, Day
<1> QED
  BY <1>1, <1>2 DEF Check, Sleep

(* What a run reads and asks for changes neither its day nor who was        *)
(* mailed.                                                                  *)
LEMMA RunWeekly ==
  ASSUME WInv, now' = now, wake' = wake, mailedOn' = mailedOn,
         report.stage # "sleeping", report'.stage # "sleeping",
         report'.day = report.day, report'.tried = report.tried
  PROVE  Weekly'
BY DEF WInv, Weekly, OfReport, Day

(* A mail is of the day of the run.                                         *)
LEMMA MailWeekly ==
  ASSUME WInv, now' = now, NEW u \in Owners, MailOwner(u)
  PROVE  Weekly'
<1>1. /\ report'.stage = "mails" /\ report'.day = report.day /\ report.stage = "mails"
      /\ report'.tried = IF HasLines(u) THEN report.tried \cup {u} ELSE report.tried
  BY DEF MailOwner, WInv, ReportInv, IsRun, Fields
<1>2. /\ wake' = wake
      /\ \/ mailedOn' = mailedOn
         \/ HasLines(u) /\ mailedOn' = [mailedOn EXCEPT ![u] = report.day]
  BY DEF MailOwner
<1>3. OfReport(report.day)
  BY <1>1 DEF WInv, Weekly
<1>4. /\ mailedOn' \in [Owners -> Int]
      /\ \A v \in Owners : mailedOn'[v] # -1 => OfReport(mailedOn'[v])
  BY <1>2, <1>3 DEF WInv, Weekly, OfReport
<1>5. \A v \in Owners \ report'.tried : mailedOn'[v] # -1 => mailedOn'[v] < report'.day
  BY <1>1, <1>2 DEF WInv, Weekly
<1> QED
  BY <1>1, <1>2, <1>3, <1>4, <1>5 DEF WInv, Weekly, OfReport, Day

(* Time passes.                                                             *)
LEMMA TickWeekly ==
  ASSUME WInv, Tick, UNCHANGED reportVars
  PROVE  Weekly'
<1>1. now \in Nat /\ now' \in Nat /\ Day(now) <= Day(now') /\ Day(now) \in Nat
      /\ Day(now') \in Nat
  BY DayGrows DEF WInv, Weekly, Tick
<1> QED
  BY <1>1 DEF WInv, Weekly, OfReport, Day, reportVars

(* Every step keeps the invariant.                                          *)
LEMMA NextWeekly == WInv /\ [ReportNext]_<<now, reportVars>> => WInv'
<1> SUFFICES ASSUME WInv, [ReportNext]_<<now, reportVars>> PROVE Weekly'
  BY NextReport DEF WInv
<1>1. CASE UNCHANGED <<now, reportVars>>
  BY <1>1 DEF WInv, Weekly, OfReport, Day, reportVars
<1>2. CASE ReadHoldings /\ UNCHANGED now
  <2>1. CASE Sleep
    BY <1>2, <2>1, SleepWeekly DEF ReadHoldings, Sleep
  <2>2. ASSUME NEW rows, UNCHANGED wake,
               report' = [report EXCEPT !.stage = "prices", !.rows = rows]
        PROVE  Weekly'
    <3>1. /\ report.stage = "holdings" /\ report'.stage = "prices"
          /\ report'.day = report.day /\ report'.tried = report.tried
      BY <1>2, <2>2 DEF ReadHoldings, WInv, ReportInv, IsRun, Fields
    <3> QED
      BY <1>2, <2>2, <3>1, RunWeekly DEF ReadHoldings
  <2> QED
    BY <1>2, <2>1, <2>2 DEF ReadHoldings
<1>3. CASE FetchPrices /\ UNCHANGED now
  <2>1. CASE Sleep
    BY <1>3, <2>1, SleepWeekly DEF FetchPrices, Sleep
  <2>2. ASSUME NEW quote, UNCHANGED wake,
               report' = [report EXCEPT !.stage = "mails", !.quote = quote,
                                        !.todo = {h.owner : h \in report.rows}]
        PROVE  Weekly'
    <3>1. /\ report.stage = "prices" /\ report'.stage = "mails"
          /\ report'.day = report.day /\ report'.tried = report.tried
      BY <1>3, <2>2 DEF FetchPrices, WInv, ReportInv, IsRun, Fields
    <3> QED
      BY <1>3, <2>2, <3>1, RunWeekly DEF FetchPrices
  <2> QED
    BY <1>3, <2>1, <2>2 DEF FetchPrices
<1>4. CASE EndRun /\ UNCHANGED now
  BY <1>4, SleepWeekly DEF EndRun, Sleep
<1>5. CASE ReportRestart /\ UNCHANGED now
  BY <1>5, SleepWeekly DEF ReportRestart, Boot
<1> QED
  BY <1>1, <1>2, <1>3, <1>4, <1>5, CheckWeekly, MailWeekly, TickWeekly DEF ReportNext

(* "Este mail se envia una vez por semana": nobody who got the report of a  *)
(* week is written to before another week, across restarts, late timers and *)
(* runs of any length (spawn_weekly_report_job, send_weekly_reports).       *)
THEOREM OncePerWeek == ReportSpec => AtMostOneReportAWeek
<1>1. ClockInit /\ ReportInit => WInv
  BY InitReport, InitWeekly DEF WInv
<1>2. WInv /\ [ReportNext]_<<now, reportVars>> => WInv'
  BY NextWeekly
<1>3. WInv /\ [ReportNext]_<<now, reportVars>>
      => [\A u \in report'.tried \ report.tried :
            mailedOn[u] # -1 => report.day >= mailedOn[u] + WeekDays]_report
  <2> SUFFICES ASSUME WInv, [ReportNext]_<<now, reportVars>>,
                      NEW u \in report'.tried \ report.tried, mailedOn[u] # -1
               PROVE  report.day >= mailedOn[u] + WeekDays
    OBVIOUS
  <2>1. CASE \E v \in Owners : MailOwner(v)
    <3>1. u \in Owners /\ report.stage = "mails"
      BY <2>1 DEF MailOwner, WInv, ReportInv, IsRun, Fields
    <3>2. OfReport(report.day) /\ OfReport(mailedOn[u]) /\ mailedOn[u] < report.day
      BY <3>1 DEF WInv, Weekly
    <3> QED
      BY <3>2, WeekApart, WeekAssumption DEF OfReport
  <2>2. CASE report' = NoRun(report.day)
    BY <2>2, NoRunTyped DEF WInv, ReportInv, IsRun
  <2>3. CASE Check \/ ReadHoldings \/ FetchPrices
    BY <2>2, <2>3 DEF Check, ReadHoldings, FetchPrices, Sleep, WInv, ReportInv, IsRun, Fields
  <2>4. CASE UNCHANGED report
    BY <2>4
  <2> QED
    BY <2>1, <2>2, <2>3, <2>4 DEF ReportNext, EndRun, Sleep, ReportRestart, Boot, reportVars
<1> QED
  BY <1>1, <1>2, <1>3, PTL DEF ReportSpec, AtMostOneReportAWeek

------------------------------------------------------------------------------
(* When a week is lost.                                                     *)

(* A sleep of a job that is not disturbed began on a day without a report,  *)
(* after the run of that day, or at the start of the process.               *)
SleptFrom(s) ==
    /\ s <= now /\ wake = s + Interval
    /\ s = boot \/ ~IsReportDay(s) \/ report.day = Day(s)

(* A run ends before the next report day (EndsInTime).                      *)
Undisturbed ==
    IF report.stage = "sleeping" THEN \E s \in Nat : SleptFrom(s)
    ELSE Day(now) < report.day + WeekDays

SInv == WInv /\ Undisturbed

(* A day later.                                                             *)
LEMMA NextDay ==
  ASSUME NEW x \in Nat
  PROVE  x + DayLength \in Nat /\ Day(x + DayLength) = Day(x) + 1
<1>1. \A d \in Nat \ {0} : x + d \in Nat /\ (x + d) \div d = (x \div d) + 1
  OBVIOUS
<1> QED
  BY <1>1, IntervalAssumption DEF Day

(* A run that still goes on is of today, if today is a report day.          *)
LEMMA RunIsOfToday ==
  ASSUME SInv, report.stage # "sleeping", IsReportDay(now)
  PROVE  report.day = Day(now)
<1>1. /\ report.day \in Nat /\ report.day % WeekDays = ReportDay
      /\ report.day <= Day(now) /\ Day(now) < report.day + WeekDays
  BY DEF SInv, WInv, Weekly, OfReport, Undisturbed
<1>2. Day(now) \in Nat /\ Day(now) % WeekDays = ReportDay
  BY DayGrows DEF SInv, WInv, Weekly, IsReportDay
<1>3. CASE report.day < Day(now)
  BY <1>1, <1>2, <1>3, WeekApart, WeekAssumption
<1> QED
  BY <1>1, <1>2, <1>3

(* Going to sleep keeps it: after a run, or on a day without a report.      *)
LEMMA SleepUndisturbed ==
  ASSUME SInv, now' = now, wake' = now + Interval, report' = NoRun(report.day),
         report.stage = "sleeping" => ~IsReportDay(now) \/ boot' = now
  PROVE  Undisturbed'
<1>1. report'.stage = "sleeping" /\ report'.day = report.day /\ now \in Nat
  BY NoRunTyped DEF SInv, WInv, Weekly, ReportInv, IsRun, NoRun
<1>2. ~IsReportDay(now) \/ report.day = Day(now) \/ boot' = now
  BY RunIsOfToday
<1>3. SleptFrom(now)'
  BY <1>1, <1>2 DEF SleptFrom, IsReportDay, Day
<1>4. \E s \in Nat : SleptFrom(s)'
  BY <1>1, <1>3 DEF SleptFrom
<1> QED
  BY <1>1, <1>4 DEF Undisturbed

(* The job sleeps on, or its run goes on.                                   *)
LEMMA StayUndisturbed ==
  ASSUME SInv, UNCHANGED <<now, wake, boot>>, report'.day = report.day,
         report'.stage = "sleeping" <=> report.stage = "sleeping"
  PROVE  Undisturbed'
BY DEF SInv, Undisturbed, SleptFrom, IsReportDay, Day

(* A check begins a run of today or goes back to sleep.                     *)
LEMMA CheckUndisturbed ==
  ASSUME SInv, now' = now, Check
  PROVE  Undisturbed'
<1>1. CASE ~IsReportDay(now)
  BY <1>1, SleepUndisturbed DEF Check, Sleep
<1>2. CASE IsReportDay(now)
  <2>0. Day(now) \in Nat
    BY DayGrows DEF SInv, WInv, Weekly
  <2>1. report'.stage = "holdings" /\ report'.day = Day(now) /\ Day(now) \in Nat
    BY <1>2, <2>0 DEF Check, SInv, WInv, ReportInv, IsRun, Fields
  <2>2. Day(now') = Day(now) /\ Day(now) < Day(now) + WeekDays
    BY <2>1, WeekAssumption
  <2>3. report'.stage # "sleeping" /\ Day(now') < report'.day + WeekDays
    BY <2>1, <2>2
  <2>4. (Day(now))' = Day(now')
    BY DEF Day
  <2> QED
    BY <2>3, <2>4 DEF Undisturbed
<1> QED
  BY <1>1, <1>2

(* Every step keeps the invariant.                                          *)
LEMMA NextUndisturbed == SInv /\ [ReportNext]_<<now, reportVars>> => SInv'
<1> SUFFICES ASSUME SInv, [ReportNext]_<<now, reportVars>> PROVE Undisturbed'
  BY NextWeekly DEF SInv
<1>1. CASE UNCHANGED <<now, reportVars>>
  BY <1>1, StayUndisturbed DEF reportVars
<1>2. CASE ReadHoldings /\ UNCHANGED now
  <2>1. CASE Sleep
    BY <1>2, <2>1, SleepUndisturbed DEF ReadHoldings, Sleep
  <2>2. ASSUME NEW rows, UNCHANGED wake,
               report' = [report EXCEPT !.stage = "prices", !.rows = rows]
        PROVE  Undisturbed'
    BY <1>2, <2>2, StayUndisturbed DEF ReadHoldings, SInv, WInv, ReportInv, IsRun, Fields
  <2> QED
    BY <1>2, <2>1, <2>2 DEF ReadHoldings
<1>3. CASE FetchPrices /\ UNCHANGED now
  <2>1. CASE Sleep
    BY <1>3, <2>1, SleepUndisturbed DEF FetchPrices, Sleep
  <2>2. ASSUME NEW quote, UNCHANGED wake,
               report' = [report EXCEPT !.stage = "mails", !.quote = quote,
                                        !.todo = {h.owner : h \in report.rows}]
        PROVE  Undisturbed'
    BY <1>3, <2>2, StayUndisturbed DEF FetchPrices, SInv, WInv, ReportInv, IsRun, Fields
  <2> QED
    BY <1>3, <2>1, <2>2 DEF FetchPrices
<1>4. CASE EndRun /\ UNCHANGED now
  BY <1>4, SleepUndisturbed DEF EndRun, Sleep
<1>5. CASE ReportRestart /\ UNCHANGED now
  BY <1>5, SleepUndisturbed DEF ReportRestart, Boot
<1>6. ASSUME NEW u \in Owners, MailOwner(u), UNCHANGED now PROVE Undisturbed'
  BY <1>6, StayUndisturbed DEF MailOwner, SInv, WInv, ReportInv, IsRun, Fields
<1>7. CASE EndsInTime /\ Tick /\ UNCHANGED reportVars
  <2>1. now \in Nat /\ now' = now + 1
    BY <1>7 DEF SInv, WInv, Weekly, Tick
  <2>2. CASE report.stage = "sleeping"
    BY <1>7, <2>1, <2>2 DEF SInv, Undisturbed, SleptFrom, IsReportDay, Day, reportVars
  <2>3. CASE report.stage # "sleeping"
    BY <1>7, <2>1, <2>3 DEF EndsInTime, Undisturbed, Day, reportVars
  <2> QED
    BY <2>2, <2>3
<1> QED
  BY <1>1, <1>2, <1>3, <1>4, <1>5, <1>6, <1>7, CheckUndisturbed DEF ReportNext

(* The process starts with a sleep.                                         *)
LEMMA InitUndisturbed == ClockInit /\ ReportInit => Undisturbed
<1> SUFFICES ASSUME ClockInit, ReportInit PROVE Undisturbed
  OBVIOUS
<1>1. report.stage = "sleeping"
  BY NoRunTyped DEF ReportInit
<1>2. now \in Nat /\ SleptFrom(now)
  BY DEF SleptFrom, ClockInit, ReportInit
<1> QED
  BY <1>1, <1>2 DEF Undisturbed

(* The sleep that drifts with every run (spawn_weekly_report_job) loses no  *)
(* week: a report day goes by without a run only if the process was started *)
(* on it or the job is late at its midnight.                                *)
THEOREM OnlyDisturbedWeeksAreLost == ReportSpec => SkippedOnlyWhenDisturbed
<1>1. ClockInit /\ ReportInit => SInv
  BY InitReport, InitWeekly, InitUndisturbed DEF SInv, WInv
<1>2. SInv /\ [ReportNext]_<<now, reportVars>> => SInv'
  BY NextUndisturbed
<1>3. SInv /\ [ReportNext]_<<now, reportVars>>
      => [IsReportDay(now) /\ Day(now') # Day(now) /\ Interval = DayLength
            => report.day = Day(now) \/ Day(boot) = Day(now) \/ now >= wake]_now
  <2> SUFFICES ASSUME SInv, [ReportNext]_<<now, reportVars>>, IsReportDay(now),
                      Day(now') # Day(now), Interval = DayLength, ~(now >= wake)
               PROVE  report.day = Day(now) \/ Day(boot) = Day(now)
    OBVIOUS
  <2>0. Tick
    BY DEF ReportNext
  <2>1. CASE report.stage # "sleeping"
    BY <2>1, RunIsOfToday
  <2>2. CASE report.stage = "sleeping"
    <3>1. PICK s \in Nat : SleptFrom(s)
      BY <2>2 DEF SInv, Undisturbed
    <3>2. now \in Nat /\ now' = now + 1 /\ s <= now /\ now + 1 <= s + DayLength
      BY <2>0, <3>1, IntervalAssumption DEF SInv, WInv, Weekly, Tick, SleptFrom
    <3>3. Day(s + DayLength) = Day(s) + 1 /\ Day(s) <= Day(now) /\ Day(s) \in Nat
      BY <3>2, NextDay, DayGrows
    <3>4. Day(now) <= Day(now + 1) /\ Day(now + 1) <= Day(s + DayLength)
      BY <3>2, NextDay, DayGrows
    <3>5. Day(now) \in Nat /\ Day(now + 1) \in Nat
      BY <3>2, DayGrows
    <3>6. Day(s) = Day(now)
      BY <3>2, <3>3, <3>4, <3>5
    <3> QED
      BY <3>1, <3>6 DEF SleptFrom, IsReportDay
  <2> QED
    BY <2>1, <2>2
<1> QED
  BY <1>1, <1>2, <1>3, PTL DEF ReportSpec, SkippedOnlyWhenDisturbed
------------------------------------------------------------------------------
(* What a run tells                                                         *)

(* Between the mails every share of the run has a quote.                    *)
Quoted == report.stage = "mails" => report.quote \in [Shares(report.rows) -> Quotes]

(* The holdings of an owner in a run, and their quotes, are well-formed.    *)
LEMMA RunTyped ==
  ASSUME ReportInv, Quoted, report.stage = "mails", NEW u \in Owners
  PROVE  /\ IsHoldings(Of(u, report.rows))
         /\ \A h \in Of(u, report.rows) :
              h.share \in DOMAIN report.quote /\ IsQuote(report.quote[h.share])
<1>1. /\ IsFiniteSet(report.rows)
      /\ \A h \in report.rows : h.qty \in Nat \ {0} /\ h.entry \in Int \cup {NoAmount}
  <2>1. CASE report.rows = {}
    BY <2>1, FS_EmptySet
  <2>2. CASE report.rows \in Portfolios
    BY <2>2
  <2> QED
    BY <2>1, <2>2 DEF ReportInv, IsRun
<1>2. Of(u, report.rows) \subseteq report.rows
  BY DEF Of
<1>3. IsHoldings(Of(u, report.rows))
  BY <1>1, <1>2, FS_Subset DEF IsHoldings
<1>4. ASSUME NEW h \in report.rows
      PROVE  h.share \in DOMAIN report.quote /\ IsQuote(report.quote[h.share])
  <2>1. h.share \in Shares(report.rows)
    BY DEF Shares
  <2>2. h.share \in DOMAIN report.quote /\ report.quote[h.share] \in Quotes
    BY <2>1 DEF Quoted
  <2> QED
    BY <2>2, QuotesTyped
<1> QED
  BY <1>2, <1>3, <1>4

(* The quotes stay those of the run.                                        *)
LEMMA QuotedAlways == ReportSpec => [](ReportInv /\ Quoted)
<1>1. ClockInit /\ ReportInit => ReportInv /\ Quoted
  <2> SUFFICES ASSUME ClockInit, ReportInit PROVE Quoted
    BY InitReport
  <2>1. report.stage = "sleeping"
    BY NoRunTyped DEF ReportInit
  <2> QED
    BY <2>1 DEF Quoted
<1>2. ReportInv /\ Quoted /\ [ReportNext]_<<now, reportVars>> => (ReportInv /\ Quoted)'
  <2> SUFFICES ASSUME ReportInv, Quoted, [ReportNext]_<<now, reportVars>> PROVE Quoted'
    BY NextReport
  <2>0. report.day \in Int /\ Fields \subseteq DOMAIN report
    BY DEF ReportInv, IsRun
  <2>1. CASE report' = NoRun(report.day)
    <3>1. report'.stage = "sleeping"
      BY <2>0, <2>1, NoRunTyped
    <3> QED
      BY <3>1 DEF Quoted
  <2>2. CASE Check \/ ReadHoldings
    <3>1. report'.stage # "mails" \/ report' = NoRun(report.day)
      BY <2>0, <2>2 DEF Check, ReadHoldings, Sleep, Fields
    <3> QED
      BY <2>1, <3>1 DEF Quoted
  <2>3. CASE FetchPrices
    <3>1. ASSUME NEW quote \in [Shares(report.rows) -> Quotes],
                 report' = [report EXCEPT !.stage = "mails", !.quote = quote,
                                          !.todo = {h.owner : h \in report.rows}]
          PROVE  Quoted'
      <4>1. report'.rows = report.rows /\ report'.quote = quote
        BY <2>0, <3>1 DEF Fields
      <4> QED
        BY <4>1 DEF Quoted
    <3> QED
      BY <2>1, <2>3, <3>1 DEF FetchPrices, Sleep
  <2>4. CASE EndRun
    BY <2>1, <2>4 DEF EndRun, Sleep
  <2>5. CASE ReportRestart
    BY <2>1, <2>5 DEF ReportRestart, Boot
  <2>6. ASSUME NEW u \in Owners, MailOwner(u) PROVE Quoted'
    <3>1. /\ report.stage = "mails" /\ report'.rows = report.rows
          /\ report'.quote = report.quote
      BY <2>0, <2>6 DEF MailOwner, Fields
    <3> QED
      BY <3>1 DEF Quoted
  <2>7. CASE UNCHANGED reportVars
    BY <2>7 DEF reportVars, Quoted
  <2> QED
    BY <2>2, <2>3, <2>4, <2>5, <2>6, <2>7 DEF ReportNext
<1> QED
  BY <1>1, <1>2, PTL DEF ReportSpec

(* In every report, profit and loss with its weights, the balance and the   *)
(* report itself agree, as pnl_logic.rs, user_share_balance_logic.rs and    *)
(* reports/mod.rs compute them, for any number of holdings.                 *)
THEOREM FiguresAreOne == ReportSpec => []FiguresAgree
<1>1. ReportInv /\ Quoted => FiguresAgree
  BY RunTyped, FiguresAreSame DEF FiguresAgree
<1> QED
  BY <1>1, QuotedAlways, PTL

(* The change of the week that a mail gives for a portfolio lies between    *)
(* the lowest and the highest of its lines, for any number of them and any  *)
(* closes.                                                                  *)
THEOREM ChangeIsAnAverage == ReportSpec => []WeekChangeIsAnAverage
<1>1. ReportInv /\ Quoted => WeekChangeIsAnAverage
  BY RunTyped, ChangeBetween DEF WeekChangeIsAnAverage
<1> QED
  BY <1>1, QuotedAlways, PTL

(* The run, its mails and the clock are well-formed.                        *)
THEOREM ReportTypeCorrect == ReportSpec => []ReportTypeOK
<1> DEFINE ToDoInMails == report.stage # "mails" => report.todo = {}
           Inv == ReportInv /\ ReportTypeOK /\ ToDoInMails
<1>0. \A t \in Nat : Day(t) \in Nat /\ (t <= MaxTime => Day(t) \in 0 .. Day(MaxTime))
  <2> SUFFICES ASSUME NEW t \in Nat
               PROVE  Day(t) \in Nat /\ (t <= MaxTime => Day(t) \in 0 .. Day(MaxTime))
    OBVIOUS
  <2>1. MaxTime \in Nat
    BY MaxTimeAssumption
  <2>2. Day(t) \in Nat /\ Day(MaxTime) \in Nat
    BY <2>1, IntervalAssumption DEF Day
  <2>3. t <= MaxTime => Day(t) <= Day(MaxTime)
    BY <2>1, DayGrows
  <2> QED
    BY <2>2, <2>3
<1>1. ClockInit /\ ReportInit => Inv
  <2> SUFFICES ASSUME ClockInit, ReportInit PROVE Inv
    OBVIOUS
  <2>1. now = 0 /\ 0 \in Nat /\ 0 <= MaxTime /\ now + Interval \in Nat
    BY MaxTimeAssumption, IntervalAssumption DEF ClockInit
  <2>2. Day(0) \in Nat /\ Day(0) \in 0 .. Day(MaxTime)
    BY <1>0, <2>1
  <2>3. /\ report.stage = "sleeping" /\ report.day = -1 /\ report.rows = {}
        /\ report.todo = {} /\ report.tried = {}
    BY DEF ReportInit, NoRun
  <2>4. Day(MaxTime) \in Nat /\ mailedOn \in [Owners -> -1 .. Day(MaxTime)]
    BY <1>0, MaxTimeAssumption DEF ReportInit
  <2>5. wake \in Nat /\ boot \in 0 .. MaxTime /\ smtp \in BOOLEAN /\ now \in 0 .. MaxTime
    BY <2>1, MaxTimeAssumption DEF ReportInit
  <2>6. ReportInv
    BY InitReport
  <2>7. report.stage \in ReportStages /\ report.day \in -1 .. Day(now)
    BY <2>1, <2>2, <2>3 DEF ReportStages
  <2> QED
    BY <2>3, <2>4, <2>5, <2>6, <2>7 DEF ReportTypeOK
<1>2. Inv /\ [ReportNext]_<<now, reportVars>> => Inv'
  <2> DEFINE Goal == ReportTypeOK' /\ ToDoInMails'
  <2> SUFFICES ASSUME ReportInv, ReportTypeOK, ToDoInMails, [ReportNext]_<<now, reportVars>>
               PROVE  Goal
    BY NextReport
  <2>0. /\ now \in 0 .. MaxTime /\ now \in Nat /\ now + Interval \in Nat /\ Day(now) \in Nat
        /\ Day(now) \in 0 .. Day(MaxTime) /\ Day(MaxTime) \in Nat
    BY <1>0, MaxTimeAssumption, IntervalAssumption DEF ReportTypeOK
  <2>1. /\ wake \in Nat /\ boot \in 0 .. MaxTime /\ smtp \in BOOLEAN
        /\ mailedOn \in [Owners -> -1 .. Day(MaxTime)]
        /\ report.day \in -1 .. Day(now) /\ Fields \subseteq DOMAIN report
    BY DEF ReportTypeOK, ReportInv, IsRun
  <2>2. ASSUME report' = NoRun(report.day), now' = now, wake' \in Nat, boot' \in 0 .. MaxTime,
               smtp' \in BOOLEAN, mailedOn' = mailedOn
        PROVE  Goal
    <3>1. /\ report'.stage = "sleeping" /\ report'.day = report.day /\ report'.rows = {}
          /\ report'.todo = {} /\ report'.tried = {}
      BY <2>2 DEF NoRun
    <3> QED
      BY <2>0, <2>1, <2>2, <3>1 DEF ReportTypeOK, ReportStages
  <2>3. ASSUME Sleep, now' = now, UNCHANGED <<smtp, boot, mailedOn>> PROVE Goal
    BY <2>0, <2>1, <2>2, <2>3 DEF Sleep
  <2>4. CASE Check /\ UNCHANGED now
    <3>1. CASE report' = [report EXCEPT !.stage = "holdings", !.day = Day(now)]
               /\ UNCHANGED <<now, wake, smtp, boot, mailedOn>>
      <4>1. /\ report'.stage = "holdings" /\ report'.day = Day(now)
            /\ report'.rows = report.rows /\ report'.todo = report.todo
            /\ report'.tried = report.tried
        BY <2>1, <3>1 DEF Fields
      <4>2. report.stage = "sleeping" /\ report.todo = {}
        BY <2>4 DEF Check
      <4> QED
        BY <2>0, <2>1, <3>1, <4>1, <4>2 DEF ReportTypeOK, ReportStages
    <3> QED
      BY <2>3, <2>4, <3>1 DEF Check
  <2>5. CASE ReadHoldings /\ UNCHANGED now
    <3>1. ASSUME NEW rows \in Portfolios,
                 report' = [report EXCEPT !.stage = "prices", !.rows = rows],
                 UNCHANGED <<now, wake, smtp, boot, mailedOn>>
          PROVE  Goal
      <4>1. /\ report'.stage = "prices" /\ report'.day = report.day
            /\ report'.rows = rows /\ report'.todo = report.todo
            /\ report'.tried = report.tried
        BY <2>1, <3>1 DEF Fields
      <4>2. report.stage = "holdings" /\ report.todo = {} /\ report.tried = {}
        BY <2>5 DEF ReadHoldings, ReportInv, ToldOrToDo
      <4> QED
        BY <2>0, <2>1, <3>1, <4>1, <4>2 DEF ReportTypeOK, ReportStages
    <3> QED
      BY <2>3, <2>5, <3>1 DEF ReadHoldings
  <2>6. CASE FetchPrices /\ UNCHANGED now
    <3>1. ASSUME NEW quote,
                 report' = [report EXCEPT !.stage = "mails", !.quote = quote,
                                          !.todo = {h.owner : h \in report.rows}],
                 UNCHANGED <<now, wake, smtp, boot, mailedOn>>
          PROVE  Goal
      <4>1. /\ report'.stage = "mails" /\ report'.day = report.day
            /\ report'.rows = report.rows /\ report'.todo = {h.owner : h \in report.rows}
            /\ report'.tried = report.tried
        BY <2>1, <3>1 DEF Fields
      <4> QED
        BY <2>0, <2>1, <3>1, <4>1 DEF ReportTypeOK, ReportStages
    <3> QED
      BY <2>3, <2>6, <3>1 DEF FetchPrices
  <2>7. CASE EndRun /\ UNCHANGED now
    BY <2>3, <2>7 DEF EndRun
  <2>8. CASE ReportRestart /\ UNCHANGED now
    BY <2>0, <2>2, <2>8 DEF ReportRestart, Boot
  <2>9. ASSUME NEW u \in Owners, MailOwner(u), UNCHANGED now PROVE Goal
    <3>1. /\ report.stage = "mails" /\ u \in report.todo
          /\ report' = [report EXCEPT !.todo = @ \ {u},
                                      !.tried = IF HasLines(u) THEN @ \cup {u} ELSE @]
          /\ mailedOn' = mailedOn \/ mailedOn' = [mailedOn EXCEPT ![u] = report.day]
          /\ UNCHANGED <<wake, smtp, boot>>
      BY <2>9 DEF MailOwner
    <3>2. /\ report'.stage = report.stage /\ report'.day = report.day
          /\ report'.rows = report.rows /\ report'.todo = report.todo \ {u}
          /\ report'.tried \subseteq report.tried \cup {u}
      BY <2>1, <3>1 DEF Fields
    <3>3. report.day \in -1 .. Day(MaxTime)
      BY <2>0, <2>1
    <3>4. mailedOn' \in [Owners -> -1 .. Day(MaxTime)]
      BY <2>1, <3>1, <3>3
    <3>5. report'.todo \cup report'.tried \subseteq report.todo \cup report.tried
      BY <3>1, <3>2
    <3> QED
      BY <2>0, <2>1, <2>9, <3>1, <3>2, <3>4, <3>5 DEF ReportTypeOK
  <2>10. CASE Tick /\ UNCHANGED reportVars
    <3>1. now' \in 0 .. MaxTime /\ now' \in Nat /\ now <= now'
      BY <2>0, <2>10, MaxTimeAssumption DEF Tick
    <3>2. Day(now') \in Nat /\ Day(now) <= Day(now')
      BY <2>0, <3>1, DayGrows
    <3>3. -1 .. Day(now) \subseteq -1 .. Day(now')
      BY <2>0, <3>2
    <3>4. /\ report' = report /\ wake' = wake /\ boot' = boot /\ smtp' = smtp
          /\ mailedOn' = mailedOn
      BY <2>10 DEF reportVars
    <3> QED
      BY <2>1, <3>1, <3>3, <3>4 DEF ReportTypeOK
  <2>11. CASE UNCHANGED <<now, reportVars>>
    BY <2>11 DEF reportVars, ReportTypeOK
  <2> HIDE DEF Goal
  <2> QED
    BY <2>4, <2>5, <2>6, <2>7, <2>8, <2>9, <2>10, <2>11 DEF ReportNext
<1>3. Inv => ReportTypeOK
  OBVIOUS
<1> QED
  BY <1>1, <1>2, <1>3, PTL DEF ReportSpec
==============================================================================
