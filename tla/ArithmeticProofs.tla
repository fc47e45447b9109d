--------------------------- MODULE ArithmeticProofs ---------------------------
(***************************************************************************)
(* The arithmetic the proofs about the programs and the ledger rest on.    *)
(*                                                                         *)
(* Shares: what rounding down does to them, for every whole and every      *)
(* amount.  Shares that add up to the whole never take more than there is, *)
(* and leave less than one unit each.                                      *)
(*                                                                         *)
(* Sums over finite sets: FoldFunctionOnSet takes the elements of a set in *)
(* an order of its own, so what a sum is has to be shown before anything   *)
(* is said about it.  The library's induction theorems take an operator,   *)
(* which no prover here can instantiate, so each induction is the choice   *)
(* of a smallest counterexample.                                           *)
(***************************************************************************)
EXTENDS BasisPoints, Functions, FiniteSetsExt, FiniteSetTheorems, WellFoundedInduction, TLAPS

(* Shares. *)

\* A share is a natural number, and no more than its part of the whole.
LEMMA ShareFacts ==
  ASSUME NEW w \in Nat \ {0}, NEW l \in Nat, NEW bps \in Nat
  PROVE  PartOf(l, bps, w) \in Nat /\ w * PartOf(l, bps, w) <= l * bps
<1>1. l * bps \in Nat
  OBVIOUS
<1> QED BY <1>1 DEF PartOf

\* A product over a sum of four.
LEMMA Spread ==
  ASSUME NEW n \in Int, NEW a \in Int, NEW b \in Int, NEW c \in Int, NEW d \in Int
  PROVE  n * (a + b + c + d) = n * a + n * b + n * c + n * d
OBVIOUS

\* A positive factor cancels.
LEMMA Cancel ==
  ASSUME NEW n \in Nat \ {0}, NEW a \in Int, NEW b \in Int, n * a <= n * b
  PROVE  a <= b
<1> SUFFICES ASSUME a > b PROVE FALSE
  OBVIOUS
<1>1. n * (a - b) = n * a - n * b
  OBVIOUS
<1>2. n * (a - b) > 0
  OBVIOUS
<1> QED BY <1>1, <1>2

\* Shares that add up to the whole, each rounded down, never take more than
\* there is.
LEMMA SharesFit ==
  ASSUME NEW w \in Nat \ {0}, NEW l \in Nat, NEW s \in Nat, NEW o \in Nat, NEW p \in Nat, NEW t \in Nat,
         s + o + p + t = w
  PROVE  PartOf(l, s, w) + PartOf(l, o, w) + PartOf(l, p, w) + PartOf(l, t, w) <= l
<1> DEFINE a == PartOf(l, s, w)  b == PartOf(l, o, w)  c == PartOf(l, p, w)  d == PartOf(l, t, w)
<1>1. /\ a \in Nat /\ b \in Nat /\ c \in Nat /\ d \in Nat
      /\ w * a <= l * s /\ w * b <= l * o /\ w * c <= l * p /\ w * d <= l * t
  BY ShareFacts
<1>2. l * (s + o + p + t) = l * s + l * o + l * p + l * t
  BY Spread
<1> HIDE DEF a, b, c, d
<1>3. w * (a + b + c + d) = w * a + w * b + w * c + w * d
  BY <1>1, Spread
<1>4. /\ l * w = w * l
      /\ l * s \in Int /\ l * o \in Int /\ l * p \in Int /\ l * t \in Int
      /\ w * a \in Int /\ w * b \in Int /\ w * c \in Int /\ w * d \in Int
  BY <1>1
<1>5. w * (a + b + c + d) <= w * l
  BY <1>1, <1>2, <1>3, <1>4
<1>6. a + b + c + d <= l
  BY <1>1, <1>5, Cancel
<1> QED BY <1>6 DEF a, b, c, d

\* A share of more is no less.
LEMMA ShareGrows ==
  ASSUME NEW w \in Nat \ {0}, NEW a \in Nat, NEW b \in Nat, a <= b, NEW bps \in Nat
  PROVE  PartOf(a, bps, w) <= PartOf(b, bps, w)
<1> DEFINE x == PartOf(a, bps, w)  y == PartOf(b, bps, w)
<1>1. a * bps \in Nat /\ b * bps \in Nat /\ a * bps <= b * bps
  <2>1. (b - a) * bps \in Nat /\ (b - a) * bps = b * bps - a * bps
    OBVIOUS
  <2> QED BY <2>1
<1>2. x \in Nat /\ y \in Nat /\ w * x <= a * bps
  BY ShareFacts
<1>3. b * bps <= w * (y + 1)
  BY <1>1 DEF PartOf
<1>4. b * bps < w * (y + 1)
  BY <1>1 DEF PartOf
<1> HIDE DEF x, y
<1>5. x < y + 1
  <2> SUFFICES ASSUME y + 1 <= x PROVE FALSE
    BY <1>2
  <2>1. w * (x - (y + 1)) >= 0
    BY <1>2
  <2>2. w * (x - (y + 1)) = w * x - w * (y + 1)
    BY <1>2
  <2>3. w * x \in Int /\ w * (y + 1) \in Int
    BY <1>2
  <2> QED BY <1>1, <1>2, <1>4, <2>1, <2>2, <2>3
<1>6. x <= y
  BY <1>2, <1>5
<1> QED BY <1>6 DEF x, y

\* A share is less than one unit below its part of the whole.
LEMMA ShareNear ==
  ASSUME NEW w \in Nat \ {0}, NEW l \in Nat, NEW bps \in Nat
  PROVE  l * bps < w * (PartOf(l, bps, w) + 1)
<1>1. l * bps \in Nat
  OBVIOUS
<1>2. l * bps < w * ((l * bps) \div w + 1)
  BY <1>1
<1> QED BY <1>2 DEF PartOf

\* Three shares that add up to the whole leave at most two units (split_legs).
LEMMA ThreeSharesNear ==
  ASSUME NEW w \in Nat \ {0}, NEW l \in Nat, NEW s \in Nat, NEW o \in Nat, NEW p \in Nat, s + o + p = w
  PROVE  /\ PartOf(l, s, w) \in Nat /\ PartOf(l, o, w) \in Nat /\ PartOf(l, p, w) \in Nat
         /\ l - PartOf(l, s, w) - PartOf(l, o, w) - PartOf(l, p, w) \in 0..2
<1> DEFINE a == PartOf(l, s, w)  b == PartOf(l, o, w)  c == PartOf(l, p, w)
<1>1. /\ a \in Nat /\ b \in Nat /\ c \in Nat
      /\ l * s < w * (a + 1) /\ l * o < w * (b + 1) /\ l * p < w * (c + 1)
  BY ShareFacts, ShareNear
<1>2. a + b + c <= l
  <2>1. PartOf(l, 0, w) \in Nat /\ s + o + p + 0 = w
    BY ShareFacts
  <2>2. a + b + c + PartOf(l, 0, w) <= l
    BY <2>1, SharesFit
  <2> HIDE DEF a, b, c
  <2> QED BY <1>1, <2>1, <2>2
<1>3. l * (s + o + p + 0) = l * s + l * o + l * p + l * 0
  BY Spread
<1> HIDE DEF a, b, c
<1>4. w * (a + 1 + (b + 1) + (c + 1) + 0)
        = w * (a + 1) + w * (b + 1) + w * (c + 1) + w * 0
  BY <1>1, Spread
<1>5. /\ l * w = w * l /\ l * 0 = 0 /\ w * 0 = 0 /\ s + o + p + 0 = w
      /\ l * s \in Int /\ l * o \in Int /\ l * p \in Int
      /\ w * (a + 1) \in Int /\ w * (b + 1) \in Int /\ w * (c + 1) \in Int
  BY <1>1
<1>6. w * l < w * (a + 1 + (b + 1) + (c + 1) + 0)
  BY <1>1, <1>3, <1>4, <1>5
<1>7. l < a + b + c + 3
  <2> SUFFICES ASSUME a + 1 + (b + 1) + (c + 1) + 0 <= l PROVE FALSE
    BY <1>1
  <2>1. w * (l - (a + 1 + (b + 1) + (c + 1) + 0)) >= 0
    BY <1>1
  <2>2. w * (l - (a + 1 + (b + 1) + (c + 1) + 0)) = w * l - w * (a + 1 + (b + 1) + (c + 1) + 0)
    BY <1>1
  <2>3. w * l \in Int /\ w * (a + 1 + (b + 1) + (c + 1) + 0) \in Int
    BY <1>1
  <2> QED BY <1>6, <2>1, <2>2, <2>3
<1>8. l - a - b - c \in 0..2
  BY <1>1, <1>2, <1>7
<1> QED BY <1>1, <1>8 DEF a, b, c
--------------------------------------------------------------------------------
(* Sums. *)

Sum(f, S) == SumFunctionOnSet(f, S)

Pick(S) == CHOOSE x \in S : TRUE
Leftover(S) == S \ {Pick(S)}

\* g takes every subset of S to the sum of f over it, in Pick's order.
AddsUp(g, f, S) == g = [T \in SUBSET S |-> IF T = {} THEN 0 ELSE f[Pick(T)] + g[Leftover(T)]]

\* What is left of a set is smaller.
LEMMA LeftoverFacts ==
  ASSUME NEW S, S # {}
  PROVE  Pick(S) \in S /\ Leftover(S) \subseteq S /\ Leftover(S) # S
  BY DEF Pick, Leftover

\* Among sets of subsets of a finite set there is a smallest one.
LEMMA SmallestSet ==
  ASSUME NEW S, IsFiniteSet(S), NEW B \in SUBSET SUBSET S, B # {}
  PROVE  \E T \in B : \A U \in B : U \subseteq T => U = T
<1>1. IsWellFoundedOn(StrictSubsetOrdering(S), FiniteSubsetsOf(S))
  BY FS_StrictSubsetOrderingWellFounded
<1>2. B \subseteq FiniteSubsetsOf(S)
  BY FS_Subset DEF FiniteSubsetsOf
<1>3. PICK T \in B : \A U \in B : ~ (<<U, T>> \in StrictSubsetOrdering(S))
  BY <1>1, <1>2, WFMin
<1> QED BY <1>3 DEF StrictSubsetOrdering

\* A function that sums is the only one.
LEMMA SumsUnique ==
  ASSUME NEW S, IsFiniteSet(S), NEW f, NEW g, NEW h, NEW U \in SUBSET S, AddsUp(g, f, S), AddsUp(h, f, U)
  PROVE  \A T \in SUBSET U : g[T] = h[T]
<1> DEFINE B == {T \in SUBSET U : g[T] # h[T]}
<1>1. B \subseteq SUBSET S
  OBVIOUS
<1>2. \A V \in SUBSET U : g[V] = (IF V = {} THEN 0 ELSE f[Pick(V)] + g[Leftover(V)])
  BY DEF AddsUp
<1>3. \A V \in SUBSET U : h[V] = (IF V = {} THEN 0 ELSE f[Pick(V)] + h[Leftover(V)])
  BY DEF AddsUp
<1>4. ASSUME NEW T \in B, \A V \in B : V \subseteq T => V = T PROVE FALSE
  <2>1. T # {}
    BY <1>2, <1>3
  <2>2. Leftover(T) \in SUBSET U /\ Leftover(T) \notin B
    BY <1>4, <2>1, LeftoverFacts
  <2> QED BY <1>2, <1>3, <2>1, <2>2
<1>5. B = {}
  <2> HIDE DEF B
  <2> QED BY <1>1, <1>4, SmallestSet
<1> QED BY <1>5

SumFunctionOf(f, S) == CHOOSE g : AddsUp(g, f, S)
SumOver(f, S) == SumFunctionOf(f, S)[S]

\* There is such a function.
LEMMA SumsExist ==
  ASSUME NEW S, IsFiniteSet(S), NEW f
  PROVE  AddsUp(SumFunctionOf(f, S), f, S)
<1> DEFINE B == {T \in SUBSET S : ~ \E g : AddsUp(g, f, T)}
<1>1. B \subseteq SUBSET S
  OBVIOUS
<1>2. ASSUME NEW T \in B, \A V \in B : V \subseteq T => V = T PROVE FALSE
  <2> DEFINE g == [U \in SUBSET T |-> IF U = {} THEN 0 ELSE f[Pick(U)] + SumOver(f, Leftover(U))]
  <2>1. ASSUME NEW U \in SUBSET T, U # T PROVE AddsUp(SumFunctionOf(f, U), f, U)
    BY <1>2, <2>1 DEF SumFunctionOf
  <2>2. ASSUME NEW U \in SUBSET T, U # T, U # {} PROVE SumOver(f, U) = f[Pick(U)] + SumOver(f, Leftover(U))
    <3>1. Leftover(U) \in SUBSET U /\ Leftover(U) \in SUBSET T /\ Leftover(U) # T /\ IsFiniteSet(U)
      BY <2>2, LeftoverFacts, FS_Subset
    <3>2. AddsUp(SumFunctionOf(f, Leftover(U)), f, Leftover(U)) /\ AddsUp(SumFunctionOf(f, U), f, U)
      BY <2>1, <2>2, <3>1
    <3>3. SumFunctionOf(f, U)[Leftover(U)] = SumOver(f, Leftover(U))
      BY <3>1, <3>2, SumsUnique DEF SumOver
    <3>4. SumFunctionOf(f, U)[U] = f[Pick(U)] + SumFunctionOf(f, U)[Leftover(U)]
      BY <2>2, <3>2 DEF AddsUp
    <3> QED BY <3>3, <3>4 DEF SumOver
  <2>3. SumOver(f, {}) = 0 \/ T = {}
    <3>1. CASE T # {}
      <4>1. AddsUp(SumFunctionOf(f, {}), f, {})
        BY <2>1, <3>1
      <4> QED BY <4>1 DEF AddsUp, SumOver
    <3> QED BY <3>1
  <2>4. ASSUME NEW U \in SUBSET T, U # {} PROVE g[Leftover(U)] = SumOver(f, Leftover(U))
    <3>1. Leftover(U) \in SUBSET T /\ Leftover(U) # T /\ T # {}
      BY <2>4, LeftoverFacts
    <3>2. CASE Leftover(U) = {}
      BY <2>3, <3>1, <3>2
    <3>3. CASE Leftover(U) # {}
      BY <2>2, <3>1, <3>3
    <3> QED BY <3>2, <3>3
  <2>5. DOMAIN g = SUBSET T
    OBVIOUS
  <2>6. g = [U \in DOMAIN g |-> g[U]]
    OBVIOUS
  <2>7. \A U \in SUBSET T : g[U] = IF U = {} THEN 0 ELSE f[Pick(U)] + g[Leftover(U)]
    <3>1. \A U \in SUBSET T : g[U] = IF U = {} THEN 0 ELSE f[Pick(U)] + SumOver(f, Leftover(U))
      OBVIOUS
    <3> HIDE DEF g
    <3> QED BY <2>4, <3>1
  <2>8. AddsUp(g, f, T)
    <3> HIDE DEF g
    <3> QED BY <2>5, <2>6, <2>7 DEF AddsUp
  <2> QED BY <2>8
<1>3. B = {}
  <2> HIDE DEF B
  <2> QED BY <1>1, <1>2, SmallestSet
<1> QED BY <1>3 DEF SumFunctionOf

\* A sum is what such a function says, on the whole set and on its subsets.
LEMMA SumIsValue ==
  ASSUME NEW S, IsFiniteSet(S), NEW f
  PROVE  \E g : AddsUp(g, f, S) /\ \A T \in SUBSET S : Sum(f, T) = g[T]
<1>1. PICK g : AddsUp(g, f, S)
  BY SumsExist
<1>2. ASSUME NEW T \in SUBSET S PROVE Sum(f, T) = g[T]
  <2> DEFINE h == CHOOSE h : AddsUp(h, f, T)
  <2>1. IsFiniteSet(T)
    BY FS_Subset
  <2>2. AddsUp(h, f, T)
    BY <2>1, SumsExist
  <2>3. Sum(f, T) = h[T]
    BY DEF Sum, SumFunctionOnSet, FoldFunctionOnSet, MapThenFoldSet, AddsUp, Pick, Leftover
  <2> QED BY <1>1, <2>2, <2>3, SumsUnique
<1> QED BY <1>1, <1>2

\* What the sum of a set is, from the sum of a smaller one.
LEMMA SumUnfold ==
  ASSUME NEW S, IsFiniteSet(S), NEW f
  PROVE  IF S = {} THEN Sum(f, S) = 0 ELSE Sum(f, S) = f[Pick(S)] + Sum(f, Leftover(S))
<1>1. PICK g : AddsUp(g, f, S) /\ \A T \in SUBSET S : Sum(f, T) = g[T]
  BY SumIsValue
<1>2. \A T \in SUBSET S : g[T] = IF T = {} THEN 0 ELSE f[Pick(T)] + g[Leftover(T)]
  BY <1>1 DEF AddsUp
<1>3. Leftover(S) \in SUBSET S
  BY DEF Leftover
<1> QED BY <1>1, <1>2, <1>3

\* The sum of nothing is zero.
LEMMA SumEmpty == ASSUME NEW f PROVE Sum(f, {}) = 0
  BY FS_EmptySet, SumUnfold

\* A sum of integers is an integer, and of naturals a natural.
LEMMA SumType ==
  ASSUME NEW S, IsFiniteSet(S), NEW f, \A x \in S : f[x] \in Int
  PROVE  /\ Sum(f, S) \in Int
         /\ (\A x \in S : f[x] >= 0) => Sum(f, S) >= 0
<1> DEFINE Good(T) == Sum(f, T) \in Int /\ ((\A x \in S : f[x] >= 0) => Sum(f, T) >= 0)
           B == {T \in SUBSET S : ~ Good(T)}
<1>1. B \subseteq SUBSET S
  OBVIOUS
<1>2. ASSUME NEW T \in B, \A V \in B : V \subseteq T => V = T PROVE FALSE
  <2>1. IsFiniteSet(T)
    BY FS_Subset
  <2>2. T # {}
    BY SumEmpty
  <2>3. Good(Leftover(T)) /\ Pick(T) \in S
    BY <1>2, <2>2, LeftoverFacts
  <2>4. Sum(f, T) = f[Pick(T)] + Sum(f, Leftover(T))
    BY <2>1, <2>2, SumUnfold
  <2> QED BY <2>3, <2>4
<1>3. B = {}
  <2> HIDE DEF B
  <2> QED BY <1>1, <1>2, SmallestSet
<1> QED BY <1>3

\* Any element may be taken out first: the order of a sum does not matter.
LEMMA SumRemove ==
  ASSUME NEW S, IsFiniteSet(S), NEW f, \A x \in S : f[x] \in Int, NEW a \in S
  PROVE  Sum(f, S) = f[a] + Sum(f, S \ {a})
<1> DEFINE Good(T) == \A x \in T : Sum(f, T) = f[x] + Sum(f, T \ {x})
           B == {T \in SUBSET S : ~ Good(T)}
<1>1. B \subseteq SUBSET S
  OBVIOUS
<1>2. ASSUME NEW T \in B, \A V \in B : V \subseteq T => V = T PROVE FALSE
  <2>1. PICK x \in T : Sum(f, T) # f[x] + Sum(f, T \ {x})
    OBVIOUS
  <2> DEFINE p == Pick(T)
             M == T \ {p, x}
  <2>2. IsFiniteSet(T) /\ IsFiniteSet(T \ {x}) /\ IsFiniteSet(M)
    <3>1. T \in SUBSET S /\ T \ {x} \in SUBSET S /\ M \in SUBSET S
      OBVIOUS
    <3> QED BY <3>1, FS_Subset
  <2>3. p \in T /\ Leftover(T) = T \ {p} /\ Sum(f, T) = f[p] + Sum(f, T \ {p})
    BY <2>2, LeftoverFacts, SumUnfold DEF Leftover
  <2>4. p # x
    BY <2>1, <2>3
  <2>5. Good(T \ {p}) /\ Good(T \ {x})
    <3>1. T \ {p} \in SUBSET S /\ T \ {x} \in SUBSET S /\ T \ {p} # T /\ T \ {x} # T
      BY <2>3
    <3> QED BY <1>2, <3>1
  <2>6. (T \ {p}) \ {x} = M /\ (T \ {x}) \ {p} = M
    OBVIOUS
  <2>7. Sum(f, T \ {p}) = f[x] + Sum(f, M) /\ Sum(f, T \ {x}) = f[p] + Sum(f, M)
    BY <2>3, <2>4, <2>5, <2>6
  <2>8. f[x] \in Int /\ f[p] \in Int /\ Sum(f, M) \in Int
    BY <2>2, <2>3, SumType
  <2> HIDE DEF p, M
  <2> QED BY <2>1, <2>3, <2>7, <2>8
<1>3. B = {}
  <2> HIDE DEF B
  <2> QED BY <1>1, <1>2, SmallestSet
<1> QED BY <1>3

\* The sum of a pointwise sum is the sum of the sums.
LEMMA SumPointwise ==
  ASSUME NEW S, IsFiniteSet(S), NEW f, NEW g, NEW h,
         \A x \in S : f[x] \in Int /\ g[x] \in Int /\ h[x] = f[x] + g[x]
  PROVE  Sum(h, S) = Sum(f, S) + Sum(g, S)
<1> DEFINE Good(T) == Sum(h, T) = Sum(f, T) + Sum(g, T)
           B == {T \in SUBSET S : ~ Good(T)}
<1>1. B \subseteq SUBSET S
  OBVIOUS
<1>2. ASSUME NEW T \in B, \A V \in B : V \subseteq T => V = T PROVE FALSE
  <2>1. IsFiniteSet(T) /\ IsFiniteSet(Leftover(T))
    BY FS_Subset DEF Leftover
  <2>2. T # {}
    <3>1. Sum(f, {}) = 0 /\ Sum(g, {}) = 0 /\ Sum(h, {}) = 0
      BY SumEmpty
    <3>2. Good({})
      BY <3>1
    <3> HIDE DEF Good
    <3> QED BY <3>2
  <2>3. Good(Leftover(T)) /\ Pick(T) \in S /\ Leftover(T) \subseteq S
    BY <1>2, <2>2, LeftoverFacts
  <2>4. /\ Sum(f, T) = f[Pick(T)] + Sum(f, Leftover(T))
        /\ Sum(g, T) = g[Pick(T)] + Sum(g, Leftover(T))
        /\ Sum(h, T) = h[Pick(T)] + Sum(h, Leftover(T))
    BY <2>1, <2>2, SumUnfold
  <2>5. Sum(f, Leftover(T)) \in Int /\ Sum(g, Leftover(T)) \in Int
    BY <2>1, <2>3, SumType
  <2> QED BY <2>3, <2>4, <2>5
<1>3. B = {}
  <2> HIDE DEF B
  <2> QED BY <1>1, <1>2, SmallestSet
<1> QED BY <1>3

\* Functions that are zero sum to zero.
LEMMA SumZero ==
  ASSUME NEW S, IsFiniteSet(S), NEW f, \A x \in S : f[x] = 0
  PROVE  Sum(f, S) = 0
<1>1. Sum(f, S) = Sum(f, S) + Sum(f, S)
  BY SumPointwise
<1>2. Sum(f, S) \in Int
  BY SumType
<1>3. \A n \in Int : n = n + n => n = 0
  OBVIOUS
<1> QED BY <1>1, <1>2, <1>3, Zenon

\* Functions that agree on a set have the same sum over it.
LEMMA SumSame ==
  ASSUME NEW S, IsFiniteSet(S), NEW f, NEW g, \A x \in S : f[x] \in Int /\ g[x] = f[x]
  PROVE  Sum(g, S) = Sum(f, S)
<1> DEFINE z == [x \in S |-> 0]
<1>1. Sum(z, S) = 0
  BY SumZero
<1>2. Sum(g, S) = Sum(f, S) + Sum(z, S)
  BY SumPointwise
<1>3. Sum(f, S) \in Int
  BY SumType
<1> HIDE DEF z
<1> QED BY <1>1, <1>2, <1>3

\* A function that is zero but for one element sums to what it is there.
LEMMA SumOne ==
  ASSUME NEW S, IsFiniteSet(S), NEW f, NEW a \in S, f[a] \in Int, \A x \in S \ {a} : f[x] = 0
  PROVE  Sum(f, S) = f[a]
<1> DEFINE T == S \ {a}
<1>1. IsFiniteSet(T)
  BY FS_Subset
<1>2. Sum(f, T) = 0
  <2> HIDE DEF T
  <2> QED BY <1>1, SumZero DEF T
<1>3. Sum(f, S) = f[a] + Sum(f, T)
  BY SumRemove
<1> QED BY <1>2, <1>3

\* What is added in one place is added to the sum.
LEMMA SumAdd ==
  ASSUME NEW S, IsFiniteSet(S), NEW f, NEW h, NEW a \in S, NEW n \in Int,
         \A x \in S : f[x] \in Int /\ h[x] = f[x] + (IF x = a THEN n ELSE 0)
  PROVE  Sum(h, S) = Sum(f, S) + n /\ Sum(f, S) \in Int /\ \A x \in S : h[x] \in Int
<1> DEFINE g == [x \in S |-> IF x = a THEN n ELSE 0]
<1>1. Sum(g, S) = n
  <2>1. g[a] = n /\ \A x \in S \ {a} : g[x] = 0
    OBVIOUS
  <2> HIDE DEF g
  <2> QED BY <2>1, SumOne
<1>2. \A x \in S : f[x] \in Int /\ g[x] \in Int /\ h[x] = f[x] + g[x]
  OBVIOUS
<1>3. \A x \in S : h[x] \in Int
  OBVIOUS
<1> HIDE DEF g
<1>4. Sum(h, S) = Sum(f, S) + Sum(g, S) /\ Sum(f, S) \in Int
  BY <1>2, SumPointwise, SumType
<1> QED BY <1>1, <1>3, <1>4

\* A pointwise greater function has no smaller sum.
LEMMA SumGrows ==
  ASSUME NEW S, IsFiniteSet(S), NEW f, NEW g, \A x \in S : f[x] \in Int /\ g[x] \in Int /\ f[x] <= g[x]
  PROVE  Sum(f, S) <= Sum(g, S)
<1> DEFINE d == [x \in S |-> g[x] - f[x]]
<1>1. \A x \in S : d[x] \in Int /\ d[x] >= 0 /\ g[x] = f[x] + d[x]
  OBVIOUS
<1> HIDE DEF d
<1>2. Sum(g, S) = Sum(f, S) + Sum(d, S)
  BY <1>1, SumPointwise
<1>3. Sum(d, S) \in Int /\ Sum(d, S) >= 0 /\ Sum(f, S) \in Int
  BY <1>1, SumType
<1> QED BY <1>2, <1>3

\* A sum over a set is the sum over a part of it and the sum over the rest.
LEMMA SumSplit ==
  ASSUME NEW S, IsFiniteSet(S), NEW f, \A x \in S : f[x] \in Int, NEW P \in SUBSET S
  PROVE  Sum(f, S) = Sum(f, P) + Sum(f, S \ P)
<1> DEFINE Good(T) == Sum(f, P \cup T) = Sum(f, P) + Sum(f, T)
           B == {T \in SUBSET (S \ P) : ~ Good(T)}
<1>1. /\ IsFiniteSet(S \ P) /\ B \subseteq SUBSET (S \ P)
  BY FS_Subset
<1>2. ASSUME NEW T \in B, \A V \in B : V \subseteq T => V = T PROVE FALSE
  <2>1. T \in SUBSET (S \ P) /\ ~ Good(T)
    OBVIOUS
  <2>2. /\ IsFiniteSet(T) /\ IsFiniteSet(P) /\ IsFiniteSet(P \cup T)
        /\ \A x \in P \cup T : f[x] \in Int
    <3>1. T \subseteq S /\ P \subseteq S /\ P \cup T \subseteq S
      BY <2>1
    <3> QED BY <3>1, FS_Subset
  <2>3. Sum(f, P) \in Int
    BY <2>2, SumType
  <2>4. CASE T = {}
    <3>1. Sum(f, T) = 0 /\ P \cup T = P
      BY <2>4, SumEmpty
    <3>2. Sum(f, P \cup T) = Sum(f, P)
      BY <3>1
    <3>3. Sum(f, P) + Sum(f, T) = Sum(f, P)
      BY <2>3, <3>1
    <3> QED BY <2>1, <3>2, <3>3
  <2>5. CASE T # {}
    <3>1. PICK a \in T : TRUE
      BY <2>5
    <3>2. T \ {a} \notin B /\ T \ {a} \in SUBSET (S \ P)
      BY <1>2, <2>1, <3>1
    <3>3. Good(T \ {a})
      BY <3>2
    <3>4. Sum(f, T) = f[a] + Sum(f, T \ {a})
      BY <2>2, <3>1, SumRemove
    <3>5. Sum(f, P \cup T) = f[a] + Sum(f, (P \cup T) \ {a})
      BY <2>2, <3>1, SumRemove
    <3>6. (P \cup T) \ {a} = P \cup (T \ {a})
      BY <2>1, <3>1
    <3>7. f[a] \in Int /\ Sum(f, T \ {a}) \in Int
      <4>1. IsFiniteSet(T \ {a}) /\ \A x \in T \ {a} : f[x] \in Int
        BY <2>2, FS_Subset
      <4> QED BY <2>2, <3>1, <4>1, SumType
    <3>8. Sum(f, (P \cup T) \ {a}) = Sum(f, P) + Sum(f, T \ {a})
      BY <3>3, <3>6
    <3> HIDE DEF Good
    <3>9. f[a] + Sum(f, (P \cup T) \ {a}) = Sum(f, P) + (f[a] + Sum(f, T \ {a}))
      <4>1. PICK p \in Int : p = Sum(f, P)
        BY <2>3
      <4>2. PICK t \in Int : t = Sum(f, T \ {a})
        BY <3>7
      <4>3. PICK v \in Int : v = f[a]
        BY <3>7
      <4>4. v + (p + t) = p + (v + t)
        OBVIOUS
      <4> QED BY <3>8, <4>1, <4>2, <4>3, <4>4, Zenon
    <3>10. Sum(f, P \cup T) = Sum(f, P) + Sum(f, T)
      BY <3>4, <3>5, <3>9, Zenon
    <3> QED BY <2>1, <3>10 DEF Good
  <2> QED BY <2>4, <2>5
<1> HIDE DEF B
<1>3. B = {}
  BY <1>1, <1>2, SmallestSet
<1>4. Good(S \ P)
  BY <1>3 DEF B
<1>5. P \cup (S \ P) = S
  OBVIOUS
<1> QED BY <1>4, <1>5

\* A part of a set sums to no more than the set, if the rest is not negative, and to
\* as much if the rest is zero.
LEMMA SumOfPart ==
  ASSUME NEW S, IsFiniteSet(S), NEW f, \A x \in S : f[x] \in Int, NEW P \in SUBSET S
  PROVE  /\ Sum(f, P) \in Int /\ Sum(f, S) \in Int
         /\ (\A x \in S \ P : f[x] >= 0) => Sum(f, P) <= Sum(f, S)
         /\ (\A x \in S \ P : f[x] = 0) => Sum(f, P) = Sum(f, S)
<1>1. /\ IsFiniteSet(P) /\ IsFiniteSet(S \ P)
      /\ \A x \in P : f[x] \in Int
      /\ \A x \in S \ P : f[x] \in Int
  BY FS_Subset
<1>2. /\ Sum(f, P) \in Int /\ Sum(f, S) \in Int /\ Sum(f, S \ P) \in Int
      /\ (\A x \in S \ P : f[x] >= 0) => Sum(f, S \ P) >= 0
  BY <1>1, SumType
<1>3. Sum(f, S) = Sum(f, P) + Sum(f, S \ P)
  BY SumSplit
<1>4. (\A x \in S \ P : f[x] = 0) => Sum(f, S \ P) = 0
  BY <1>1, SumZero
<1> QED BY <1>2, <1>3, <1>4

--------------------------------------------------------------------------------
(* Bounded sets of naturals. *)

\* A set of naturals with a bound has a greatest element.
LEMMA Greatest ==
  ASSUME NEW n \in Nat, NEW S \in SUBSET (0 .. n), S # {}
  PROVE  \E m \in S : \A k \in S : m >= k
<1> DEFINE Bounds == {m \in Nat : \A k \in S : m >= k}
<1>1. n \in Bounds
  OBVIOUS
<1>2. PICK m \in Bounds : \A l \in Bounds : ~ (<<l, m>> \in OpToRel(<, Nat))
  BY <1>1, NatLessThanWellFounded, WFMin
<1>3. m \in Nat /\ \A k \in S : m >= k
  BY <1>2
<1>4. m \in S
  <2> SUFFICES ASSUME m \notin S PROVE FALSE
    OBVIOUS
  <2> SUFFICES ASSUME NEW k \in S PROVE FALSE
    OBVIOUS
  <2>5. ASSUME NEW l \in S PROVE m - 1 >= l /\ m > 0
    <3>1. l \in Nat /\ m >= l /\ l # m
      BY <1>3
    <3> QED BY <1>3, <3>1
  <2>1. m - 1 \in Nat /\ \A l \in S : m - 1 >= l
    BY <1>3, <2>5
  <2>2. m - 1 \in Bounds
    BY <2>1
  <2>3. <<m - 1, m>> \in {pair \in Nat \X Nat : pair[1] < pair[2]}
    BY <1>3, <2>1
  <2>4. <<m - 1, m>> \in OpToRel(<, Nat)
    BY <2>3 DEF OpToRel
  <2> QED BY <1>2, <2>2, <2>4
<1> QED BY <1>3, <1>4

\* So do Max and Min find one.
LEMMA MaxIsGreatest ==
  ASSUME NEW n \in Nat, NEW S \in SUBSET (0 .. n), S # {}
  PROVE  Max(S) \in S /\ \A k \in S : k <= Max(S)
<1>1. \E m \in S : \A k \in S : m >= k
  BY Greatest
<1> QED BY <1>1 DEF Max

LEMMA MinIsLeast ==
  ASSUME NEW n \in Nat, NEW S \in SUBSET (0 .. n), S # {}
  PROVE  Min(S) \in S /\ \A k \in S : Min(S) <= k
<1> DEFINE Mirror == {n - k : k \in S}
<1>0. \A k \in S : k \in Int /\ 0 <= k /\ k <= n
  OBVIOUS
<1>1. Mirror \in SUBSET (0 .. n) /\ Mirror # {}
  <2>1. \A k \in S : n - k \in 0 .. n
    BY <1>0
  <2> QED BY <2>1, Zenon
<1>2. PICK m \in Mirror : \A k \in Mirror : m >= k
  BY <1>1, Greatest
<1>3. PICK l \in S : m = n - l
  BY <1>2
<1>4. \A k \in S : l <= k
  <2> SUFFICES ASSUME NEW k \in S PROVE l <= k
    OBVIOUS
  <2>1. n - k <= m
    BY <1>2
  <2>2. k \in Int /\ l \in Int
    BY <1>0
  <2> HIDE DEF Mirror
  <2> QED BY <1>3, <2>1, <2>2
<1> QED BY <1>3, <1>4 DEF Min
================================================================================
