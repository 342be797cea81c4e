--------------------------- MODULE Scoring_proofs ---------------------------
(***************************************************************************)
(* Lemmas about the arithmetic of Scoring: the sums that a team's score is *)
(* made of, whatever the numbers of challenges, solves and unlocks, and    *)
(* the price of a challenge.                                               *)
(*                                                                         *)
(* The sums are folds over finite sets.  Their lemmas are proved by        *)
(* induction over the subsets of a set, in the form that speaks of the set *)
(* of the subsets for which the claim holds.                               *)
(***************************************************************************)
EXTENDS Scoring, FiniteSetTheorems, WellFoundedInduction, TLAPS

\* A set of subsets of S that has every subset all of whose strict subsets it
\* has, has all of them.
LEMMA SubsetInduction ==
  ASSUME NEW S, IsFiniteSet(S), NEW Good,
         \A T \in SUBSET S :
            (\A U \in SUBSET T : U # T => U \in Good) => T \in Good
  PROVE  \A T \in SUBSET S : T \in Good
<1> DEFINE Bad == {T \in SUBSET S : T \notin Good}
<1> SUFFICES ASSUME Bad # {} PROVE FALSE
  OBVIOUS
<1>1. FiniteSubsetsOf(S) = SUBSET S
  BY FS_FiniteSubsetsOfFinite
<1>2. IsWellFoundedOn(StrictSubsetOrdering(S), SUBSET S)
  <2>1. IsWellFoundedOn(StrictSubsetOrdering(S), FiniteSubsetsOf(S))
    BY FS_StrictSubsetOrderingWellFounded
  <2> QED BY <1>1, <2>1
<1>3. PICK T \in Bad : \A U \in Bad : ~(<<U, T>> \in StrictSubsetOrdering(S))
  <2> DEFINE Order == StrictSubsetOrdering(S)
             All   == SUBSET S
  <2>1. Bad \subseteq All /\ Bad # {} /\ IsWellFoundedOn(Order, All)
    BY <1>2
  <2> HIDE DEF Bad, Order, All
  <2>2. \E T \in Bad : \A U \in Bad : ~(<<U, T>> \in Order)
    BY <2>1, WFMin
  <2> QED BY <2>2 DEF Order
<1>4. ASSUME NEW U \in SUBSET T, U # T
      PROVE  U \in Good
  <2>1. U \in SUBSET S /\ <<U, T>> \in StrictSubsetOrdering(S)
    BY <1>4 DEF StrictSubsetOrdering
  <2> QED BY <1>3, <2>1
<1> QED BY <1>3, <1>4

-----------------------------------------------------------------------------
(* Sums.                                                                   *)

\* The element a fold takes first.
Choice(s) == CHOOSE x \in s : TRUE

\* g gives the sum of f over each subset of S.
IsSum(g, f, S) ==
  g = [s \in SUBSET S |->
         IF s = {} THEN 0 ELSE f[Choice(s)] + g[s \ {Choice(s)}]]

SumOver(f, S) == (CHOOSE g : IsSum(g, f, S))[S]

LEMMA ChoiceIn == ASSUME NEW s, s # {} PROVE Choice(s) \in s
BY DEF Choice

\* There is at most one such g, whatever the larger set it was made for.
LEMMA SumUnique ==
  ASSUME NEW f, NEW S, IsFiniteSet(S), NEW T \in SUBSET S,
         NEW g, IsSum(g, f, S), NEW h, IsSum(h, f, T)
  PROVE  \A s \in SUBSET T : g[s] = h[s]
<1> DEFINE Good == {s \in SUBSET T : g[s] = h[s]}
<1>1. IsFiniteSet(T)
  BY FS_Subset
<1>2. ASSUME NEW s \in SUBSET T,
             \A u \in SUBSET s : u # s => u \in Good
      PROVE  s \in Good
  <2>1. CASE s = {}
    BY <2>1 DEF IsSum
  <2>2. CASE s # {}
    <3>1. s \ {Choice(s)} \in SUBSET s /\ s \ {Choice(s)} # s
      BY <2>2, ChoiceIn
    <3>2. g[s \ {Choice(s)}] = h[s \ {Choice(s)}]
      BY <1>2, <3>1
    <3>3. /\ g[s] = f[Choice(s)] + g[s \ {Choice(s)}]
          /\ h[s] = f[Choice(s)] + h[s \ {Choice(s)}]
      BY <2>2 DEF IsSum
    <3> QED BY <3>2, <3>3
  <2> QED BY <2>1, <2>2
<1> HIDE DEF Good
<1>3. \A s \in SUBSET T : s \in Good
  BY <1>1, <1>2, SubsetInduction
<1> QED BY <1>3 DEF Good

\* Where there is one, the sum obeys its recursion.
LEMMA SumUnfolds ==
  ASSUME NEW f, NEW S, IsFiniteSet(S),
         \A T \in SUBSET S : \E g : IsSum(g, f, T)
  PROVE  SumOver(f, S) = IF S = {} THEN 0
                         ELSE f[Choice(S)] + SumOver(f, S \ {Choice(S)})
<1> DEFINE g == CHOOSE g : IsSum(g, f, S)
<1>1. IsSum(g, f, S)
  OBVIOUS
<1>2. CASE S = {}
  BY <1>1, <1>2 DEF IsSum, SumOver
<1>3. CASE S # {}
  <2> DEFINE T == S \ {Choice(S)}
             h == CHOOSE h : IsSum(h, f, T)
  <2>1. T \in SUBSET S /\ IsSum(h, f, T)
    OBVIOUS
  <2> HIDE DEF g, h, T
  <2>2. g[T] = h[T]
    <3>1. \A s \in SUBSET T : g[s] = h[s]
      BY <1>1, <2>1, SumUnique
    <3> QED BY <3>1
  <2>3. g[S] = f[Choice(S)] + g[T]
    <3>1. g[S] = f[Choice(S)] + g[S \ {Choice(S)}]
      BY <1>1, <1>3 DEF IsSum
    <3> QED BY <3>1 DEF T
  <2> QED BY <1>3, <2>2, <2>3 DEF SumOver, g, h, T
<1> QED BY <1>2, <1>3

\* There always is one.
LEMMA SumExists ==
  ASSUME NEW f, NEW S, IsFiniteSet(S)
  PROVE  \A T \in SUBSET S : \E g : IsSum(g, f, T)
<1> DEFINE Good == {T \in SUBSET S : \E g : IsSum(g, f, T)}
<1>1. ASSUME NEW T \in SUBSET S,
             \A U \in SUBSET T : U # T => U \in Good
      PROVE  T \in Good
  <2> DEFINE g == [s \in SUBSET T |->
                     IF s = {} THEN 0
                     ELSE f[Choice(s)] + SumOver(f, s \ {Choice(s)})]
  <2>1. ASSUME NEW s \in SUBSET T, s # {}
        PROVE  g[s \ {Choice(s)}] = SumOver(f, s \ {Choice(s)})
    <3> DEFINE U == s \ {Choice(s)}
    <3>1. U \in SUBSET T /\ U # T /\ IsFiniteSet(U)
      BY <2>1, ChoiceIn, FS_Subset
    <3>2. \A V \in SUBSET U : \E h : IsSum(h, f, V)
      <4>1. ASSUME NEW V \in SUBSET U PROVE V \in SUBSET T /\ V # T
        BY <2>1, <3>1, ChoiceIn
      <4> QED BY <1>1, <4>1
    <3> HIDE DEF U
    <3>3. SumOver(f, U) = IF U = {} THEN 0
                          ELSE f[Choice(U)] + SumOver(f, U \ {Choice(U)})
      BY <3>1, <3>2, SumUnfolds
    <3> QED BY <3>1, <3>3 DEF U
  <2>2. IsSum(g, f, T)
    BY <2>1 DEF IsSum
  <2> QED BY <2>2
<1> HIDE DEF Good
<1>2. \A T \in SUBSET S : T \in Good
  BY <1>1, SubsetInduction
<1> QED BY <1>2 DEF Good

LEMMA SumRecursion ==
  ASSUME NEW f, NEW S, IsFiniteSet(S)
  PROVE  SumOver(f, S) = IF S = {} THEN 0
                         ELSE f[Choice(S)] + SumOver(f, S \ {Choice(S)})
BY SumExists, SumUnfolds

\* A sum of integers is an integer.
LEMMA SumType ==
  ASSUME NEW f, NEW S, IsFiniteSet(S), \A x \in S : f[x] \in Int
  PROVE  \A T \in SUBSET S : SumOver(f, T) \in Int
<1> DEFINE Good == {T \in SUBSET S : SumOver(f, T) \in Int}
<1>1. ASSUME NEW T \in SUBSET S,
             \A U \in SUBSET T : U # T => U \in Good
      PROVE  T \in Good
  <2>1. IsFiniteSet(T)
    BY FS_Subset
  <2>2. CASE T = {}
    BY <2>1, <2>2, SumRecursion
  <2>3. CASE T # {}
    <3>1. Choice(T) \in T
      BY <2>3, ChoiceIn
    <3>2. SumOver(f, T \ {Choice(T)}) \in Int
      BY <1>1, <3>1
    <3>3. f[Choice(T)] \in Int
      BY <3>1
    <3> QED BY <2>1, <2>3, <3>2, <3>3, SumRecursion
  <2> QED BY <2>2, <2>3
<1> HIDE DEF Good
<1>2. \A T \in SUBSET S : T \in Good
  BY <1>1, SubsetInduction
<1> QED BY <1>2 DEF Good
\* In whatever order the elements are taken, each counts once.
LEMMA SumTakesAny ==
  ASSUME NEW f, NEW S, IsFiniteSet(S), \A x \in S : f[x] \in Int
  PROVE  \A x \in S : SumOver(f, S) = f[x] + SumOver(f, S \ {x})
<1> DEFINE Good == {T \in SUBSET S :
                      \A x \in T : SumOver(f, T) = f[x] + SumOver(f, T \ {x})}
<1>1. ASSUME NEW T \in SUBSET S,
             \A U \in SUBSET T : U # T => U \in Good
      PROVE  T \in Good
  <2> SUFFICES ASSUME NEW x \in T
               PROVE  SumOver(f, T) = f[x] + SumOver(f, T \ {x})
    OBVIOUS
  <2> DEFINE c == Choice(T)
  <2>1. c \in T /\ IsFiniteSet(T)
    BY ChoiceIn, FS_Subset
  <2>2. SumOver(f, T) = f[c] + SumOver(f, T \ {c})
    BY <2>1, SumRecursion
  <2> HIDE DEF c
  <2>3. CASE x = c
    BY <2>2, <2>3
  <2>4. CASE x # c
    <3>1. T \ {c} \in Good /\ T \ {x} \in Good
      BY <1>1, <2>1
    <3>2. /\ SumOver(f, T \ {c}) = f[x] + SumOver(f, (T \ {c}) \ {x})
          /\ SumOver(f, T \ {x}) = f[c] + SumOver(f, (T \ {x}) \ {c})
      BY <2>1, <2>4, <3>1
    <3>3. (T \ {c}) \ {x} = (T \ {x}) \ {c}
      OBVIOUS
    <3> DEFINE rest == SumOver(f, (T \ {x}) \ {c})
    <3>4. rest \in Int /\ f[x] \in Int /\ f[c] \in Int
      <4>1. (T \ {x}) \ {c} \in SUBSET S
        OBVIOUS
      <4> QED BY <2>1, <4>1, SumType
    <3>5. /\ SumOver(f, T \ {c}) = f[x] + rest
          /\ SumOver(f, T \ {x}) = f[c] + rest
      BY <3>2, <3>3
    <3> HIDE DEF rest
    <3> QED BY <2>2, <3>4, <3>5
  <2> QED BY <2>3, <2>4
<1> HIDE DEF Good
<1>2. \A T \in SUBSET S : T \in Good
  BY <1>1, SubsetInduction
<1> QED BY <1>2 DEF Good

\* Two functions that agree on a set have the same sum over it.
LEMMA SumOfEqual ==
  ASSUME NEW f, NEW h, NEW S, IsFiniteSet(S), \A x \in S : f[x] = h[x]
  PROVE  SumOver(f, S) = SumOver(h, S)
<1> DEFINE Good == {T \in SUBSET S : SumOver(f, T) = SumOver(h, T)}
<1>1. ASSUME NEW T \in SUBSET S,
             \A U \in SUBSET T : U # T => U \in Good
      PROVE  T \in Good
  <2>1. IsFiniteSet(T)
    BY FS_Subset
  <2>2. CASE T = {}
    BY <2>1, <2>2, SumRecursion
  <2>3. CASE T # {}
    <3>1. Choice(T) \in T
      BY <2>3, ChoiceIn
    <3>2. SumOver(f, T \ {Choice(T)}) = SumOver(h, T \ {Choice(T)})
      BY <1>1, <3>1
    <3>3. f[Choice(T)] = h[Choice(T)]
      BY <3>1
    <3> QED BY <2>1, <2>3, <3>2, <3>3, SumRecursion
  <2> QED BY <2>2, <2>3
<1> HIDE DEF Good
<1>2. \A T \in SUBSET S : T \in Good
  BY <1>1, SubsetInduction
<1> QED BY <1>2 DEF Good

-----------------------------------------------------------------------------
(* Scores.                                                                 *)

LEMMA ChargedIsSum ==
  ASSUME NEW team, NEW unlocks, IsFiniteSet(unlocks)
  PROVE  Charged(team, unlocks)
           = SumOver([u \in unlocks |-> u.points],
                     {u \in unlocks : u.team = team})
<1> DEFINE S    == {u \in unlocks : u.team = team}
           f    == [u \in unlocks |-> u.points]
           R(g) == g = [s \in SUBSET S |->
                          IF s = {} THEN 0
                          ELSE (CHOOSE x \in s : TRUE).points
                                 + g[s \ {CHOOSE x \in s : TRUE}]]
           h    == CHOOSE g : R(g)
<1>1. Charged(team, unlocks) = h[S]
  BY DEF Charged, MapThenSumSet, MapThenFoldSet
<1>2. \A g : R(g) <=> IsSum(g, f, S)
  <2>1. \A s \in SUBSET S : s # {} =>
           f[CHOOSE x \in s : TRUE] = (CHOOSE x \in s : TRUE).points
    <3> SUFFICES ASSUME NEW s \in SUBSET S, s # {}
                 PROVE  (CHOOSE x \in s : TRUE) \in unlocks
      OBVIOUS
    <3> QED BY ChoiceIn DEF Choice
  <2>2. ASSUME NEW g
        PROVE  [s \in SUBSET S |->
                  IF s = {} THEN 0
                  ELSE (CHOOSE x \in s : TRUE).points
                         + g[s \ {CHOOSE x \in s : TRUE}]]
                 = [s \in SUBSET S |->
                     IF s = {} THEN 0 ELSE f[Choice(s)] + g[s \ {Choice(s)}]]
    BY <2>1 DEF Choice
  <2> QED BY <2>2 DEF IsSum
<1>3. IsFiniteSet(S)
  BY FS_Subset
<1> HIDE DEF f, S
<1>4. \E g : IsSum(g, f, S)
  BY <1>3, SumExists
<1>5. R(h)
  <2>1. \E g : R(g)
    <3> HIDE DEF R
    <3> QED BY <1>2, <1>4
  <2> HIDE DEF R
  <2> QED BY <2>1
<1> HIDE DEF h
<1>6. IsSum(h, f, S)
  BY <1>2, <1>5
<1>7. SumOver(f, S) = h[S]
  <2> DEFINE k == CHOOSE g : IsSum(g, f, S)
  <2>1. IsSum(k, f, S)
    BY <1>4
  <2> HIDE DEF k
  <2>2. \A s \in SUBSET S : k[s] = h[s]
    BY <1>3, <1>6, <2>1, SumUnique
  <2> QED BY <2>2 DEF SumOver, k
<1> QED BY <1>1, <1>7 DEF f, S

\* What a team earns and what it is charged are such sums.
LEMMA EarnedIsSum ==
  ASSUME NEW team, NEW challenges, NEW points, NEW solves
  PROVE  Earned(team, challenges, points, solves)
           = SumOver(points, {c \in challenges : <<team, c>> \in solves})
BY DEF Earned, SumOver, IsSum, Choice,
       SumFunctionOnSet, FoldFunctionOnSet, MapThenFoldSet

\* What a team earns and what it is charged are integers.
LEMMA EarnedType ==
  ASSUME NEW challenges, IsFiniteSet(challenges),
         NEW points, \A c \in challenges : points[c] \in Int,
         NEW team, NEW solves
  PROVE  Earned(team, challenges, points, solves) \in Int
<1> DEFINE S == {c \in challenges : <<team, c>> \in solves}
<1>1. S \in SUBSET challenges /\ \A c \in challenges : points[c] \in Int
  OBVIOUS
<1>2. SumOver(points, S) \in Int
  BY <1>1, SumType
<1> QED BY <1>2, EarnedIsSum

LEMMA ChargedType ==
  ASSUME NEW unlocks, IsFiniteSet(unlocks),
         \A u \in unlocks : u.points \in Int, NEW team
  PROVE  Charged(team, unlocks) \in Int
<1> DEFINE f == [u \in unlocks |-> u.points]
           S == {u \in unlocks : u.team = team}
<1>1. S \in SUBSET unlocks /\ \A u \in unlocks : f[u] \in Int
  OBVIOUS
<1> HIDE DEF f, S
<1>2. SumOver(f, S) \in Int
  BY <1>1, SumType
<1> QED BY <1>2, ChargedIsSum DEF f, S

\* So is a team's total, disqualified or not.
LEMMA TotalType ==
  ASSUME NEW team, NEW challenges, IsFiniteSet(challenges),
         NEW points, \A c \in challenges : points[c] \in Int,
         NEW solves, NEW unlocks,
         IsFiniteSet(unlocks), \A u \in unlocks : u.points \in Int,
         NEW disqualified
  PROVE  TotalOf(team, challenges, points, solves, unlocks, disqualified) \in Int
BY EarnedType, ChargedType DEF TotalOf

\* One more unlock charges its team what it cost, and no other team.
LEMMA UnlockCharges ==
  ASSUME NEW unlocks, IsFiniteSet(unlocks),
         \A v \in unlocks : v.points \in Int,
         NEW u, u \notin unlocks, u.points \in Int, NEW team
  PROVE  Charged(team, unlocks \union {u})
           = Charged(team, unlocks) + (IF u.team = team THEN u.points ELSE 0)
<1> DEFINE new == unlocks \union {u}
           f   == [v \in unlocks |-> v.points]
           h   == [v \in new |-> v.points]
           S   == {v \in unlocks : v.team = team}
           T   == {v \in new : v.team = team}
<1>1. IsFiniteSet(new) /\ IsFiniteSet(S) /\ IsFiniteSet(T)
  <2>1. IsFiniteSet(new)
    BY FS_AddElement
  <2> QED BY <2>1, FS_Subset
<1>2. Charged(team, unlocks) = SumOver(f, S) /\ Charged(team, new) = SumOver(h, T)
  BY <1>1, ChargedIsSum
<1>3. \A v \in S : f[v] = h[v]
  OBVIOUS
<1>4. SumOver(f, S) = SumOver(h, S)
  <2> HIDE DEF f, h, S
  <2> QED BY <1>1, <1>3, SumOfEqual
<1>5. \A v \in new : h[v] \in Int
  OBVIOUS
<1>6. SumOver(h, S) \in Int
  <2>1. S \in SUBSET new
    OBVIOUS
  <2> HIDE DEF h, S, new
  <2> QED BY <1>1, <1>5, <2>1, SumType
<1>7. CASE u.team = team
  <2>1. u \in T /\ T \ {u} = S /\ h[u] = u.points /\ \A v \in T : h[v] \in Int
    BY <1>7
  <2> HIDE DEF h, S, T
  <2>2. SumOver(h, T) = h[u] + SumOver(h, T \ {u})
    BY <1>1, <2>1, SumTakesAny
  <2>3. SumOver(h, T) = u.points + SumOver(h, S)
    BY <2>1, <2>2
  <2>4. Charged(team, new) = u.points + Charged(team, unlocks)
    BY <1>2, <1>4, <2>3
  <2>5. Charged(team, unlocks) \in Int
    BY <1>2, <1>4, <1>6
  <2> QED BY <1>7, <2>4, <2>5
<1>8. CASE u.team # team
  <2>1. T = S
    BY <1>8
  <2> HIDE DEF h, S, T
  <2> QED BY <1>2, <1>4, <1>6, <1>8, <2>1
<1> QED BY <1>7, <1>8
-----------------------------------------------------------------------------
(* Extremes.                                                               *)

\* A finite set of integers has a largest element.
LEMMA MaxIn ==
  ASSUME NEW S, IsFiniteSet(S), S # {}, \A x \in S : x \in Int
  PROVE  Max(S) \in S
<1> DEFINE Good == {T \in SUBSET S : T # {} => \E x \in T : \A y \in T : x >= y}
<1>1. ASSUME NEW T \in SUBSET S,
             \A U \in SUBSET T : U # T => U \in Good
      PROVE  T \in Good
  <2> SUFFICES ASSUME NEW x \in T PROVE \E z \in T : \A y \in T : z >= y
    OBVIOUS
  <2>1. CASE T = {x}
    BY <2>1
  <2>2. CASE T # {x}
    <3>1. T \ {x} \in Good /\ T \ {x} # {}
      BY <1>1, <2>2
    <3>2. PICK z \in T \ {x} : \A y \in T \ {x} : z >= y
      BY <3>1
    <3>3. x \in Int /\ z \in Int /\ \A y \in T : y \in Int
      OBVIOUS
    <3>4. CASE x >= z
      BY <3>2, <3>3, <3>4
    <3>5. CASE z >= x
      BY <3>2, <3>5
    <3> QED BY <3>3, <3>4, <3>5
  <2> QED BY <2>1, <2>2
<1> HIDE DEF Good
<1>2. \A T \in SUBSET S : T \in Good
  BY <1>1, SubsetInduction
<1>3. \E x \in S : \A y \in S : x >= y
  BY <1>2 DEF Good
<1> QED BY <1>3 DEF Max

\* A set of natural numbers has a smallest element.
LEMMA Least ==
  ASSUME NEW T \in SUBSET Nat, T # {}
  PROVE  \E m \in T : \A k \in T : m <= k
<1>1. PICK m \in T : \A k \in T : ~(<<k, m>> \in OpToRel(<, Nat))
  BY NatLessThanWellFounded, WFMin
<1>2. ASSUME NEW k \in T PROVE m <= k
  <2> SUFFICES ASSUME k < m PROVE FALSE
    OBVIOUS
  <2>1. <<k, m>> \in Nat \X Nat
    OBVIOUS
  <2>2. <<k, m>> \in OpToRel(<, Nat)
    BY <2>1 DEF OpToRel
  <2> QED BY <1>1, <2>2
<1> QED BY <1>2

=============================================================================
