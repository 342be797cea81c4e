--------------------------- MODULE Catalog_proofs ---------------------------
(***************************************************************************)
(* Theorems about Catalog, for any requests, slugs, orders and teams.      *)
(***************************************************************************)
EXTENDS Catalog, FiniteSetTheorems, SequenceTheorems, TLAPS

-----------------------------------------------------------------------------
(* Sets listed in an order.                                                *)

Before(S, R, i) == {j \in S : <<j, i>> \in R}

IsStrictOrder(R, S) ==
  /\ \A i \in S : <<i, i>> \notin R
  /\ \A i, j, k \in S : <<i, j>> \in R /\ <<j, k>> \in R => <<i, k>> \in R
  /\ \A i, j \in S : i = j \/ <<i, j>> \in R \/ <<j, i>> \in R

\* A member has fewer members before it than there are, and more than those
\* before it have.
LEMMA BeforeCounts ==
  ASSUME NEW S, IsFiniteSet(S), NEW R, IsStrictOrder(R, S)
  PROVE  /\ Cardinality(S) \in Nat
         /\ \A i \in S : Cardinality(Before(S, R, i)) \in 0 .. Cardinality(S) - 1
         /\ \A i, j \in S : <<i, j>> \in R =>
              Cardinality(Before(S, R, i)) < Cardinality(Before(S, R, j))
<1>1. Cardinality(S) \in Nat
  BY FS_CardinalityType
<1>2. ASSUME NEW i \in S
      PROVE  /\ IsFiniteSet(Before(S, R, i))
             /\ Cardinality(Before(S, R, i)) \in 0 .. Cardinality(S) - 1
  <2>1. Before(S, R, i) \subseteq S \ {i}
    BY DEF Before, IsStrictOrder
  <2>2. IsFiniteSet(S \ {i}) /\ Cardinality(S \ {i}) = Cardinality(S) - 1
    BY FS_RemoveElement
  <2>3. /\ IsFiniteSet(Before(S, R, i))
        /\ Cardinality(Before(S, R, i)) <= Cardinality(S \ {i})
    BY <2>1, <2>2, FS_Subset
  <2>4. Cardinality(Before(S, R, i)) \in Nat
    BY <2>3, FS_CardinalityType
  <2> QED BY <1>1, <2>2, <2>3, <2>4
<1>3. ASSUME NEW i \in S, NEW j \in S, <<i, j>> \in R
      PROVE  Cardinality(Before(S, R, i)) < Cardinality(Before(S, R, j))
  <2>1. Before(S, R, i) \subseteq Before(S, R, j)
    BY <1>3 DEF Before, IsStrictOrder
  <2>2. i \in Before(S, R, j) /\ i \notin Before(S, R, i)
    BY <1>3 DEF Before, IsStrictOrder
  <2>3. /\ Cardinality(Before(S, R, i)) <= Cardinality(Before(S, R, j))
        /\ Cardinality(Before(S, R, i)) # Cardinality(Before(S, R, j))
    BY <1>2, <2>1, <2>2, FS_Subset
  <2> QED BY <1>2, <2>3
<1> QED BY <1>1, <1>2, <1>3

\* The list has every member once, and in order.
LEMMA ListedInOrder ==
  ASSUME NEW S, IsFiniteSet(S), NEW R, IsStrictOrder(R, S)
  PROVE  /\ Cardinality(S) \in Nat
         /\ Listed(S, R) \in [1 .. Cardinality(S) -> S]
         /\ \A i \in S : \E k \in 1 .. Cardinality(S) : Listed(S, R)[k] = i
         /\ \A k \in 1 .. Cardinality(S) :
              Cardinality(Before(S, R, Listed(S, R)[k])) = k - 1
         /\ \A k, l \in 1 .. Cardinality(S) :
              k < l <=> <<Listed(S, R)[k], Listed(S, R)[l]>> \in R
<1> DEFINE n    == Cardinality(S)
           B(i) == Before(S, R, i)
           rank == [i \in S |-> Cardinality(B(i)) + 1]
           q    == Listed(S, R)
<1>1. /\ n \in Nat
      /\ \A i \in S : Cardinality(B(i)) \in 0 .. n - 1
      /\ \A i, j \in S : <<i, j>> \in R => Cardinality(B(i)) < Cardinality(B(j))
  BY BeforeCounts
<1>2. \A i, j \in S : Cardinality(B(i)) = Cardinality(B(j)) => i = j
  <2> SUFFICES ASSUME NEW i \in S, NEW j \in S,
                      Cardinality(B(i)) = Cardinality(B(j)), i # j
               PROVE  FALSE
    OBVIOUS
  <2>1. <<i, j>> \in R \/ <<j, i>> \in R
    BY DEF IsStrictOrder
  <2> HIDE DEF B
  <2> QED BY <1>1, <2>1
<1>3. rank \in Surjection(S, 1 .. n)
  <2>1. rank \in Injection(S, 1 .. n)
    <3> HIDE DEF B, n
    <3> QED BY <1>1, <1>2 DEF Injection, IsInjective
  <2>2. IsFiniteSet(1 .. n) /\ Cardinality(1 .. n) = n
    <3> HIDE DEF n
    <3>1. 1 \in Int /\ n \in Int
      BY <1>1
    <3>2. IsFiniteSet(1 .. n) /\ Cardinality(1 .. n) = IF 1 > n THEN 0 ELSE n - 1 + 1
      BY ONLY <3>1, FS_Interval
    <3> QED BY <1>1, <3>2
  <2> QED BY <2>1, <2>2, FS_Injection
<1>4. \A k \in 1 .. n : \E i \in S : Cardinality(B(i)) = k - 1
  <2> HIDE DEF B, n
  <2> SUFFICES ASSUME NEW k \in 1 .. n
               PROVE  \E i \in S : Cardinality(B(i)) = k - 1
    OBVIOUS
  <2>1. PICK i \in S : rank[i] = k
    BY <1>3 DEF Surjection
  <2> QED BY <1>1, <2>1
<1>5. q = [k \in 1 .. n |-> CHOOSE i \in S : Cardinality(B(i)) = k - 1]
  BY DEF Listed, Before
<1>6. q \in [1 .. n -> S] /\ \A k \in 1 .. n : q[k] \in S /\ Cardinality(B(q[k])) = k - 1
  <2> HIDE DEF B, n, q
  <2>1. \A k \in 1 .. n : q[k] \in S /\ Cardinality(B(q[k])) = k - 1
    BY <1>4, <1>5
  <2> QED BY <1>5, <2>1
<1>7. \A i \in S : \E k \in 1 .. n : q[k] = i
  <2> HIDE DEF B, n, q
  <2> SUFFICES ASSUME NEW i \in S PROVE \E k \in 1 .. n : q[k] = i
    OBVIOUS
  <2> DEFINE k == Cardinality(B(i)) + 1
  <2>1. k \in 1 .. n /\ Cardinality(B(i)) = k - 1
    BY <1>1
  <2>2. q[k] \in S /\ Cardinality(B(q[k])) = Cardinality(B(i))
    BY <1>6, <2>1
  <2>3. q[k] = i
    BY <1>2, <2>2
  <2> QED BY <2>1, <2>3
<1>8. \A k, l \in 1 .. n : k < l <=> <<q[k], q[l]>> \in R
  <2> HIDE DEF B, n, q
  <2> SUFFICES ASSUME NEW k \in 1 .. n, NEW l \in 1 .. n
               PROVE  k < l <=> <<q[k], q[l]>> \in R
    OBVIOUS
  <2>1. /\ q[k] \in S /\ Cardinality(B(q[k])) = k - 1
        /\ q[l] \in S /\ Cardinality(B(q[l])) = l - 1
    BY <1>6
  <2>2. q[k] = q[l] \/ <<q[k], q[l]>> \in R \/ <<q[l], q[k]>> \in R
    BY <2>1 DEF IsStrictOrder
  <2>3. <<q[k], q[l]>> \in R => k < l
    BY <1>1, <2>1
  <2>4. <<q[l], q[k]>> \in R => l < k
    BY <1>1, <2>1
  <2>5. q[k] = q[l] => k = l
    BY <2>1
  <2> QED BY <1>1, <2>2, <2>3, <2>4, <2>5
<1> QED BY <1>1, <1>6, <1>7, <1>8

\* A set of numbers, as ORDER BY id lists it.
LEMMA AscendingInOrder ==
  ASSUME NEW S \in SUBSET Int, IsFiniteSet(S)
  PROVE  /\ Cardinality(S) \in Nat
         /\ Ascending(S) \in [1 .. Cardinality(S) -> S]
         /\ \A i \in S : \E k \in 1 .. Cardinality(S) : Ascending(S)[k] = i
         /\ \A k \in 1 .. Cardinality(S) :
              Cardinality({j \in S : j < Ascending(S)[k]}) = k - 1
         /\ \A k, l \in 1 .. Cardinality(S) :
              k < l <=> Ascending(S)[k] < Ascending(S)[l]
<1> DEFINE R == {p \in S \X S : p[1] < p[2]}
<1>1. \A i, j \in S : <<i, j>> \in R <=> i < j
  OBVIOUS
<1> HIDE DEF R
<1>2. IsStrictOrder(R, S)
  BY <1>1 DEF IsStrictOrder
<1>3. Ascending(S) = Listed(S, R)
  BY DEF Ascending, R
<1>4. \A i \in S : Before(S, R, i) = {j \in S : j < i}
  BY <1>1 DEF Before
<1>5. /\ Cardinality(S) \in Nat
      /\ Listed(S, R) \in [1 .. Cardinality(S) -> S]
      /\ \A i \in S : \E k \in 1 .. Cardinality(S) : Listed(S, R)[k] = i
      /\ \A k \in 1 .. Cardinality(S) :
           Cardinality(Before(S, R, Listed(S, R)[k])) = k - 1
      /\ \A k, l \in 1 .. Cardinality(S) :
           k < l <=> <<Listed(S, R)[k], Listed(S, R)[l]>> \in R
  BY <1>2, ListedInOrder
<1>6. \A k \in 1 .. Cardinality(S) : Listed(S, R)[k] \in S
  BY <1>5
<1> QED BY <1>1, <1>3, <1>4, <1>5, <1>6

-----------------------------------------------------------------------------
(* The n-th of an order.                                                   *)

Alike(a, i) == {j \in 1 .. i : a[j] = a[i]}

\* There are finitely many of one order.
LEMMA AlikeFinite ==
  ASSUME NEW a, NEW i \in Int
  PROVE  IsFiniteSet(Alike(a, i))
<1>1. IsFiniteSet(1 .. i)
  <2>1. 1 \in Int
    OBVIOUS
  <2> QED BY ONLY <2>1, i \in Int, FS_Interval
<1>2. Alike(a, i) \subseteq 1 .. i
  BY DEF Alike
<1> QED BY <1>1, <1>2, FS_Subset

\* Those of one order are numbered from 1 without a gap, in the order of the list.
LEMMA Numbers ==
  ASSUME NEW T, NEW a \in Seq(T)
  PROVE  /\ \A i \in DOMAIN a : Nth(a, i) \in Nat \ {0}
         /\ \A i, j \in DOMAIN a :
              i < j /\ a[i] = a[j] => Nth(a, i) < Nth(a, j)
         /\ \A i \in DOMAIN a : \A m \in 1 .. Nth(a, i) :
              \E j \in 1 .. i : a[j] = a[i] /\ Nth(a, j) = m
<1>1. \A i \in DOMAIN a : /\ i \in Nat /\ i > 0
                          /\ \A j \in 1 .. i : j \in DOMAIN a
                          /\ Nth(a, i) = Cardinality(Alike(a, i))
                          /\ IsFiniteSet(Alike(a, i))
  <2> SUFFICES ASSUME NEW i \in DOMAIN a
               PROVE  /\ i \in Nat /\ i > 0
                      /\ \A j \in 1 .. i : j \in DOMAIN a
                      /\ Nth(a, i) = Cardinality(Alike(a, i))
                      /\ IsFiniteSet(Alike(a, i))
    OBVIOUS
  <2>1. i \in Nat /\ i > 0 /\ \A j \in 1 .. i : j \in DOMAIN a
    OBVIOUS
  <2> QED BY <2>1, AlikeFinite DEF Nth, Alike
<1>2. ASSUME NEW i \in DOMAIN a PROVE Nth(a, i) \in Nat \ {0}
  <2>1. i \in Alike(a, i)
    BY <1>1 DEF Alike
  <2>2. Cardinality(Alike(a, i)) \in Nat /\ Cardinality(Alike(a, i)) # 0
    BY <1>1, <2>1, FS_CardinalityType, FS_EmptySet
  <2> QED BY <1>1, <2>2
<1>3. ASSUME NEW i \in DOMAIN a, NEW j \in DOMAIN a, i < j, a[i] = a[j]
      PROVE  Nth(a, i) < Nth(a, j)
  <2>1. Alike(a, i) \subseteq Alike(a, j) /\ j \in Alike(a, j) /\ j \notin Alike(a, i)
    BY <1>1, <1>3 DEF Alike
  <2>2. /\ Cardinality(Alike(a, i)) <= Cardinality(Alike(a, j))
        /\ Cardinality(Alike(a, i)) # Cardinality(Alike(a, j))
    BY <1>1, <2>1, FS_Subset
  <2> QED BY <1>1, <1>2, <2>2
<1>4. ASSUME NEW i \in DOMAIN a, NEW m \in 1 .. Nth(a, i)
      PROVE  \E j \in 1 .. i : a[j] = a[i] /\ Nth(a, j) = m
  <2> DEFINE S == Alike(a, i)
             j == Ascending(S)[m]
  <2>1. S \in SUBSET Int /\ IsFiniteSet(S) /\ m \in 1 .. Cardinality(S)
    BY <1>1, <1>4 DEF Alike
  <2>2. j \in S /\ Cardinality({l \in S : l < j}) = m - 1
    <3> HIDE DEF S
    <3> QED BY <2>1, AscendingInOrder
  <2>3. j \in 1 .. i /\ a[j] = a[i] /\ j \in DOMAIN a
    BY <1>1, <2>2 DEF Alike
  <2>4. Alike(a, j) = {l \in S : l < j} \union {j}
    <3>1. ASSUME NEW l \in Alike(a, j) PROVE l \in {x \in S : x < j} \union {j}
      BY <1>1, <2>3, <3>1 DEF Alike
    <3>2. ASSUME NEW l \in {x \in S : x < j} \union {j} PROVE l \in Alike(a, j)
      BY <1>1, <2>2, <2>3, <3>2 DEF Alike
    <3> QED BY <3>1, <3>2
  <2>5. IsFiniteSet({l \in S : l < j}) /\ j \notin {l \in S : l < j}
    <3>1. {l \in S : l < j} \subseteq S
      OBVIOUS
    <3>2. j \notin {l \in S : l < j}
      BY <2>3
    <3> QED BY <2>1, <3>1, <3>2, FS_Subset
  <2>6. Cardinality(Alike(a, j)) = m - 1 + 1
    <3> HIDE DEF S, j
    <3> QED BY <2>2, <2>4, <2>5, FS_AddElement
  <2>7. m \in Int
    BY <1>1, <1>2
  <2> QED BY <1>1, <2>3, <2>6, <2>7
<1> QED BY <1>2, <1>3, <1>4

\* An order and a number belong to one place of the list.
LEMMA NumberTells ==
  ASSUME NEW T, NEW a \in Seq(T), NEW i \in DOMAIN a, NEW j \in DOMAIN a,
         a[i] = a[j], Nth(a, i) = Nth(a, j)
  PROVE  i = j
<1>1. i \in Int /\ j \in Int
  OBVIOUS
<1>2. Nth(a, i) \in Nat /\ ~(i < j) /\ ~(j < i)
  BY Numbers
<1> QED BY <1>1, <1>2

\* Two sets with a one-to-one correspondence are of one size.
LEMMA SameCount ==
  ASSUME NEW S, IsFiniteSet(S), NEW T, NEW g \in [S -> T],
         \A x, y \in S : g[x] = g[y] => x = y,
         \A z \in T : \E x \in S : g[x] = z
  PROVE  Cardinality(S) = Cardinality(T)
<1>1. g \in Bijection(S, T)
  BY DEF Bijection, Injection, Surjection, IsInjective
<1> QED BY <1>1, FS_Bijection DEF ExistsBijection

-----------------------------------------------------------------------------
(* What sync_hints makes of the orders a of the rows and e of the entry.   *)

\* The rows that are taken, and the hints left without one, can be listed.
LEMMA MatchedFinite ==
  ASSUME NEW T, NEW a \in Seq(T), NEW e \in Seq(T)
  PROVE  /\ Matched(a, e) \in SUBSET Int /\ IsFiniteSet(Matched(a, e))
         /\ Unmatched(a, e) \in SUBSET Int /\ IsFiniteSet(Unmatched(a, e))
<1>1. /\ DOMAIN a \in SUBSET Int /\ IsFiniteSet(DOMAIN a)
      /\ DOMAIN e \in SUBSET Int /\ IsFiniteSet(DOMAIN e)
  <2>1. \A s \in Seq(T) : DOMAIN s = 1 .. Len(s) /\ Len(s) \in Int
    OBVIOUS
  <2>2. \A n \in Int : IsFiniteSet(1 .. n)
    <3>1. 1 \in Int
      OBVIOUS
    <3> QED BY ONLY <3>1, FS_Interval
  <2> QED BY <2>1, <2>2
<1>2. Matched(a, e) \subseteq DOMAIN a /\ Unmatched(a, e) \subseteq DOMAIN e
  BY DEF Matched, Unmatched
<1> QED BY <1>1, <1>2, FS_Subset

\* With a row all earlier ones of its order are taken.
LEMMA MatchedFromFirst ==
  ASSUME NEW T, NEW a \in Seq(T), NEW e \in Seq(T),
         NEW i \in Matched(a, e), NEW j \in 1 .. i, a[j] = a[i]
  PROVE  j \in Matched(a, e)
<1>1. i \in DOMAIN a /\ j \in DOMAIN a /\ j \in Int /\ i \in Int
  BY DEF Matched
<1>2. PICK k \in DOMAIN e : e[k] = a[i] /\ Nth(e, k) = Nth(a, i)
  BY DEF Matched, SameHint
<1>3. Nth(a, j) \in 1 .. Nth(e, k)
  <2>1. Nth(a, i) \in Nat /\ Nth(a, j) \in Nat \ {0} /\ (j < i => Nth(a, j) < Nth(a, i))
    BY <1>1, Numbers
  <2>2. j = i \/ j < i
    BY <1>1
  <2> QED BY <1>2, <2>1, <2>2
<1>4. PICK l \in 1 .. k : e[l] = e[k] /\ Nth(e, l) = Nth(a, j)
  BY <1>3, Numbers
<1>5. l \in DOMAIN e
  OBVIOUS
<1> QED BY <1>1, <1>2, <1>4, <1>5 DEF Matched, SameHint

\* A row and a hint left without one are never of one order and number, and no
\* taken hint of its order comes after it.
LEMMA UnmatchedLast ==
  ASSUME NEW T, NEW a \in Seq(T), NEW e \in Seq(T),
         NEW i \in DOMAIN a, NEW k \in DOMAIN e, SameHint(a, i, e, k),
         NEW j \in Unmatched(a, e), e[j] = e[k]
  PROVE  k < j
<1>1. j \in DOMAIN e /\ j \in Int /\ k \in Int
  BY DEF Unmatched
<1>2. k # j
  BY DEF Unmatched
<1>3. ASSUME j < k PROVE FALSE
  <2>1. Nth(e, j) \in 1 .. Nth(a, i)
    <3>1. Nth(e, j) \in Nat \ {0} /\ Nth(e, k) \in Nat /\ Nth(e, j) < Nth(e, k)
      BY <1>1, <1>3, Numbers
    <3> QED BY <3>1 DEF SameHint
  <2>2. PICK l \in 1 .. i : a[l] = a[i] /\ Nth(a, l) = Nth(e, j)
    BY <2>1, Numbers
  <2>3. l \in DOMAIN a /\ SameHint(a, l, e, j)
    BY <2>2 DEF SameHint
  <2> QED BY <2>3 DEF Unmatched
<1> QED BY <1>1, <1>2, <1>3

\* The orders of the hints that sync_hints leaves.
Synced(a, e) ==
  [k \in 1 .. Cardinality(Matched(a, e)) + Cardinality(Unmatched(a, e)) |->
     IF k <= Cardinality(Matched(a, e)) THEN a[Ascending(Matched(a, e))[k]]
     ELSE e[Ascending(Unmatched(a, e))[k - Cardinality(Matched(a, e))]]]

\* A row that is taken is the n-th of its order before and after.
LEMMA SyncKeepsNumbers ==
  ASSUME NEW T, NEW a \in Seq(T), NEW e \in Seq(T),
         NEW k \in 1 .. Cardinality(Matched(a, e))
  PROVE  Nth(Synced(a, e), k) = Nth(a, Ascending(Matched(a, e))[k])
<1> DEFINE M == Matched(a, e)
           m == Cardinality(M)
           p == Ascending(M)
           c == Synced(a, e)
           n == Cardinality(Unmatched(a, e))
<1>1. /\ m \in Nat /\ n \in Nat
      /\ \A i \in M : \E l \in 1 .. m : p[l] = i
      /\ \A l \in 1 .. m : p[l] \in M
      /\ \A l, l2 \in 1 .. m : l < l2 <=> p[l] < p[l2]
  BY MatchedFinite, AscendingInOrder
<1>2. \A l \in 1 .. m : c[l] = a[p[l]]
  BY <1>1 DEF Synced
<1>3. M \subseteq DOMAIN a /\ \A i \in DOMAIN a : i \in Int /\ i > 0
  BY DEF Matched
<1>4. \A i \in M : \A j \in 1 .. i : a[j] = a[i] => j \in M
  BY MatchedFromFirst
<1> DEFINE g == [l \in Alike(c, k) |-> p[l]]
<1> HIDE DEF M, m, p, c, n
<1>5. k \in 1 .. m /\ k \in Int
  BY <1>1 DEF m, M
<1>6. \A l \in Alike(c, k) : l \in 1 .. m /\ l <= k /\ a[p[l]] = a[p[k]]
  BY <1>1, <1>2, <1>5 DEF Alike
<1>7. g \in [Alike(c, k) -> Alike(a, p[k])]
  <2> SUFFICES ASSUME NEW l \in Alike(c, k) PROVE p[l] \in 1 .. p[k] /\ a[p[l]] = a[p[k]]
    BY DEF Alike
  <2>1. p[l] \in Int /\ p[l] > 0 /\ p[k] \in Int /\ ~(p[k] < p[l])
    BY <1>1, <1>3, <1>5, <1>6
  <2> QED BY <1>6, <2>1
<1>8. \A l, l2 \in Alike(c, k) : g[l] = g[l2] => l = l2
  <2> SUFFICES ASSUME NEW l \in Alike(c, k), NEW l2 \in Alike(c, k), p[l] = p[l2] PROVE l = l2
    OBVIOUS
  <2>1. ~(l < l2) /\ ~(l2 < l) /\ l \in Int /\ l2 \in Int
    BY <1>1, <1>3, <1>6
  <2> QED BY <2>1
<1>9. \A j \in Alike(a, p[k]) : \E l \in Alike(c, k) : g[l] = j
  <2> SUFFICES ASSUME NEW j \in Alike(a, p[k]) PROVE \E l \in Alike(c, k) : p[l] = j
    OBVIOUS
  <2>1. p[k] \in M /\ j \in 1 .. p[k] /\ a[j] = a[p[k]] /\ j \in Int /\ p[k] \in Int
    BY <1>1, <1>3, <1>5 DEF Alike
  <2>2. PICK l \in 1 .. m : p[l] = j
    BY <1>1, <1>4, <2>1
  <2>3. ~(k < l)
    BY <1>1, <1>5, <2>1, <2>2
  <2>4. l \in 1 .. k /\ c[l] = c[k]
    BY <1>1, <1>2, <1>5, <2>1, <2>2, <2>3
  <2> QED BY <2>2, <2>4 DEF Alike
<1>10. Cardinality(Alike(c, k)) = Cardinality(Alike(a, p[k]))
  <2> HIDE DEF g
  <2> QED BY <1>5, <1>7, <1>8, <1>9, AlikeFinite, SameCount
<1>11. Nth(c, k) = Nth(a, p[k])
  BY <1>10 DEF Nth, Alike
<1> QED BY <1>11 DEF c, p, M

\* A hint that gets a new row is the n-th of its order in the entry and after.
LEMMA SyncNumbersNew ==
  ASSUME NEW T, NEW a \in Seq(T), NEW e \in Seq(T),
         NEW k \in 1 .. Cardinality(Unmatched(a, e))
  PROVE  Nth(Synced(a, e), Cardinality(Matched(a, e)) + k)
           = Nth(e, Ascending(Unmatched(a, e))[k])
<1> DEFINE M == Matched(a, e)
           F == Unmatched(a, e)
           m == Cardinality(M)
           n == Cardinality(F)
           p == Ascending(M)
           f == Ascending(F)
           c == Synced(a, e)
           taken(i) == CHOOSE j \in DOMAIN e : SameHint(a, i, e, j)
<1>1. /\ m \in Nat /\ n \in Nat
      /\ \A i \in M : \E l \in 1 .. m : p[l] = i
      /\ \A l \in 1 .. m : p[l] \in M
      /\ \A l, l2 \in 1 .. m : l < l2 <=> p[l] < p[l2]
      /\ \A j \in F : \E l \in 1 .. n : f[l] = j
      /\ \A l \in 1 .. n : f[l] \in F
      /\ \A l, l2 \in 1 .. n : l < l2 <=> f[l] < f[l2]
  BY MatchedFinite, AscendingInOrder
<1>2. /\ \A l \in 1 .. m : c[l] = a[p[l]]
      /\ \A l \in 1 .. n : c[m + l] = e[f[l]]
  <2>1. c = [x \in 1 .. m + n |-> IF x <= m THEN a[p[x]] ELSE e[f[x - m]]]
    BY DEF Synced
  <2> HIDE DEF M, F, m, n, p, f, c
  <2>2. ASSUME NEW l \in 1 .. n PROVE c[m + l] = e[f[l]]
    <3> DEFINE x == m + l
    <3>1. x \in 1 .. m + n /\ ~(x <= m) /\ x - m = l
      BY <1>1
    <3> HIDE DEF x
    <3>2. c[x] = e[f[l]]
      BY <2>1, <3>1
    <3> QED BY <3>2 DEF x
  <2> QED BY <1>1, <2>1, <2>2
<1>3. /\ M \subseteq DOMAIN a /\ \A i \in DOMAIN a : i \in Int /\ i > 0
      /\ F \subseteq DOMAIN e /\ \A i \in DOMAIN e : i \in Int /\ i > 0
  BY DEF Matched, Unmatched
<1>4. \A i \in M : taken(i) \in DOMAIN e /\ SameHint(a, i, e, taken(i))
  BY DEF Matched
<1>5. \A i \in M : \A j \in F : e[j] = a[i] => taken(i) < j
  <2> SUFFICES ASSUME NEW i \in M, NEW j \in F, e[j] = a[i] PROVE taken(i) < j
    OBVIOUS
  <2>1. e[taken(i)] = a[i]
    BY <1>4 DEF SameHint
  <2> HIDE DEF taken
  <2> QED BY <1>3, <1>4, <2>1, UnmatchedLast
<1>6. \A j \in DOMAIN e : j \in F \/ \E i \in M : SameHint(a, i, e, j)
  BY DEF Matched, Unmatched
<1>7. \A i \in DOMAIN a : \A j \in F : ~SameHint(a, i, e, j)
  BY DEF Unmatched
<1>8. \A i, i2 \in DOMAIN a : \A j \in DOMAIN e :
        SameHint(a, i, e, j) /\ SameHint(a, i2, e, j) => i = i2
  BY NumberTells DEF SameHint
<1>9. \A i \in DOMAIN a : \A j, j2 \in DOMAIN e :
        SameHint(a, i, e, j) /\ SameHint(a, i, e, j2) => j = j2
  BY NumberTells DEF SameHint
<1>10. \A i \in DOMAIN a : \A j \in DOMAIN e : SameHint(a, i, e, j) => a[i] = e[j]
  BY DEF SameHint
<1> DEFINE g == [l \in Alike(c, m + k) |-> IF l <= m THEN taken(p[l]) ELSE f[l - m]]
<1>11. k \in 1 .. n /\ k \in Int /\ m + k \in Int /\ c[m + k] = e[f[k]]
  BY <1>1, <1>2 DEF n, F
<1> HIDE DEF M, F, m, n, p, f, c, taken
<1>12. \A l \in Alike(c, m + k) :
         /\ l \in Int
         /\ l <= m => l \in 1 .. m /\ a[p[l]] = e[f[k]] /\ g[l] = taken(p[l])
         /\ ~(l <= m) => l - m \in 1 .. k /\ l - m \in 1 .. n
                           /\ e[f[l - m]] = e[f[k]] /\ g[l] = f[l - m]
  <2> SUFFICES ASSUME NEW l \in Alike(c, m + k)
               PROVE  /\ l \in Int
                      /\ l <= m => l \in 1 .. m /\ a[p[l]] = e[f[k]]
                      /\ ~(l <= m) => l - m \in 1 .. k /\ l - m \in 1 .. n
                                        /\ e[f[l - m]] = e[f[k]]
    OBVIOUS
  <2>1. l \in 1 .. m + k /\ c[l] = e[f[k]]
    BY <1>11 DEF Alike
  <2>2. CASE l <= m
    BY <1>1, <1>2, <2>1, <2>2
  <2>3. CASE ~(l <= m)
    <3>1. l - m \in 1 .. k /\ l - m \in 1 .. n /\ m + (l - m) = l
      BY <1>1, <1>11, <2>1, <2>3
    <3> QED BY <1>2, <2>1, <2>3, <3>1
  <2> QED BY <1>1, <2>1, <2>2, <2>3
<1>13. g \in [Alike(c, m + k) -> Alike(e, f[k])]
  <2> SUFFICES ASSUME NEW l \in Alike(c, m + k)
               PROVE  g[l] \in 1 .. f[k] /\ e[g[l]] = e[f[k]]
    BY DEF Alike
  <2>1. f[k] \in F /\ f[k] \in Int
    BY <1>1, <1>3, <1>11
  <2>2. CASE l <= m
    <3>1. p[l] \in M /\ a[p[l]] = e[f[k]] /\ g[l] = taken(p[l])
      BY <1>1, <1>12, <2>2
    <3>2. g[l] \in DOMAIN e /\ e[g[l]] = e[f[k]] /\ g[l] < f[k]
      BY <1>3, <1>4, <1>5, <1>10, <2>1, <3>1
    <3> HIDE DEF g
    <3> QED BY <1>3, <2>1, <3>2
  <2>3. CASE ~(l <= m)
    <3>1. l - m \in 1 .. n /\ l - m \in 1 .. k /\ g[l] = f[l - m] /\ e[g[l]] = e[f[k]]
      BY <1>12, <2>3
    <3>2. g[l] \in Int /\ g[l] > 0 /\ ~(f[k] < g[l])
      <4>1. g[l] \in F /\ (k < l - m <=> f[k] < g[l])
        BY <1>1, <1>11, <3>1
      <4> HIDE DEF g
      <4> QED BY <1>3, <1>11, <3>1, <4>1
    <3> HIDE DEF g
    <3> QED BY <2>1, <3>1, <3>2
  <2> QED BY <2>2, <2>3
<1>14. \A l, l2 \in Alike(c, m + k) : g[l] = g[l2] => l = l2
  <2> SUFFICES ASSUME NEW l \in Alike(c, m + k), NEW l2 \in Alike(c, m + k), g[l] = g[l2]
               PROVE  l = l2
    OBVIOUS
  <2>0. l \in Int /\ l2 \in Int
    BY <1>12
  <2>1. \A x \in Alike(c, m + k) : x <= m =>
          p[x] \in M /\ g[x] \in DOMAIN e /\ SameHint(a, p[x], e, g[x]) /\ g[x] \notin F
    <3> SUFFICES ASSUME NEW x \in Alike(c, m + k), x <= m
                 PROVE  p[x] \in M /\ g[x] \in DOMAIN e /\ SameHint(a, p[x], e, g[x])
                          /\ g[x] \notin F
      OBVIOUS
    <3>1. p[x] \in M /\ g[x] = taken(p[x])
      BY <1>1, <1>12
    <3> HIDE DEF g
    <3> QED BY <1>3, <1>4, <1>7, <3>1
  <2>2. \A x \in Alike(c, m + k) : ~(x <= m) => g[x] \in F /\ g[x] = f[x - m]
    BY <1>1, <1>12
  <2>3. CASE l <= m /\ l2 <= m
    <3>1. p[l] = p[l2] /\ l \in 1 .. m /\ l2 \in 1 .. m /\ p[l] \in Int
      <4> HIDE DEF g
      <4> QED BY <1>3, <1>8, <1>12, <2>1, <2>3
    <3>2. ~(l < l2) /\ ~(l2 < l)
      BY <1>1, <3>1
    <3> QED BY <2>0, <3>2
  <2>4. CASE ~(l <= m) /\ ~(l2 <= m)
    <3>1. /\ f[l - m] = f[l2 - m] /\ l - m \in 1 .. n /\ l2 - m \in 1 .. n
          /\ f[l - m] \in Int
      BY <1>1, <1>3, <1>12, <2>2, <2>4
    <3>2. ~(l - m < l2 - m) /\ ~(l2 - m < l - m)
      BY <1>1, <3>1
    <3> QED BY <1>1, <2>0, <3>2
  <2>5. CASE (l <= m /\ ~(l2 <= m)) \/ (~(l <= m) /\ l2 <= m)
    <3> HIDE DEF g
    <3> QED BY <2>1, <2>2, <2>5
  <2> QED BY <2>3, <2>4, <2>5
<1>15. \A j \in Alike(e, f[k]) : \E l \in Alike(c, m + k) : g[l] = j
  <2> SUFFICES ASSUME NEW j \in Alike(e, f[k]) PROVE \E l \in Alike(c, m + k) : g[l] = j
    OBVIOUS
  <2>1. /\ f[k] \in F /\ f[k] \in Int /\ j \in 1 .. f[k] /\ e[j] = e[f[k]] /\ j \in Int
        /\ j \in DOMAIN e
    <3>1. f[k] \in F /\ f[k] \in DOMAIN e /\ j \in 1 .. f[k] /\ e[j] = e[f[k]]
      BY <1>1, <1>3, <1>11 DEF Alike
    <3>2. j \in DOMAIN e
      BY <3>1
    <3> QED BY <1>3, <3>1, <3>2
  <2>2. CASE j \in F
    <3>1. PICK l \in 1 .. n : f[l] = j
      BY <1>1, <2>2
    <3>2. ~(k < l)
      BY <1>1, <1>11, <2>1, <3>1
    <3> DEFINE x == m + l
    <3>3. x \in 1 .. m + k /\ c[x] = c[m + k] /\ ~(x <= m) /\ x - m = l
      BY <1>1, <1>2, <1>11, <2>1, <3>1, <3>2
    <3> HIDE DEF x
    <3>4. x \in Alike(c, m + k)
      BY <3>3 DEF Alike
    <3>5. g[x] = f[l]
      BY <3>3, <3>4
    <3> QED BY <3>1, <3>3, <3>4, <3>5
  <2>3. CASE j \notin F
    <3>1. PICK i \in M : SameHint(a, i, e, j)
      BY <1>6, <2>1, <2>3
    <3>2. PICK l \in 1 .. m : p[l] = i
      BY <1>1
    <3>3. l \in 1 .. m + k /\ c[l] = c[m + k] /\ l <= m
      BY <1>1, <1>2, <1>3, <1>10, <1>11, <2>1, <3>1, <3>2
    <3>4. l \in Alike(c, m + k)
      BY <3>3 DEF Alike
    <3>5. g[l] = taken(i)
      BY <3>2, <3>3, <3>4
    <3>6. taken(i) = j
      BY <1>3, <1>4, <1>9, <2>1, <3>1
    <3> QED BY <3>4, <3>5, <3>6
  <2> QED BY <2>2, <2>3
<1>16. Cardinality(Alike(c, m + k)) = Cardinality(Alike(e, f[k]))
  <2> HIDE DEF g
  <2> QED BY <1>11, <1>13, <1>14, <1>15, AlikeFinite, SameCount
<1>17. Nth(c, m + k) = Nth(e, f[k])
  BY <1>16 DEF Nth, Alike
<1> QED BY <1>17 DEF c, m, f, M, F

\* After sync_hints the hints are those of the entry, as orders and numbers go;
\* the rows that were taken have kept theirs, the others have those of no row.
LEMMA SyncHints ==
  ASSUME NEW T, NEW a \in Seq(T), NEW e \in Seq(T)
  PROVE  LET c == Synced(a, e)
             m == Cardinality(Matched(a, e))
             n == Cardinality(Unmatched(a, e))
         IN  /\ m \in Nat /\ n \in Nat /\ c \in Seq(T) /\ DOMAIN c = 1 .. m + n
             /\ \A j \in DOMAIN e : \E k \in DOMAIN c : SameHint(c, k, e, j)
             /\ \A k \in DOMAIN c : \E j \in DOMAIN e : SameHint(c, k, e, j)
             /\ \A k \in 1 .. m : \A i \in DOMAIN a :
                  SameHint(a, i, c, k) <=> i = Ascending(Matched(a, e))[k]
             /\ \A k \in DOMAIN c : k > m => \A i \in DOMAIN a : ~SameHint(a, i, c, k)
<1> DEFINE M == Matched(a, e)
           F == Unmatched(a, e)
           m == Cardinality(M)
           n == Cardinality(F)
           p == Ascending(M)
           f == Ascending(F)
           c == Synced(a, e)
<1>1. /\ m \in Nat /\ n \in Nat
      /\ \A i \in M : \E l \in 1 .. m : p[l] = i
      /\ \A l \in 1 .. m : p[l] \in M
      /\ \A j \in F : \E l \in 1 .. n : f[l] = j
      /\ \A l \in 1 .. n : f[l] \in F
  BY MatchedFinite, AscendingInOrder
<1>2. c = [k \in 1 .. m + n |-> IF k <= m THEN a[p[k]] ELSE e[f[k - m]]]
  BY DEF Synced
<1>3. M \subseteq DOMAIN a /\ F \subseteq DOMAIN e
  BY DEF Matched, Unmatched
<1>4. /\ \A j \in DOMAIN e : j \in F \/ \E i \in M : SameHint(a, i, e, j)
      /\ \A i \in M : \E j \in DOMAIN e : SameHint(a, i, e, j)
      /\ \A i \in DOMAIN a : \A j \in F : ~SameHint(a, i, e, j)
  BY DEF Matched, Unmatched
<1>5. /\ \A k \in 1 .. m : Nth(c, k) = Nth(a, p[k])
      /\ \A k \in 1 .. n : Nth(c, m + k) = Nth(e, f[k])
  BY SyncKeepsNumbers, SyncNumbersNew
<1>6. \A i, i2 \in DOMAIN a : a[i] = a[i2] /\ Nth(a, i) = Nth(a, i2) => i = i2
  BY NumberTells
<1>7. /\ \A i \in DOMAIN a : a[i] \in T
      /\ \A j \in DOMAIN e : e[j] \in T
  OBVIOUS
<1> HIDE DEF M, F, m, n, p, f, c
<1>8. \A k \in 1 .. m : k \in DOMAIN c /\ c[k] = a[p[k]] /\ k <= m
  BY <1>1, <1>2
<1>9. ASSUME NEW k \in DOMAIN c, k > m
      PROVE  k - m \in 1 .. n /\ c[k] = e[f[k - m]] /\ Nth(c, k) = Nth(e, f[k - m])
  <2> DEFINE l == k - m
  <2>1. l \in 1 .. n /\ m + l = k /\ ~(k <= m) /\ c[k] = e[f[l]]
    BY <1>1, <1>2, <1>9
  <2> HIDE DEF l
  <2>2. Nth(c, k) = Nth(e, f[l])
    BY <1>5, <2>1
  <2> QED BY <2>1, <2>2 DEF l
<1>10. \A l \in 1 .. n : \E k \in DOMAIN c : k > m /\ k - m = l
  <2> SUFFICES ASSUME NEW l \in 1 .. n PROVE \E k \in DOMAIN c : k > m /\ k - m = l
    OBVIOUS
  <2> DEFINE x == m + l
  <2>1. x \in DOMAIN c /\ x > m /\ x - m = l
    BY <1>1, <1>2
  <2> HIDE DEF x
  <2> QED BY <2>1
<1>11. c \in Seq(T) /\ DOMAIN c = 1 .. m + n
  <2>1. DOMAIN c = 1 .. m + n /\ m + n \in Nat
    BY <1>1, <1>2
  <2>2. \A k \in 1 .. m + n : c[k] \in T
    <3> SUFFICES ASSUME NEW k \in 1 .. m + n PROVE c[k] \in T
      OBVIOUS
    <3>1. CASE k <= m
      BY <1>1, <1>3, <1>7, <1>8, <3>1
    <3>2. CASE k > m
      BY <1>1, <1>3, <1>7, <1>9, <2>1, <3>2
    <3> QED BY <1>1, <3>1, <3>2
  <2>3. c = [k \in 1 .. m + n |-> c[k]]
    BY <1>2
  <2> QED BY <2>1, <2>2, <2>3
<1>12. \A j \in DOMAIN e : \E k \in DOMAIN c : SameHint(c, k, e, j)
  <2> SUFFICES ASSUME NEW j \in DOMAIN e PROVE \E k \in DOMAIN c : SameHint(c, k, e, j)
    OBVIOUS
  <2>1. CASE j \in F
    <3>1. PICK l \in 1 .. n : f[l] = j
      BY <1>1, <2>1
    <3>2. PICK k \in DOMAIN c : k > m /\ k - m = l
      BY <1>10
    <3> QED BY <1>9, <3>1, <3>2 DEF SameHint
  <2>2. CASE j \notin F
    <3>1. PICK i \in M : SameHint(a, i, e, j)
      BY <1>4, <2>2
    <3>2. PICK k \in 1 .. m : p[k] = i
      BY <1>1
    <3> QED BY <1>5, <1>8, <3>1, <3>2 DEF SameHint
  <2> QED BY <2>1, <2>2
<1>13. \A k \in DOMAIN c : \E j \in DOMAIN e : SameHint(c, k, e, j)
  <2> SUFFICES ASSUME NEW k \in DOMAIN c PROVE \E j \in DOMAIN e : SameHint(c, k, e, j)
    OBVIOUS
  <2>1. CASE k > m
    <3>1. f[k - m] \in DOMAIN e
      BY <1>1, <1>3, <1>9, <2>1
    <3> QED BY <1>9, <2>1, <3>1 DEF SameHint
  <2>2. CASE ~(k > m)
    <3>1. k \in 1 .. m
      BY <1>1, <1>11, <2>2
    <3>2. PICK j \in DOMAIN e : SameHint(a, p[k], e, j)
      BY <1>1, <1>4, <3>1
    <3> QED BY <1>5, <1>8, <3>1, <3>2 DEF SameHint
  <2> QED BY <2>1, <2>2
<1>14. \A k \in 1 .. m : \A i \in DOMAIN a : SameHint(a, i, c, k) <=> i = p[k]
  <2> SUFFICES ASSUME NEW k \in 1 .. m, NEW i \in DOMAIN a
               PROVE  SameHint(a, i, c, k) <=> i = p[k]
    OBVIOUS
  <2>1. p[k] \in DOMAIN a /\ c[k] = a[p[k]] /\ Nth(c, k) = Nth(a, p[k])
    BY <1>1, <1>3, <1>5, <1>8
  <2> QED BY <1>6, <2>1 DEF SameHint
<1>15. \A k \in DOMAIN c : k > m => \A i \in DOMAIN a : ~SameHint(a, i, c, k)
  <2> SUFFICES ASSUME NEW k \in DOMAIN c, k > m, NEW i \in DOMAIN a, SameHint(a, i, c, k)
               PROVE  FALSE
    OBVIOUS
  <2>1. f[k - m] \in F /\ c[k] = e[f[k - m]] /\ Nth(c, k) = Nth(e, f[k - m])
    BY <1>1, <1>9
  <2>2. SameHint(a, i, e, f[k - m])
    BY <2>1 DEF SameHint
  <2> QED BY <1>4, <2>1, <2>2
<1> QED BY <1>1, <1>11, <1>12, <1>13, <1>14, <1>15 DEF c, m, n, p, M, F

-----------------------------------------------------------------------------
(* Lists of orders, sorted.                                                *)

\* ORDER BY sort_order, id lists by order, and within an order by number.
LEMMA EarlierOrders ==
  ASSUME NEW a \in Seq(Int)
  PROVE  /\ IsFiniteSet(DOMAIN a) /\ Cardinality(DOMAIN a) = Len(a)
         /\ IsStrictOrder(Earlier(a), DOMAIN a)
         /\ \A i, j \in DOMAIN a : <<i, j>> \in Earlier(a) <=>
              a[i] < a[j] \/ (a[i] = a[j] /\ Nth(a, i) < Nth(a, j))
<1>1. DOMAIN a = 1 .. Len(a) /\ Len(a) \in Nat /\ \A i \in DOMAIN a : i \in Int /\ a[i] \in Int
  OBVIOUS
<1>2. IsFiniteSet(DOMAIN a) /\ Cardinality(DOMAIN a) = Len(a)
  <2> DEFINE n == Len(a)
  <2>1. n \in Nat /\ n \in Int /\ 1 \in Int
    BY <1>1
  <2> HIDE DEF n
  <2>2. IsFiniteSet(1 .. n) /\ Cardinality(1 .. n) = IF 1 > n THEN 0 ELSE n - 1 + 1
    BY ONLY <2>1, FS_Interval
  <2>3. Cardinality(1 .. n) = n
    BY <2>1, <2>2
  <2> QED BY <1>1, <2>2, <2>3 DEF n
<1>3. \A i, j \in DOMAIN a : <<i, j>> \in Earlier(a) <=> a[i] < a[j] \/ (a[i] = a[j] /\ i < j)
  BY DEF Earlier
<1>4. IsStrictOrder(Earlier(a), DOMAIN a)
  <2>1. \A i \in DOMAIN a : <<i, i>> \notin Earlier(a)
    BY <1>1, <1>3
  <2>2. ASSUME NEW i \in DOMAIN a, NEW j \in DOMAIN a, NEW k \in DOMAIN a,
               <<i, j>> \in Earlier(a), <<j, k>> \in Earlier(a)
        PROVE  <<i, k>> \in Earlier(a)
    <3>1. /\ a[i] < a[j] \/ (a[i] = a[j] /\ i < j)
          /\ a[j] < a[k] \/ (a[j] = a[k] /\ j < k)
      BY <1>3, <2>2
    <3>2. a[i] < a[k] \/ (a[i] = a[k] /\ i < k)
      BY <1>1, <3>1
    <3> QED BY <1>3, <3>2
  <2>3. ASSUME NEW i \in DOMAIN a, NEW j \in DOMAIN a
        PROVE  i = j \/ <<i, j>> \in Earlier(a) \/ <<j, i>> \in Earlier(a)
    <3>1. \/ i = j
          \/ a[i] < a[j] \/ (a[i] = a[j] /\ i < j)
          \/ a[j] < a[i] \/ (a[j] = a[i] /\ j < i)
      BY <1>1
    <3> QED BY <1>3, <3>1
  <2> QED BY <2>1, <2>2, <2>3 DEF IsStrictOrder
<1>5. \A i, j \in DOMAIN a : a[i] = a[j] => (i < j <=> Nth(a, i) < Nth(a, j))
  <2> SUFFICES ASSUME NEW i \in DOMAIN a, NEW j \in DOMAIN a, a[i] = a[j]
               PROVE  i < j <=> Nth(a, i) < Nth(a, j)
    OBVIOUS
  <2>1. /\ Nth(a, i) \in Nat /\ Nth(a, j) \in Nat
        /\ i < j => Nth(a, i) < Nth(a, j)
        /\ j < i => Nth(a, j) < Nth(a, i)
    BY Numbers
  <2>2. i < j \/ j < i \/ i = j
    BY <1>1
  <2> QED BY <1>1, <2>1, <2>2
<1> QED BY <1>2, <1>3, <1>4, <1>5

\* The orders as ORDER BY gives them.
Sorted(a) == [k \in DOMAIN a |-> a[Listed(DOMAIN a, Earlier(a))[k]]]

\* The places of a list, sorted, are its places, each once.
LEMMA SortedIn ==
  ASSUME NEW a \in Seq(Int)
  PROVE  /\ Listed(DOMAIN a, Earlier(a)) \in [DOMAIN a -> DOMAIN a]
         /\ \A i \in DOMAIN a : \E k \in DOMAIN a : Listed(DOMAIN a, Earlier(a))[k] = i
<1> DEFINE D == DOMAIN a
           R == Earlier(a)
<1>1. D = 1 .. Cardinality(D) /\ IsFiniteSet(D) /\ IsStrictOrder(R, D)
  BY EarlierOrders
<1> HIDE DEF D, R
<1>2. /\ Listed(D, R) \in [1 .. Cardinality(D) -> D]
      /\ \A i \in D : \E k \in 1 .. Cardinality(D) : Listed(D, R)[k] = i
  BY <1>1, ListedInOrder
<1>3. Listed(D, R) \in [D -> D] /\ \A i \in D : \E k \in D : Listed(D, R)[k] = i
  BY ONLY <1>1, <1>2
<1> QED BY <1>3 DEF D, R

\* Lists with the same orders and numbers are the same once they are sorted.
LEMMA SortedAlike ==
  ASSUME NEW a \in Seq(Int), NEW e \in Seq(Int),
         \A j \in DOMAIN e : \E k \in DOMAIN a : SameHint(a, k, e, j),
         \A k \in DOMAIN a : \E j \in DOMAIN e : SameHint(a, k, e, j)
  PROVE  DOMAIN a = DOMAIN e /\ Sorted(a) = Sorted(e)
<1> DEFINE A == DOMAIN a
           E == DOMAIN e
           R == Earlier(a)
           Q == Earlier(e)
           p == Listed(A, R)
           q == Listed(E, Q)
           g == [k \in A |-> CHOOSE j \in E : SameHint(a, k, e, j)]
<1>1. /\ IsFiniteSet(A) /\ IsStrictOrder(R, A) /\ A = 1 .. Cardinality(A)
      /\ IsFiniteSet(E) /\ IsStrictOrder(Q, E) /\ E = 1 .. Cardinality(E)
  BY EarlierOrders
<1>2. /\ \A i, j \in A : <<i, j>> \in R <=>
           a[i] < a[j] \/ (a[i] = a[j] /\ Nth(a, i) < Nth(a, j))
      /\ \A i, j \in E : <<i, j>> \in Q <=>
           e[i] < e[j] \/ (e[i] = e[j] /\ Nth(e, i) < Nth(e, j))
  BY EarlierOrders
<1>3. /\ p \in [A -> A] /\ q \in [E -> E]
      /\ \A j \in E : \E l \in E : q[l] = j
      /\ \A k \in A : Cardinality(Before(A, R, p[k])) = k - 1
      /\ \A l \in E : Cardinality(Before(E, Q, q[l])) = l - 1
  <2> HIDE DEF A, E, R, Q
  <2>1. /\ p \in [1 .. Cardinality(A) -> A]
        /\ \A k \in 1 .. Cardinality(A) : Cardinality(Before(A, R, p[k])) = k - 1
    BY <1>1, ListedInOrder
  <2>2. /\ q \in [1 .. Cardinality(E) -> E]
        /\ \A j \in E : \E l \in 1 .. Cardinality(E) : q[l] = j
        /\ \A l \in 1 .. Cardinality(E) : Cardinality(Before(E, Q, q[l])) = l - 1
    BY <1>1, ListedInOrder
  <2> HIDE DEF p, q
  <2> QED BY ONLY <1>1, <2>1, <2>2
<1>4. g \in [A -> E] /\ \A k \in A : a[k] = e[g[k]] /\ Nth(a, k) = Nth(e, g[k])
  BY DEF SameHint
<1>5. \A x, y \in A : g[x] = g[y] => x = y
  <2> HIDE DEF g
  <2> SUFFICES ASSUME NEW x \in A, NEW y \in A, g[x] = g[y] PROVE x = y
    OBVIOUS
  <2>1. a[x] = a[y] /\ Nth(a, x) = Nth(a, y)
    BY <1>4
  <2> QED BY <2>1, NumberTells
<1>6. \A j \in E : \E k \in A : g[k] = j
  <2> HIDE DEF g
  <2> SUFFICES ASSUME NEW j \in E PROVE \E k \in A : g[k] = j
    OBVIOUS
  <2>1. PICK k \in A : SameHint(a, k, e, j)
    OBVIOUS
  <2>2. e[g[k]] = e[j] /\ Nth(e, g[k]) = Nth(e, j) /\ g[k] \in E
    BY <1>4, <2>1 DEF SameHint
  <2> QED BY <2>2, NumberTells
<1> HIDE DEF A, E, R, Q, p, q, g
<1>7. Cardinality(A) = Cardinality(E)
  BY <1>1, <1>4, <1>5, <1>6, SameCount
<1>8. A = E
  BY <1>1, <1>7
<1>9. \A i, j \in A : <<i, j>> \in R <=> <<g[i], g[j]>> \in Q
  <2> SUFFICES ASSUME NEW i \in A, NEW j \in A
               PROVE  <<i, j>> \in R <=> <<g[i], g[j]>> \in Q
    OBVIOUS
  <2>1. g[i] \in E /\ g[j] \in E
    BY <1>4
  <2>2. <<g[i], g[j]>> \in Q <=>
          (e[g[i]] < e[g[j]] \/ (e[g[i]] = e[g[j]] /\ Nth(e, g[i]) < Nth(e, g[j])))
    BY <1>2, <2>1
  <2>3. <<i, j>> \in R <=> (a[i] < a[j] \/ (a[i] = a[j] /\ Nth(a, i) < Nth(a, j)))
    BY <1>2
  <2>4. /\ a[i] = e[g[i]] /\ Nth(a, i) = Nth(e, g[i])
        /\ a[j] = e[g[j]] /\ Nth(a, j) = Nth(e, g[j])
    BY <1>4
  <2> QED BY <2>2, <2>3, <2>4
<1>10. ASSUME NEW i \in A
       PROVE  Cardinality(Before(A, R, i)) = Cardinality(Before(E, Q, g[i]))
  <2> DEFINE S == Before(A, R, i)
             T == Before(E, Q, g[i])
             h == [k \in S |-> g[k]]
  <2>1. h \in [S -> T] /\ \A x, y \in S : h[x] = h[y] => x = y
    BY <1>4, <1>5, <1>9 DEF Before
  <2>2. \A j \in T : \E k \in S : h[k] = j
    BY <1>6, <1>9 DEF Before
  <2>3. IsFiniteSet(S)
    BY <1>1, FS_Subset DEF Before
  <2> HIDE DEF S, T, h
  <2>4. Cardinality(S) = Cardinality(T)
    BY <2>1, <2>2, <2>3, SameCount
  <2> QED BY <2>4 DEF S, T
<1>11. ASSUME NEW k \in A PROVE a[p[k]] = e[q[k]]
  <2>1. p[k] \in A /\ g[p[k]] \in E /\ Cardinality(Before(E, Q, g[p[k]])) = k - 1
    BY <1>3, <1>4, <1>10
  <2>2. PICK l \in E : q[l] = g[p[k]]
    BY <1>3, <2>1
  <2>3. l = k
    <3>1. Cardinality(Before(E, Q, q[l])) = l - 1
      BY <1>3
    <3>2. l - 1 = k - 1
      BY <2>1, <2>2, <3>1
    <3>3. l \in 1 .. Cardinality(E) /\ k \in 1 .. Cardinality(E)
      BY ONLY <1>1, <1>8, l \in E, k \in A
    <3> QED BY <3>2, <3>3
  <2>4. q[k] = g[p[k]]
    BY <2>2, <2>3
  <2> QED BY <1>4, <2>1, <2>4
<1>12. [k \in A |-> a[p[k]]] = [k \in E |-> e[q[k]]]
  BY <1>8, <1>11
<1> QED BY <1>8, <1>12 DEF Sorted, A, E, R, Q, p, q

-----------------------------------------------------------------------------
(* Entries, and the rows they are written to.                              *)

\* The parts of an entry, and of its attachment.
LEMMA EntryParts ==
  ASSUME NEW entry \in Entry
  PROVE  /\ entry.slug \in Slugs /\ entry.title \in Titles /\ entry.text \in Texts
         /\ entry.requires \in Slugs \union {None} /\ entry.hints \in Seq(Orders)
         /\ entry.file \in Attachment \union {None}
BY DEF Entry

\* A function on 1 .. n is a sequence.
LEMMA ListIsSeq ==
  ASSUME NEW T, NEW n \in Nat, NEW s, s = [k \in 1 .. n |-> s[k]],
         \A k \in 1 .. n : s[k] \in T
  PROVE  s \in Seq(T) /\ Len(s) = n
OBVIOUS

\* The orders of the hints of a row.
LEMMA HintOrders ==
  ASSUME NEW hints \in Seq(Hint)
  PROVE  /\ OrdersOf(hints) \in Seq(Orders) /\ OrdersOf(hints) \in Seq(Int)
         /\ DOMAIN OrdersOf(hints) = DOMAIN hints
<1> DEFINE a == OrdersOf(hints)
<1>1. DOMAIN hints = 1 .. Len(hints) /\ Len(hints) \in Nat
  OBVIOUS
<1>2. a = [k \in 1 .. Len(hints) |-> a[k]] /\ DOMAIN a = DOMAIN hints
  BY <1>1 DEF OrdersOf
<1>3. \A k \in 1 .. Len(hints) : a[k] \in Orders
  <2> SUFFICES ASSUME NEW k \in 1 .. Len(hints) PROVE hints[k].order \in Orders
    BY <1>1 DEF OrdersOf
  <2>1. hints[k] \in Hint
    OBVIOUS
  <2> QED BY <2>1 DEF Hint
<1> HIDE DEF a
<1>4. a \in Seq(Orders) /\ a \in Seq(Int)
  BY <1>1, <1>2, <1>3, ListIsSeq, ConstantsAssumption
<1> QED BY <1>2, <1>4 DEF a

\* What sync_hints makes of typed hints: their orders, texts and buyers.
LEMMA SyncHintsMakes ==
  ASSUME NEW hints \in Seq(Hint), NEW entry \in Entry
  PROVE  LET new == sync_hints(hints, entry)
             a   == OrdersOf(hints)
             e   == entry.hints
             m   == Cardinality(Matched(a, e))
         IN  /\ a \in Seq(Orders) /\ DOMAIN a = DOMAIN hints
             /\ new \in Seq(Hint) /\ OrdersOf(new) = Synced(a, e)
             /\ \A k \in DOMAIN new : new[k].text = entry.text
             /\ \A k \in 1 .. m : /\ Ascending(Matched(a, e))[k] \in DOMAIN hints
                                  /\ new[k].buyers = hints[Ascending(Matched(a, e))[k]].buyers
             /\ \A k \in DOMAIN new : k > m => new[k].buyers = {}
<1> DEFINE new == sync_hints(hints, entry)
           a   == OrdersOf(hints)
           e   == entry.hints
           M   == Matched(a, e)
           F   == Unmatched(a, e)
           m   == Cardinality(M)
           n   == Cardinality(F)
           p   == Ascending(M)
           f   == Ascending(F)
           kept  == [k \in 1 .. m |-> [hints[p[k]] EXCEPT !.text = entry.text]]
           added == [k \in 1 .. n |-> NewHint(e[f[k]], entry.text)]
<1>1. a \in Seq(Orders) /\ DOMAIN a = DOMAIN hints /\ e \in Seq(Orders)
  BY HintOrders, EntryParts
<1>2. /\ m \in Nat /\ n \in Nat
      /\ p \in [1 .. m -> M] /\ f \in [1 .. n -> F]
  BY <1>1, MatchedFinite, AscendingInOrder
<1>3. M \subseteq DOMAIN hints /\ F \subseteq DOMAIN e
  BY <1>1 DEF Matched, Unmatched
<1>4. new = kept \o added
  <2>1. DOMAIN p = 1 .. m /\ DOMAIN f = 1 .. n
    BY <1>2
  <2> HIDE DEF m, n
  <2> QED BY <2>1 DEF sync_hints
<1>5. \A i \in DOMAIN hints : hints[i] \in Hint
  OBVIOUS
<1>6. entry.text \in Texts /\ \A j \in DOMAIN e : e[j] \in Orders
  BY <1>1 DEF Entry
<1> HIDE DEF new, a, e, M, F, m, n, p, f
<1>7. ASSUME NEW k \in 1 .. m
      PROVE  /\ kept[k] \in Hint /\ kept[k].order = a[p[k]] /\ kept[k].text = entry.text
             /\ p[k] \in DOMAIN hints /\ kept[k].buyers = hints[p[k]].buyers
  <2>1. p[k] \in DOMAIN hints /\ hints[p[k]] \in Hint
    BY <1>2, <1>3, <1>5
  <2>2. kept[k] = [hints[p[k]] EXCEPT !.text = entry.text]
    OBVIOUS
  <2>3. a[p[k]] = hints[p[k]].order
    BY <2>1 DEF a, OrdersOf
  <2> QED BY <1>6, <2>1, <2>2, <2>3 DEF Hint
<1>8. ASSUME NEW k \in 1 .. n
      PROVE  /\ added[k] \in Hint /\ added[k].order = e[f[k]] /\ added[k].text = entry.text
             /\ added[k].buyers = {}
  BY <1>2, <1>3, <1>6 DEF Hint, NewHint
<1>9. kept = [k \in 1 .. m |-> kept[k]] /\ added = [k \in 1 .. n |-> added[k]]
  OBVIOUS
<1> HIDE DEF kept, added
<1>10. /\ new \in Seq(Hint) /\ DOMAIN new = 1 .. m + n
       /\ \A k \in 1 .. m + n : new[k] = IF k <= m THEN kept[k] ELSE added[k - m]
  <2>1. kept \in Seq(Hint) /\ added \in Seq(Hint) /\ Len(kept) = m /\ Len(added) = n
    BY <1>2, <1>7, <1>8, <1>9, ListIsSeq
  <2>2. /\ new \in Seq(Hint) /\ Len(new) = Len(kept) + Len(added)
        /\ \A k \in 1 .. Len(kept) + Len(added) :
             new[k] = IF k <= Len(kept) THEN kept[k] ELSE added[k - Len(kept)]
    BY ONLY <1>4, <2>1, ConcatProperties
  <2>3. DOMAIN new = 1 .. m + n
    BY ONLY <2>1, <2>2
  <2> QED BY ONLY <2>1, <2>2, <2>3
<1>11. ASSUME NEW k \in 1 .. m + n
       PROVE  /\ k <= m => k \in 1 .. m /\ new[k] = kept[k]
              /\ ~(k <= m) => k - m \in 1 .. n /\ new[k] = added[k - m]
  BY <1>2, <1>10
<1>12. OrdersOf(new) = Synced(a, e)
  <2>1. \A k \in 1 .. m + n : new[k].order = IF k <= m THEN a[p[k]] ELSE e[f[k - m]]
    BY <1>7, <1>8, <1>11
  <2> QED BY <1>10, <2>1 DEF OrdersOf, Synced, m, n, p, f, M, F
<1>13. \A k \in DOMAIN new : new[k].text = entry.text
  BY <1>7, <1>8, <1>10, <1>11
<1>14. \A k \in 1 .. m : p[k] \in DOMAIN hints /\ new[k].buyers = hints[p[k]].buyers
  <2>1. \A k \in 1 .. m : k \in 1 .. m + n /\ k <= m
    BY <1>2
  <2> QED BY <1>7, <1>11, <2>1
<1>15. ASSUME NEW k \in DOMAIN new, k > m PROVE new[k].buyers = {}
  <2>1. k \in 1 .. m + n /\ ~(k <= m)
    BY <1>2, <1>10, <1>15
  <2> QED BY <1>8, <1>11, <2>1
<1> QED BY <1>1, <1>10, <1>12, <1>13, <1>14, <1>15 DEF new, a, e, m, M, p

\* What is written for an attachment reads back as that attachment, but for the
\* bytes, which are those of the entry or none.
LEMMA FilesReadBack ==
  ASSUME NEW entry \in Entry, NEW dir \in Directories
  PROVE  /\ import_files(entry, dir) \in File \union {None}
         /\ export_files(import_files(entry, dir), FALSE) = IgnoringData(entry.file)
         /\ \A row : row = import_files(entry, dir) /\ row # None /\ row.given # None =>
              /\ dir = "own" /\ IsInline(entry) /\ entry.file.data \in Texts
              /\ row.path = entry.slug /\ row.given = entry.file.data
         /\ IsInline(entry) => entry.file.data \in Texts
<1>1. /\ entry.slug \in Slugs /\ entry.file \in Attachment \union {None}
      /\ None \notin Links /\ None \notin File /\ None \notin Attachment /\ None \notin Slugs
      /\ Links \intersect Places = {} /\ Top \notin Slugs
      /\ Slugs \subseteq Places /\ Top \in Places
  BY EntryParts, ConstantsAssumption DEF Places
<1>2. CASE entry.file = None
  <2>1. import_files(entry, dir) = None
    BY <1>2 DEF import_files
  <2>2. export_files(None, FALSE) = None /\ IgnoringData(None) = None /\ ~IsInline(entry)
    BY <1>2 DEF export_files, IgnoringData, IsInline
  <2> QED BY <1>2, <2>1, <2>2
<1>3. CASE entry.file # None
  <2>1. /\ entry.file \in Attachment
        /\ entry.file.url \in Links \union {None} /\ entry.file.sha \in Texts \union {None}
        /\ entry.file.data \in Texts \union {None}
    BY <1>1, <1>3 DEF Attachment
  <2>2. IgnoringData(entry.file) = [url |-> entry.file.url, sha |-> entry.file.sha, data |-> None]
    BY <1>3, <2>1 DEF IgnoringData, Attachment
  <2>3. CASE entry.file.url \in Links
    <3> DEFINE row == [path |-> entry.file.url, sha |-> entry.file.sha, given |-> None]
    <3>1. import_files(entry, dir) = row
      BY <1>3, <2>3 DEF import_files
    <3>2. /\ row.path = entry.file.url /\ row.sha = entry.file.sha /\ row.given = None
          /\ row \in File
      BY <2>1, <2>3 DEF File
    <3>3. row # None
      BY <1>1, <3>2
    <3> HIDE DEF row
    <3>4. export_files(row, FALSE) = [url |-> entry.file.url, sha |-> entry.file.sha, data |-> None]
      BY <2>3, <3>2, <3>3 DEF export_files
    <3>5. ~IsInline(entry)
      BY <2>3 DEF IsInline
    <3>6. export_files(row, FALSE) = IgnoringData(entry.file)
      BY <2>2, <3>4
    <3> QED BY <3>1, <3>2, <3>3, <3>5, <3>6
  <2>4. CASE entry.file.url \notin Links
    <3> DEFINE place == StoragePath(entry, dir)
               given == IF dir = "own" THEN entry.file.data ELSE None
               row   == [path |-> place, sha |-> entry.file.sha, given |-> given]
    <3>1. /\ place \in {entry.slug, Top} /\ place \in Places /\ place \notin Links
          /\ entry.file.data # None => place = entry.slug
      BY <1>1 DEF StoragePath
    <3>2. import_files(entry, dir) = row
      BY <1>3, <2>4 DEF import_files
    <3>3. given \in Texts \union {None} /\ (given # None => dir = "own" /\ given = entry.file.data)
      BY <2>1
    <3> HIDE DEF place, given
    <3>4. /\ row.path = place /\ row.sha = entry.file.sha /\ row.given = given
          /\ row \in File /\ row # None
      BY <1>1, <2>1, <3>1, <3>3 DEF File
    <3> HIDE DEF row
    <3>5. export_files(row, FALSE) = [url |-> None, sha |-> entry.file.sha, data |-> None]
      BY <3>1, <3>4 DEF export_files
    <3>6. entry.file.url = None
      BY <2>1, <2>4
    <3>7. export_files(row, FALSE) = IgnoringData(entry.file)
      BY <2>2, <3>5, <3>6
    <3>8. IsInline(entry) <=> entry.file.data # None
      BY <1>3, <2>4 DEF IsInline
    <3>9. IsInline(entry) => entry.file.data \in Texts
      BY <2>1, <3>8
    <3>10. row.given # None => /\ dir = "own" /\ IsInline(entry) /\ entry.file.data \in Texts
                               /\ row.path = entry.slug /\ row.given = entry.file.data
      BY <3>1, <3>3, <3>4, <3>8, <3>9
    <3> QED BY <3>1, <3>2, <3>4, <3>7, <3>9, <3>10
  <2> QED BY <2>3, <2>4
<1> QED BY <1>2, <1>3

\* The hints of a new row are those of the entry.
NewHints(entry) == [i \in DOMAIN entry.hints |-> NewHint(entry.hints[i], entry.text)]

\* They are typed, and have the orders and the text of the entry.
LEMMA NewHintsMakes ==
  ASSUME NEW entry \in Entry
  PROVE  /\ NewHints(entry) \in Seq(Hint) /\ OrdersOf(NewHints(entry)) = entry.hints
         /\ \A k \in DOMAIN NewHints(entry) : NewHints(entry)[k].text = entry.text
<1> DEFINE e == entry.hints
           new == NewHints(entry)
<1>1. /\ e \in Seq(Orders) /\ DOMAIN e = 1 .. Len(e) /\ Len(e) \in Nat /\ entry.text \in Texts
      /\ e = [i \in DOMAIN e |-> e[i]]
  BY EntryParts
<1>2. \A i \in 1 .. Len(e) : e[i] \in Orders
  BY <1>1
<1>3. new = [i \in 1 .. Len(e) |-> NewHint(e[i], entry.text)]
  BY <1>1 DEF NewHints
<1> HIDE DEF e, new
<1>4. \A i \in 1 .. Len(e) : /\ new[i] \in Hint /\ new[i].order = e[i]
                             /\ new[i].text = entry.text
  BY <1>1, <1>2, <1>3 DEF NewHint, Hint
<1>5. DOMAIN new = 1 .. Len(e) /\ new = [i \in 1 .. Len(e) |-> new[i]]
  BY <1>3
<1>6. new \in Seq(Hint)
  BY <1>1, <1>4, <1>5, ListIsSeq
<1>7. OrdersOf(new) = e
  BY <1>1, <1>4, <1>5 DEF OrdersOf
<1> QED BY <1>4, <1>5, <1>6, <1>7 DEF e, new

\* The columns of a row that is there.
LEMMA CatalogRow ==
  ASSUME TypeOK, NEW s \in Present
  PROVE  /\ s \in Slugs /\ catalog[s] \in Row /\ catalog[s].text \in Texts
         /\ catalog[s].requires \in Slugs \union {None} /\ catalog[s].hints \in Seq(Hint)
         /\ catalog[s].file \in File \union {None}
BY DEF TypeOK, Present, Row

\* What apply_import writes for an entry: a row with the title and the text of
\* the entry, its hints, and its orders as sync_hints leaves them.
LEMMA WrittenRow ==
  ASSUME TypeOK, NEW b \in Seq(Entry), NEW entry \in Entry, NEW dir \in Directories
  PROVE  LET row == Written(entry, b, dir)
         IN  /\ row \in Row /\ row # None
             /\ row.title = entry.title
             /\ row.text = entry.text /\ row.requires = Prerequisite(entry, b)
             /\ row.file = import_files(entry, dir)
             /\ \A k \in DOMAIN row.hints : row.hints[k].text = entry.text
             /\ row.hints = IF catalog[entry.slug] = None THEN NewHints(entry)
                            ELSE sync_hints(catalog[entry.slug].hints, entry)
<1> DEFINE row == Written(entry, b, dir)
<1>1. /\ row = [title |-> entry.title, text |-> entry.text,
               requires |-> Prerequisite(entry, b),
               hints |-> row.hints, file |-> import_files(entry, dir)]
      /\ row.title = entry.title
      /\ row.text = entry.text /\ row.requires = Prerequisite(entry, b)
      /\ row.file = import_files(entry, dir)
      /\ row.hints = IF catalog[entry.slug] = None THEN NewHints(entry)
                     ELSE sync_hints(catalog[entry.slug].hints, entry)
  BY DEF Written, NewHints
<1>2. Prerequisite(entry, b) \in Slugs \union {None}
  BY EntryParts DEF Prerequisite
<1>3. import_files(entry, dir) \in File \union {None}
  BY FilesReadBack
<1> HIDE DEF row
<1>4. row.hints \in Seq(Hint) /\ \A k \in DOMAIN row.hints : row.hints[k].text = entry.text
  <2>1. CASE catalog[entry.slug] = None
    BY <1>1, <2>1, NewHintsMakes
  <2>2. CASE catalog[entry.slug] # None
    <3>1. entry.slug \in Present
      BY <2>2, EntryParts DEF Present
    <3> QED BY <1>1, <2>2, <3>1, CatalogRow, SyncHintsMakes
  <2> QED BY <2>1, <2>2
<1>5. row \in Row
  BY <1>1, <1>2, <1>3, <1>4, EntryParts DEF Row
<1> QED BY <1>1, <1>4, <1>5, ConstantsAssumption DEF row

-----------------------------------------------------------------------------
(* One import.                                                             *)

\* An entry that is touched is written, the other challenges stay.
LEMMA AppliedRow ==
  ASSUME NEW b \in Seq(Entry), NEW overwrite \in BOOLEAN, NEW dir \in Directories,
         NEW s \in Slugs
  PROVE  \/ /\ \A i \in TouchedBy(b, overwrite) : b[i].slug # s
            /\ Applied(b, overwrite, dir)[s] = catalog[s]
         \/ \E i \in TouchedBy(b, overwrite) :
              /\ i \in DOMAIN b /\ b[i] \in Entry /\ b[i].slug = s
              /\ Touched(b[i], overwrite)
              /\ Applied(b, overwrite, dir)[s] = Written(b[i], b, dir)
<1>1. CASE \A i \in TouchedBy(b, overwrite) : b[i].slug # s
  BY <1>1 DEF Applied
<1>2. CASE \E i \in TouchedBy(b, overwrite) : b[i].slug = s
  <2> DEFINE i == CHOOSE i \in TouchedBy(b, overwrite) : b[i].slug = s
  <2>1. i \in TouchedBy(b, overwrite) /\ b[i].slug = s
    BY <1>2
  <2>2. Applied(b, overwrite, dir)[s] = Written(b[i], b, dir)
    BY <1>2 DEF Applied
  <2> HIDE DEF i
  <2>3. i \in DOMAIN b /\ Touched(b[i], overwrite)
    BY <2>1 DEF TouchedBy
  <2>4. b[i] \in Entry
    BY <2>3
  <2> QED BY <2>1, <2>2, <2>3, <2>4
<1> QED BY <1>1, <1>2

\* Where slugs are distinct, every entry that is touched is written.
LEMMA TouchedIsWritten ==
  ASSUME NEW b \in Seq(Entry), NEW overwrite \in BOOLEAN, NEW dir \in Directories,
         DistinctSlugs(b), NEW i \in DOMAIN b
  PROVE  Applied(b, overwrite, dir)[b[i].slug] =
           IF Touched(b[i], overwrite) THEN Written(b[i], b, dir) ELSE catalog[b[i].slug]
<1>1. b[i] \in Entry
  OBVIOUS
<1>2. b[i].slug \in Slugs
  BY <1>1, EntryParts
<1>3. \A j \in TouchedBy(b, overwrite) : b[j].slug = b[i].slug => j = i
  BY DEF DistinctSlugs, TouchedBy
<1>4. Touched(b[i], overwrite) => i \in TouchedBy(b, overwrite)
  BY DEF TouchedBy
<1> QED BY <1>2, <1>3, <1>4, AppliedRow

\* The directory of a slug gets the bytes of one of its entries.
LEMMA BytesOf ==
  ASSUME NEW b \in Seq(Entry), NEW I \in SUBSET DOMAIN b
  PROVE  /\ Inline(b, I) \subseteq Slugs
         /\ \A s \in Inline(b, I) :
              /\ Bytes(b, I, s) \in Texts
              /\ \E i \in I : IsInline(b[i]) /\ b[i].slug = s
                              /\ Bytes(b, I, s) = b[i].file.data
         /\ \A i \in I : IsInline(b[i]) => b[i].slug \in Inline(b, I)
<1>1. \A i \in I : b[i] \in Entry
  OBVIOUS
<1>2. \A i \in I : b[i].slug \in Slugs /\ (IsInline(b[i]) => b[i].file.data \in Texts)
  BY <1>1, EntryParts, FilesReadBack, "own" \in Directories DEF Directories
<1>3. Inline(b, I) \subseteq Slugs /\ \A i \in I : IsInline(b[i]) => b[i].slug \in Inline(b, I)
  BY <1>2 DEF Inline
<1>4. ASSUME NEW s \in Inline(b, I)
      PROVE  \E i \in I : IsInline(b[i]) /\ b[i].slug = s /\ Bytes(b, I, s) = b[i].file.data
  <2> DEFINE k == CHOOSE i \in I : IsInline(b[i]) /\ b[i].slug = s
  <2>1. \E i \in I : IsInline(b[i]) /\ b[i].slug = s
    BY DEF Inline
  <2>2. k \in I /\ IsInline(b[k]) /\ b[k].slug = s
    BY <2>1
  <2>3. Bytes(b, I, s) = b[k].file.data
    BY DEF Bytes
  <2> QED BY <2>2, <2>3
<1> QED BY <1>2, <1>3, <1>4

\* What is written to disk are bytes of the bundle or the zip.
LEMMA FilesTyped ==
  ASSUME TypeOK, NEW b \in Seq(Entry), NEW I \in SUBSET DOMAIN b
  PROVE  WithFiles(b, I) \in [Places -> Texts \union {None}]
<1>1. Inline(b, I) \subseteq Slugs /\ \A s \in Inline(b, I) : Bytes(b, I, s) \in Texts
  BY BytesOf
<1>2. ASSUME NEW p \in Places PROVE WithFiles(b, I)[p] \in Texts \union {None}
  BY <1>1 DEF WithFiles, TypeOK
<1> QED BY <1>2 DEF WithFiles

LEMMA UnpackedTyped ==
  ASSUME TypeOK, NEW zip \in [Places -> Texts \union {None}], NEW P \in SUBSET Places
  PROVE  Unpacked(zip, P) \in [Places -> Texts \union {None}]
<1>1. ASSUME NEW p \in Places PROVE Unpacked(zip, P)[p] \in Texts \union {None}
  BY DEF Unpacked, TypeOK
<1> QED BY <1>1 DEF Unpacked

\* What a worker imports.
LEMMA JobTyped ==
  ASSUME TypeOK, NEW w \in Workers
  PROVE  /\ job[w] \in Request
         /\ job[w].bundle.challenges \in Seq(Entry) /\ job[w].overwrite \in BOOLEAN
         /\ job[w].dir \in Directories /\ job[w].zip \in [Places -> Texts \union {None}]
         /\ TouchedBy(job[w].bundle.challenges, job[w].overwrite)
              \subseteq DOMAIN job[w].bundle.challenges
         /\ \A I \in SUBSET DOMAIN job[w].bundle.challenges :
              Supplied(w, I) \in SUBSET DOMAIN job[w].bundle.challenges
<1>1. << >> \in Seq(Entry) /\ NoZip \in [Places -> Texts \union {None}] /\ 1 \in Nat
  BY DEF NoZip
<1>2. NoJob \in Request
  BY <1>1 DEF NoJob, Request, Bundle, Directories
<1>3. job[w] \in Request
  BY <1>2, ConstantsAssumption DEF TypeOK
<1>4. job[w].bundle \in Bundle /\ job[w].overwrite \in BOOLEAN
      /\ job[w].dir \in Directories /\ job[w].zip \in [Places -> Texts \union {None}]
  BY <1>3 DEF Request
<1>5. job[w].bundle.challenges \in Seq(Entry)
  BY <1>4 DEF Bundle
<1> QED BY <1>3, <1>4, <1>5 DEF TouchedBy, Supplied

\* A zip is unpacked, and entries are applied or rolled back, to typed files.
LEMMA AppliedTyped ==
  ASSUME TypeOK, NEW b \in Seq(Entry), NEW overwrite \in BOOLEAN, NEW dir \in Directories
  PROVE  Applied(b, overwrite, dir) \in [Slugs -> Row \union {None}]
<1>1. ASSUME NEW s \in Slugs PROVE Applied(b, overwrite, dir)[s] \in Row \union {None}
  BY AppliedRow, WrittenRow DEF TypeOK
<1> QED BY <1>1 DEF Applied

-----------------------------------------------------------------------------
(* Invariants.                                                             *)

\* Prerequisites name challenges that are there.
RequiresPresent == \A s \in Present : catalog[s].requires \in Present \union {None}

\* The hints of a row have its text.
HintsOfText ==
  \A s \in Present : \A k \in DOMAIN catalog[s].hints :
     catalog[s].hints[k].text = catalog[s].text

\* What is applied was validated.
AppliesValid ==
  \A w \in Workers : pc[w] = "apply" => DistinctSlugs(job[w].bundle.challenges)

\* BytesKept, said of the disk instead of the export.
FilesKept ==
  \A s \in Present :
     LET file == catalog[s].file
     IN  file # None /\ file.given # None =>
           /\ file.path \in Slugs
           /\ file.path \in torn \/ disk[file.path] = file.given

IInv == TypeOK /\ RequiresPresent /\ HintsOfText /\ AppliesValid /\ FilesKept

\* The database is empty at first.
LEMMA InitIInv == ASSUME Init PROVE IInv
BY ConstantsAssumption
DEF Init, IInv, TypeOK, RequiresPresent, HintsOfText, AppliesValid,
    FilesKept, Present

\* Steps that end or move a request keep the others.
LEMMA LeaveTyped ==
  ASSUME TypeOK, AppliesValid, NEW w \in Workers, Leave(w)
  PROVE  /\ pc' \in [Workers -> {"idle", "extract", "validate", "apply"}]
         /\ job' \in [Workers -> Requests \union {NoJob}]
         /\ AppliesValid'
<1>1. /\ pc' = [pc EXCEPT ![w] = "idle"] /\ job' = [job EXCEPT ![w] = NoJob]
  BY DEF Leave, Goto
<1> QED BY <1>1 DEF TypeOK, AppliesValid

\* Steps of a request that do not change the catalogue.
LEMMA CatalogStays ==
  ASSUME IInv, UNCHANGED catalog
  PROVE  RequiresPresent' /\ HintsOfText' /\ Present' = Present
BY DEF IInv, RequiresPresent, HintsOfText, Present

\* Where bytes are written beside the catalogue, the directory counts as torn.
LEMMA TornCovers ==
  ASSUME IInv, UNCHANGED catalog, NEW T \in SUBSET Slugs,
         torn' = torn \union T, disk' \in [Places -> Texts \union {None}],
         \A s \in Slugs \ T : disk'[s] = disk[s]
  PROVE  FilesKept' /\ torn' \subseteq Slugs
<1>1. torn' \subseteq Slugs
  BY DEF IInv, TypeOK
<1>2. ASSUME NEW s \in Present', catalog'[s].file # None, catalog'[s].file.given # None
      PROVE  LET file == catalog'[s].file
             IN  /\ file.path \in Slugs
                 /\ file.path \in torn' \/ disk'[file.path] = file.given
  <2> DEFINE file == catalog[s].file
  <2>1. /\ catalog' = catalog
        /\ file.path \in Slugs /\ (file.path \in torn \/ disk[file.path] = file.given)
    BY <1>2 DEF IInv, FilesKept, Present
  <2> QED BY <2>1
<1> QED BY <1>1, <1>2 DEF FilesKept

\* So do those of the entries of a bundle that is then not applied.
LEMMA WritesTear ==
  ASSUME IInv, NEW b \in Seq(Entry), NEW I \in SUBSET DOMAIN b,
         UNCHANGED catalog, disk' = WithFiles(b, I), torn' = torn \union Inline(b, I)
  PROVE  FilesKept' /\ disk' \in [Places -> Texts \union {None}] /\ torn' \subseteq Slugs
<1>1. Inline(b, I) \in SUBSET Slugs
  BY BytesOf
<1>2. disk' \in [Places -> Texts \union {None}]
  BY FilesTyped DEF IInv
<1>3. \A s \in Slugs \ Inline(b, I) : disk'[s] = disk[s]
  BY DEF WithFiles, Places
<1> QED BY <1>1, <1>2, <1>3, TornCovers

\* Each step of an import, and each change of an admin or a team, keeps IInv:
\* a request is read,
LEMMA ImportKeeps ==
  ASSUME IInv, NEW w \in Workers, import_bundle(w)
  PROVE  IInv'
<1>1. RequiresPresent' /\ HintsOfText' /\ Present' = Present
  BY CatalogStays DEF import_bundle
<1>2. PICK request \in Requests :
        /\ job' = [job EXCEPT ![w] = request]
        /\ Goto(w, IF request.zip = NoZip \/ request.dry_run THEN "validate" ELSE "extract")
  BY DEF import_bundle
<1>3. \/ pc' = [pc EXCEPT ![w] = "validate"]
      \/ pc' = [pc EXCEPT ![w] = "extract"]
  BY <1>2 DEF Goto
<1>4. TypeOK' /\ AppliesValid'
  BY <1>2, <1>3 DEF import_bundle, IInv, TypeOK, AppliesValid
<1>5. FilesKept'
  BY <1>1 DEF import_bundle, IInv, FilesKept
<1> QED BY <1>1, <1>4, <1>5 DEF IInv

\* files of a zip are unpacked, all or up to a failure,
LEMMA UnpackKeeps ==
  ASSUME IInv, NEW w \in Workers, NEW P \in SUBSET Places, Unpack(w, P)
  PROVE  /\ RequiresPresent' /\ HintsOfText' /\ FilesKept' /\ UNCHANGED catalog
         /\ disk' \in [Places -> Texts \union {None}] /\ torn' \subseteq Slugs
<1> DEFINE zip == job[w].zip
           T   == {s \in P \intersect Slugs : zip[s] # None}
<1>1. zip \in [Places -> Texts \union {None}]
  BY JobTyped DEF IInv
<1>2. disk' = Unpacked(zip, P) /\ torn' = torn \union T /\ UNCHANGED catalog
  BY DEF Unpack
<1> HIDE DEF zip
<1>3. disk' \in [Places -> Texts \union {None}]
  BY <1>1, <1>2, UnpackedTyped DEF IInv
<1>4. T \in SUBSET Slugs /\ \A s \in Slugs \ T : disk'[s] = disk[s]
  BY <1>2 DEF Unpacked, Places
<1> HIDE DEF T
<1>5. FilesKept' /\ torn' \subseteq Slugs
  BY <1>2, <1>3, <1>4, TornCovers
<1> QED BY <1>2, <1>3, <1>5, CatalogStays

LEMMA ExtractKeeps ==
  ASSUME IInv, NEW w \in Workers, extract_attachments_zip(w) \/ ExtractFails(w)
  PROVE  IInv'
<1>1. PICK P \in SUBSET Places : Unpack(w, P)
  BY DEF extract_attachments_zip, ExtractFails
<1>2. /\ RequiresPresent' /\ HintsOfText' /\ FilesKept' /\ UNCHANGED catalog
      /\ disk' \in [Places -> Texts \union {None}] /\ torn' \subseteq Slugs
  BY <1>1, UnpackKeeps
<1>3. CASE extract_attachments_zip(w)
  <2>1. pc' = [pc EXCEPT ![w] = "validate"] /\ job' = job
    BY <1>3 DEF extract_attachments_zip, Goto
  <2>2. TypeOK' /\ AppliesValid'
    BY <1>2, <2>1 DEF IInv, TypeOK, AppliesValid
  <2> QED BY <1>2, <2>2 DEF IInv
<1>4. CASE ExtractFails(w)
  <2>1. Leave(w)
    BY <1>4 DEF ExtractFails
  <2> QED BY <1>2, <2>1, LeaveTyped DEF IInv, TypeOK
<1> QED BY <1>3, <1>4

\* a bundle is validated,
LEMMA ValidateKeeps ==
  ASSUME IInv, NEW w \in Workers, validate_bundle(w)
  PROVE  IInv'
<1>1. RequiresPresent' /\ HintsOfText' /\ Present' = Present
  BY CatalogStays DEF validate_bundle
<1>2. FilesKept'
  BY <1>1 DEF validate_bundle, IInv, FilesKept
<1>3. CASE Leave(w)
  BY <1>1, <1>2, <1>3, LeaveTyped DEF validate_bundle, IInv, TypeOK
<1>4. CASE ~Leave(w)
  <2>1. /\ DistinctSlugs(job[w].bundle.challenges)
        /\ job' = job /\ pc' = [pc EXCEPT ![w] = "apply"]
    BY <1>4 DEF validate_bundle, Valid, Goto
  <2>2. TypeOK' /\ AppliesValid'
    BY <2>1 DEF validate_bundle, IInv, TypeOK, AppliesValid
  <2> QED BY <1>1, <1>2, <2>2 DEF IInv
<1> QED BY <1>3, <1>4

\* an import is rolled back, or stops,
LEMMA RollBackKeeps ==
  ASSUME IInv, NEW w \in Workers, RollBack(w)
  PROVE  IInv'
<1> DEFINE b == job[w].bundle.challenges
           J == TouchedBy(b, job[w].overwrite)
<1>1. RequiresPresent' /\ HintsOfText' /\ Present' = Present
  BY CatalogStays DEF RollBack
<1>2. b \in Seq(Entry) /\ Supplied(w, J) \in SUBSET DOMAIN b
  BY JobTyped DEF IInv
<1>3. PICK I \in SUBSET Supplied(w, J) :
        disk' = WithFiles(b, I) /\ torn' = torn \union Inline(b, I)
  BY DEF RollBack
<1>4. UNCHANGED catalog /\ Leave(w)
  BY DEF RollBack
<1> HIDE DEF b, J
<1>5. I \in SUBSET DOMAIN b
  BY <1>2, <1>3
<1>6. FilesKept' /\ disk' \in [Places -> Texts \union {None}] /\ torn' \subseteq Slugs
  BY <1>2, <1>3, <1>4, <1>5, WritesTear
<1>7. TypeOK' /\ AppliesValid'
  BY <1>4, <1>6, LeaveTyped DEF IInv, TypeOK
<1> QED BY <1>1, <1>6, <1>7 DEF IInv

\* Every slug of what was applied is there afterwards, and none has gone.
LEMMA AppliedPresent ==
  ASSUME TypeOK, NEW b \in Seq(Entry), NEW overwrite \in BOOLEAN, NEW dir \in Directories,
         catalog' = Applied(b, overwrite, dir)
  PROVE  Present \subseteq Present' /\ SlugsOf(b) \subseteq Present'
<1>1. \A s \in Slugs :
        \/ catalog'[s] = catalog[s] /\ \A i \in TouchedBy(b, overwrite) : b[i].slug # s
        \/ catalog'[s] # None
  <2> SUFFICES ASSUME NEW s \in Slugs
               PROVE  \/ /\ catalog'[s] = catalog[s]
                         /\ \A i \in TouchedBy(b, overwrite) : b[i].slug # s
                      \/ catalog'[s] # None
    OBVIOUS
  <2>1. CASE \A i \in TouchedBy(b, overwrite) : b[i].slug # s
    BY <2>1, AppliedRow
  <2>2. CASE ~ \A i \in TouchedBy(b, overwrite) : b[i].slug # s
    BY <2>2, AppliedRow, WrittenRow
  <2> QED BY <2>1, <2>2
<1>2. Present \subseteq Present'
  BY <1>1 DEF Present
<1>3. ASSUME NEW i \in DOMAIN b PROVE b[i].slug \in Present'
  <2>1. b[i] \in Entry
    OBVIOUS
  <2>2. b[i].slug \in Slugs
    BY <2>1, EntryParts
  <2>3. catalog[b[i].slug] = None => i \in TouchedBy(b, overwrite)
    BY DEF TouchedBy, Touched
  <2> QED BY <1>1, <2>2, <2>3 DEF Present
<1> QED BY <1>2, <1>3 DEF SlugsOf

\* or is applied;
LEMMA ApplyKeeps ==
  ASSUME IInv, NEW w \in Workers, apply_import(w)
  PROVE  IInv'
<1> DEFINE b   == job[w].bundle.challenges
           ow  == job[w].overwrite
           dir == job[w].dir
           I   == TouchedBy(b, ow)
           D   == Supplied(w, I)
<1>1. /\ b \in Seq(Entry) /\ ow \in BOOLEAN /\ dir \in Directories /\ I \in SUBSET DOMAIN b
      /\ D \in SUBSET DOMAIN b /\ DistinctSlugs(b) /\ TypeOK
  BY JobTyped DEF IInv, AppliesValid, apply_import
<1>2. catalog' = Applied(b, ow, dir) /\ Leave(w)
  BY DEF apply_import
<1>3. /\ disk' = WithFiles(b, D) /\ torn' = (torn \ Inline(b, D)) \union Lent(b, D)
      /\ D = IF dir = "own" THEN I ELSE {}
  BY DEF apply_import, Supplied
<1> HIDE DEF b, ow, dir, I, D
<1>4. Present \subseteq Present' /\ SlugsOf(b) \subseteq Present'
  BY <1>1, <1>2, AppliedPresent
<1>5. ASSUME NEW s \in Present'
      PROVE  \/ /\ s \in Present /\ catalog'[s] = catalog[s] /\ s \in Slugs
                /\ \A i \in I : b[i].slug # s
             \/ \E i \in I : /\ i \in DOMAIN b /\ b[i] \in Entry /\ b[i].slug = s
                             /\ catalog'[s] = Written(b[i], b, dir)
  BY <1>1, <1>2, AppliedRow DEF Present, I
<1>6. TypeOK'
  <2>1. catalog' \in [Slugs -> Row \union {None}]
    BY <1>1, <1>2, AppliedTyped
  <2>2. disk' \in [Places -> Texts \union {None}]
    BY <1>1, <1>3, FilesTyped
  <2>3. torn' \subseteq Slugs
    BY <1>1, <1>3, BytesOf DEF TypeOK, Lent
  <2> QED BY <1>2, <2>1, <2>2, <2>3, LeaveTyped DEF TypeOK, IInv
<1>7. RequiresPresent'
  <2> SUFFICES ASSUME NEW s \in Present' PROVE catalog'[s].requires \in Present' \union {None}
    BY DEF RequiresPresent
  <2>1. CASE s \in Present /\ catalog'[s] = catalog[s]
    BY <1>4, <2>1 DEF IInv, RequiresPresent
  <2>2. CASE \E i \in I : b[i] \in Entry /\ catalog'[s] = Written(b[i], b, dir)
    BY <1>1, <1>4, <2>2, WrittenRow DEF Prerequisite
  <2> QED BY <1>5, <2>1, <2>2
<1>8. HintsOfText'
  <2> SUFFICES ASSUME NEW s \in Present', NEW k \in DOMAIN catalog'[s].hints
               PROVE  catalog'[s].hints[k].text = catalog'[s].text
    BY DEF HintsOfText
  <2>1. CASE s \in Present /\ catalog'[s] = catalog[s]
    BY <2>1 DEF IInv, HintsOfText
  <2>2. CASE \E i \in I : b[i] \in Entry /\ catalog'[s] = Written(b[i], b, dir)
    BY <1>1, <2>2, WrittenRow
  <2> QED BY <1>5, <2>1, <2>2
<1>9. FilesKept'
  <2> SUFFICES ASSUME NEW s \in Present', catalog'[s].file # None,
                      catalog'[s].file.given # None
               PROVE  LET file == catalog'[s].file
                      IN  /\ file.path \in Slugs
                          /\ file.path \in torn' \/ disk'[file.path] = file.given
    BY DEF FilesKept
  <2> DEFINE file == catalog'[s].file
             p == file.path
  <2>1. CASE s \in Present /\ catalog'[s] = catalog[s] /\ \A i \in I : b[i].slug # s
    <3>1. p \in Slugs /\ (p \in torn \/ disk[p] = file.given)
      BY <2>1 DEF IInv, FilesKept
    <3>2. p # s \/ s \notin Inline(b, D)
      BY <1>3, <2>1 DEF Inline
    <3>3. p \in Inline(b, D) => p \in Lent(b, D)
      BY <2>1, <3>2 DEF Lent
    <3>4. p \in Slugs /\ p \notin Inline(b, D) => disk'[p] = disk[p]
      BY <1>3 DEF WithFiles, Places
    <3> QED BY <1>3, <3>1, <3>3, <3>4
  <2>2. ASSUME NEW i \in I, i \in DOMAIN b, b[i] \in Entry, b[i].slug = s,
               catalog'[s] = Written(b[i], b, dir)
        PROVE  p \in Slugs /\ disk'[p] = file.given
    <3>1. file = import_files(b[i], dir)
      BY <1>1, <2>2, WrittenRow
    <3> HIDE DEF file
    <3>2. dir = "own" /\ IsInline(b[i]) /\ p = s /\ file.given = b[i].file.data
      BY <1>1, <2>2, <3>1, FilesReadBack DEF file
    <3>3. D = I
      BY <1>3, <3>2
    <3>4. s \in Inline(b, D) /\ s \in Slugs
      BY <1>1, <2>2, <3>2, <3>3, BytesOf
    <3>5. PICK j \in D : b[j].slug = s /\ Bytes(b, D, s) = b[j].file.data
      BY <1>1, <3>4, BytesOf
    <3>6. j = i
      BY <1>1, <2>2, <3>3, <3>5 DEF DistinctSlugs
    <3>7. WithFiles(b, D)[s] = b[i].file.data
      BY <3>4, <3>5, <3>6 DEF WithFiles, Places
    <3> QED BY <1>3, <3>2, <3>4, <3>7
  <2> QED BY <1>5, <2>1, <2>2
<1>10. AppliesValid'
  BY <1>1, <1>2, LeaveTyped DEF IInv
<1> QED BY <1>6, <1>7, <1>8, <1>9, <1>10 DEF IInv

\* The admins' pages change rows: what is left of each row, and where it is now.
LEMMA RenameKeeps ==
  ASSUME IInv, NEW s \in Slugs, NEW title \in Titles, Rename(s, title)
  PROVE  IInv'
<1> DEFINE t == Slugify[title]
           named == [catalog[s] EXCEPT !.title = title]
           Old(u) == IF u = t THEN named ELSE IF u = s THEN None ELSE catalog[u]
<1>1. /\ s \in Present /\ t \notin Present \ {s} /\ UNCHANGED <<disk, torn, pc, job>>
      /\ t \in Slugs
  BY ConstantsAssumption DEF Rename
<1>2. catalog' = [u \in Slugs |-> IF Old(u) = None THEN None
                                  ELSE [Old(u) EXCEPT !.requires = Renamed(@, s, t)]]
  BY DEF Rename
<1> HIDE DEF t
<1>3. catalog[s] \in Row /\ None \notin Row
  BY <1>1, CatalogRow, ConstantsAssumption DEF IInv
<1>4. /\ named \in Row /\ named.text = catalog[s].text /\ named.hints = catalog[s].hints
      /\ named.file = catalog[s].file /\ named.requires = catalog[s].requires
  BY <1>3 DEF Row
<1> HIDE DEF named
\* A row has the columns of one that was there, but for its title.
<1>5. \A u \in Slugs : Old(u) # None =>
        \E v \in Present : /\ Old(u) \in Row
                           /\ Old(u).text = catalog[v].text /\ Old(u).hints = catalog[v].hints
                           /\ Old(u).file = catalog[v].file
                           /\ Old(u).requires = catalog[v].requires
  <2> SUFFICES ASSUME NEW u \in Slugs, Old(u) # None
               PROVE  \E v \in Present :
                        /\ Old(u) \in Row
                        /\ Old(u).text = catalog[v].text /\ Old(u).hints = catalog[v].hints
                        /\ Old(u).file = catalog[v].file
                        /\ Old(u).requires = catalog[v].requires
    OBVIOUS
  <2>1. CASE u = t
    BY <1>1, <1>4, <2>1
  <2>2. CASE u # t
    <3>1. u # s /\ Old(u) = catalog[u] /\ u \in Present
      BY <2>2 DEF Present
    <3> QED BY <3>1, CatalogRow DEF IInv
  <2> QED BY <2>1, <2>2
<1>6. \A u \in Slugs : Old(u) # None <=> (u \in Present /\ u # s) \/ u = t
  BY <1>1, <1>3, <1>4 DEF Present
<1> HIDE DEF Old
<1>7. \A r \in Row : \A q \in Slugs \union {None} :
        /\ [r EXCEPT !.requires = q] \in Row
        /\ [r EXCEPT !.requires = q].requires = q
        /\ [r EXCEPT !.requires = q].text = r.text
        /\ [r EXCEPT !.requires = q].hints = r.hints
        /\ [r EXCEPT !.requires = q].file = r.file
  BY DEF Row
<1>8. \A r \in Row : Renamed(r.requires, s, t) \in Slugs \union {None} /\ r # None
  BY <1>1, ConstantsAssumption DEF Row, Renamed
<1>9. catalog' \in [Slugs -> Row \union {None}]
  BY <1>2, <1>5, <1>7, <1>8
<1>10. Present' = (Present \ {s}) \union {t}
  <2>1. \A u \in Slugs : u \in Present' <=> Old(u) # None
    BY <1>2, <1>5, <1>7, <1>8, ConstantsAssumption DEF Present
  <2> QED BY <1>1, <1>6, <2>1 DEF Present
<1>11. ASSUME NEW u \in Present'
       PROVE  \E v \in Present : /\ catalog[v] \in Row
                                 /\ catalog'[u].text = catalog[v].text
                                 /\ catalog'[u].hints = catalog[v].hints
                                 /\ catalog'[u].file = catalog[v].file
                                 /\ catalog'[u].requires = Renamed(catalog[v].requires, s, t)
  <2>1. u \in Slugs /\ Old(u) # None
    BY <1>2 DEF Present
  <2>2. PICK v \in Present : /\ Old(u) \in Row
                            /\ Old(u).text = catalog[v].text /\ Old(u).hints = catalog[v].hints
                            /\ Old(u).file = catalog[v].file
                            /\ Old(u).requires = catalog[v].requires
    BY <1>5, <2>1
  <2>3. catalog[v] \in Row
    BY CatalogRow DEF IInv
  <2>4. catalog'[u] = [Old(u) EXCEPT !.requires = Renamed(@, s, t)]
    BY <1>2, <2>1
  <2> QED BY <1>7, <1>8, <2>2, <2>3, <2>4
<1>12. RequiresPresent'
  <2>1. \A v \in Present : Renamed(catalog[v].requires, s, t) \in Present' \union {None}
    BY <1>10 DEF IInv, RequiresPresent, Renamed
  <2> QED BY <1>11, <2>1 DEF RequiresPresent
<1>13. HintsOfText'
  BY <1>11 DEF IInv, HintsOfText
<1>14. FilesKept'
  BY <1>1, <1>11 DEF IInv, FilesKept
<1> QED BY <1>1, <1>9, <1>12, <1>13, <1>14 DEF IInv, TypeOK, AppliesValid

\* a challenge is deleted,
LEMMA DeleteKeeps ==
  ASSUME IInv, NEW s \in Slugs, Delete(s)
  PROVE  IInv'
<1>1. s \in Present /\ UNCHANGED <<disk, torn, pc, job>>
  BY DEF Delete
<1>2. catalog' = [u \in Slugs |-> IF u = s THEN None ELSE WithoutRequirement(catalog[u], s)]
  BY DEF Delete
<1>3. ASSUME NEW u \in Present
      PROVE  /\ WithoutRequirement(catalog[u], s) \in Row
             /\ WithoutRequirement(catalog[u], s) # None
             /\ WithoutRequirement(catalog[u], s).text = catalog[u].text
             /\ WithoutRequirement(catalog[u], s).hints = catalog[u].hints
             /\ WithoutRequirement(catalog[u], s).file = catalog[u].file
             /\ WithoutRequirement(catalog[u], s).requires \in (Present \ {s}) \union {None}
  <2>1. catalog[u] \in Row /\ catalog[u] # None /\ None \notin Row
    BY CatalogRow, ConstantsAssumption DEF IInv, Present
  <2>2. catalog[u].requires \in Present \union {None}
    BY DEF IInv, RequiresPresent
  <2>3. CASE catalog[u].requires # s
    BY <2>1, <2>2, <2>3 DEF WithoutRequirement
  <2>4. CASE catalog[u].requires = s
    <3> DEFINE r == WithoutRequirement(catalog[u], s)
    <3>1. r = [catalog[u] EXCEPT !.requires = None]
      BY <2>1, <2>4 DEF WithoutRequirement
    <3> HIDE DEF r
    <3>2. /\ r \in Row /\ r.text = catalog[u].text /\ r.hints = catalog[u].hints
          /\ r.file = catalog[u].file /\ r.requires = None
      BY <2>1, <3>1 DEF Row
    <3> QED BY <2>1, <3>2 DEF r
  <2> QED BY <2>3, <2>4
<1>4. \A u \in Slugs : u \notin Present =>
        catalog[u] = None /\ WithoutRequirement(catalog[u], s) = None
  BY DEF Present, WithoutRequirement
<1>5. catalog' \in [Slugs -> Row \union {None}]
  BY <1>2, <1>3, <1>4
<1>6. Present' = Present \ {s}
  BY <1>2, <1>3, <1>4 DEF Present
<1>7. \A u \in Present' : u \in Present /\ catalog'[u] = WithoutRequirement(catalog[u], s)
  BY <1>2, <1>6 DEF Present
<1>8. RequiresPresent'
  BY <1>3, <1>6, <1>7 DEF RequiresPresent
<1>9. HintsOfText'
  BY <1>3, <1>7 DEF IInv, HintsOfText
<1>10. FilesKept'
  BY <1>1, <1>3, <1>7 DEF IInv, FilesKept
<1> QED BY <1>1, <1>5, <1>8, <1>9, <1>10 DEF IInv, TypeOK, AppliesValid

\* a team buys a hint,
LEMMA BuyKeeps ==
  ASSUME IInv, NEW s \in Slugs, NEW team \in Teams, Buy(s, team)
  PROVE  IInv'
<1>1. s \in Present /\ UNCHANGED <<disk, torn, pc, job>>
  BY DEF Buy
<1>2. PICK i \in DOMAIN catalog[s].hints :
        catalog' = [catalog EXCEPT ![s].hints[i].buyers = @ \union {team}]
  BY DEF Buy
<1> DEFINE old == catalog[s].hints
           hint == [old[i] EXCEPT !.buyers = @ \union {team}]
           new == [old EXCEPT ![i] = hint]
           row == [catalog[s] EXCEPT !.hints = new]
<1>3. /\ catalog[s] \in Row /\ old \in Seq(Hint) /\ i \in DOMAIN old
      /\ s \in Slugs /\ None \notin Row
  BY <1>1, <1>2, CatalogRow, ConstantsAssumption DEF IInv
<1>4. catalog' = [catalog EXCEPT ![s] = row]
  BY <1>2
<1>5. old[i] \in Hint
  BY <1>3
<1> HIDE DEF old
<1>6. hint \in Hint /\ hint.text = old[i].text
  BY <1>5 DEF Hint
<1> HIDE DEF hint
<1>7. /\ new \in Seq(Hint) /\ DOMAIN new = DOMAIN old
      /\ \A k \in DOMAIN old : new[k].text = old[k].text
  BY <1>3, <1>6
<1> HIDE DEF new
<1>8. /\ row \in Row /\ row.hints = new /\ row.text = catalog[s].text
      /\ row.requires = catalog[s].requires /\ row.file = catalog[s].file
  BY <1>3, <1>7 DEF Row
<1> HIDE DEF row
<1>9. catalog' \in [Slugs -> Row \union {None}] /\ Present' = Present
  BY <1>1, <1>3, <1>4, <1>8 DEF IInv, TypeOK, Present
<1>10. \A u \in Present :
         /\ catalog'[u].text = catalog[u].text /\ catalog'[u].requires = catalog[u].requires
         /\ catalog'[u].file = catalog[u].file
         /\ u # s => catalog'[u] = catalog[u]
         /\ u = s => catalog'[u].hints = new
  BY <1>4, <1>8 DEF IInv, TypeOK, Present
<1>11. HintsOfText'
  <2> SUFFICES ASSUME NEW u \in Present', NEW k \in DOMAIN catalog'[u].hints
               PROVE  catalog'[u].hints[k].text = catalog'[u].text
    BY DEF HintsOfText
  <2>1. CASE u # s
    BY <1>9, <1>10, <2>1 DEF IInv, HintsOfText
  <2>2. CASE u = s
    BY <1>1, <1>7, <1>10, <2>2 DEF IInv, HintsOfText, old
  <2> QED BY <2>1, <2>2
<1>12. RequiresPresent'
  BY <1>9, <1>10 DEF IInv, RequiresPresent
<1>13. FilesKept'
  BY <1>1, <1>9, <1>10 DEF IInv, FilesKept
<1> QED BY <1>1, <1>9, <1>11, <1>12, <1>13 DEF IInv, TypeOK, AppliesValid

\* An attachment on the page of an admin is a link, or none.
LEMMA AttachKeeps ==
  ASSUME IInv, NEW s \in Present, NEW file \in File \union {None},
         file # None => file.path \in Links /\ file.given = None, Attach(s, file)
  PROVE  IInv'
<1>1. catalog' = [catalog EXCEPT ![s].file = file] /\ UNCHANGED <<disk, torn, pc, job>>
  BY DEF Attach
<1> DEFINE row == [catalog[s] EXCEPT !.file = file]
<1>2. s \in Slugs /\ catalog[s] \in Row /\ None \notin Row
  BY CatalogRow, ConstantsAssumption DEF IInv, Places
<1>3. catalog' = [catalog EXCEPT ![s] = row]
  BY <1>1
<1>4. /\ row \in Row /\ row.hints = catalog[s].hints /\ row.text = catalog[s].text
      /\ row.requires = catalog[s].requires /\ row.file = file
  BY <1>2 DEF Row
<1> HIDE DEF row
<1>5. catalog' \in [Slugs -> Row \union {None}] /\ Present' = Present
  BY <1>2, <1>3, <1>4 DEF IInv, TypeOK, Present
<1>6. \A u \in Present :
        /\ catalog'[u].text = catalog[u].text /\ catalog'[u].requires = catalog[u].requires
        /\ catalog'[u].hints = catalog[u].hints
        /\ u # s => catalog'[u] = catalog[u]
        /\ u = s => catalog'[u].file = file
  BY <1>3, <1>4 DEF IInv, TypeOK, Present
<1>7. RequiresPresent' /\ HintsOfText'
  BY <1>5, <1>6 DEF IInv, RequiresPresent, HintsOfText
<1>8. FilesKept'
  BY <1>1, <1>2, <1>5, <1>6 DEF IInv, FilesKept
<1> QED BY <1>1, <1>5, <1>7, <1>8 DEF IInv, TypeOK, AppliesValid

\* an attachment is made, changed or removed.
LEMMA FilesKeep ==
  ASSUME IInv, NEW s \in Slugs,
         \/ \E link \in Links : create_file(s, link) \/ update_file(s, link)
         \/ delete_file(s)
  PROVE  IInv'
<1>1. ASSUME NEW link \in Links, create_file(s, link) PROVE IInv'
  <2>1. [path |-> link, sha |-> None, given |-> None] \in File
    BY DEF File
  <2> QED BY <1>1, <2>1, AttachKeeps DEF create_file
<1>2. ASSUME NEW link \in Links, update_file(s, link) PROVE IInv'
  <2>1. s \in Present /\ catalog[s].file \in File
    BY <1>2, CatalogRow DEF update_file, IInv
  <2>2. /\ Relinked(catalog[s].file, link) \in File
        /\ Relinked(catalog[s].file, link).path = link
        /\ Relinked(catalog[s].file, link).given = None
    BY <2>1 DEF Relinked, File
  <2> QED BY <1>2, <2>1, <2>2, AttachKeeps DEF update_file
<1>3. CASE delete_file(s)
  BY <1>3, AttachKeeps DEF delete_file
<1> QED BY <1>1, <1>2, <1>3

\* So does every step.
LEMMA IInvStep == ASSUME IInv, [Next]_vars PROVE IInv'
<1>1. ASSUME NEW w \in Workers, Import(w) PROVE IInv'
  BY <1>1, ImportKeeps, ExtractKeeps, ValidateKeeps, ApplyKeeps, RollBackKeeps DEF Import
<1>2. ASSUME NEW s \in Slugs, NEW title \in Titles, Rename(s, title) PROVE IInv'
  BY <1>2, RenameKeeps
<1>3. ASSUME NEW s \in Slugs, Delete(s) PROVE IInv'
  BY <1>3, DeleteKeeps
<1>4. ASSUME NEW s \in Slugs,
             \/ \E link \in Links : create_file(s, link) \/ update_file(s, link)
             \/ delete_file(s)
      PROVE  IInv'
  BY <1>4, FilesKeep
<1>5. ASSUME NEW s \in Slugs, NEW team \in Teams, Buy(s, team) PROVE IInv'
  BY <1>5, BuyKeeps
<1>6. CASE UNCHANGED vars
  BY <1>6 DEF vars, IInv, TypeOK, RequiresPresent, HintsOfText, AppliesValid,
              FilesKept, Present
<1> QED BY <1>1, <1>2, <1>3, <1>4, <1>5, <1>6 DEF Next

\* IInv holds throughout.
LEMMA Invariants == Spec => []IInv
<1>1. Init => IInv
  BY InitIInv
<1>2. IInv /\ [Next]_vars => IInv'
  BY IInvStep
<1> QED BY <1>1, <1>2, PTL DEF Spec

\* Whatever is imported, renamed, deleted, bought or linked, in any order, the
\* rows have the columns the statements give them, and the files and requests
\* their parts.
THEOREM TypeCorrect == Spec => []TypeOK
<1>1. IInv => TypeOK
  BY DEF IInv
<1> QED BY <1>1, Invariants, PTL

\* The bytes that came to the server with a challenge, in the bundle that made or
\* overwrote it, are those an export sends along, except in the directories a zip or an import
\* that failed has written to, or that two challenges share: import_files and
\* export_files, for any number of imports at once and whatever admins do between.
THEOREM BytesStayKept == Spec => []BytesKept
<1>1. ASSUME IInv PROVE BytesKept
  <2> SUFFICES ASSUME NEW s \in Present, catalog[s].file # None,
                      catalog[s].file.given # None
               PROVE  LET file == catalog[s].file
                      IN  /\ file.path \in Slugs
                          /\ file.path \in torn \/ export_files(file, TRUE).data = file.given
    BY DEF BytesKept
  <2> DEFINE file == catalog[s].file
  <2>1. file.path \in Slugs /\ (file.path \in torn \/ disk[file.path] = file.given)
    BY <1>1 DEF IInv, FilesKept
  <2>2. file.path \in Slugs => file.path \notin Links
    BY ConstantsAssumption DEF Places
  <2>3. file.path \in Slugs => export_files(file, TRUE).data = disk[file.path]
    BY <2>2 DEF export_files
  <2> QED BY <2>1, <2>3
<1> QED BY <1>1, Invariants, PTL

-----------------------------------------------------------------------------
(* What is exported.                                                       *)

\* Every challenge is exported, and once.
LEMMA ExportLists ==
  /\ SetToSeq(Present) \in [1 .. Cardinality(Present) -> Present]
  /\ \A i, j \in 1 .. Cardinality(Present) :
       SetToSeq(Present)[i] = SetToSeq(Present)[j] => i = j
  /\ \A s \in Present : \E i \in 1 .. Cardinality(Present) : SetToSeq(Present)[i] = s
<1>1. IsFiniteSet(Present)
  BY FS_Subset, ConstantsAssumption DEF Present
<1> DEFINE S == Present
           n == Cardinality(S)
           f == SetToSeq(S)
<1> HIDE DEF S
<1>2. n \in Nat /\ \E g : g \in Bijection(1 .. n, S)
  BY <1>1, FS_CardinalityType DEF ExistsBijection, S
<1> HIDE DEF n
<1>3. \E g \in [1 .. n -> S] : IsInjective(g)
  <2>1. PICK g : g \in Bijection(1 .. n, S)
    BY <1>2
  <2> QED BY <2>1 DEF Bijection, Injection, Surjection, IsInjective
<1>4. f \in [1 .. n -> S] /\ IsInjective(f)
  BY <1>3 DEF SetToSeq, n
<1> HIDE DEF f
<1>5. \A i, j \in 1 .. n : f[i] = f[j] => i = j
  BY <1>4 DEF IsInjective
<1>6. IsFiniteSet(S) /\ IsFiniteSet(1 .. n) /\ Cardinality(1 .. n) = n
  <2>1. 1 \in Int /\ n \in Int
    BY <1>2
  <2>2. IsFiniteSet(1 .. n) /\ Cardinality(1 .. n) = IF 1 > n THEN 0 ELSE n - 1 + 1
    BY ONLY <2>1, FS_Interval
  <2> QED BY <1>1, <1>2, <2>2 DEF S
<1>7. f \in Injection(1 .. n, S)
  BY <1>4, <1>5 DEF Injection, IsInjective
<1>8. f \in Surjection(1 .. n, S)
  BY <1>6, <1>7, FS_Injection DEF n
<1> QED BY <1>4, <1>5, <1>8 DEF Surjection, S, n, f

\* The bytes that are sent along are not compared.
LEMMA ExportedFile ==
  ASSUME disk \in [Places -> Texts \union {None}],
         NEW file \in File \union {None}, NEW inline \in BOOLEAN
  PROVE  export_files(file, FALSE) = IgnoringData(export_files(file, inline))
<1>1. CASE file = None
  BY <1>1 DEF export_files, IgnoringData
<1>2. CASE file # None
  <2>1. file \in File /\ None \notin Attachment
    BY <1>2, ConstantsAssumption
  <2>2. file.path \in Places \union Links /\ file.sha \in Texts \union {None}
    BY <2>1 DEF File
  <2>3. ASSUME NEW e \in Attachment
        PROVE  IgnoringData(e) = [url |-> e.url, sha |-> e.sha, data |-> None]
    BY <2>1 DEF IgnoringData, Attachment
  <2>4. CASE file.path \in Links
    <3>1. \A i \in BOOLEAN : export_files(file, i) =
                               [url |-> file.path, sha |-> file.sha, data |-> None]
      BY <1>2, <2>4 DEF export_files
    <3>2. [url |-> file.path, sha |-> file.sha, data |-> None] \in Attachment
      BY <2>2, <2>4 DEF Attachment
    <3> QED BY <2>3, <3>1, <3>2
  <2>5. CASE file.path \notin Links
    <3> DEFINE bytes == IF inline THEN disk[file.path] ELSE None
    <3>1. export_files(file, inline) = [url |-> None, sha |-> file.sha, data |-> bytes]
      BY <1>2, <2>5 DEF export_files
    <3>2. export_files(file, FALSE) = [url |-> None, sha |-> file.sha, data |-> None]
      BY <1>2, <2>5 DEF export_files
    <3>3. bytes \in Texts \union {None}
      BY <2>2, <2>5
    <3> HIDE DEF bytes
    <3>4. [url |-> None, sha |-> file.sha, data |-> bytes] \in Attachment
      BY <2>2, <3>3 DEF Attachment
    <3> QED BY <2>3, <3>1, <3>2, <3>4
  <2> QED BY <2>4, <2>5
<1> QED BY <1>1, <1>2

\* What is exported of a challenge is what is compared with its row.
LEMMA ExportedMatches ==
  ASSUME IInv, NEW s \in Present, NEW inline \in BOOLEAN
  PROVE  /\ Exported(s, inline).slug = s /\ Exported(s, inline).title = catalog[s].title
         /\ Exported(s, inline).requires = catalog[s].requires
         /\ challenge_matches_existing(Exported(s, inline), catalog[s])
<1> DEFINE hints == catalog[s].hints
           e == Exported(s, inline)
           p == Listed(DOMAIN hints, Earlier(OrdersOf(hints)))
<1>1. /\ hints \in Seq(Hint) /\ \A k \in DOMAIN hints : hints[k].text = catalog[s].text
      /\ catalog[s].file \in File \union {None}
  BY CatalogRow DEF IInv, HintsOfText
<1>2. OrdersOf(hints) \in Seq(Int) /\ DOMAIN OrdersOf(hints) = DOMAIN hints
  BY <1>1, HintOrders
<1>3. p \in [DOMAIN hints -> DOMAIN hints]
  BY <1>2, SortedIn
<1>4. /\ e.slug = s /\ e.title = catalog[s].title /\ e.text = catalog[s].text
      /\ e.requires = catalog[s].requires
      /\ e.file = export_files(catalog[s].file, inline)
      /\ e.hints = [k \in DOMAIN export_hints(hints) |-> export_hints(hints)[k].order]
  BY DEF Exported
<1>5. export_hints(hints) = [k \in DOMAIN hints |-> [order |-> hints[p[k]].order,
                                                     text  |-> hints[p[k]].text]]
  BY DEF export_hints
<1> HIDE DEF hints, e, p
<1>6. /\ DOMAIN e.hints = DOMAIN hints
      /\ \A k \in DOMAIN hints : e.hints[k] = hints[p[k]].order
  BY <1>4, <1>5
<1>7. \A k \in DOMAIN hints : hints[p[k]].text = e.text
  BY <1>1, <1>3, <1>4
<1>8. HintsOf(e) = export_hints(hints)
  BY <1>5, <1>6, <1>7 DEF HintsOf
<1>9. export_files(catalog[s].file, FALSE) = IgnoringData(e.file)
  <2>1. disk \in [Places -> Texts \union {None}]
    BY DEF IInv, TypeOK
  <2> QED BY <1>1, <1>4, <2>1, ExportedFile
<1> QED BY <1>4, <1>8, <1>9 DEF challenge_matches_existing, e, hints

\* What is exported can be imported again, unless a challenge has no slug or no
\* title: no slug twice, no prerequisite that is missing, and in any case nothing
\* to overwrite.
THEOREM ExportsRestore == Spec => []ExportRestores
<1>1. ASSUME IInv PROVE ExportRestores
  <2> SUFFICES ASSUME NEW inline \in BOOLEAN
               PROVE  LET bundle == export(inline)
                      IN  /\ Valid(bundle) <=>
                               \A s \in Present : s \notin Blank /\ catalog[s].title \notin Blank
                          /\ \A i \in DOMAIN bundle.challenges :
                               ~Touched(bundle.challenges[i], TRUE)
    BY DEF ExportRestores
  <2> DEFINE f == SetToSeq(Present)
             b == export(inline).challenges
  <2>1. /\ f \in [1 .. Cardinality(Present) -> Present]
        /\ \A i, j \in 1 .. Cardinality(Present) : f[i] = f[j] => i = j
        /\ \A s \in Present : \E i \in 1 .. Cardinality(Present) : f[i] = s
    BY ExportLists
  <2>2. /\ b = [i \in DOMAIN f |-> Exported(f[i], inline)]
        /\ export(inline).feralctf_export_version = 1
    BY DEF export
  <2> HIDE DEF f, b
  <2>3. \A s \in Present : /\ Exported(s, inline).slug = s
                           /\ Exported(s, inline).title = catalog[s].title
                           /\ Exported(s, inline).requires = catalog[s].requires
                           /\ challenge_matches_existing(Exported(s, inline), catalog[s])
    BY <1>1, ExportedMatches
  <2>4. \A i \in DOMAIN b : /\ f[i] \in Present /\ b[i] = Exported(f[i], inline)
                            /\ b[i].slug = f[i] /\ b[i].title = catalog[f[i]].title
    BY <2>1, <2>2, <2>3
  <2>5. DistinctSlugs(b)
    BY <2>1, <2>2, <2>4 DEF DistinctSlugs
  <2>6. \A s \in Present : \E i \in DOMAIN b : f[i] = s
    BY <2>1, <2>2
  <2>7. \A i \in DOMAIN b : b[i].requires \in SlugsOf(b) \union Present \union {None}
    BY <1>1, <2>3, <2>4 DEF IInv, RequiresPresent
  <2>8. \A i \in DOMAIN b : ~Touched(b[i], TRUE)
    BY <2>3, <2>4 DEF Touched, Present
  <2>9. (\A i \in DOMAIN b : b[i].slug \notin Blank /\ b[i].title \notin Blank)
          <=> \A s \in Present : s \notin Blank /\ catalog[s].title \notin Blank
    BY <2>4, <2>6
  <2>10. Valid(export(inline)) <=>
           \A i \in DOMAIN b : b[i].slug \notin Blank /\ b[i].title \notin Blank
    BY <2>2, <2>5, <2>7 DEF Valid, b
  <2> QED BY <2>8, <2>9, <2>10 DEF b
<1> QED BY <1>1, Invariants, PTL

-----------------------------------------------------------------------------
(* What an import does.                                                    *)

\* The buyers a row of hints takes from another: those of its order and number.
BuyersKept(old, new) ==
  \A j \in DOMAIN new :
    new[j].buyers =
      UNION {old[i].buyers :
               i \in {k \in DOMAIN old : SameHint(OrdersOf(old), k, OrdersOf(new), j)}}

\* Hints that stay keep their own buyers, and get no others.
LEMMA BuyersKeptAlone ==
  ASSUME NEW hints \in Seq(Hint)
  PROVE  BuyersKept(hints, hints)
<1> SUFFICES ASSUME NEW j \in DOMAIN hints
             PROVE  hints[j].buyers =
                      UNION {hints[i].buyers : i \in {k \in DOMAIN hints :
                               SameHint(OrdersOf(hints), k, OrdersOf(hints), j)}}
  BY DEF BuyersKept
<1> DEFINE a == OrdersOf(hints)
<1>1. a \in Seq(Orders) /\ DOMAIN a = DOMAIN hints
  BY HintOrders
<1> HIDE DEF a
<1>2. \A k \in DOMAIN hints : SameHint(a, k, a, j) <=> k = j
  BY <1>1, NumberTells DEF SameHint
<1>3. {k \in DOMAIN hints : SameHint(a, k, a, j)} = {j}
  BY <1>2
<1> QED BY <1>3 DEF a

\* Hints that sync_hints leaves have those of their order and number.
LEMMA BuyersKeptSynced ==
  ASSUME NEW hints \in Seq(Hint), NEW entry \in Entry
  PROVE  BuyersKept(hints, sync_hints(hints, entry))
<1> DEFINE new == sync_hints(hints, entry)
           a   == OrdersOf(hints)
           e   == entry.hints
           c   == Synced(a, e)
           m   == Cardinality(Matched(a, e))
           p   == Ascending(Matched(a, e))
           Same(j) == {k \in DOMAIN hints : SameHint(a, k, c, j)}
<1>1. /\ a \in Seq(Orders) /\ DOMAIN a = DOMAIN hints
      /\ new \in Seq(Hint) /\ OrdersOf(new) = c
      /\ \A k \in 1 .. m : p[k] \in DOMAIN hints /\ new[k].buyers = hints[p[k]].buyers
      /\ \A k \in DOMAIN new : k > m => new[k].buyers = {}
  BY SyncHintsMakes
<1>2. /\ m \in Nat /\ DOMAIN c = DOMAIN new /\ \A j \in DOMAIN new : j \in Nat /\ j > 0
      /\ \A k \in 1 .. m : \A i \in DOMAIN a : SameHint(a, i, c, k) <=> i = p[k]
      /\ \A k \in DOMAIN c : k > m => \A i \in DOMAIN a : ~SameHint(a, i, c, k)
  <2>1. e \in Seq(Orders)
    BY EntryParts
  <2>2. /\ m \in Nat
        /\ \A k \in 1 .. m : \A i \in DOMAIN a : SameHint(a, i, c, k) <=> i = p[k]
        /\ \A k \in DOMAIN c : k > m => \A i \in DOMAIN a : ~SameHint(a, i, c, k)
    BY <1>1, <2>1, SyncHints
  <2>3. DOMAIN c = DOMAIN new /\ \A j \in DOMAIN new : j \in Nat /\ j > 0
    <3> HIDE DEF c, new
    <3> QED BY <1>1, HintOrders
  <2> QED BY <2>2, <2>3
<1> HIDE DEF new, a, e, c, m, p
<1> SUFFICES ASSUME NEW j \in DOMAIN new
             PROVE  new[j].buyers = UNION {hints[i].buyers : i \in Same(j)}
  BY <1>1 DEF BuyersKept, new, a
<1>3. CASE j > m
  <2>1. Same(j) = {}
    BY <1>1, <1>2, <1>3
  <2> QED BY <1>1, <1>3, <2>1
<1>4. CASE ~(j > m)
  <2>1. j \in 1 .. m
    BY <1>2, <1>4
  <2>2. Same(j) = {p[j]}
    BY <1>1, <1>2, <2>1
  <2> QED BY <1>1, <2>1, <2>2
<1> QED BY <1>3, <1>4

\* Overwriting a challenge keeps what teams have bought: the n-th hint of an
\* order has the buyers the n-th row of that order had, whatever the orders of
\* the bundle and of the rows; sync_hints of the import.
THEOREM OverwritesKeep == Spec => OverwritesKeepBuyers
<1>1. ASSUME IInv, [Next]_vars
      PROVE  [\A w \in Workers : pc'[w] = "idle" /\ apply_import(w) =>
                \A s \in Present \intersect SlugsOf(job[w].bundle.challenges) :
                  LET old == catalog[s].hints
                      new == catalog'[s].hints
                  IN  \A j \in DOMAIN new :
                        new[j].buyers =
                          UNION {old[i].buyers : i \in {k \in DOMAIN old :
                                   SameHint(OrdersOf(old), k, OrdersOf(new), j)}}]_vars
  <2> SUFFICES ASSUME NEW w \in Workers, apply_import(w), NEW s \in Present
               PROVE  BuyersKept(catalog[s].hints, catalog'[s].hints)
    BY DEF BuyersKept
  <2> DEFINE b   == job[w].bundle.challenges
             ow  == job[w].overwrite
             dir == job[w].dir
  <2>1. b \in Seq(Entry) /\ ow \in BOOLEAN /\ dir \in Directories /\ TypeOK
    BY <1>1, JobTyped DEF IInv
  <2>2. catalog' = Applied(b, ow, dir)
    BY DEF apply_import
  <2> HIDE DEF b, ow, dir
  <2>3. s \in Slugs /\ catalog[s] # None /\ catalog[s].hints \in Seq(Hint)
    BY <2>1, CatalogRow DEF Present
  <2>4. CASE catalog'[s] = catalog[s]
    BY <2>3, <2>4, BuyersKeptAlone
  <2>5. ASSUME NEW i \in DOMAIN b, b[i] \in Entry, b[i].slug = s,
               catalog'[s] = Written(b[i], b, dir)
        PROVE  BuyersKept(catalog[s].hints, catalog'[s].hints)
    <3>1. catalog'[s].hints = sync_hints(catalog[s].hints, b[i])
      BY <2>1, <2>3, <2>5, WrittenRow
    <3> QED BY <2>3, <2>5, <3>1, BuyersKeptSynced
  <2> QED BY <2>1, <2>2, <2>3, <2>4, <2>5, AppliedRow
<1> QED BY <1>1, Invariants, PTL DEF Spec, OverwritesKeepBuyers

\* Hints with the orders of an entry, in whatever sequence, read as those of the
\* entry do.
LEMMA ReadsAsEntry ==
  ASSUME NEW hints \in Seq(Hint), NEW entry \in Entry,
         NEW b \in Seq(Entry),
         \A k \in DOMAIN hints : hints[k].text = entry.text,
         \/ OrdersOf(hints) = entry.hints
         \/ \E a \in Seq(Orders) : OrdersOf(hints) = Synced(a, entry.hints)
  PROVE  export_hints(hints) = HintsOf(AsImported(entry, b))
<1> DEFINE c == OrdersOf(hints)
           e == entry.hints
           p == Listed(DOMAIN c, Earlier(c))
           q == Listed(DOMAIN e, Earlier(e))
           r == AsImported(entry, b)
<1>1. /\ c \in Seq(Orders) /\ c \in Seq(Int) /\ DOMAIN c = DOMAIN hints
      /\ e \in Seq(Orders) /\ e \in Seq(Int)
  <2> HIDE DEF c, e
  <2>1. c \in Seq(Orders) /\ c \in Seq(Int) /\ DOMAIN c = DOMAIN hints
    BY HintOrders DEF c
  <2>2. e \in Seq(Orders)
    BY EntryParts DEF e
  <2>3. /\ Len(e) \in Nat /\ e = [k \in 1 .. Len(e) |-> e[k]]
        /\ \A k \in 1 .. Len(e) : e[k] \in Int
    BY <2>2, ConstantsAssumption
  <2> QED BY <2>1, <2>2, <2>3, ListIsSeq
<1>2. DOMAIN c = DOMAIN e /\ Sorted(c) = Sorted(e)
  <2>1. CASE c = e
    BY <2>1
  <2>2. ASSUME NEW a \in Seq(Orders), c = Synced(a, e)
        PROVE  DOMAIN c = DOMAIN e /\ Sorted(c) = Sorted(e)
    <3> DEFINE d == Synced(a, e)
    <3> HIDE DEF c, e
    <3>1. /\ \A j \in DOMAIN e : \E k \in DOMAIN d : SameHint(d, k, e, j)
          /\ \A k \in DOMAIN d : \E j \in DOMAIN e : SameHint(d, k, e, j)
      BY <1>1, SyncHints
    <3> HIDE DEF d
    <3>2. /\ \A j \in DOMAIN e : \E k \in DOMAIN c : SameHint(c, k, e, j)
          /\ \A k \in DOMAIN c : \E j \in DOMAIN e : SameHint(c, k, e, j)
      BY <2>2, <3>1 DEF d, e
    <3> QED BY <1>1, <3>2, SortedAlike
  <2> QED BY <1>1, <2>1, <2>2
<1>3. p \in [DOMAIN c -> DOMAIN c]
  BY <1>1, SortedIn
<1>4. export_hints(hints) = [k \in DOMAIN c |-> [order |-> hints[p[k]].order,
                                                 text  |-> hints[p[k]].text]]
  BY <1>1 DEF export_hints
<1>5. \A k \in DOMAIN c : hints[p[k]].order = c[p[k]] /\ hints[p[k]].text = entry.text
  BY <1>1, <1>3 DEF OrdersOf
<1>6. r.text = entry.text /\ r.hints = [k \in DOMAIN e |-> e[q[k]]]
  BY DEF AsImported, Entry
<1>7. HintsOf(r) = [k \in DOMAIN e |-> [order |-> e[q[k]], text |-> entry.text]]
  BY <1>6 DEF HintsOf
<1> HIDE DEF p, q, r
<1>8. \A k \in DOMAIN c : c[p[k]] = e[q[k]]
  BY <1>2 DEF Sorted, p, q
<1> QED BY <1>2, <1>4, <1>5, <1>7, <1>8 DEF r

\* What is written for an entry is what the entry comes to.
LEMMA WrittenAsBundled ==
  ASSUME TypeOK, NEW b \in Seq(Entry), NEW entry \in Entry, NEW dir \in Directories
  PROVE  challenge_matches_existing(AsImported(entry, b), Written(entry, b, dir))
<1> DEFINE row == Written(entry, b, dir)
           r   == AsImported(entry, b)
<1>1. /\ row \in Row /\ row.title = entry.title /\ row.text = entry.text /\ row.requires = Prerequisite(entry, b)
      /\ row.file = import_files(entry, dir)
      /\ \A k \in DOMAIN row.hints : row.hints[k].text = entry.text
      /\ row.hints = IF catalog[entry.slug] = None THEN NewHints(entry)
                     ELSE sync_hints(catalog[entry.slug].hints, entry)
  BY WrittenRow
<1>2. /\ r.title = entry.title /\ r.text = entry.text
      /\ r.requires = Prerequisite(entry, b) /\ r.file = entry.file
  BY DEF AsImported, Entry
<1>3. row.hints \in Seq(Hint)
  BY <1>1 DEF Row
<1> HIDE DEF row
<1>4. \/ OrdersOf(row.hints) = entry.hints
      \/ \E a \in Seq(Orders) : OrdersOf(row.hints) = Synced(a, entry.hints)
  <2>1. CASE catalog[entry.slug] = None
    BY <1>1, <2>1, NewHintsMakes
  <2>2. CASE catalog[entry.slug] # None
    <3>1. entry.slug \in Present
      BY <2>2, EntryParts DEF Present
    <3>2. catalog[entry.slug].hints \in Seq(Hint)
      BY <3>1, CatalogRow
    <3> QED BY <1>1, <2>2, <3>2, SyncHintsMakes
  <2> QED BY <2>1, <2>2
<1>5. export_hints(row.hints) = HintsOf(r)
  BY <1>1, <1>3, <1>4, ReadsAsEntry
<1>6. export_files(row.file, FALSE) = IgnoringData(r.file)
  BY <1>1, <1>2, FilesReadBack
<1> QED BY <1>1, <1>2, <1>5, <1>6 DEF challenge_matches_existing, row

\* The report of a dry run tells what the import does, if nothing changes in
\* between: what validate_bundle would skip is left alone, what it would create
\* or overwrite is there as bundled, read in the order of export_hints.
THEOREM ReportMatches == Spec => ReportMatchesDeed
<1>1. ASSUME IInv, [Next]_vars
      PROVE  [\A w \in Workers : pc'[w] = "idle" /\ apply_import(w) =>
                LET b == job[w].bundle.challenges
                IN  \A i \in DOMAIN b :
                      IF Preview(b[i], job[w].overwrite) = "skip"
                      THEN catalog'[b[i].slug] = catalog[b[i].slug]
                      ELSE challenge_matches_existing(AsImported(b[i], b),
                                                      catalog'[b[i].slug])]_vars
  <2> DEFINE Told(w) ==
        LET b == job[w].bundle.challenges
        IN  \A i \in DOMAIN b :
              IF Preview(b[i], job[w].overwrite) = "skip"
              THEN catalog'[b[i].slug] = catalog[b[i].slug]
              ELSE challenge_matches_existing(AsImported(b[i], b), catalog'[b[i].slug])
  <2>1. ASSUME NEW w \in Workers, apply_import(w) PROVE Told(w)
    <3> DEFINE b   == job[w].bundle.challenges
               ow  == job[w].overwrite
               dir == job[w].dir
    <3>1. b \in Seq(Entry) /\ ow \in BOOLEAN /\ dir \in Directories /\ TypeOK /\ DistinctSlugs(b)
      BY <1>1, <2>1, JobTyped DEF IInv, AppliesValid, apply_import
    <3>2. catalog' = Applied(b, ow, dir)
      BY <2>1 DEF apply_import
    <3> HIDE DEF b, ow, dir
    <3>3. ASSUME NEW i \in DOMAIN b
          PROVE  IF Preview(b[i], ow) = "skip"
                 THEN catalog'[b[i].slug] = catalog[b[i].slug]
                 ELSE challenge_matches_existing(AsImported(b[i], b), catalog'[b[i].slug])
      <4>1. catalog'[b[i].slug] =
              IF Touched(b[i], ow) THEN Written(b[i], b, dir) ELSE catalog[b[i].slug]
        BY <3>1, <3>2, TouchedIsWritten
      <4>2. Preview(b[i], ow) = "skip" <=> ~Touched(b[i], ow)
        BY DEF Preview, Touched
      <4>3. b[i] \in Entry
        BY <3>1
      <4>4. challenge_matches_existing(AsImported(b[i], b), Written(b[i], b, dir))
        BY <3>1, <4>3, WrittenAsBundled
      <4> QED BY <4>1, <4>2, <4>4
    <3> QED BY <3>3 DEF b, ow
  <2> QED BY <2>1
<1> QED BY <1>1, Invariants, PTL DEF Spec, ReportMatchesDeed

=============================================================================
