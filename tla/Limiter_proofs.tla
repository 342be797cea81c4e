--------------------------- MODULE Limiter_proofs ---------------------------
(***************************************************************************)
(* Proofs about Limiter, for any number of workers, teams and challenges,  *)
(* any limit, window and back-off.                                         *)
(***************************************************************************)
EXTENDS Limiter, FiniteSetTheorems, SequenceTheorems, WellFoundedInduction, TLAPS

(* Windows.                                                                *)

\* A set of natural numbers has a smallest element.
LEMMA Least ==
  ASSUME NEW T \in SUBSET Nat, T # {}
  PROVE  \E m \in T : \A k \in T : m <= k
<1>1. PICK m \in T : \A k \in T : ~(<<k, m>> \in OpToRel(<, Nat))
  BY NatLessThanWellFounded, WFMin
<1>2. ASSUME NEW k \in T, k < m PROVE FALSE
  <2>1. <<k, m>> \in Nat \X Nat
    OBVIOUS
  <2>2. <<k, m>> \in OpToRel(<, Nat)
    BY <1>2, <2>1 DEF OpToRel
  <2> QED BY <1>1, <2>2
<1> QED BY <1>2

\* What the loop of expire_window ends with: n instants popped.
Pops(window, n) ==
  /\ n \in 0 .. Len(window)
  /\ \A i \in 1 .. n : window[i] >= Window
  /\ n = Len(window) \/ window[n + 1] < Window

\* The loop ends, in one way only.
LEMMA PopsExpired ==
  ASSUME NEW window \in Seq(Nat)
  PROVE  Pops(window, Expired(window))
<1>1. Len(window) \in Nat /\ \A i \in 1 .. Len(window) : window[i] \in Nat
  BY ElementOfSeq, LenProperties
<1>2. Window \in Nat
  BY ConstantsAssumption
<1> DEFINE Ends == {n \in 0 .. Len(window) : n = Len(window) \/ window[n + 1] < Window}
<1>3. PICK n \in Ends : \A k \in Ends : n <= k
  <2>1. Ends \in SUBSET Nat /\ Len(window) \in Ends
    BY <1>1
  <2> HIDE DEF Ends
  <2> QED BY <2>1, Least
<1>4. ASSUME NEW i \in 1 .. n PROVE window[i] >= Window
  <2>1. n \in 0 .. Len(window) /\ i \in 1 .. n
    BY <1>3
  <2>2. i - 1 \in 0 .. Len(window) /\ i \in 1 .. Len(window) /\ ~(n <= i - 1)
    BY <1>1, <2>1
  <2>3. i - 1 \notin Ends
    <3> HIDE DEF Ends
    <3> QED BY <1>3, <2>2
  <2>4. ~(window[(i - 1) + 1] < Window) /\ (i - 1) + 1 = i
    BY <2>1, <2>2, <2>3
  <2> QED BY <1>1, <1>2, <2>2, <2>4
<1>5. \E k \in 0 .. Len(window) :
         /\ \A i \in 1 .. k : window[i] >= Window
         /\ k = Len(window) \/ window[k + 1] < Window
  BY <1>3, <1>4
<1> QED BY <1>5 DEF Expired, Pops

LEMMA PopsUnique ==
  ASSUME NEW window \in Seq(Nat), NEW n, Pops(window, n), NEW k, Pops(window, k)
  PROVE  n = k
<1>1. Len(window) \in Nat /\ \A i \in 1 .. Len(window) : window[i] \in Nat
  BY ElementOfSeq, LenProperties
<1>2. Window \in Nat
  BY ConstantsAssumption
<1>3. n \in Nat /\ k \in Nat /\ n <= Len(window) /\ k <= Len(window)
  BY <1>1 DEF Pops
<1>4. ASSUME n < k PROVE FALSE
  <2>1. n + 1 \in 1 .. k /\ n + 1 \in 1 .. Len(window) /\ n # Len(window)
    BY <1>1, <1>3, <1>4
  <2>2. window[n + 1] >= Window /\ window[n + 1] < Window
    BY <2>1 DEF Pops
  <2> QED BY <1>1, <1>2, <2>1, <2>2
<1>5. ASSUME k < n PROVE FALSE
  <2>1. k + 1 \in 1 .. n /\ k + 1 \in 1 .. Len(window) /\ k # Len(window)
    BY <1>1, <1>3, <1>5
  <2>2. window[k + 1] >= Window /\ window[k + 1] < Window
    BY <2>1 DEF Pops
  <2> QED BY <1>1, <1>2, <2>1, <2>2
<1> QED BY <1>3, <1>4, <1>5

\* What is left is the window without its first n instants.
LEMMA ExpireIs ==
  ASSUME NEW S \in SUBSET Nat, NEW window \in Seq(S), NEW n, Pops(window, n)
  PROVE  /\ expire_window(window) \in Seq(S)
         /\ Len(expire_window(window)) = Len(window) - n
         /\ \A i \in 1 .. Len(window) - n : expire_window(window)[i] = window[n + i]
<1>1. window \in Seq(Nat)
  BY SeqMonotonic
<1>2. Expired(window) = n
  BY <1>1, PopsExpired, PopsUnique
<1>3. n \in Nat /\ Len(window) \in Nat /\ n <= Len(window)
  BY LenProperties DEF Pops
<1>4. \A i \in n + 1 .. Len(window) : window[i] \in S
  BY <1>3, ElementOfSeq
<1>5. expire_window(window) = SubSeq(window, n + 1, Len(window))
  BY <1>2 DEF expire_window
<1>6. /\ SubSeq(window, n + 1, Len(window)) \in Seq(S)
      /\ Len(SubSeq(window, n + 1, Len(window)))
           = IF n + 1 <= Len(window) THEN Len(window) - (n + 1) + 1 ELSE 0
      /\ \A i \in 1 .. Len(window) - (n + 1) + 1 :
           SubSeq(window, n + 1, Len(window))[i] = window[(n + 1) + i - 1]
  <2>1. n + 1 \in Int /\ Len(window) \in Int
    BY <1>3
  <2> QED BY <1>4, <2>1, SubSeqProperties
<1> QED BY <1>3, <1>5, <1>6

\* The oldest comes first.
Sorted(window) ==
  \A i, j \in 1 .. Len(window) : i <= j => window[i] >= window[j]

\* What is left is in order, and within the Window.
LEMMA ExpireKeeps ==
  ASSUME NEW window \in Seq(Nat), Sorted(window)
  PROVE  /\ Sorted(expire_window(window))
         /\ \A i \in 1 .. Len(expire_window(window)) :
              expire_window(window)[i] < Window
<1> DEFINE n == Expired(window)
           w == expire_window(window)
<1>1. Pops(window, n)
  BY PopsExpired
<1>2. /\ w \in Seq(Nat) /\ Len(w) = Len(window) - n
      /\ \A i \in 1 .. Len(window) - n : w[i] = window[n + i]
  BY <1>1, ExpireIs
<1>3. n \in Nat /\ Len(window) \in Nat /\ n <= Len(window)
  BY <1>1, LenProperties DEF Pops
<1>4. \A i \in 1 .. Len(window) : window[i] \in Nat
  BY ElementOfSeq
<1>5. Window \in Nat
  BY ConstantsAssumption
<1> HIDE DEF n, w
<1>6. Sorted(w)
  <2> SUFFICES ASSUME NEW i \in 1 .. Len(w), NEW j \in 1 .. Len(w), i <= j
               PROVE  w[i] >= w[j]
    BY DEF Sorted
  <2>1. n + i \in 1 .. Len(window) /\ n + j \in 1 .. Len(window) /\ n + i <= n + j
    BY <1>2, <1>3
  <2>2. window[n + i] >= window[n + j]
    BY <2>1 DEF Sorted
  <2> QED BY <1>2, <2>2
<1>7. ASSUME NEW i \in 1 .. Len(w) PROVE w[i] < Window
  <2>1. n + 1 \in 1 .. Len(window) /\ n # Len(window)
    BY <1>2, <1>3
  <2>2. window[n + 1] < Window
    BY <1>1, <2>1 DEF Pops
  <2>3. n + i \in 1 .. Len(window) /\ n + 1 <= n + i
    BY <1>2, <1>3
  <2>4. window[n + 1] >= window[n + i]
    BY <2>1, <2>3 DEF Sorted
  <2>5. w[i] = window[n + i]
    BY <1>2
  <2> QED BY <1>4, <1>5, <2>1, <2>2, <2>3, <2>4, <2>5
<1> QED BY <1>6, <1>7 DEF w

\* A window with nothing to pop stays as it is.
LEMMA NothingExpired ==
  ASSUME NEW window \in Seq(Nat), \A i \in 1 .. Len(window) : window[i] < Window
  PROVE  expire_window(window) = window
<1>1. Len(window) \in Nat /\ window = [i \in 1 .. Len(window) |-> window[i]]
  BY LenProperties
<1>2. Pops(window, 0)
  BY <1>1 DEF Pops
<1> DEFINE w == expire_window(window)
<1>3. /\ w \in Seq(Nat) /\ Len(w) = Len(window)
      /\ \A i \in 1 .. Len(window) : w[i] = window[i]
  <2>1. /\ w \in Seq(Nat) /\ Len(w) = Len(window) - 0
        /\ \A i \in 1 .. Len(window) - 0 : w[i] = window[0 + i]
    BY <1>2, ExpireIs
  <2>2. Len(window) - 0 = Len(window)
    BY <1>1
  <2>3. \A i \in 1 .. Len(window) : 0 + i = i
    OBVIOUS
  <2> HIDE DEF w
  <2> QED BY <2>1, <2>2, <2>3
<1> HIDE DEF w
<1>4. w = [i \in 1 .. Len(w) |-> w[i]]
  BY <1>3, LenProperties
<1> QED BY <1>1, <1>3, <1>4 DEF w

\* Popping twice is popping once.
LEMMA ExpireTwice ==
  ASSUME NEW window \in Seq(Nat), Sorted(window)
  PROVE  expire_window(expire_window(window)) = expire_window(window)
<1>1. expire_window(window) \in Seq(Nat)
  BY PopsExpired, ExpireIs
<1> QED BY <1>1, ExpireKeeps, NothingExpired

\* An attempt recorded now is the youngest of its window.
LEMMA RecordKeeps ==
  ASSUME NEW window \in Seq(Nat), Sorted(window),
         \A i \in 1 .. Len(window) : window[i] < Window
  PROVE  /\ Append(window, 0) \in Seq(Nat) /\ Sorted(Append(window, 0))
         /\ expire_window(Append(window, 0)) = Append(window, 0)
         /\ Len(Append(window, 0)) = Len(window) + 1
<1> DEFINE w == Append(window, 0)
           n == Len(window)
<1>1. /\ w \in Seq(Nat) /\ Len(w) = n + 1 /\ n \in Nat
      /\ \A i \in 1 .. n : w[i] = window[i] /\ window[i] \in Nat
      /\ w[n + 1] = 0
  BY AppendProperties, LenProperties, ElementOfSeq
<1>2. 0 < Window
  BY ConstantsAssumption
<1> HIDE DEF w
<1>3. Sorted(w)
  <2> SUFFICES ASSUME NEW i \in 1 .. Len(w), NEW j \in 1 .. Len(w), i <= j
               PROVE  w[i] >= w[j]
    BY DEF Sorted
  <2>1. CASE j = n + 1
    BY <1>1, <2>1
  <2>2. CASE j # n + 1
    <3>1. i \in 1 .. n /\ j \in 1 .. n
      BY <1>1, <2>2
    <3> QED BY <1>1, <3>1 DEF Sorted
  <2> QED BY <2>1, <2>2
<1>4. \A i \in 1 .. Len(w) : w[i] < Window
  <2> TAKE i \in 1 .. Len(w)
  <2> QED BY <1>1, <1>2
<1> QED BY <1>1, <1>3, <1>4, NothingExpired DEF w

\* Time passes.  Of a window and the history that agree on the attempts of the
\* last Window, what time makes of both agrees too.
Grown(window) == [i \in DOMAIN window |-> Older(window[i])]

LEMMA OlderIs ==
  ASSUME NEW age \in Ages
  PROVE  /\ Older(age) \in Ages /\ Older(age) >= age
         /\ age < Window => Older(age) = age + 1
         /\ \A a \in Ages : a <= age => Older(a) <= Older(age)
BY ConstantsAssumption DEF Ages, Older

LEMMA GrownIs ==
  ASSUME NEW window \in Seq(Ages), Sorted(window)
  PROVE  /\ Grown(window) \in Seq(Ages) /\ Len(Grown(window)) = Len(window)
         /\ \A i \in 1 .. Len(window) : Grown(window)[i] = Older(window[i])
         /\ Sorted(Grown(window))
<1> DEFINE n == Len(window)
           w == Grown(window)
<1>1. n \in Nat /\ DOMAIN window = 1 .. n /\ \A i \in 1 .. n : window[i] \in Ages
  BY LenProperties, ElementOfSeq
<1>2. w = [i \in 1 .. n |-> Older(window[i])]
  BY <1>1 DEF Grown
<1>3. \A i \in 1 .. n : w[i] = Older(window[i]) /\ w[i] \in Ages
  BY <1>1, <1>2, OlderIs
<1> HIDE DEF w, n
<1>4. w \in [1 .. n -> Ages]
  BY <1>2, <1>3
<1>5. w \in Seq(Ages) /\ Len(w) = n
  BY <1>1, <1>4
<1>6. Sorted(w)
  <2> SUFFICES ASSUME NEW i \in 1 .. n, NEW j \in 1 .. n, i <= j
               PROVE  w[i] >= w[j]
    BY <1>5 DEF Sorted
  <2>1. window[i] >= window[j]
    BY DEF Sorted, n
  <2>2. Older(window[j]) <= Older(window[i])
    BY <1>1, <2>1, OlderIs DEF Ages
  <2>3. w[i] \in Ages /\ w[j] \in Ages
    BY <1>3
  <2> QED BY <1>3, <2>2, <2>3 DEF Ages
<1> QED BY <1>3, <1>5, <1>6 DEF w, n

\* In a sorted sequence, those that a tick takes out of the window come first.
LEMMA RecentIs ==
  ASSUME NEW ages \in Seq(Nat), Sorted(ages)
  PROVE  \E k \in 0 .. Len(ages) :
           /\ \A i \in 1 .. k : ages[i] + 1 >= Window
           /\ \A i \in k + 1 .. Len(ages) : ages[i] + 1 < Window
           /\ Recent(ages) = [i \in 1 .. Len(ages) - k |-> ages[i + k] + 1]
<1> DEFINE Ends == {k \in 0 .. Len(ages) : k = Len(ages) \/ ages[k + 1] + 1 < Window}
<1>1. /\ Len(ages) \in Nat /\ DOMAIN ages = 1 .. Len(ages)
      /\ \A i \in 1 .. Len(ages) : ages[i] \in Nat
  BY LenProperties, ElementOfSeq
<1>2. Window \in Nat
  BY ConstantsAssumption
<1>3. PICK k \in Ends : \A m \in Ends : k <= m
  <2>1. Ends \in SUBSET Nat /\ Len(ages) \in Ends
    BY <1>1
  <2> HIDE DEF Ends
  <2> QED BY <2>1, Least
<1>31. Len(ages) \in Nat
  BY <1>1
<1>4. k \in Nat /\ k <= Len(ages) /\ k \in 0 .. Len(ages)
  <2>1. k \in 0 .. Len(ages)
    BY <1>3
  <2> HIDE DEF Ends
  <2> QED BY <1>31, <2>1
<1>5. ASSUME NEW i \in 1 .. k PROVE ages[i] + 1 >= Window
  <2>1. i - 1 \in 0 .. Len(ages) /\ i \in 1 .. Len(ages) /\ ~(k <= i - 1)
    <3> HIDE DEF Ends
    <3> QED BY <1>1, <1>4
  <2>2. i - 1 \notin Ends
    <3> HIDE DEF Ends
    <3> QED BY <1>3, <2>1
  <2>3. ~(ages[(i - 1) + 1] + 1 < Window)
    BY <2>1, <2>2
  <2>4. (i - 1) + 1 = i
    OBVIOUS
  <2>5. ages[i] \in Nat /\ ~(ages[i] + 1 < Window)
    BY <1>1, <2>1, <2>3, <2>4
  <2> HIDE DEF Ends
  <2> QED BY <1>2, <2>5
<1>6. k = Len(ages) \/ ages[k + 1] + 1 < Window
  BY <1>3
<1> HIDE DEF Ends
<1>61. ASSUME NEW i \in k + 1 .. Len(ages) PROVE ages[i] + 1 < Window
  <2>1. k # Len(ages) /\ k + 1 \in 1 .. Len(ages) /\ i \in 1 .. Len(ages) /\ k + 1 <= i
    BY <1>31, <1>4
  <2>2. ages[k + 1] + 1 < Window
    BY <1>6, <2>1
  <2>3. ages[k + 1] >= ages[i] /\ ages[k + 1] \in Nat /\ ages[i] \in Nat
    BY <1>1, <2>1 DEF Sorted
  <2> QED BY <1>2, <2>2, <2>3
<1> DEFINE Gone == {i \in DOMAIN ages : ages[i] + 1 >= Window}
<1>7. Gone = 1 .. k
  <2>1. ASSUME NEW i \in Gone PROVE i \in 1 .. k
    <3>1. i \in 1 .. Len(ages) /\ ages[i] + 1 >= Window
      BY <1>1
    <3>2. ages[i] \in Nat
      BY <1>1, <3>1
    <3>3. ~(ages[i] + 1 < Window)
      BY <1>2, <3>1, <3>2
    <3>4. i \notin k + 1 .. Len(ages)
      BY <1>61, <3>3
    <3> HIDE DEF Gone
    <3> QED BY <1>1, <1>4, <3>1, <3>4
  <2>2. ASSUME NEW i \in 1 .. k PROVE i \in Gone
    <3>1. i \in 1 .. Len(ages)
      BY <1>1, <1>4
    <3> QED BY <1>1, <1>5, <3>1
  <2> HIDE DEF Gone
  <2> QED BY <2>1, <2>2
<1>8. Cardinality(Gone) = k
  <2>1. Cardinality(1 .. k) = IF 1 > k THEN 0 ELSE k - 1 + 1
    BY <1>4, FS_Interval
  <2> HIDE DEF Gone
  <2> QED BY <1>4, <1>7, <2>1
<1>9. Recent(ages) = [i \in 1 .. Len(ages) - k |-> ages[i + k] + 1]
  BY <1>8 DEF Recent
<1> HIDE DEF Gone
<1> QED BY <1>4, <1>5, <1>61, <1>9

LEMMA TickKeeps ==
  ASSUME NEW window \in Seq(Ages), Sorted(window)
  PROVE  expire_window(Grown(window)) = Recent(expire_window(window))
<1> DEFINE n == Expired(window)
           a == expire_window(window)
           w == Grown(window)
           e == expire_window(w)
<1>1. window \in Seq(Nat) /\ Ages \in SUBSET Nat
  <2>1. Ages \in SUBSET Nat
    BY ConstantsAssumption DEF Ages
  <2> HIDE DEF n, a, w, e
  <2> QED BY <2>1, SeqMonotonic
<1>2. Pops(window, n)
  BY <1>1, PopsExpired
<1>3. n \in Nat /\ Len(window) \in Nat /\ n <= Len(window)
  BY <1>2, LenProperties DEF Pops
<1>4. /\ a \in Seq(Ages) /\ Len(a) = Len(window) - n
      /\ \A i \in 1 .. Len(window) - n : a[i] = window[n + i]
  BY <1>1, <1>2, ExpireIs
<1>5. Sorted(a) /\ \A i \in 1 .. Len(a) : a[i] < Window
  BY <1>1, ExpireKeeps
<1>6. a \in Seq(Nat)
  BY <1>1, <1>4, SeqMonotonic
<1>7. /\ w \in Seq(Ages) /\ Len(w) = Len(window)
      /\ \A i \in 1 .. Len(window) : w[i] = Older(window[i])
  BY GrownIs
<1>8. \A i \in 1 .. Len(window) : window[i] \in Ages
  BY ElementOfSeq
<1> HIDE DEF n, a, w, e
<1>9. PICK k \in 0 .. Len(a) :
        /\ \A i \in 1 .. k : a[i] + 1 >= Window
        /\ \A i \in k + 1 .. Len(a) : a[i] + 1 < Window
        /\ Recent(a) = [i \in 1 .. Len(a) - k |-> a[i + k] + 1]
  BY <1>5, <1>6, RecentIs
<1>10. k \in Nat /\ k <= Len(window) - n /\ n + k \in 0 .. Len(window)
  BY <1>3, <1>4, <1>9
<1>11. ASSUME NEW i \in 1 .. Len(window) - n
       PROVE  /\ n + i \in 1 .. Len(window) /\ w[n + i] = a[i] + 1
              /\ a[i] \in Nat
  <2>1. n + i \in 1 .. Len(window) /\ i \in 1 .. Len(a)
    BY <1>3, <1>4
  <2>2. a[i] = window[n + i] /\ a[i] < Window
    BY <1>4, <1>5, <2>1
  <2>3. w[n + i] = a[i] + 1
    BY <1>7, <1>8, <2>1, <2>2, OlderIs
  <2> QED BY <1>1, <1>8, <2>1, <2>2, <2>3
<1>12. Pops(w, n + k)
  <2>1. ASSUME NEW i \in 1 .. n + k PROVE w[i] >= Window
    <3>1. CASE i \in 1 .. n
      <4>1. i \in 1 .. Len(window) /\ window[i] >= Window
        BY <1>2, <1>3, <3>1 DEF Pops
      <4>2. Older(window[i]) >= window[i] /\ Older(window[i]) \in Ages
        BY <1>8, <4>1, OlderIs
      <4>3. window[i] \in Nat /\ Older(window[i]) \in Nat /\ Window \in Nat
        BY <1>1, <1>8, <4>1, <4>2, ConstantsAssumption
      <4>4. w[i] = Older(window[i])
        BY <1>7, <4>1
      <4> QED BY <4>1, <4>2, <4>3, <4>4
    <3>2. CASE i \notin 1 .. n
      <4>1. i - n \in 1 .. k /\ i - n \in 1 .. Len(window) - n /\ n + (i - n) = i
        BY <1>3, <1>10, <3>2
      <4> QED BY <1>9, <1>11, <4>1
    <3> QED BY <3>1, <3>2
  <2>2. ASSUME n + k # Len(window) PROVE w[(n + k) + 1] < Window
    <3>1. k + 1 \in 1 .. Len(window) - n /\ n + (k + 1) = (n + k) + 1
      BY <1>3, <1>10, <2>2
    <3>11. Len(a) \in Nat /\ k + 1 \in k + 1 .. Len(a)
      BY <1>3, <1>4, <1>10, <3>1
    <3>2. w[n + (k + 1)] = a[k + 1] + 1 /\ a[k + 1] + 1 < Window
      BY <1>9, <1>11, <3>1, <3>11
    <3> QED BY <3>1, <3>2
  <2> QED BY <1>7, <1>10, <2>1, <2>2 DEF Pops
<1>13. /\ e \in Seq(Ages) /\ Len(e) = Len(window) - (n + k)
       /\ \A i \in 1 .. Len(window) - (n + k) : e[i] = w[(n + k) + i]
  <2>1. /\ expire_window(w) \in Seq(Ages)
        /\ Len(expire_window(w)) = Len(w) - (n + k)
        /\ \A i \in 1 .. Len(w) - (n + k) : expire_window(w)[i] = w[(n + k) + i]
    BY <1>1, <1>7, <1>12, ExpireIs
  <2> QED BY <1>7, <2>1 DEF e
<1>14. ASSUME NEW i \in 1 .. Len(a) - k PROVE e[i] = a[i + k] + 1
  <2>1. /\ i + k \in 1 .. Len(window) - n /\ n + (i + k) = (n + k) + i
        /\ i \in 1 .. Len(window) - (n + k)
    BY <1>3, <1>4, <1>10
  <2>2. w[n + (i + k)] = a[i + k] + 1 /\ e[i] = w[(n + k) + i]
    BY <1>11, <1>13, <2>1
  <2> QED BY <2>1, <2>2
<1>15. e = [i \in 1 .. Len(e) |-> e[i]] /\ Len(e) = Len(a) - k
  BY <1>3, <1>4, <1>10, <1>13, LenProperties
<1>16. e = Recent(a)
  BY <1>9, <1>14, <1>15
<1> QED BY <1>16 DEF e, w, a
(* The state.                                                              *)

\* What the prover need not look into: an entry, and what the actions make of it.
LEMMA EntryFacts ==
  /\ \A entry \in Entry : /\ entry.count \in 1 .. MaxCount /\ entry.age \in Ages
                          /\ entry.count \in Nat /\ entry.age \in Nat
  /\ Nobody \notin Entry
  /\ MaxCount \in Nat \ {0} /\ Ttl \in Nat /\ 0 \in Ages
<1>1. Ttl \in Nat /\ MaxCount \in Nat \ {0}
  BY ConstantsAssumption
<1>2. \A n \in Ages : n \in Nat
  BY <1>1 DEF Ages
<1>3. 0 \in Ages
  BY <1>1 DEF Ages
<1>4. Nobody \notin Entry
  BY ConstantsAssumption DEF Entry, Ages
<1>5. \A entry \in Entry : entry.count \in 1 .. MaxCount /\ entry.age \in Ages
  BY DEF Entry
<1> QED BY <1>1, <1>2, <1>3, <1>4, <1>5

\* A submission under way, and what a step does to it.
LEMMA SubmissionFacts ==
  /\ Nobody \notin Submission
  /\ \A s \in Submission :
       /\ s # Nobody /\ s.step \in Steps /\ s.team \in Teams /\ s.challenge \in Challenges
       /\ s.lag \in 0 .. 1 /\ s.lag \in Ages
       /\ \A step \in Steps :
            LET moved == [[s EXCEPT !.step = step] EXCEPT !.lag = 0]
            IN  /\ moved \in Submission /\ moved.step = step
                /\ moved.team = s.team /\ moved.challenge = s.challenge
       /\ LET late == [s EXCEPT !.lag = 1]
          IN  /\ late \in Submission /\ late.step = s.step
              /\ late.team = s.team /\ late.challenge = s.challenge
  /\ \A t \in Teams, c \in Challenges :
       [step |-> "back_off", team |-> t, challenge |-> c, lag |-> 0] \in Submission
<1>1. Nobody \notin Submission
  BY ConstantsAssumption DEF Submission
<1>2. ASSUME NEW s \in Submission
      PROVE  /\ s.step \in Steps /\ s.team \in Teams /\ s.challenge \in Challenges
             /\ s.lag \in 0 .. 1 /\ s.lag \in Ages
             /\ \A step \in Steps :
                  LET moved == [[s EXCEPT !.step = step] EXCEPT !.lag = 0]
                  IN  /\ moved \in Submission /\ moved.step = step
                      /\ moved.team = s.team /\ moved.challenge = s.challenge
             /\ LET late == [s EXCEPT !.lag = 1]
                IN  /\ late \in Submission /\ late.step = s.step
                    /\ late.team = s.team /\ late.challenge = s.challenge
  <2>1. s.step \in Steps /\ s.team \in Teams /\ s.challenge \in Challenges /\ s.lag \in 0 .. 1
    BY DEF Submission
  <2>2. s.lag \in Ages
    BY <2>1, ConstantsAssumption DEF Ages
  <2>3. 0 \in 0 .. 1 /\ 1 \in 0 .. 1
    OBVIOUS
  <2>4. ASSUME NEW step \in Steps
        PROVE  LET moved == [[s EXCEPT !.step = step] EXCEPT !.lag = 0]
               IN  /\ moved \in Submission /\ moved.step = step
                   /\ moved.team = s.team /\ moved.challenge = s.challenge
    BY <2>3 DEF Submission
  <2>5. LET late == [s EXCEPT !.lag = 1]
        IN  /\ late \in Submission /\ late.step = s.step
            /\ late.team = s.team /\ late.challenge = s.challenge
    BY <2>3 DEF Submission
  <2> QED BY <2>1, <2>2, <2>4, <2>5
<1>3. \A t \in Teams, c \in Challenges :
        [step |-> "back_off", team |-> t, challenge |-> c, lag |-> 0] \in Submission
  BY DEF Submission, Steps
<1> QED BY <1>1, <1>2, <1>3

\* A wrong attempt counts one more, up to the bound.
LEMMA AfterMissIs ==
  ASSUME NEW entry \in Entry \union {Nobody}, NEW lag \in Ages
  PROVE  /\ AfterMiss(entry, lag) \in Entry /\ AfterMiss(entry, lag).age = lag
         /\ entry = Nobody => AfterMiss(entry, lag).count = 1
         /\ entry # Nobody => AfterMiss(entry, lag).count =
              IF entry.count < MaxCount THEN entry.count + 1 ELSE MaxCount
<1> DEFINE n == IF entry = Nobody THEN 1
                ELSE IF entry.count < MaxCount THEN entry.count + 1 ELSE MaxCount
<1>1. n \in 1 .. MaxCount
  BY EntryFacts
<1>2. AfterMiss(entry, lag) = [count |-> n, age |-> lag]
  BY DEF AfterMiss
<1>3. /\ AfterMiss(entry, lag) \in Entry /\ AfterMiss(entry, lag).age = lag
      /\ AfterMiss(entry, lag).count = n
  <2> HIDE DEF n
  <2> QED BY <1>1, <1>2 DEF Entry
<1> QED BY <1>3

LEMMA AgedIs ==
  ASSUME NEW entry \in Entry \union {Nobody}
  PROVE  /\ Aged(entry) \in Entry \union {Nobody}
         /\ entry = Nobody => Aged(entry) = Nobody
         /\ entry # Nobody =>
              /\ Aged(entry) \in Entry /\ Aged(entry).count = entry.count
              /\ Aged(entry).age = Older(entry.age)
<1>1. CASE entry = Nobody
  BY <1>1 DEF Aged
<1>2. CASE entry # Nobody
  <2>1. entry \in Entry /\ Older(entry.age) \in Ages
    BY <1>2, EntryFacts, OlderIs
  <2>2. Aged(entry) = [entry EXCEPT !.age = Older(@)]
    BY <1>2 DEF Aged
  <2>3. /\ Aged(entry) \in Entry /\ Aged(entry).count = entry.count
        /\ Aged(entry).age = Older(entry.age)
    BY <2>1, <2>2 DEF Entry
  <2> QED BY <1>2, <2>3
<1> QED BY <1>1, <1>2

\* A window, and the history of the attempts, agree on those within the Window.
WindowsAgree ==
  /\ team_windows \in [Teams -> Seq(Ages)]
  /\ attempts \in [Teams -> Seq(Nat)]
  /\ \A t \in Teams : /\ Sorted(team_windows[t])
                      /\ attempts[t] = expire_window(team_windows[t])

EntriesTyped ==
  /\ wrong_attempts \in [Teams -> [Challenges -> Entry \union {Nobody}]]
  /\ misses \in [Teams -> [Challenges -> Entry \union {Nobody}]]

WorkersTyped == pc \in [Workers -> Submission \union {Nobody}]

\* What gc threw away was past its time, and what it left counts no less.
Agrees(entry, miss) ==
  /\ entry # Nobody => /\ miss # Nobody /\ miss.age = entry.age
                       /\ entry.count >= miss.count
  /\ miss # Nobody /\ miss.age <= Ttl => entry # Nobody

EntriesAgree ==
  \A t \in Teams, c \in Challenges : Agrees(wrong_attempts[t][c], misses[t][c])

IInv == WindowsAgree /\ EntriesTyped /\ WorkersTyped /\ EntriesAgree

\* The window of one team, through each of the things that happen to it.
LEMMA WindowSteps ==
  ASSUME NEW window \in Seq(Ages), Sorted(window)
  PROVE  LET kept == expire_window(window)
         IN  /\ kept \in Seq(Ages) /\ kept \in Seq(Nat) /\ Sorted(kept)
             /\ expire_window(kept) = kept
             /\ Append(kept, 0) \in Seq(Ages) /\ Append(kept, 0) \in Seq(Nat)
             /\ Sorted(Append(kept, 0))
             /\ expire_window(Append(kept, 0)) = Append(kept, 0)
             /\ Len(Append(kept, 0)) = Len(kept) + 1
             /\ Grown(window) \in Seq(Ages) /\ Sorted(Grown(window))
             /\ expire_window(Grown(window)) = Recent(kept)
             /\ Recent(kept) \in Seq(Nat) /\ Len(Recent(kept)) <= Len(kept)
<1> DEFINE kept == expire_window(window)
<1>1. Ages \in SUBSET Nat /\ 0 \in Ages
  BY EntryFacts, ConstantsAssumption DEF Ages
<1>2. window \in Seq(Nat)
  <2> HIDE DEF kept
  <2> QED BY <1>1, SeqMonotonic
<1>3. kept \in Seq(Ages)
  BY <1>1, <1>2, PopsExpired, ExpireIs
<1>4. Sorted(kept) /\ \A i \in 1 .. Len(kept) : kept[i] < Window
  BY <1>2, ExpireKeeps
<1>5. expire_window(kept) = kept
  BY <1>2, ExpireTwice
<1>6. Grown(window) \in Seq(Ages) /\ Sorted(Grown(window))
  BY GrownIs
<1>7. expire_window(Grown(window)) = Recent(kept)
  BY TickKeeps
<1> HIDE DEF kept
<1>8. kept \in Seq(Nat)
  BY <1>1, <1>3, SeqMonotonic
<1>9. Append(kept, 0) \in Seq(Ages)
  BY <1>1, <1>3, AppendProperties
<1>10. /\ Append(kept, 0) \in Seq(Nat) /\ Sorted(Append(kept, 0))
       /\ expire_window(Append(kept, 0)) = Append(kept, 0)
       /\ Len(Append(kept, 0)) = Len(kept) + 1
  BY <1>4, <1>8, RecordKeeps
<1>11. Recent(kept) \in Seq(Nat) /\ Len(Recent(kept)) <= Len(kept)
  <2>1. PICK k \in 0 .. Len(kept) :
          Recent(kept) = [i \in 1 .. Len(kept) - k |-> kept[i + k] + 1]
    BY <1>4, <1>8, RecentIs
  <2>2. Len(kept) \in Nat /\ \A i \in 1 .. Len(kept) : kept[i] \in Nat
    BY <1>8, LenProperties, ElementOfSeq
  <2>3. Len(kept) - k \in Nat /\ Len(kept) - k <= Len(kept) /\ k \in Nat
    BY <2>2
  <2>4. \A i \in 1 .. Len(kept) - k : kept[i + k] + 1 \in Nat
    <3> TAKE i \in 1 .. Len(kept) - k
    <3>1. i + k \in 1 .. Len(kept)
      BY <2>2, <2>3
    <3> QED BY <2>2, <3>1
  <2>5. Recent(kept) \in [1 .. Len(kept) - k -> Nat]
    BY <2>1, <2>4
  <2>6. Recent(kept) \in Seq(Nat) /\ Len(Recent(kept)) = Len(kept) - k
    BY <2>3, <2>5
  <2> QED BY <2>3, <2>6
<1> QED BY <1>3, <1>4, <1>5, <1>6, <1>7, <1>8, <1>9, <1>10, <1>11 DEF kept
LEMMA NoWindow ==
  /\ << >> \in Seq(Ages) /\ << >> \in Seq(Nat) /\ Len(<< >>) = 0
  /\ Sorted(<< >>) /\ expire_window(<< >>) = << >>
<1>1. << >> \in Seq(Ages) /\ << >> \in Seq(Nat) /\ Len(<< >>) = 0
  BY EmptySeq
<1>2. \A i \in 1 .. Len(<< >>) : FALSE
  BY <1>1
<1>3. Sorted(<< >>)
  BY <1>2 DEF Sorted
<1> QED BY <1>1, <1>2, <1>3, NothingExpired

LEMMA InitInv == Init => IInv
<1> SUFFICES ASSUME Init PROVE IInv
  OBVIOUS
<1>1. WindowsAgree
  BY NoWindow DEF Init, NoAttempts, WindowsAgree
<1>2. EntriesTyped /\ EntriesAgree
  BY DEF Init, NoMisses, EntriesTyped, EntriesAgree, Agrees
<1>3. WorkersTyped
  BY DEF Init, AllIdle, WorkersTyped
<1> QED BY <1>1, <1>2, <1>3 DEF IInv

LEMMA RestartKeeps == ASSUME Restart PROVE IInv'
<1>1. WindowsAgree'
  BY NoWindow DEF Restart, NoAttempts, WindowsAgree
<1>2. EntriesTyped' /\ EntriesAgree'
  BY DEF Restart, NoMisses, EntriesTyped, EntriesAgree, Agrees
<1>3. WorkersTyped'
  BY DEF Restart, AllIdle, WorkersTyped
<1> QED BY <1>1, <1>2, <1>3 DEF IInv

\* Where a step leaves its worker, the others staying where they are.
LEMMA AnswerMoves ==
  ASSUME WorkersTyped, NEW w \in Workers, Answer(w)
  PROVE  WorkersTyped' /\ \A v \in Workers : pc'[v] = IF v = w THEN Nobody ELSE pc[v]
BY DEF WorkersTyped, Answer

LEMMA GotoMoves ==
  ASSUME WorkersTyped, NEW w \in Workers, pc[w] # Nobody, NEW step \in Steps, Goto(w, step)
  PROVE  /\ WorkersTyped'
         /\ pc'[w] \in Submission /\ pc'[w].step = step
         /\ pc'[w].team = pc[w].team /\ pc'[w].challenge = pc[w].challenge
         /\ \A v \in Workers \ {w} : pc'[v] = pc[v]
<1> DEFINE moved == [[pc[w] EXCEPT !.step = step] EXCEPT !.lag = 0]
<1>1. pc[w] \in Submission
  BY DEF WorkersTyped
<1>2. /\ moved \in Submission /\ moved.step = step
      /\ moved.team = pc[w].team /\ moved.challenge = pc[w].challenge
  BY <1>1, SubmissionFacts
<1>3. pc' = [pc EXCEPT ![w] = moved]
  BY DEF WorkersTyped, Goto
<1> HIDE DEF moved
<1> QED BY <1>2, <1>3 DEF WorkersTyped

LEMMA CheckMoves ==
  ASSUME WorkersTyped, NEW w \in Workers, NEW t \in Teams, NEW c \in Challenges,
         check_window(w, t, c)
  PROVE  /\ WorkersTyped'
         /\ IF IsFull(expire_window(team_windows[t])) THEN pc' = pc
            ELSE /\ pc'[w] \in Submission /\ pc'[w].step = "back_off" /\ pc'[w].team = t
                 /\ \A v \in Workers \ {w} : pc'[v] = pc[v]
<1> DEFINE begun == [step |-> "back_off", team |-> t, challenge |-> c, lag |-> 0]
<1>1. begun \in Submission /\ begun.step = "back_off" /\ begun.team = t
  BY SubmissionFacts
<1>2. pc' = IF IsFull(expire_window(team_windows[t])) THEN pc
            ELSE [pc EXCEPT ![w] = begun]
  BY DEF check_window
<1> HIDE DEF begun
<1> QED BY <1>1, <1>2 DEF WorkersTyped

LEMMA TickMoves ==
  ASSUME WorkersTyped, Tick
  PROVE  /\ WorkersTyped'
         /\ \A v \in Workers :
              /\ pc'[v] = Nobody <=> pc[v] = Nobody
              /\ pc[v] # Nobody => /\ pc'[v] \in Submission /\ pc'[v].step = pc[v].step
                                   /\ pc'[v].team = pc[v].team
<1>1. ASSUME NEW v \in Workers
      PROVE  /\ pc'[v] \in Submission \union {Nobody}
             /\ pc'[v] = Nobody <=> pc[v] = Nobody
             /\ pc[v] # Nobody => /\ pc'[v] \in Submission /\ pc'[v].step = pc[v].step
                                  /\ pc'[v].team = pc[v].team
  <2>1. pc'[v] = IF InCall(v) THEN [pc[v] EXCEPT !.lag = 1] ELSE pc[v]
    BY DEF Tick
  <2>2. pc[v] \in Submission \union {Nobody}
    BY DEF WorkersTyped
  <2>3. CASE InCall(v)
    <3>1. pc[v] \in Submission /\ pc[v] # Nobody
      BY <2>2, <2>3 DEF InCall, At
    <3> QED BY <2>1, <2>3, <3>1, SubmissionFacts
  <2>4. CASE ~InCall(v)
    BY <2>1, <2>2, <2>4
  <2> QED BY <2>3, <2>4
<1>2. pc' = [v \in Workers |-> pc'[v]]
  BY DEF Tick
<1> QED BY <1>1, <1>2 DEF WorkersTyped

LEMMA CheckKeeps ==
  ASSUME IInv, NEW w \in Workers, NEW t \in Teams, NEW c \in Challenges,
         check_window(w, t, c)
  PROVE  IInv'
<1>1. WindowsAgree'
  <2>1. \A u \in Teams : team_windows'[u] = IF u = t THEN expire_window(team_windows[u])
                                            ELSE team_windows[u]
    BY DEF IInv, WindowsAgree, check_window
  <2>2. \A u \in Teams : team_windows[u] \in Seq(Ages) /\ Sorted(team_windows[u])
    BY DEF IInv, WindowsAgree
  <2>3. \A u \in Teams :
          /\ team_windows'[u] \in Seq(Ages) /\ Sorted(team_windows'[u])
          /\ expire_window(team_windows'[u]) = expire_window(team_windows[u])
    BY <2>1, <2>2, WindowSteps
  <2>4. team_windows' \in [Teams -> Seq(Ages)]
    <3>1. DOMAIN team_windows' = Teams
          /\ team_windows' = [u \in Teams |-> team_windows'[u]]
      BY DEF IInv, WindowsAgree, check_window
    <3> QED BY <2>3, <3>1
  <2>5. attempts' = attempts
    BY DEF check_window
  <2> QED BY <2>3, <2>4, <2>5 DEF IInv, WindowsAgree
<1>2. EntriesTyped' /\ EntriesAgree'
  BY DEF IInv, check_window, EntriesTyped, EntriesAgree
<1>3. WorkersTyped'
  BY CheckMoves DEF IInv
<1> QED BY <1>1, <1>2, <1>3 DEF IInv

LEMMA BackOffKeeps ==
  ASSUME IInv, NEW w \in Workers, check_back_off(w)
  PROVE  IInv'
<1>1. WindowsAgree' /\ EntriesTyped' /\ EntriesAgree'
  BY DEF IInv, check_back_off, WindowsAgree, EntriesTyped, EntriesAgree
<1>2. pc[w] # Nobody /\ (Answer(w) \/ Goto(w, "flag")) /\ "flag" \in Steps
  BY DEF check_back_off, At, Steps
<1>3. WorkersTyped'
  BY <1>2, AnswerMoves, GotoMoves DEF IInv
<1> QED BY <1>1, <1>3 DEF IInv

LEMMA RefuseKeeps ==
  ASSUME IInv, NEW w \in Workers, Refuse(w)
  PROVE  IInv'
<1>1. WindowsAgree' /\ EntriesTyped' /\ EntriesAgree'
  BY DEF IInv, Refuse, WindowsAgree, EntriesTyped, EntriesAgree
<1>2. WorkersTyped'
  BY AnswerMoves DEF IInv, Refuse
<1> QED BY <1>1, <1>2 DEF IInv

\* What is recorded of a wrong attempt, or of a right one, in either count.
LEMMA CountsAgree ==
  ASSUME NEW entry \in Entry \union {Nobody}, NEW miss \in Entry \union {Nobody},
         NEW lag \in Ages,
         Agrees(entry, miss),
         NEW since \in Entry \union {Nobody},
         since = IF miss # Nobody /\ miss.age > Ttl THEN Nobody ELSE miss
  PROVE  Agrees(AfterMiss(entry, lag), AfterMiss(since, lag))
<1>1. /\ AfterMiss(entry, lag) \in Entry /\ AfterMiss(since, lag) \in Entry
      /\ AfterMiss(entry, lag).age = lag /\ AfterMiss(since, lag).age = lag
      /\ AfterMiss(entry, lag).count \in 1 .. MaxCount
  BY AfterMissIs, EntryFacts
<1>2. AfterMiss(entry, lag).count >= AfterMiss(since, lag).count
  <2>1. CASE since = Nobody
    <3>1. AfterMiss(since, lag).count = 1
      BY <2>1, AfterMissIs
    <3> QED BY <1>1, <3>1, EntryFacts
  <2>2. CASE since # Nobody
    <3>1. since = miss /\ miss \in Entry /\ ~(miss.age > Ttl)
      BY <2>2
    <3>2. miss.age <= Ttl
      BY <3>1, EntryFacts
    <3>3. entry \in Entry /\ entry # Nobody /\ entry.count >= miss.count
      BY <2>2, <3>1, <3>2 DEF Agrees
    <3>4. /\ AfterMiss(since, lag).count =
               IF miss.count < MaxCount THEN miss.count + 1 ELSE MaxCount
          /\ AfterMiss(entry, lag).count =
               IF entry.count < MaxCount THEN entry.count + 1 ELSE MaxCount
      BY <2>2, <3>1, <3>3, AfterMissIs
    <3>5. /\ miss.count \in Nat /\ entry.count \in Nat /\ MaxCount \in Nat
          /\ entry.count \in 1 .. MaxCount
      BY <3>1, <3>3, EntryFacts
    <3> QED BY <3>3, <3>4, <3>5
  <2> QED BY <2>1, <2>2
<1>3. AfterMiss(entry, lag) # Nobody /\ AfterMiss(since, lag) # Nobody
  BY <1>1, EntryFacts
<1> QED BY <1>1, <1>2, <1>3 DEF Agrees

LEMMA WindowStepKeeps ==
  ASSUME IInv, NEW w \in Workers, record_window(w)
  PROVE  IInv'
<1> DEFINE t == pc[w].team
<1>1. t \in Teams /\ pc[w] # Nobody
  BY SubmissionFacts DEF IInv, WorkersTyped, record_window, At
<1>2. /\ team_windows' = [team_windows EXCEPT ![t] = Append(expire_window(@), 0)]
      /\ attempts' = [attempts EXCEPT ![t] = Append(@, 0)]
      /\ Goto(w, "count") /\ "count" \in Steps
  BY DEF record_window, Steps
<1> HIDE DEF t
<1>3. WindowsAgree'
  <2>1. \A u \in Teams :
          /\ team_windows'[u] = IF u = t THEN Append(expire_window(team_windows[u]), 0)
                                ELSE team_windows[u]
          /\ attempts'[u] = IF u = t THEN Append(attempts[u], 0) ELSE attempts[u]
    BY <1>1, <1>2 DEF IInv, WindowsAgree
  <2>2. \A u \in Teams : /\ team_windows[u] \in Seq(Ages) /\ Sorted(team_windows[u])
                         /\ attempts[u] = expire_window(team_windows[u])
    BY DEF IInv, WindowsAgree
  <2>3. ASSUME NEW u \in Teams
        PROVE  /\ team_windows'[u] \in Seq(Ages) /\ Sorted(team_windows'[u])
               /\ attempts'[u] = expire_window(team_windows'[u])
               /\ attempts'[u] \in Seq(Nat)
    <3>1. CASE u = t
      <4> DEFINE kept == expire_window(team_windows[u])
      <4>1. /\ team_windows'[u] = Append(kept, 0) /\ attempts'[u] = Append(attempts[u], 0)
            /\ attempts[u] = kept
        BY <2>1, <2>2, <3>1
      <4>2. /\ Append(kept, 0) \in Seq(Ages) /\ Append(kept, 0) \in Seq(Nat)
            /\ Sorted(Append(kept, 0))
            /\ expire_window(Append(kept, 0)) = Append(kept, 0)
        BY <2>2, WindowSteps
      <4> HIDE DEF kept
      <4> QED BY <4>1, <4>2
    <3>2. CASE u # t
      BY <2>1, <2>2, <3>2, WindowSteps
    <3> QED BY <3>1, <3>2
  <2>4. /\ team_windows' = [u \in Teams |-> team_windows'[u]]
        /\ attempts' = [u \in Teams |-> attempts'[u]]
    BY <1>2 DEF IInv, WindowsAgree
  <2>5. team_windows' \in [Teams -> Seq(Ages)] /\ attempts' \in [Teams -> Seq(Nat)]
    BY <2>3, <2>4
  <2> QED BY <2>3, <2>5 DEF WindowsAgree
<1>4. EntriesTyped' /\ EntriesAgree'
  BY DEF IInv, record_window, EntriesTyped, EntriesAgree
<1>5. WorkersTyped'
  BY <1>1, <1>2, GotoMoves DEF IInv
<1> QED BY <1>3, <1>4, <1>5 DEF IInv

LEMMA AnswerStepKeeps ==
  ASSUME IInv, NEW w \in Workers, NEW correct \in BOOLEAN, record_answer(w, correct)
  PROVE  IInv'
<1> DEFINE t == pc[w].team
           c == pc[w].challenge
           lag == pc[w].lag
           Count(entry) == IF correct THEN Nobody ELSE AfterMiss(entry, lag)
           Since(entry) == IF entry # Nobody /\ entry.age > Ttl THEN Nobody ELSE entry
<1>1. t \in Teams /\ c \in Challenges /\ lag \in Ages /\ pc[w] # Nobody
  BY SubmissionFacts DEF IInv, WorkersTyped, record_answer, At
<1>2. /\ wrong_attempts' = [wrong_attempts EXCEPT ![t][c] = Count(@)]
      /\ misses' = [misses EXCEPT ![t][c] = Count(Since(@))]
      /\ Answer(w)
  BY DEF record_answer
<1> HIDE DEF t, c, lag
<1>3. WindowsAgree'
  BY DEF IInv, record_answer, WindowsAgree
<1>4. ASSUME NEW e \in Entry \union {Nobody}
      PROVE  Count(e) \in Entry \union {Nobody} /\ Since(e) \in Entry \union {Nobody}
  BY <1>1, AfterMissIs
<1>5. ASSUME NEW u \in Teams, NEW d \in Challenges
      PROVE  /\ wrong_attempts[u][d] \in Entry \union {Nobody}
             /\ misses[u][d] \in Entry \union {Nobody}
             /\ Agrees(wrong_attempts[u][d], misses[u][d])
  BY DEF IInv, EntriesTyped, EntriesAgree
<1>6. EntriesTyped'
  <2>1. /\ Count(wrong_attempts[t][c]) \in Entry \union {Nobody}
        /\ Count(Since(misses[t][c])) \in Entry \union {Nobody}
    BY <1>1, <1>4, <1>5
  <2> HIDE DEF Count, Since
  <2> QED BY <1>1, <1>2, <2>1 DEF IInv, EntriesTyped
<1>7. EntriesAgree'
  <2>1. \A u \in Teams, d \in Challenges :
          /\ wrong_attempts'[u][d] = IF u = t /\ d = c THEN Count(wrong_attempts[u][d])
                                     ELSE wrong_attempts[u][d]
          /\ misses'[u][d] = IF u = t /\ d = c THEN Count(Since(misses[u][d]))
                             ELSE misses[u][d]
    <3> HIDE DEF Count, Since
    <3> QED BY <1>1, <1>2 DEF IInv, EntriesTyped
  <2>2. Agrees(Count(wrong_attempts[t][c]), Count(Since(misses[t][c])))
    <3>1. CASE correct
      BY <3>1 DEF Agrees
    <3>2. CASE ~correct
      <4>1. Since(misses[t][c]) \in Entry \union {Nobody}
        BY <1>1, <1>4, <1>5
      <4> QED BY <1>1, <1>5, <3>2, <4>1, CountsAgree
    <3> QED BY <3>1, <3>2
  <2>3. ASSUME NEW u \in Teams, NEW d \in Challenges
        PROVE  Agrees(wrong_attempts'[u][d], misses'[u][d])
    <3>1. CASE u = t /\ d = c
      <4> HIDE DEF Count, Since
      <4> QED BY <2>1, <2>2, <3>1
    <3>2. CASE ~(u = t /\ d = c)
      <4> HIDE DEF Count, Since
      <4> QED BY <1>5, <2>1, <3>2
    <3> QED BY <3>1, <3>2
  <2> HIDE DEF Count, Since
  <2> QED BY <2>3 DEF EntriesAgree, Agrees
<1>8. WorkersTyped'
  BY <1>2, AnswerMoves DEF IInv
<1> QED BY <1>3, <1>6, <1>7, <1>8 DEF IInv

LEMMA GcKeeps == ASSUME IInv, gc PROVE IInv'
<1>1. WindowsAgree'
  <2>1. team_windows' = [u \in Teams |-> expire_window(team_windows[u])]
        /\ attempts' = attempts
    BY DEF gc
  <2>2. \A u \in Teams : /\ team_windows[u] \in Seq(Ages) /\ Sorted(team_windows[u])
                         /\ attempts[u] = expire_window(team_windows[u])
    BY DEF IInv, WindowsAgree
  <2>3. ASSUME NEW u \in Teams
        PROVE  /\ team_windows'[u] \in Seq(Ages) /\ Sorted(team_windows'[u])
               /\ attempts'[u] = expire_window(team_windows'[u])
    BY <2>1, <2>2, WindowSteps
  <2>4. team_windows' \in [Teams -> Seq(Ages)]
    BY <2>1, <2>3
  <2> QED BY <2>1, <2>3, <2>4 DEF IInv, WindowsAgree
<1>2. ASSUME NEW u \in Teams, NEW d \in Challenges
      PROVE  /\ wrong_attempts[u][d] \in Entry \union {Nobody}
             /\ misses[u][d] \in Entry \union {Nobody}
             /\ Agrees(wrong_attempts[u][d], misses[u][d])
  BY DEF IInv, EntriesTyped, EntriesAgree
<1>3. /\ misses' = misses
      /\ \A u \in Teams, d \in Challenges :
           wrong_attempts'[u][d] = IF Outlives(wrong_attempts[u][d])
                                   THEN wrong_attempts[u][d] ELSE Nobody
  BY DEF gc
<1>4. EntriesTyped'
  BY <1>2, <1>3 DEF IInv, gc, EntriesTyped
<1>5. EntriesAgree'
  <2> SUFFICES ASSUME NEW u \in Teams, NEW d \in Challenges
               PROVE  Agrees(wrong_attempts'[u][d], misses'[u][d])
    BY DEF EntriesAgree, Agrees
  <2> QED BY <1>2, <1>3 DEF Agrees, Outlives
<1>6. WorkersTyped'
  BY DEF IInv, gc, WorkersTyped
<1> QED BY <1>1, <1>4, <1>5, <1>6 DEF IInv

LEMMA TickStepKeeps == ASSUME IInv, Tick PROVE IInv'
<1>1. WindowsAgree'
  <2>1. /\ team_windows' = [u \in Teams |-> Grown(team_windows[u])]
        /\ attempts' = [u \in Teams |-> Recent(attempts[u])]
    BY DEF Tick, Grown
  <2>2. \A u \in Teams : /\ team_windows[u] \in Seq(Ages) /\ Sorted(team_windows[u])
                         /\ attempts[u] = expire_window(team_windows[u])
    BY DEF IInv, WindowsAgree
  <2>3. ASSUME NEW u \in Teams
        PROVE  /\ team_windows'[u] \in Seq(Ages) /\ Sorted(team_windows'[u])
               /\ attempts'[u] = expire_window(team_windows'[u])
               /\ attempts'[u] \in Seq(Nat)
    BY <2>1, <2>2, WindowSteps
  <2>4. team_windows' \in [Teams -> Seq(Ages)] /\ attempts' \in [Teams -> Seq(Nat)]
    BY <2>1, <2>3
  <2> QED BY <2>3, <2>4 DEF WindowsAgree
<1>2. ASSUME NEW u \in Teams, NEW d \in Challenges
      PROVE  /\ wrong_attempts[u][d] \in Entry \union {Nobody}
             /\ misses[u][d] \in Entry \union {Nobody}
             /\ Agrees(wrong_attempts[u][d], misses[u][d])
  BY DEF IInv, EntriesTyped, EntriesAgree
<1>3. \A u \in Teams, d \in Challenges :
        /\ wrong_attempts'[u][d] = Aged(wrong_attempts[u][d])
        /\ misses'[u][d] = Aged(misses[u][d])
  BY DEF Tick
<1>4. EntriesTyped'
  <2>1. \A u \in Teams, d \in Challenges :
          /\ Aged(wrong_attempts[u][d]) \in Entry \union {Nobody}
          /\ Aged(misses[u][d]) \in Entry \union {Nobody}
    BY <1>2, AgedIs
  <2> QED BY <2>1 DEF Tick, EntriesTyped
<1>5. EntriesAgree'
  <2> SUFFICES ASSUME NEW u \in Teams, NEW d \in Challenges
               PROVE  Agrees(wrong_attempts'[u][d], misses'[u][d])
    BY DEF EntriesAgree, Agrees
  <2> DEFINE e == wrong_attempts[u][d]
             m == misses[u][d]
  <2>1. e \in Entry \union {Nobody} /\ m \in Entry \union {Nobody} /\ Agrees(e, m)
    BY <1>2
  <2>2. wrong_attempts'[u][d] = Aged(e) /\ misses'[u][d] = Aged(m)
    BY <1>3
  <2> HIDE DEF e, m
  <2>3. Agrees(Aged(e), Aged(m))
    <3>1. e = Nobody <=> Aged(e) = Nobody
      BY <2>1, AgedIs, EntryFacts
    <3>2. m = Nobody <=> Aged(m) = Nobody
      BY <2>1, AgedIs, EntryFacts
    <3>3. ASSUME e # Nobody PROVE Aged(m).age = Aged(e).age /\ Aged(e).count >= Aged(m).count
      <4>1. m # Nobody /\ m.age = e.age /\ e.count >= m.count
        BY <2>1, <3>3 DEF Agrees
      <4> QED BY <2>1, <3>3, <4>1, AgedIs
    <3>4. ASSUME m # Nobody, Aged(m).age <= Ttl PROVE e # Nobody
      <4>1. m \in Entry /\ m.age \in Ages /\ m.age \in Nat /\ Ttl \in Nat
        BY <2>1, <3>4, EntryFacts
      <4>2. Aged(m).age = Older(m.age) /\ Older(m.age) >= m.age /\ Older(m.age) \in Ages
        BY <2>1, <3>4, <4>1, AgedIs, OlderIs
      <4>3. Older(m.age) \in Nat
        BY <4>1, <4>2 DEF Ages
      <4>4. m.age <= Ttl
        BY <3>4, <4>1, <4>2, <4>3
      <4> QED BY <2>1, <3>4, <4>4 DEF Agrees
    <3>5. e # Nobody => m # Nobody
      BY <2>1 DEF Agrees
    <3> QED BY <3>1, <3>2, <3>3, <3>4, <3>5 DEF Agrees
  <2> QED BY <2>2, <2>3
<1>6. WorkersTyped'
  BY TickMoves DEF IInv
<1> QED BY <1>1, <1>4, <1>5, <1>6 DEF IInv

LEMMA NextKeeps == IInv /\ [Next]_vars => IInv'
<1> SUFFICES ASSUME IInv, [Next]_vars PROVE IInv'
  OBVIOUS
<1>1. ASSUME NEW w \in Workers, Submit(w) PROVE IInv'
  <2>1. ASSUME NEW t \in Teams, NEW c \in Challenges, check_window(w, t, c)
        PROVE  IInv'
    BY <2>1, CheckKeeps
  <2>2. CASE record_window(w)
    BY <2>2, WindowStepKeeps
  <2>3. CASE check_back_off(w)
    BY <2>3, BackOffKeeps
  <2>4. ASSUME NEW correct \in BOOLEAN, record_answer(w, correct) PROVE IInv'
    BY <2>4, AnswerStepKeeps
  <2>5. CASE Refuse(w)
    BY <2>5, RefuseKeeps
  <2> QED BY <1>1, <2>1, <2>2, <2>3, <2>4, <2>5 DEF Submit, EndCall
<1>2. CASE gc
  BY <1>2, GcKeeps
<1>3. CASE Tick
  BY <1>3, TickStepKeeps
<1>4. CASE Restart
  BY <1>4, RestartKeeps
<1>5. CASE UNCHANGED vars
  BY <1>5 DEF vars, IInv, WindowsAgree, EntriesTyped, EntriesAgree, WorkersTyped
<1> QED BY <1>1, <1>2, <1>3, <1>4, <1>5 DEF Next
LEMMA InvHolds == Spec => []IInv
<1> USE DEF Spec
<1> QED BY InitInv, NextKeeps, PTL

\* TypeOK for any number of workers, teams and challenges.
THEOREM TypeCorrect == Spec => []TypeOK
<1>1. IInv => TypeOK
  <2> SUFFICES ASSUME IInv PROVE TypeOK
    OBVIOUS
  <2>1. \A t \in Teams : \A i \in DOMAIN team_windows[t] : team_windows[t][i] \in Ages
    <3> SUFFICES ASSUME NEW t \in Teams, NEW i \in DOMAIN team_windows[t]
                 PROVE  team_windows[t][i] \in Ages
      OBVIOUS
    <3>1. team_windows[t] \in Seq(Ages)
      BY DEF IInv, WindowsAgree
    <3>2. i \in 1 .. Len(team_windows[t])
      BY <3>1, LenProperties
    <3> QED BY <3>1, <3>2, ElementOfSeq
  <2> QED BY <2>1 DEF IInv, EntriesTyped, WorkersTyped, TypeOK
<1> QED BY <1>1, InvHolds, PTL

-----------------------------------------------------------------------------
(* The limit.                                                              *)

LEMMA PendingFinite ==
  /\ \A t \in Teams : /\ IsFiniteSet(Pending(t)) /\ Cardinality(Pending(t)) \in Nat
                      /\ Cardinality(Pending(t)) <= Cardinality(Workers)
  /\ \A t \in Teams : /\ IsFiniteSet(Pending(t)') /\ Cardinality(Pending(t)') \in Nat
                      /\ Cardinality(Pending(t)') <= Cardinality(Workers)
  /\ Cardinality(Workers) \in Nat
<1>1. IsFiniteSet(Workers)
  BY ConstantsAssumption
<1>2. \A t \in Teams : Pending(t) \in SUBSET Workers /\ Pending(t)' \in SUBSET Workers
  BY DEF Pending
<1>3. \A S \in SUBSET Workers : /\ IsFiniteSet(S) /\ Cardinality(S) <= Cardinality(Workers)
                                /\ Cardinality(S) \in Nat
  BY <1>1, FS_Subset, FS_CardinalityType
<1> QED BY <1>1, <1>2, <1>3, FS_CardinalityType

LEMMA FewerPending ==
  ASSUME NEW t \in Teams, Pending(t)' \subseteq Pending(t)
  PROVE  Cardinality(Pending(t)') <= Cardinality(Pending(t))
BY PendingFinite, FS_Subset

\* The bound for one team.
Bounded(t) ==
  Len(attempts[t]) + Cardinality(Pending(t)) <= Limit - 1 + Cardinality(Workers)

\* Room is found but on an open place; and who finds it is a worker.
LEMMA CheckBounded ==
  ASSUME IInv, RateBounded, NEW w \in Workers, NEW u \in Teams,
         NEW c \in Challenges, check_window(w, u, c), NEW t \in Teams
  PROVE  Len(attempts[t])' + Cardinality(Pending(t)')
           <= Limit - 1 + Cardinality(Workers)
<1> DEFINE full == IsFull(expire_window(team_windows[u]))
<1>1. attempts' = attempts /\ Len(attempts[t]) \in Nat
  BY LenProperties DEF check_window, IInv, WindowsAgree
<1>2. Limit \in Nat \ {0}
  BY ConstantsAssumption
<1>3. CASE t = u /\ ~full
  <2>1. ~(Len(attempts[t]) >= Limit)
    BY <1>3 DEF IsFull, IInv, WindowsAgree
  <2>2. Len(attempts[t])' = Len(attempts[t]) /\ Len(attempts[t]) <= Limit - 1
    BY <1>1, <1>2, <2>1
  <2> QED BY <1>1, <1>2, <2>2, PendingFinite
<1>4. CASE ~(t = u /\ ~full)
  <2>1. IF full THEN pc' = pc
        ELSE pc'[w].team = u /\ \A v \in Workers \ {w} : pc'[v] = pc[v]
    BY CheckMoves DEF IInv
  <2>2. Pending(t)' \subseteq Pending(t)
    <3>1. CASE full
      BY <2>1, <3>1 DEF Pending, At
    <3>2. CASE ~full
      <4>1. t # u
        BY <1>4, <3>2
      <4> HIDE DEF full
      <4> QED BY <2>1, <3>2, <4>1 DEF Pending, At
    <3> QED BY <3>1, <3>2
  <2>3. Bounded(t)
    BY DEF RateBounded, Bounded
  <2> QED BY <1>1, <1>2, <2>2, <2>3, FewerPending, PendingFinite DEF Bounded
<1> QED BY <1>3, <1>4

\* Who records an attempt no longer is to record it.
LEMMA RecordBounded ==
  ASSUME IInv, RateBounded, NEW w \in Workers, record_window(w), NEW t \in Teams
  PROVE  Len(attempts[t])' + Cardinality(Pending(t)')
           <= Limit - 1 + Cardinality(Workers)
<1> DEFINE u == pc[w].team
<1>1. pc[w] # Nobody /\ pc[w].step = "flag" /\ pc[w] \in Submission
  BY DEF IInv, WorkersTyped, record_window, At
<1>2. attempts' = [attempts EXCEPT ![u] = Append(@, 0)]
  BY DEF record_window
<1>3. attempts \in [Teams -> Seq(Nat)] /\ u \in Teams
  BY <1>1, SubmissionFacts DEF IInv, WindowsAgree
<1>31. "count" \in Steps /\ WorkersTyped /\ Goto(w, "count")
  BY DEF Steps, IInv, record_window
<1>32. pc'[w].step = "count" /\ \A v \in Workers \ {w} : pc'[v] = pc[v]
  BY <1>1, <1>31, GotoMoves
<1>4. Pending(t)' = Pending(t) \ {w}
  BY <1>32 DEF Pending, At
<1>5. Limit \in Nat /\ Bounded(t)
  BY ConstantsAssumption DEF RateBounded, Bounded
<1>6. CASE t = u
  <2>1. w \in Pending(t)
    BY <1>1, <1>6 DEF Pending, At
  <2>2. Cardinality(Pending(t)') = Cardinality(Pending(t)) - 1
    BY <1>4, <2>1, PendingFinite, FS_RemoveElement
  <2>3. attempts'[t] = Append(attempts[t], 0) /\ attempts[t] \in Seq(Nat)
    BY <1>2, <1>3, <1>6
  <2>4. Len(attempts'[t]) = Len(attempts[t]) + 1 /\ Len(attempts[t]) \in Nat
    BY <2>3, AppendProperties, LenProperties
  <2> QED BY <1>5, <2>2, <2>4, PendingFinite DEF Bounded
<1>7. CASE t # u
  <2>1. attempts'[t] = attempts[t] /\ Len(attempts[t]) \in Nat
    BY <1>2, <1>3, <1>7, LenProperties
  <2>2. Cardinality(Pending(t)') <= Cardinality(Pending(t))
    BY <1>4, FewerPending
  <2> QED BY <1>5, <2>1, <2>2, PendingFinite DEF Bounded
<1> QED BY <1>6, <1>7

\* The other steps admit nobody to the window.
LEMMA AnswerPending ==
  ASSUME IInv, NEW w \in Workers, Answer(w), NEW t \in Teams
  PROVE  Pending(t)' \subseteq Pending(t)
BY AnswerMoves DEF IInv, Pending, At

LEMMA BackOffPending ==
  ASSUME IInv, NEW w \in Workers, check_back_off(w), NEW t \in Teams
  PROVE  Pending(t)' \subseteq Pending(t)
<1>1. CASE Answer(w)
  BY <1>1, AnswerPending
<1>2. CASE Goto(w, "flag")
  <2>1. pc[w] # Nobody /\ pc[w].step = "back_off" /\ "flag" \in Steps /\ WorkersTyped
    BY DEF IInv, check_back_off, At, Steps
  <2>2. pc'[w].team = pc[w].team /\ \A v \in Workers \ {w} : pc'[v] = pc[v]
    BY <1>2, <2>1, GotoMoves
  <2> QED BY <2>1, <2>2 DEF Pending, At
<1> QED BY <1>1, <1>2 DEF check_back_off

LEMMA TickPending ==
  ASSUME IInv, Tick, NEW t \in Teams
  PROVE  Pending(t)' \subseteq Pending(t)
BY TickMoves DEF IInv, Pending, At

LEMMA BoundKept == IInv /\ RateBounded /\ [Next]_vars => RateBounded'
<1> SUFFICES ASSUME IInv, RateBounded, [Next]_vars, NEW t \in Teams
             PROVE  Len(attempts[t])' + Cardinality(Pending(t)')
                      <= Limit - 1 + Cardinality(Workers)
  BY DEF RateBounded
<1>2. Bounded(t) /\ Limit \in Nat \ {0}
  BY ConstantsAssumption DEF RateBounded, Bounded
<1>3. Len(attempts[t]) \in Nat
  BY LenProperties DEF IInv, WindowsAgree
<1>4. ASSUME Len(attempts'[t]) \in Nat, Len(attempts'[t]) <= Len(attempts[t]),
             Pending(t)' \subseteq Pending(t)
      PROVE  Len(attempts[t])' + Cardinality(Pending(t)')
               <= Limit - 1 + Cardinality(Workers)
  BY <1>2, <1>3, <1>4, FewerPending, PendingFinite DEF Bounded
<1>5. ASSUME NEW w \in Workers, Submit(w)
      PROVE  Len(attempts[t])' + Cardinality(Pending(t)')
               <= Limit - 1 + Cardinality(Workers)
  <2>1. ASSUME NEW u \in Teams, NEW c \in Challenges, check_window(w, u, c)
        PROVE  Len(attempts[t])' + Cardinality(Pending(t)')
                 <= Limit - 1 + Cardinality(Workers)
    BY <2>1, CheckBounded
  <2>2. CASE record_window(w)
    BY <2>2, RecordBounded
  <2>3. CASE check_back_off(w)
    <3>1. attempts' = attempts
      BY <2>3 DEF check_back_off
    <3> QED BY <1>3, <1>4, <2>3, <3>1, BackOffPending
  <2>4. ASSUME NEW correct \in BOOLEAN, record_answer(w, correct)
        PROVE  Len(attempts[t])' + Cardinality(Pending(t)')
                 <= Limit - 1 + Cardinality(Workers)
    <3>1. attempts' = attempts /\ Answer(w)
      BY <2>4 DEF record_answer
    <3> QED BY <1>3, <1>4, <3>1, AnswerPending
  <2>5. CASE Refuse(w)
    <3>1. attempts' = attempts /\ Answer(w)
      BY <2>5 DEF Refuse
    <3> QED BY <1>3, <1>4, <3>1, AnswerPending
  <2> QED BY <1>5, <2>1, <2>2, <2>3, <2>4, <2>5 DEF Submit, EndCall
<1>6. CASE gc
  <2>1. Pending(t)' \subseteq Pending(t) /\ attempts' = attempts
    BY <1>6 DEF gc, Pending, At
  <2> QED BY <1>3, <1>4, <2>1
<1>7. CASE Tick
  <2>1. Pending(t)' \subseteq Pending(t) /\ attempts'[t] = Recent(attempts[t])
    BY <1>7, TickPending DEF Tick
  <2>2. /\ team_windows[t] \in Seq(Ages) /\ Sorted(team_windows[t])
        /\ attempts[t] = expire_window(team_windows[t])
    BY DEF IInv, WindowsAgree
  <2>3. Recent(attempts[t]) \in Seq(Nat) /\ Len(Recent(attempts[t])) <= Len(attempts[t])
    BY <2>2, WindowSteps
  <2> QED BY <1>4, <2>1, <2>3, LenProperties
<1>8. CASE Restart
  <2>1. Len(attempts'[t]) = 0
    BY <1>8, NoWindow DEF Restart, NoAttempts
  <2>2. Pending(t)' \subseteq Pending(t)
    BY <1>8 DEF Restart, AllIdle, Pending, At
  <2> QED BY <1>3, <1>4, <2>1, <2>2
<1>9. CASE UNCHANGED vars
  <2>1. Pending(t)' \subseteq Pending(t) /\ attempts' = attempts
    BY <1>9 DEF vars, Pending, At
  <2> QED BY <1>3, <1>4, <2>1
<1> QED BY <1>5, <1>6, <1>7, <1>8, <1>9 DEF Next

\* Within any Window a team has no more attempts than its limit, but for those
\* admitted together on its last free place, whatever the interleaving of
\* the steps of check_submission, of record_attempt and of gc.
THEOREM RateStaysBounded == Spec => []RateBounded
<1>1. Init => RateBounded
  <2> SUFFICES ASSUME Init, NEW t \in Teams
               PROVE  Len(attempts[t]) + Cardinality(Pending(t))
                        <= Limit - 1 + Cardinality(Workers)
    BY DEF RateBounded
  <2>1. Len(attempts[t]) = 0
    BY NoWindow DEF Init, NoAttempts
  <2>2. Limit \in Nat \ {0}
    BY ConstantsAssumption
  <2> QED BY <2>1, <2>2, PendingFinite
<1> QED BY <1>1, InvHolds, BoundKept, PTL DEF Spec

-----------------------------------------------------------------------------
(* The back-off.                                                           *)

\* More wrong attempts, no shorter a wait.
LEMMA PowerGrows ==
  ASSUME NEW a \in Nat, NEW b \in Nat, a <= b
  PROVE  2 ^ a \in Nat /\ 2 ^ b \in Nat /\ 2 ^ a <= 2 ^ b
<1>1. IsFiniteSet(1 .. a) /\ IsFiniteSet(1 .. b) /\ 1 .. a \subseteq 1 .. b
  BY FS_Interval
<1>2. Cardinality(1 .. a) = a /\ Cardinality(1 .. b) = b
  <2>1. /\ Cardinality(1 .. a) = IF 1 > a THEN 0 ELSE a - 1 + 1
        /\ Cardinality(1 .. b) = IF 1 > b THEN 0 ELSE b - 1 + 1
    BY FS_Interval
  <2> QED BY <2>1
<1>3. /\ IsFiniteSet(SUBSET (1 .. a)) /\ Cardinality(SUBSET (1 .. a)) = 2 ^ a
      /\ IsFiniteSet(SUBSET (1 .. b)) /\ Cardinality(SUBSET (1 .. b)) = 2 ^ b
  BY <1>1, <1>2, FS_SUBSET
<1>4. SUBSET (1 .. a) \in SUBSET SUBSET (1 .. b)
  BY <1>1
<1>5. Cardinality(SUBSET (1 .. a)) <= Cardinality(SUBSET (1 .. b))
  BY <1>3, <1>4, FS_Subset
<1> QED BY <1>3, <1>5, FS_CardinalityType

LEMMA WaitGrows ==
  ASSUME NEW m \in Nat, NEW n \in Nat, Threshold <= m, m <= n
  PROVE  /\ backoff_wait(m) \in Nat /\ backoff_wait(n) \in Nat
         /\ backoff_wait(m) <= backoff_wait(n)
<1>1. Threshold \in Nat /\ Base \in Nat
  BY ConstantsAssumption
<1>2. m - Threshold \in Nat /\ n - Threshold \in Nat /\ m - Threshold <= n - Threshold
  BY <1>1
<1> DEFINE p == 2 ^ (m - Threshold)
           q == 2 ^ (n - Threshold)
<1>3. p \in Nat /\ q \in Nat /\ p <= q
  BY <1>2, PowerGrows
<1>4. backoff_wait(m) = Base * p /\ backoff_wait(n) = Base * q
  BY DEF backoff_wait
<1> HIDE DEF p, q
<1>5. Base * p \in Nat /\ Base * q \in Nat /\ Base * p <= Base * q
  BY <1>1, <1>3
<1> QED BY <1>4, <1>5

\* What one who is admitted has waited out.
Waited(entry) ==
  entry # Nobody /\ entry.count >= Threshold =>
    entry.age >= backoff_wait(entry.count) \/ entry.age > Ttl

LEMMA AdmittedWaited ==
  ASSUME IInv, NEW t \in Teams, NEW c \in Challenges, NEW lag \in 0 .. 1,
         ~BacksOff(wrong_attempts[t][c], lag)
  PROVE  Waited(misses[t][c])
<1> DEFINE e == wrong_attempts[t][c]
           m == misses[t][c]
<1>1. e \in Entry \union {Nobody} /\ m \in Entry \union {Nobody} /\ Agrees(e, m)
  BY DEF IInv, EntriesTyped, EntriesAgree
<1>2. ~BacksOff(e, lag)
  OBVIOUS
<1> HIDE DEF e, m
<1>3. SUFFICES ASSUME m # Nobody, m.count >= Threshold, ~(m.age > Ttl)
               PROVE  m.age >= backoff_wait(m.count)
  BY DEF Waited, m
<1>4. m \in Entry /\ m.age \in Nat /\ m.count \in Nat /\ Ttl \in Nat /\ Threshold \in Nat
  BY <1>1, <1>3, EntryFacts, ConstantsAssumption
<1>5. e # Nobody /\ m.age = e.age /\ e.count >= m.count
  BY <1>1, <1>3, <1>4 DEF Agrees
<1>6. e.count \in Nat /\ Threshold <= m.count /\ m.count <= e.count /\ e.count >= Threshold
  BY <1>1, <1>3, <1>4, <1>5, EntryFacts
<1>7. ~((IF e.age < lag THEN 0 ELSE e.age - lag) < backoff_wait(e.count))
  BY <1>2, <1>5, <1>6 DEF BacksOff
<1>8. /\ backoff_wait(m.count) \in Nat /\ backoff_wait(e.count) \in Nat
      /\ backoff_wait(m.count) <= backoff_wait(e.count)
  BY <1>4, <1>6, WaitGrows
<1> QED BY <1>4, <1>5, <1>7, <1>8

\* Only the second half of check_submission admits, and it has looked.
LEMMA OnlyCheckAdmits ==
  ASSUME IInv, [Next]_vars, NEW w \in Workers, ~At(w, "flag"), At(w, "flag")'
  PROVE  /\ pc[w] \in Submission
         /\ ~BacksOff(wrong_attempts[pc[w].team][pc[w].challenge], pc[w].lag)
<1>1. WorkersTyped /\ "flag" \in Steps /\ "count" \in Steps
  BY DEF IInv, Steps
<1>2. pc'[w] # Nobody /\ pc'[w].step = "flag" /\ (pc[w] = Nobody \/ pc[w].step # "flag")
  BY DEF At
<1>3. pc'[w] # pc[w]
  BY <1>2
<1>4. CASE Restart
  BY <1>2, <1>4 DEF Restart, AllIdle
<1>5. CASE gc \/ UNCHANGED vars
  BY <1>3, <1>5 DEF gc, vars
<1>6. CASE Tick
  BY <1>1, <1>2, <1>6, TickMoves
<1>7. ASSUME NEW v \in Workers, Submit(v)
      PROVE  /\ pc[w] \in Submission
             /\ ~BacksOff(wrong_attempts[pc[w].team][pc[w].challenge], pc[w].lag)
  <2>1. ASSUME Answer(v) PROVE FALSE
    BY <1>1, <1>2, <1>3, <2>1, AnswerMoves
  <2>2. ASSUME NEW u \in Teams, NEW d \in Challenges, check_window(v, u, d) PROVE FALSE
    <3>1. pc' = pc \/ (pc'[v].step = "back_off" /\ \A x \in Workers \ {v} : pc'[x] = pc[x])
      BY <1>1, <2>2, CheckMoves
    <3> QED BY <1>2, <1>3, <3>1
  <2>3. ASSUME record_window(v) PROVE FALSE
    <3>1. pc[v] # Nobody /\ Goto(v, "count")
      BY <2>3 DEF record_window, At
    <3>2. pc'[v].step = "count" /\ \A x \in Workers \ {v} : pc'[x] = pc[x]
      BY <1>1, <3>1, GotoMoves
    <3> QED BY <1>2, <1>3, <3>2
  <2>4. CASE check_back_off(v)
    <3>1. /\ pc[v] # Nobody /\ Goto(v, "flag")
          /\ ~BacksOff(wrong_attempts[pc[v].team][pc[v].challenge], pc[v].lag)
      BY <2>1, <2>4 DEF check_back_off, At
    <3>2. \A x \in Workers \ {v} : pc'[x] = pc[x]
      BY <1>1, <3>1, GotoMoves
    <3>3. v = w
      BY <1>3, <3>2
    <3> QED BY <1>1, <3>1, <3>3 DEF WorkersTyped
  <2>5. ASSUME NEW correct \in BOOLEAN, record_answer(v, correct) PROVE FALSE
    BY <2>1, <2>5 DEF record_answer
  <2>6. CASE Refuse(v)
    BY <2>1, <2>6 DEF Refuse
  <2> QED BY <1>7, <2>2, <2>3, <2>4, <2>5, <2>6 DEF Submit, EndCall
<1> QED BY <1>4, <1>5, <1>6, <1>7 DEF Next

\* Whoever is admitted has waited out the back-off of the wrong attempts so far,
\* whatever gc has collected in between; only a wait of more than Ttl is cut short.
THEOREM WaitsAreServed == Spec => WaitsServed
<1>1. ASSUME IInv, [Next]_vars
      PROVE  \A w \in Workers :
               ~At(w, "flag") /\ At(w, "flag")' =>
                 LET entry == misses[pc[w].team][pc[w].challenge]
                 IN  entry # Nobody /\ entry.count >= Threshold =>
                       entry.age >= backoff_wait(entry.count) \/ entry.age > Ttl
  <2> SUFFICES ASSUME NEW w \in Workers, ~At(w, "flag"), At(w, "flag")'
               PROVE  Waited(misses[pc[w].team][pc[w].challenge])
    BY DEF Waited
  <2>1. /\ pc[w] \in Submission
        /\ ~BacksOff(wrong_attempts[pc[w].team][pc[w].challenge], pc[w].lag)
    BY <1>1, OnlyCheckAdmits
  <2>2. pc[w].team \in Teams /\ pc[w].challenge \in Challenges /\ pc[w].lag \in 0 .. 1
    BY <2>1, SubmissionFacts
  <2> QED BY <1>1, <2>1, <2>2, AdmittedWaited
<1> QED BY <1>1, InvHolds, PTL DEF Spec, WaitsServed

=============================================================================
