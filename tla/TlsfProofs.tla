------------------------------ MODULE TlsfProofs -------------------------------
(***************************************************************************)
(* The allocator of tlsf.c, proved for every memory, every set of pools    *)
(* and every set of owners and requests.  The invariant says that there    *)
(* are blocks S of sizes Z, of which F are free, such that the words of    *)
(* the heap are what the source writes for them: Rep, below, is that       *)
(* relation, with what may be amiss in the middle of a call as its         *)
(* parameters.  Every operator of Tlsf has a lemma that says what it does  *)
(* to S, Z and F, from the one that writes a word to the calls of the      *)
(* interface.                                                              *)
(***************************************************************************)
EXTENDS Tlsf, FiniteSetTheorems, NaturalsInduction, TLAPS

-----------------------------------------------------------------------------
(* Induction over numbers, and functions defined by recursion over them. *)

\* What holds of zero and of the number after each is true of all.
LEMMA AllNaturals ==
    ASSUME NEW T \in SUBSET Nat, 0 \in T, \A n \in T : n + 1 \in T
    PROVE  T = Nat
<1> DEFINE R == OpToRel(<, Nat)
           Bad == Nat \ T
<1>1. SUFFICES ASSUME Bad # {} PROVE FALSE
  OBVIOUS
<1>2. PICK k \in Bad : \A j \in Bad : ~(<<j, k>> \in R)
  <2>1. Bad \subseteq Nat
    OBVIOUS
  <2> HIDE DEF Bad, R
  <2> QED  BY <1>1, <2>1, NatLessThanWellFounded, WFMin DEF R
<1>3. k \in Nat /\ k # 0 /\ k \notin T
  BY <1>2
<1>4. k - 1 \in Nat /\ (k - 1) + 1 = k
  BY <1>3
<1>5. <<k - 1, k>> \in R
  BY <1>3, <1>4 DEF OpToRel
<1>6. k - 1 \in T
  BY <1>2, <1>4, <1>5
<1> QED  BY <1>3, <1>4, <1>6

\* The same for the numbers up to n.
LEMMA UpTo ==
    ASSUME NEW n \in Nat, NEW T, 0 \in T, \A k \in 1..n : k - 1 \in T => k \in T
    PROVE  \A k \in 0..n : k \in T
<1> DEFINE U == {k \in Nat : k <= n => k \in T}
<1>1. U \in SUBSET Nat /\ 0 \in U
  OBVIOUS
<1>2. ASSUME NEW k \in U PROVE k + 1 \in U
  <2>1. k \in Nat /\ k + 1 \in Nat /\ (k + 1) - 1 = k
    OBVIOUS
  <2>2. ASSUME k + 1 <= n PROVE k + 1 \in T
    <3>1. k + 1 \in 1..n /\ k \in T
      BY <2>1, <2>2
    <3> QED  BY <2>1, <3>1
  <2> QED  BY <2>1, <2>2
<1> HIDE DEF U
<1>3. U = Nat
  BY <1>1, <1>2, AllNaturals
<1> QED  BY <1>3 DEF U

\* f begins with b, and up to n every value is g of the value before.
Recurs(f, n, b, g) == f[0] = b /\ \A k \in 1..n : f[k] = g[f[k - 1]]

\* A function from the numbers up to n is defined by what it begins with and how it goes on.
LEMMA RecursionUpTo ==
    ASSUME NEW S, NEW b \in S, NEW g \in [S -> S], NEW n \in Nat
    PROVE  \E f \in [0..n -> S] : Recurs(f, n, b, g)
<1> DEFINE T == {m \in Nat : \E f \in [0..m -> S] : Recurs(f, m, b, g)}
<1>1. 0 \in T
  <2> DEFINE f == [k \in 0..0 |-> b]
  <2>1. f \in [0..0 -> S] /\ f[0] = b /\ \A k \in 1..0 : FALSE
    OBVIOUS
  <2> HIDE DEF f
  <2> QED  BY <2>1 DEF Recurs
<1>2. ASSUME NEW m \in T PROVE m + 1 \in T
  <2>1. PICK h \in [0..m -> S] : Recurs(h, m, b, g)
    OBVIOUS
  <2>2. m \in Nat /\ m \in 0..m /\ g[h[m]] \in S
    OBVIOUS
  <2> DEFINE f == [k \in 0..m + 1 |-> IF k = m + 1 THEN g[h[m]] ELSE h[k]]
  <2>3. \A k \in 0..m + 1 : k # m + 1 => k \in 0..m
    BY <2>2
  <2>4. f \in [0..m + 1 -> S] /\ f[m + 1] = g[h[m]] /\ \A k \in 0..m : f[k] = h[k]
    <3>1. \A k \in 0..m + 1 : (IF k = m + 1 THEN g[h[m]] ELSE h[k]) \in S
      BY <2>2, <2>3
    <3>2. m + 1 \in 0..m + 1 /\ \A k \in 0..m : k \in 0..m + 1 /\ k # m + 1
      BY <2>2
    <3> QED  BY <3>1, <3>2
  <2> HIDE DEF f
  <2>5. f[0] = b
    <3>1. 0 \in 0..m /\ h[0] = b
      BY <2>1, <2>2 DEF Recurs
    <3> QED  BY <2>4, <3>1
  <2>6. ASSUME NEW k \in 1..m + 1 PROVE f[k] = g[f[k - 1]]
    <3>1. k - 1 \in 0..m /\ f[k - 1] = h[k - 1]
      <4>1. k - 1 \in 0..m
        BY <2>2
      <4> QED  BY <2>4, <4>1
    <3>2. CASE k = m + 1
      <4>1. k - 1 = m
        BY <2>2, <3>2
      <4> QED  BY <2>4, <3>1, <3>2, <4>1
    <3>3. CASE k # m + 1
      <4>1. k \in 1..m /\ k \in 0..m
        BY <2>2, <3>3
      <4> QED  BY <2>1, <2>4, <3>1, <4>1 DEF Recurs
    <3> QED  BY <3>2, <3>3
  <2>7. m + 1 \in Nat /\ Recurs(f, m + 1, b, g)
    BY <2>2, <2>5, <2>6 DEF Recurs
  <2> QED  BY <2>4, <2>7
<1> HIDE DEF T
<1>3. T = Nat
  <2>1. T \in SUBSET Nat
    BY DEF T
  <2> QED  BY <1>1, <1>2, <2>1, AllNaturals
<1> QED  BY <1>3 DEF T

\* There is one such function only.
LEMMA RecursionUnique ==
    ASSUME NEW S, NEW b \in S, NEW g \in [S -> S], NEW m \in Nat, NEW n \in Nat, m <= n,
           NEW f \in [0..m -> S], Recurs(f, m, b, g),
           NEW h \in [0..n -> S], Recurs(h, n, b, g)
    PROVE  \A k \in 0..m : f[k] = h[k]
<1> DEFINE T == {k \in 0..m : f[k] = h[k]}
<1>1. 0 \in T
  BY DEF Recurs
<1>2. ASSUME NEW k \in 1..m, k - 1 \in T PROVE k \in T
  <2>1. k \in 1..n /\ k \in 0..m
    OBVIOUS
  <2>2. f[k] = g[f[k - 1]] /\ h[k] = g[h[k - 1]] /\ f[k - 1] = h[k - 1]
    BY <1>2, <2>1 DEF Recurs
  <2> QED  BY <2>1, <2>2
<1> HIDE DEF T
<1>3. \A k \in 0..m : k \in T
  BY <1>1, <1>2, UpTo
<1> QED  BY <1>3 DEF T

\* The same for all numbers.
Recursion(f, b, g) == f[0] = b /\ \A k \in Nat \ {0} : f[k] = g[f[k - 1]]

\* A recursion defines a function of all numbers.
LEMMA RecursionExists ==
    ASSUME NEW S, NEW b \in S, NEW g \in [S -> S]
    PROVE  \E f \in [Nat -> S] : Recursion(f, b, g)
<1> DEFINE Some(n) == CHOOSE f \in [0..n -> S] : Recurs(f, n, b, g)
           f == [n \in Nat |-> Some(n)[n]]
<1>1. \A n \in Nat : Some(n) \in [0..n -> S] /\ Recurs(Some(n), n, b, g)
  <2>1. TAKE n \in Nat
  <2>2. \E h \in [0..n -> S] : Recurs(h, n, b, g)
    BY RecursionUpTo
  <2> QED  BY <2>2
<1> HIDE DEF Some
<1>2. f \in [Nat -> S]
  <2>1. \A n \in Nat : Some(n)[n] \in S
    <3>1. TAKE n \in Nat
    <3>2. n \in 0..n
      OBVIOUS
    <3> QED  BY <1>1, <3>2
  <2> QED  BY <2>1
<1>3. f[0] = b
  <2>1. Recurs(Some(0), 0, b, g)
    BY <1>1
  <2> QED  BY <2>1 DEF Recurs
<1>4. ASSUME NEW k \in Nat \ {0} PROVE f[k] = g[f[k - 1]]
  <2>1. k \in Nat /\ k - 1 \in Nat /\ k \in 1..k /\ k - 1 \in 0..k - 1 /\ k - 1 <= k
    OBVIOUS
  <2>2. Some(k)[k] = g[Some(k)[k - 1]]
    BY <1>1, <2>1 DEF Recurs
  <2>3. Some(k - 1)[k - 1] = Some(k)[k - 1]
    <3> DEFINE m == k - 1
               u == Some(m)
               v == Some(k)
    <3>1. u \in [0..m -> S] /\ Recurs(u, m, b, g) /\ v \in [0..k -> S] /\ Recurs(v, k, b, g)
      BY <1>1, <2>1
    <3>2. m \in Nat /\ m \in 0..m /\ m <= k
      BY <2>1
    <3> HIDE DEF m, u, v
    <3>3. u[m] = v[m]
      BY <2>1, <3>1, <3>2, RecursionUnique
    <3> QED  BY <3>3 DEF m, u, v
  <2> QED  BY <2>1, <2>2, <2>3
<1> HIDE DEF f
<1> QED  BY <1>2, <1>3, <1>4 DEF Recursion

-----------------------------------------------------------------------------
(* Powers of two, size classes. *)

\* pow2 is what its recursion says.
LEMMA Pow2 ==
    /\ pow2 \in [Nat -> Nat] /\ pow2[0] = 1
    /\ \A i \in Nat : pow2[i + 1] = 2 * pow2[i]
<1> DEFINE g == [x \in Nat |-> 2 * x]
<1>1. g \in [Nat -> Nat] /\ 1 \in Nat
  OBVIOUS
<1>2. PICK f \in [Nat -> Nat] : f[0] = 1 /\ \A k \in Nat \ {0} : f[k] = 2 * f[k - 1]
  <2>1. PICK f \in [Nat -> Nat] : Recursion(f, 1, g)
    <3> HIDE DEF g
    <3> QED  BY <1>1, RecursionExists
  <2>2. ASSUME NEW k \in Nat \ {0} PROVE f[k] = 2 * f[k - 1]
    <3>1. k - 1 \in Nat /\ f[k] = g[f[k - 1]] /\ f[k - 1] \in Nat
      BY <2>1 DEF Recursion
    <3> QED  BY <3>1
  <2> QED  BY <2>1, <2>2 DEF Recursion
<1>3. f = [i \in Nat |-> IF i = 0 THEN 1 ELSE 2 * f[i - 1]]
  <2>1. \A i \in Nat : f[i] = IF i = 0 THEN 1 ELSE 2 * f[i - 1]
    BY <1>2
  <2> QED  BY <2>1
<1>4. pow2 = [i \in Nat |-> IF i = 0 THEN 1 ELSE 2 * pow2[i - 1]]
  <2>1. \E h : h = [i \in Nat |-> IF i = 0 THEN 1 ELSE 2 * h[i - 1]]
    BY <1>3
  <2> QED  BY <2>1 DEF pow2
<1>5. pow2[0] = 1
  BY <1>4
<1> DEFINE T == {i \in Nat : pow2[i] \in Nat}
<1>6. ASSUME NEW i \in Nat PROVE pow2[i + 1] = 2 * pow2[i]
  <2>1. i + 1 \in Nat /\ i + 1 # 0 /\ (i + 1) - 1 = i
    OBVIOUS
  <2> QED  BY <1>4, <2>1
<1>7. T = Nat
  <2>1. T \in SUBSET Nat /\ 0 \in T
    BY <1>5
  <2>2. \A i \in T : i + 1 \in T
    BY <1>6
  <2> HIDE DEF T
  <2> QED  BY <2>1, <2>2, AllNaturals
<1>8. pow2 \in [Nat -> Nat]
  <2>1. \A i \in Nat : pow2[i] \in Nat
    BY <1>7
  <2> QED  BY <1>4, <2>1
<1> QED  BY <1>5, <1>6, <1>8

\* They grow, and faster than the numbers.
LEMMA Pow2Above ==
    \A n \in Nat : pow2[n] \in Nat /\ n < pow2[n]
<1> DEFINE T == {n \in Nat : n < pow2[n]}
<1>1. T \in SUBSET Nat /\ 0 \in T
  BY Pow2
<1>2. \A n \in T : n + 1 \in T
  <2>1. TAKE n \in T
  <2>2. n \in Nat /\ n + 1 \in Nat /\ pow2[n] \in Nat /\ n < pow2[n] /\ pow2[n + 1] = 2 * pow2[n]
    BY Pow2
  <2> QED  BY <2>2
<1> HIDE DEF T
<1>3. T = Nat
  BY <1>1, <1>2, AllNaturals
<1> QED  BY <1>3, Pow2 DEF T

\* Shifts add up.
LEMMA Pow2Sum ==
    \A i, j \in Nat : pow2[i + j] = pow2[i] * pow2[j]
<1>1. TAKE i \in Nat
<1> DEFINE T == {j \in Nat : pow2[i + j] = pow2[i] * pow2[j]}
<1>2. T \in SUBSET Nat /\ 0 \in T
  BY Pow2
<1>3. \A j \in T : j + 1 \in T
  <2>1. TAKE j \in T
  <2>2. j \in Nat /\ j + 1 \in Nat /\ i + j \in Nat /\ i + (j + 1) = (i + j) + 1
    OBVIOUS
  <2> DEFINE a == pow2[i]
             b == pow2[j]
  <2>3. a \in Nat /\ b \in Nat /\ pow2[i + j] = a * b
    BY <2>2, Pow2
  <2>4. pow2[(i + j) + 1] = 2 * (a * b) /\ pow2[j + 1] = 2 * b
    BY <2>2, <2>3, Pow2
  <2> HIDE DEF a, b
  <2>5. 2 * (a * b) = a * (2 * b)
    BY <2>3
  <2>6. pow2[i + (j + 1)] = a * pow2[j + 1]
    BY <2>2, <2>4, <2>5
  <2> QED  BY <2>2, <2>6 DEF a
<1> HIDE DEF T
<1>4. T = Nat
  BY <1>2, <1>3, AllNaturals
<1> QED  BY <1>4 DEF T

\* A longer shift makes no smaller a number.
LEMMA Pow2Grows ==
    \A i, j \in Nat : i <= j => pow2[i] <= pow2[j]
<1>1. TAKE i \in Nat, j \in Nat
<1>2. HAVE i <= j
<1>3. j - i \in Nat /\ i + (j - i) = j
  BY <1>2
<1>4. pow2[j] = pow2[i] * pow2[j - i]
  BY <1>3, Pow2Sum
<1> DEFINE a == pow2[i]
           b == pow2[j - i]
<1>5. a \in Nat /\ b \in Nat /\ b >= 1
  BY <1>3, Pow2Above
<1> HIDE DEF a, b
<1>6. a <= a * b
  <2>1. PICK c \in Nat : b = 1 + c
    <3>1. b - 1 \in Nat /\ b = 1 + (b - 1)
      BY <1>5
    <3> QED  BY <3>1
  <2>2. a * (1 + c) = a + a * c /\ a * c \in Nat
    BY <1>5
  <2> QED  BY <1>5, <2>1, <2>2
<1> QED  BY <1>4, <1>6 DEF a, b

\* tlsf_fls finds the highest bit.
LEMMA Fls ==
    ASSUME NEW n \in Nat, n # 0
    PROVE  /\ tlsf_fls(n) \in Nat /\ tlsf_fls(n) \in 0..n
           /\ pow2[tlsf_fls(n)] <= n /\ n < pow2[tlsf_fls(n) + 1]
<1>1. \E i \in 0..n : pow2[i] <= n /\ n < pow2[i + 1]
  <2>1. SUFFICES ASSUME \A i \in 0..n : pow2[i] <= n => ~(n < pow2[i + 1]) PROVE FALSE
    OBVIOUS
  <2> DEFINE T == {i \in 0..n : pow2[i] <= n}
  <2>2. 0 \in T
    BY Pow2
  <2>3. ASSUME NEW k \in 1..n, k - 1 \in T PROVE k \in T
    <3>1. k - 1 \in 0..n /\ k \in 0..n /\ (k - 1) + 1 = k /\ k \in Nat /\ pow2[k] \in Nat
      BY Pow2
    <3>2. ~(n < pow2[k])
      BY <2>1, <2>3, <3>1
    <3> QED  BY <3>1, <3>2
  <2> HIDE DEF T
  <2>4. \A k \in 0..n : k \in T
    BY <2>2, <2>3, UpTo
  <2>5. pow2[n] <= n
    BY <2>4 DEF T
  <2> QED  BY <2>5, Pow2Above
<1> QED  BY <1>1 DEF tlsf_fls

\* tlsf_fls finds no lower a bit in a greater number.
LEMMA FlsGrows ==
    ASSUME NEW m \in Nat, NEW n \in Nat, m # 0, m <= n
    PROVE  tlsf_fls(m) <= tlsf_fls(n)
<1> DEFINE i == tlsf_fls(m)
           j == tlsf_fls(n)
<1>1. i \in Nat /\ j \in Nat /\ pow2[i] <= m /\ n < pow2[j + 1]
  BY Fls
<1> HIDE DEF i, j
<1>2. SUFFICES ASSUME j < i PROVE FALSE
  BY <1>1 DEF i, j
<1>3. j + 1 \in Nat /\ j + 1 <= i
  BY <1>1, <1>2
<1>4. pow2[j + 1] <= pow2[i] /\ pow2[j + 1] \in Nat /\ pow2[i] \in Nat
  BY <1>1, <1>3, Pow2Grows, Pow2
<1> QED  BY <1>1, <1>4

\* What a quotient and a multiple of the divisor are to a number.
LEMMA Quotient ==
    ASSUME NEW x \in Nat, NEW d \in Nat, d > 0
    PROVE  /\ (x \div d) \in Nat /\ (x \div d) * d \in Nat
           /\ (x \div d) * d <= x /\ x < (x \div d) * d + d
  BY SMT

\* Different multiples of d are d apart at least.
LEMMA ProductGrows ==
    ASSUME NEW a \in Nat, NEW b \in Nat, NEW d \in Nat, a < b
    PROVE  a * d + d <= b * d /\ a * d \in Nat /\ b * d \in Nat
  BY SMT

\* SL_INDEX_COUNT and block_size_max are numbers.
LEMMA SlCountType == SlCount \in Nat /\ SlCount > 0 /\ SlLog2 \in Nat /\ FlMax \in Nat /\ BlockMax \in Nat
<1>1. SlLog2 \in Nat /\ FlMax \in Nat /\ FlMax + SlLog2 \in Nat
  BY HeapAssumption DEF HeapAssumption
<1> QED  BY <1>1, Pow2Above DEF SlCount, BlockMax

\* The sizes of one second-level class of a block of n words.
Step(n) == pow2[tlsf_fls(n) - SlLog2]

\* mapping_insert, from SMALL_BLOCK_SIZE on: the second level divides a power of two.
LEMMA LargeClass ==
    ASSUME NEW n \in Nat, n >= SlCount
    PROVE  LET k == tlsf_fls(n)
               d == Step(n)
               q == n \div d
           IN  /\ k \in Nat /\ k >= SlLog2 /\ pow2[k] <= n
               /\ d \in Nat /\ d > 0 /\ q \in SlCount..2 * SlCount - 1
               /\ q * d <= n /\ n < q * d + d
               /\ mapping_insert(n) = <<k - (SlLog2 - 1), q - SlCount>>
<1> DEFINE k == tlsf_fls(n)
           d == Step(n)
           q == n \div d
<1>0. SlCount \in Nat /\ SlCount > 0 /\ SlLog2 \in Nat /\ n # 0
  BY SlCountType
<1>1. k \in Nat /\ pow2[k] <= n /\ n < pow2[k + 1]
  BY <1>0, Fls
<1>2. mapping_insert(n) = <<k - (SlLog2 - 1), q - SlCount>>
  <2>1. ~(n < SlCount)
    BY <1>0
  <2> QED  BY <2>1 DEF mapping_insert, Step
<1>3. d = pow2[k - SlLog2]
  BY DEF Step
<1> HIDE DEF k, q
<1>4. k >= SlLog2
  <2>1. SUFFICES ASSUME k + 1 <= SlLog2 PROVE FALSE
    BY <1>0, <1>1
  <2>2. pow2[k + 1] <= SlCount /\ pow2[k + 1] \in Nat
    <3>1. k + 1 \in Nat
      BY <1>1
    <3> QED  BY <1>0, <2>1, <3>1, Pow2Grows, Pow2 DEF SlCount
  <2> QED  BY <1>0, <1>1, <2>2
<1>5. k - SlLog2 \in Nat /\ SlLog2 + (k - SlLog2) = k
  BY <1>0, <1>1, <1>4
<1>6. d \in Nat /\ d > 0
  BY <1>3, <1>5, Pow2Above
<1>7. pow2[k] = SlCount * d /\ pow2[k + 1] = 2 * (SlCount * d)
  <2>1. pow2[SlLog2 + (k - SlLog2)] = SlCount * d
    BY <1>0, <1>3, <1>5, Pow2Sum DEF SlCount
  <2> QED  BY <1>1, <1>5, <2>1, Pow2
<1>8. q \in Nat /\ q * d \in Nat /\ q * d <= n /\ n < q * d + d
  BY <1>6, Quotient DEF q
<1> HIDE DEF d
<1>9. SlCount <= q
  <2>1. SUFFICES ASSUME q < SlCount PROVE FALSE
    BY <1>0, <1>8
  <2>2. q * d + d <= SlCount * d /\ SlCount * d \in Nat
    BY <1>0, <1>6, <1>8, <2>1, ProductGrows
  <2> QED  BY <1>1, <1>6, <1>7, <1>8, <2>2
<1>10. q < 2 * SlCount
  <2>1. SUFFICES ASSUME 2 * SlCount <= q PROVE FALSE
    BY <1>0, <1>8
  <2> DEFINE s == 2 * SlCount
  <2>2. s * d <= q * d
    <3>1. s \in Nat
      BY <1>0
    <3>2. CASE s = q
      BY <3>2, <1>8
    <3>3. CASE s < q
      <4> HIDE DEF s
      <4>1. s * d + d <= q * d /\ s * d \in Nat
        BY <1>6, <1>8, <3>1, <3>3, ProductGrows
      <4> QED  BY <1>6, <1>8, <4>1
    <3> QED  BY <1>8, <2>1, <3>1, <3>2, <3>3
  <2>3. s * d = 2 * (SlCount * d) /\ s * d \in Nat
    BY <1>0, <1>6
  <2> HIDE DEF s
  <2> QED  BY <1>1, <1>7, <1>8, <2>2, <2>3
<1>11. q \in SlCount..2 * SlCount - 1
  BY <1>0, <1>8, <1>9, <1>10
<1> QED  BY <1>1, <1>2, <1>4, <1>6, <1>8, <1>11 DEF k, d, q

\* mapping_insert below: every size has a class.
LEMMA SmallClass ==
    ASSUME NEW n \in Nat, n < SlCount
    PROVE  mapping_insert(n) = <<0, n>>
  BY DEF mapping_insert

\* The bitmaps have a class for every size below block_size_max.
LEMMA ClassExists ==
    ASSUME NEW n \in Nat, n < BlockMax
    PROVE  mapping_insert(n) \in Class
<1>0. SlCount \in Nat /\ SlCount > 0 /\ SlLog2 \in Nat /\ FlMax \in Nat
  BY SlCountType
<1>1. CASE n < SlCount
  BY <1>0, <1>1, SmallClass DEF Class
<1>2. CASE n >= SlCount
  <2> DEFINE k == tlsf_fls(n)
             q == n \div Step(n)
  <2>1. /\ k \in Nat /\ k >= SlLog2 /\ pow2[k] <= n
        /\ q \in SlCount..2 * SlCount - 1
        /\ mapping_insert(n) = <<k - (SlLog2 - 1), q - SlCount>>
    BY <1>2, LargeClass
  <2> HIDE DEF k, q
  <2>2. k < FlMax + SlLog2
    <3>1. SUFFICES ASSUME FlMax + SlLog2 <= k PROVE FALSE
      BY <1>0, <2>1
    <3>2. FlMax + SlLog2 \in Nat
      BY <1>0
    <3>3. BlockMax <= pow2[k] /\ pow2[k] \in Nat
      BY <2>1, <3>1, <3>2, Pow2Grows, Pow2 DEF BlockMax
    <3> QED  BY <2>1, <3>3, SlCountType
  <2>3. k - (SlLog2 - 1) \in 0..FlMax /\ q - SlCount \in 0..SlCount - 1
    BY <1>0, <2>1, <2>2
  <2> QED  BY <2>1, <2>3 DEF Class
<1> QED  BY <1>0, <1>1, <1>2

\* The order in which search_suitable_class looks at the classes.
NotAfter(c, d) == c[1] < d[1] \/ (c[1] = d[1] /\ c[2] <= d[2])

\* A larger block is in no earlier class.
LEMMA ClassGrows ==
    ASSUME NEW m \in Nat, NEW n \in Nat, m <= n
    PROVE  NotAfter(mapping_insert(m), mapping_insert(n))
<1>0. SlCount \in Nat /\ SlCount > 0 /\ SlLog2 \in Nat
  BY SlCountType
<1>1. CASE n < SlCount
  <2>1. mapping_insert(m) = <<0, m>> /\ mapping_insert(n) = <<0, n>>
    BY <1>0, <1>1, SmallClass
  <2> QED  BY <2>1 DEF NotAfter
<1>2. CASE m < SlCount /\ n >= SlCount
  <2> DEFINE k == tlsf_fls(n)
             q == n \div Step(n)
  <2>1. k \in Nat /\ k >= SlLog2 /\ mapping_insert(n) = <<k - (SlLog2 - 1), q - SlCount>>
    BY <1>2, LargeClass
  <2>2. mapping_insert(m) = <<0, m>>
    BY <1>2, SmallClass
  <2> HIDE DEF k, q
  <2>3. 0 < k - (SlLog2 - 1)
    BY <1>0, <2>1
  <2> QED  BY <2>1, <2>2, <2>3 DEF NotAfter
<1>3. CASE m >= SlCount
  <2> DEFINE k == tlsf_fls(n)
             d == Step(n)
             q == n \div d
             l == tlsf_fls(m)
             e == Step(m)
             r == m \div e
  <2>0. n >= SlCount /\ m # 0
    BY <1>0, <1>3
  <2>1. /\ k \in Nat /\ q \in SlCount..2 * SlCount - 1 /\ d \in Nat /\ d > 0
        /\ q * d <= n /\ n < q * d + d
        /\ mapping_insert(n) = <<k - (SlLog2 - 1), q - SlCount>>
    BY <2>0, LargeClass
  <2>2. /\ l \in Nat /\ r \in SlCount..2 * SlCount - 1
        /\ r * e <= m /\ m < r * e + e
        /\ mapping_insert(m) = <<l - (SlLog2 - 1), r - SlCount>>
    BY <1>3, LargeClass
  <2>3. l <= k
    BY <2>0, FlsGrows
  <2>4. l = k => e = d
    BY DEF Step
  <2> HIDE DEF k, q, l, r, d, e
  <2>5. CASE l < k
    <3>1. l - (SlLog2 - 1) < k - (SlLog2 - 1)
      BY <1>0, <2>1, <2>2, <2>5
    <3> QED  BY <2>1, <2>2, <3>1 DEF NotAfter
  <2>6. CASE l = k
    <3>0. q \in Nat /\ r \in Nat
      BY <1>0, <2>1, <2>2
    <3>1. r <= q
      <4>1. SUFFICES ASSUME q < r PROVE FALSE
        BY <3>0
      <4>2. q * d + d <= r * d /\ q * d \in Nat /\ r * d \in Nat
        BY <2>1, <3>0, <4>1, ProductGrows
      <4>3. r * d <= m
        BY <2>2, <2>4, <2>6
      <4> QED  BY <2>1, <4>2, <4>3
    <3>2. r - SlCount <= q - SlCount
      BY <1>0, <3>0, <3>1
    <3> QED  BY <2>1, <2>2, <2>6, <3>2 DEF NotAfter
  <2> QED  BY <2>1, <2>2, <2>3, <2>5, <2>6
<1> QED  BY <1>0, <1>1, <1>2, <1>3

\* mapping_search rounds up.
LEMMA RoundUpType ==
    ASSUME NEW n \in Nat, n # 0
    PROVE  RoundUp(n) \in Nat /\ RoundUp(n) >= n
<1>1. CASE n < SlCount
  BY <1>1 DEF RoundUp
<1>2. CASE n >= SlCount
  <2> DEFINE d == Step(n)
  <2>1. d \in Nat /\ d > 0 /\ RoundUp(n) = n + d - 1
    <3>1. d \in Nat /\ d > 0
      BY <1>2, LargeClass
    <3>2. ~(n < SlCount)
      BY <1>2, SlCountType
    <3> QED  BY <3>1, <3>2 DEF RoundUp, Step
  <2> HIDE DEF d
  <2> QED  BY <2>1
<1> QED  BY <1>1, <1>2, SlCountType

\* No block that is too small is in the class searched from, or in a later one.
LEMMA SearchedSuffices ==
    ASSUME NEW n \in Nat, n # 0, NEW m \in Nat, NotAfter(mapping_search(n), mapping_insert(m))
    PROVE  n <= m
<1>0. SlCount \in Nat /\ SlCount > 0 /\ SlLog2 \in Nat
  BY SlCountType
<1>1. SUFFICES ASSUME m < n PROVE FALSE
  OBVIOUS
<1> DEFINE z == RoundUp(n)
<1>2. z \in Nat /\ z >= n /\ NotAfter(mapping_insert(z), mapping_insert(m))
  BY RoundUpType DEF mapping_search
<1>3. CASE n < SlCount
  <2>1. z = n
    BY <1>3 DEF RoundUp
  <2> HIDE DEF z
  <2>2. mapping_insert(z) = <<0, n>> /\ mapping_insert(m) = <<0, m>>
    BY <1>0, <1>1, <1>3, <2>1, SmallClass
  <2>3. n <= m
    BY <1>2, <2>2 DEF NotAfter
  <2> QED  BY <1>1, <2>3
<1>4. CASE n >= SlCount
  <2> DEFINE k == tlsf_fls(z)
             d == Step(z)
             q == z \div d
             l == tlsf_fls(m)
             e == Step(m)
             r == m \div e
  <2>1. z >= SlCount /\ n # 0
    BY <1>0, <1>2, <1>4
  <2>2. /\ k \in Nat /\ k >= SlLog2 /\ q \in SlCount..2 * SlCount - 1 /\ d \in Nat /\ d > 0
        /\ q * d <= z /\ z < q * d + d
        /\ mapping_insert(z) = <<k - (SlLog2 - 1), q - SlCount>>
    <3> HIDE DEF z
    <3> QED  BY <1>2, <2>1, LargeClass
  <2>3. z = n + Step(n) - 1 /\ Step(n) \in Nat /\ Step(n) > 0 /\ tlsf_fls(n) \in Nat
    <3>1. Step(n) \in Nat /\ Step(n) > 0 /\ tlsf_fls(n) \in Nat
      BY <1>4, LargeClass
    <3>2. ~(n < SlCount)
      BY <1>0, <1>4
    <3> QED  BY <3>1, <3>2 DEF RoundUp, Step
  <2>4. tlsf_fls(n) <= k
    <3> HIDE DEF z
    <3> QED  BY <1>2, <2>1, FlsGrows
  <2>5. CASE m < SlCount
    <3>1. mapping_insert(m) = <<0, m>>
      BY <2>5, SmallClass
    <3> HIDE DEF k, z, d, q
    <3>2. ~(k - (SlLog2 - 1) < 0) /\ k - (SlLog2 - 1) # 0
      BY <1>0, <2>2
    <3> QED  BY <1>2, <2>2, <3>1, <3>2 DEF NotAfter
  <2>6. CASE m >= SlCount
    <3>1. /\ l \in Nat /\ r \in SlCount..2 * SlCount - 1
          /\ r * e <= m /\ m < r * e + e
          /\ mapping_insert(m) = <<l - (SlLog2 - 1), r - SlCount>>
      BY <2>6, LargeClass
    <3>2. l <= tlsf_fls(n)
      <4>1. m # 0 /\ m <= n
        BY <1>0, <1>1, <2>6
      <4> QED  BY <4>1, FlsGrows
    <3>3. l = k => e = d
      BY DEF Step
    <3>4. tlsf_fls(n) = k => Step(n) = d
      BY DEF Step
    <3> HIDE DEF k, z, d, q, l, e, r
    <3>5. q \in Nat /\ r \in Nat
      BY <1>0, <2>2, <3>1
    <3>6. l = k /\ q <= r
      <4>1. \/ k - (SlLog2 - 1) < l - (SlLog2 - 1)
            \/ k - (SlLog2 - 1) = l - (SlLog2 - 1) /\ q - SlCount <= r - SlCount
        BY <1>2, <2>2, <3>1 DEF NotAfter
      <4> QED  BY <1>0, <2>2, <2>3, <2>4, <3>1, <3>2, <3>5, <4>1
    <3>7. tlsf_fls(n) = k
      BY <2>2, <2>3, <2>4, <3>1, <3>2, <3>6
    <3>8. z = n + d - 1 /\ r * d <= m
      BY <2>3, <3>1, <3>3, <3>4, <3>6, <3>7
    <3>9. q * d <= r * d /\ q * d \in Nat /\ r * d \in Nat
      <4>1. CASE q = r
        <5>1. q * d \in Nat
          BY <2>2, <3>5
        <5> QED  BY <4>1, <5>1
      <4>2. CASE q < r
        <5>1. q * d + d <= r * d /\ q * d \in Nat /\ r * d \in Nat
          BY <2>2, <3>5, <4>2, ProductGrows
        <5> QED  BY <2>2, <5>1
      <4> QED  BY <3>5, <3>6, <4>1, <4>2
    <3> QED  BY <1>1, <2>2, <3>8, <3>9
  <2> QED  BY <1>0, <2>5, <2>6
<1> QED  BY <1>0, <1>3, <1>4

-----------------------------------------------------------------------------
(* Words: what the operators that write one word of the heap leave behind. *)

HeapType ==
    [mem : [1..Top -> Int], head : [Class -> Int], fl : SUBSET (0..FlMax),
     sl : [0..FlMax -> SUBSET (0..SlCount - 1)]]

\* k is h but for the words at D.
WritesOnly(h, k, D) ==
    /\ k \in HeapType /\ k.head = h.head /\ k.fl = h.fl /\ k.sl = h.sl
    /\ \A a \in 1..Top : a \notin D => k.mem[a] = h.mem[a]

\* A write changes one word.
LEMMA PutWord ==
    ASSUME NEW h \in HeapType, NEW a \in 1..Top, NEW w \in Int
    PROVE  WritesOnly(h, Put(h, a, w), {a}) /\ Put(h, a, w).mem[a] = w
  BY DEF WritesOnly, Put, HeapType

\* Two writes in a row.
LEMMA WritesTwice ==
    ASSUME NEW h, NEW k, NEW j, NEW D, NEW E, WritesOnly(h, k, D), WritesOnly(k, j, E)
    PROVE  WritesOnly(h, j, D \cup E)
  BY DEF WritesOnly

\* Size and flags of a block.
Same(h, k, b) ==
    /\ block_size(k, b) = block_size(h, b)
    /\ block_is_free(k, b) <=> block_is_free(h, b)
    /\ block_is_prev_free(k, b) <=> block_is_prev_free(h, b)

\* A block keeps its size and its flags when they are not written.
LEMMA SameWord ==
    ASSUME NEW h, NEW k, NEW D, NEW b, WritesOnly(h, k, D), b + 1 \in 1..Top, b + 1 \notin D
    PROVE  Same(h, k, b)
<1>1. k.mem[b + 1] = h.mem[b + 1]
  BY DEF WritesOnly
<1> QED  BY <1>1 DEF Same, block_size, block_is_free, block_is_prev_free

\* A size and two flags make a word they can be read from again.
LEMMA Encoded ==
    ASSUME NEW z \in Int, NEW f \in 0..1, NEW p \in 0..1
    PROVE  LET w == 4 * z + f + 2 * p IN
           /\ w \in Int /\ w \div 4 = z /\ w % 2 = f /\ (w \div 2) % 2 = p /\ w % 4 = f + 2 * p
  OBVIOUS

\* And every word can be read as a size and two flags.
LEMMA Decoded ==
    ASSUME NEW w \in Int
    PROVE  /\ w % 2 \in 0..1 /\ (w \div 2) % 2 \in 0..1 /\ w \div 4 \in Int
           /\ w % 4 = (w % 2) + 2 * ((w \div 2) % 2)
  OBVIOUS

\* What block_size and the flags are.
LEMMA FieldTypes ==
    ASSUME NEW h \in HeapType, NEW b, b + 1 \in 1..Top
    PROVE  /\ block_size(h, b) \in Int /\ block_is_free(h, b) \in BOOLEAN
           /\ block_is_prev_free(h, b) \in BOOLEAN
<1>1. h.mem[b + 1] \in Int
  BY DEF HeapType
<1>2. block_size(h, b) \in Int
  BY <1>1, Decoded DEF block_size
<1> QED  BY <1>2 DEF block_is_free, block_is_prev_free

\* block_set_size leaves the flags.
LEMMA SetSize ==
    ASSUME NEW h \in HeapType, NEW b \in Int, b + 1 \in 1..Top, NEW n \in Int,
           NEW k, k = block_set_size(h, b, n)
    PROVE  /\ WritesOnly(h, k, {b + 1}) /\ block_size(k, b) = n
           /\ block_is_free(k, b) <=> block_is_free(h, b)
           /\ block_is_prev_free(k, b) <=> block_is_prev_free(h, b)
<1> DEFINE w == h.mem[b + 1]
           v == 4 * n + Flags(h, b)
<1>1. w \in Int
  BY DEF HeapType
<1>2. v = 4 * n + (w % 2) + 2 * ((w \div 2) % 2)
  <2>1. w % 4 = (w % 2) + 2 * ((w \div 2) % 2) /\ w % 2 \in 0..1 /\ (w \div 2) % 2 \in 0..1
    BY <1>1, Decoded
  <2>2. v = 4 * n + (w % 4)
    BY DEF Flags
  <2> HIDE DEF w, v
  <2> QED  BY <2>1, <2>2
<1>3. v \in Int /\ v \div 4 = n /\ v % 2 = w % 2 /\ (v \div 2) % 2 = (w \div 2) % 2
  <2>1. w % 2 \in 0..1 /\ (w \div 2) % 2 \in 0..1
    BY <1>1, Decoded
  <2> DEFINE f == w % 2
             p == (w \div 2) % 2
  <2> HIDE DEF f, p, v
  <2>2. v = 4 * n + f + 2 * p /\ f \in 0..1 /\ p \in 0..1
    BY <1>2, <2>1 DEF f, p
  <2>3. v \in Int /\ v \div 4 = n /\ v % 2 = f /\ (v \div 2) % 2 = p
    BY <2>2, Encoded
  <2> QED  BY <2>3 DEF f, p
<1>4. k = Put(h, b + 1, v)
  BY DEF block_set_size
<1> HIDE DEF v, w
<1>5. WritesOnly(h, k, {b + 1}) /\ k.mem[b + 1] = v
  BY <1>3, <1>4, PutWord
<1> QED
  BY <1>3, <1>5 DEF w, block_size, block_is_free, block_is_prev_free

\* Flags are written without the size.
LEMMA SetFlags ==
    ASSUME NEW h \in HeapType, NEW b \in Int, b + 1 \in 1..Top,
           NEW f \in BOOLEAN, NEW p \in BOOLEAN,
           NEW k, k = WithFlags(h, b, f, p)
    PROVE  /\ WritesOnly(h, k, {b + 1}) /\ block_size(k, b) = block_size(h, b)
           /\ block_is_free(k, b) <=> f
           /\ block_is_prev_free(k, b) <=> p
<1> DEFINE z == block_size(h, b)
           x == IF f THEN 1 ELSE 0
           y == IF p THEN 1 ELSE 0
           v == 4 * z + x + 2 * y
<1>1. z \in Int
  BY FieldTypes
<1>2. x \in 0..1 /\ y \in 0..1 /\ (IF p THEN 2 ELSE 0) = 2 * y
  OBVIOUS
<1>3. k = Put(h, b + 1, v)
  BY <1>2 DEF WithFlags
<1>4. v \in Int /\ v \div 4 = z /\ v % 2 = x /\ (v \div 2) % 2 = y
  <2> HIDE DEF x, y, z
  <2> QED  BY <1>1, <1>2, Encoded
<1> HIDE DEF v, z
<1>5. WritesOnly(h, k, {b + 1}) /\ k.mem[b + 1] = v
  BY <1>3, <1>4, PutWord
<1>6. block_size(k, b) = z /\ (block_is_free(k, b) <=> x = 1) /\ (block_is_prev_free(k, b) <=> y = 1)
  BY <1>4, <1>5 DEF block_size, block_is_free, block_is_prev_free
<1>7. (x = 1 <=> f) /\ (y = 1 <=> p)
  OBVIOUS
<1> HIDE DEF x, y
<1> QED  BY <1>5, <1>6, <1>7 DEF z

\* block_set_free.
LEMMA SetFree ==
    ASSUME NEW h \in HeapType, NEW b \in Int, b + 1 \in 1..Top,
           NEW k, k = block_set_free(h, b)
    PROVE  /\ WritesOnly(h, k, {b + 1}) /\ block_size(k, b) = block_size(h, b)
           /\ block_is_free(k, b) /\ (block_is_prev_free(k, b) <=> block_is_prev_free(h, b))
<1>1. PICK p \in BOOLEAN : p = block_is_prev_free(h, b)
  BY FieldTypes
<1>2. k = WithFlags(h, b, TRUE, p)
  BY <1>1 DEF block_set_free
<1> QED  BY <1>1, <1>2, SetFlags

\* block_set_used.
LEMMA SetUsed ==
    ASSUME NEW h \in HeapType, NEW b \in Int, b + 1 \in 1..Top,
           NEW k, k = block_set_used(h, b)
    PROVE  /\ WritesOnly(h, k, {b + 1}) /\ block_size(k, b) = block_size(h, b)
           /\ ~block_is_free(k, b) /\ (block_is_prev_free(k, b) <=> block_is_prev_free(h, b))
<1>1. PICK p \in BOOLEAN : p = block_is_prev_free(h, b)
  BY FieldTypes
<1>2. k = WithFlags(h, b, FALSE, p)
  BY <1>1 DEF block_set_used
<1> QED  BY <1>1, <1>2, SetFlags

\* block_set_prev_free.
LEMMA SetPrevFree ==
    ASSUME NEW h \in HeapType, NEW b \in Int, b + 1 \in 1..Top,
           NEW k, k = block_set_prev_free(h, b)
    PROVE  /\ WritesOnly(h, k, {b + 1}) /\ block_size(k, b) = block_size(h, b)
           /\ (block_is_free(k, b) <=> block_is_free(h, b)) /\ block_is_prev_free(k, b)
<1>1. PICK f \in BOOLEAN : f = block_is_free(h, b)
  BY FieldTypes
<1>2. k = WithFlags(h, b, f, TRUE)
  BY <1>1 DEF block_set_prev_free
<1> QED  BY <1>1, <1>2, SetFlags

\* block_set_prev_used.
LEMMA SetPrevUsed ==
    ASSUME NEW h \in HeapType, NEW b \in Int, b + 1 \in 1..Top,
           NEW k, k = block_set_prev_used(h, b)
    PROVE  /\ WritesOnly(h, k, {b + 1}) /\ block_size(k, b) = block_size(h, b)
           /\ (block_is_free(k, b) <=> block_is_free(h, b)) /\ ~block_is_prev_free(k, b)
<1>1. PICK f \in BOOLEAN : f = block_is_free(h, b)
  BY FieldTypes
<1>2. k = WithFlags(h, b, f, FALSE)
  BY <1>1 DEF block_set_prev_used
<1> QED  BY <1>1, <1>2, SetFlags

-----------------------------------------------------------------------------
(* How blocks tile the pools: S are the blocks, Z their sizes, A the pools. *)

First(p) == PoolAt[p] - Overhead
Firsts(A) == {First(p) : p \in A}
Ends(A) == {Sentinel(p) : p \in A}
Nodes(A, S) == S \cup Ends(A)

\* The block behind b.
After(Z, b) == b + 1 + Z[b]

\* Pools that tlsf_add_pool takes.
Usable == {p \in Pool : PoolWords[p] - 2 * Overhead \in MinSize..BlockMax}

Sizes == [1..Top -> Nat]

Tiles(A, S, Z) ==
    /\ A \subseteq Usable /\ S \subseteq 1..Top /\ Z \in Sizes
    /\ \A p \in A : First(p) \in S /\ Z[Sentinel(p)] = 0
    /\ \A b \in S : Z[b] >= MinSize /\ After(Z, b) \in Nodes(A, S)
    /\ \A b \in S : \E p \in A : First(p) <= b /\ b < Sentinel(p)
    /\ \A b \in S, c \in Nodes(A, S) : b < c => After(Z, b) <= c
    /\ \A c \in Nodes(A, S) : c \in Firsts(A) \/ \E b \in S : After(Z, b) = c

\* Where a pool begins and ends.
LEMMA Places ==
    ASSUME NEW p \in Usable
    PROVE  /\ First(p) \in Nat /\ First(p) >= 3 /\ Sentinel(p) \in Nat
           /\ Sentinel(p) = First(p) + PoolWords[p] - 1 /\ Sentinel(p) + 1 <= Top
           /\ PoolWords[p] - 2 >= 3 /\ PoolWords[p] - 2 < BlockMax /\ PoolWords[p] \in Nat
           /\ First(p) + 4 <= Sentinel(p) /\ Top \in Nat
<1>1. /\ PoolAt[p] \in 4..Top /\ PoolWords[p] \in Nat /\ Top \in Nat
      /\ PoolAt[p] + PoolWords[p] <= Top + 1
  BY HeapAssumption DEF HeapAssumption, Usable
<1>2. PoolWords[p] - 2 \in MinSize..BlockMax /\ PoolWords[p] - 2 # BlockMax /\ BlockMax \in Nat
  BY PoolAssumption, SlCountType DEF PoolAssumption, Usable, Overhead
<1> QED  BY <1>1, <1>2 DEF First, Sentinel, Overhead, MinSize

\* Pools do not overlap.
LEMMA PoolsApart ==
    ASSUME NEW p \in Usable, NEW q \in Usable, p # q
    PROVE  Sentinel(p) < First(q) \/ Sentinel(q) < First(p)
<1>1. /\ PoolAt[p] \in 4..Top /\ PoolWords[p] \in Nat /\ PoolAt[q] \in 4..Top /\ PoolWords[q] \in Nat
      /\ Top \in Nat
  BY HeapAssumption DEF HeapAssumption, Usable
<1>2. PoolAt[p] + PoolWords[p] <= PoolAt[q] \/ PoolAt[q] + PoolWords[q] <= PoolAt[p]
  BY PoolAssumption DEF PoolAssumption, Usable
<1> QED  BY <1>1, <1>2 DEF First, Sentinel, Overhead

\* Where the words of blocks are.
LEMMA TileWords ==
    ASSUME NEW A, NEW S, NEW Z, Tiles(A, S, Z)
    PROVE  /\ Top \in Nat
           /\ \A c \in Nodes(A, S) : c \in Nat /\ c >= 3 /\ c \in 1..Top /\ c + 1 \in 1..Top /\ Z[c] \in Nat
           /\ \A b \in S : /\ b \in Nodes(A, S) /\ Z[b] \in Nat /\ Z[b] >= 3
                           /\ After(Z, b) = b + 1 + Z[b] /\ After(Z, b) \in Nodes(A, S)
                           /\ b + 2 \in 1..Top /\ b + 3 \in 1..Top /\ b + 4 <= After(Z, b)
<1>0. /\ A \subseteq Usable /\ S \subseteq 1..Top /\ Z \in [1..Top -> Nat] /\ Top \in Nat
      /\ \A b \in S : Z[b] >= 3 /\ After(Z, b) \in Nodes(A, S)
      /\ \A b \in S : \E p \in A : First(p) <= b /\ b < Sentinel(p)
  BY HeapAssumption DEF Tiles, HeapAssumption, MinSize, Sizes
<1>1. ASSUME NEW c \in Nodes(A, S)
      PROVE  c \in Nat /\ c >= 3 /\ c \in 1..Top /\ c + 1 \in 1..Top /\ Z[c] \in Nat
  <2>1. CASE c \in S
    <3>1. PICK p \in A : First(p) <= c /\ c < Sentinel(p)
      BY <1>0, <2>1
    <3>2. First(p) >= 3 /\ First(p) \in Nat /\ Sentinel(p) \in Nat /\ Sentinel(p) + 1 <= Top
      BY <1>0, Places
    <3>3. c \in 1..Top
      BY <1>0, <2>1
    <3>4. c \in Nat /\ c >= 3 /\ c + 1 \in 1..Top
      BY <1>0, <3>1, <3>2, <3>3
    <3> QED  BY <1>0, <3>3, <3>4
  <2>2. ASSUME NEW p \in A, c = Sentinel(p) PROVE c \in Nat /\ c >= 3 /\ c \in 1..Top /\ c + 1 \in 1..Top
    <3>1. /\ Sentinel(p) \in Nat /\ Sentinel(p) + 1 <= Top
          /\ First(p) \in Nat /\ First(p) >= 3 /\ First(p) + 4 <= Sentinel(p)
      BY <1>0, Places
    <3> QED  BY <1>0, <2>2, <3>1
  <2> QED  BY <1>0, <2>1, <2>2 DEF Nodes, Ends
<1>2. ASSUME NEW b \in S
      PROVE  /\ b \in Nodes(A, S) /\ Z[b] \in Nat /\ Z[b] >= 3
             /\ After(Z, b) = b + 1 + Z[b] /\ After(Z, b) \in Nodes(A, S)
             /\ b + 2 \in 1..Top /\ b + 3 \in 1..Top /\ b + 4 <= After(Z, b)
  <2>1. b \in Nodes(A, S) /\ After(Z, b) = b + 1 + Z[b]
    BY DEF Nodes, After
  <2>2. After(Z, b) \in Nodes(A, S) /\ Z[b] >= 3
    BY <1>0
  <2>3. b \in Nat /\ Z[b] \in Nat /\ After(Z, b) \in 1..Top
    BY <1>1, <2>1, <2>2
  <2> QED  BY <1>0, <2>1, <2>2, <2>3
<1> QED  BY <1>0, <1>1, <1>2

\* No two blocks overlap, and none reaches beyond its pool.
LEMMA Spaced ==
    ASSUME NEW A, NEW S, NEW Z, Tiles(A, S, Z)
    PROVE  /\ \A b \in S, c \in Nodes(A, S) : b < c => b + 4 <= c /\ After(Z, b) <= c
           /\ \A b \in S : b \notin Ends(A)
           /\ \A b, c \in S : After(Z, b) = After(Z, c) => b = c
           /\ \A b \in S : After(Z, b) \notin Firsts(A)
<1>0. /\ A \subseteq Usable
      /\ \A b \in S, c \in Nodes(A, S) : b < c => After(Z, b) <= c
      /\ \A b \in S : \E p \in A : First(p) <= b /\ b < Sentinel(p)
      /\ \A b \in S : b \in Nodes(A, S) /\ After(Z, b) \in Nodes(A, S) /\ b + 4 <= After(Z, b)
      /\ \A c \in Nodes(A, S) : c \in Nat
  BY TileWords DEF Tiles
<1>1. \A b \in S, c \in Nodes(A, S) : b < c => b + 4 <= c /\ After(Z, b) <= c
  BY <1>0
<1>2. ASSUME NEW b \in S, NEW q \in A PROVE b # Sentinel(q) /\ After(Z, b) # First(q)
  <2>1. PICK p \in A : First(p) <= b /\ b < Sentinel(p)
    BY <1>0
  <2>2. /\ First(p) \in Nat /\ Sentinel(p) \in Nat /\ First(q) \in Nat /\ Sentinel(q) \in Nat
        /\ Sentinel(p) \in Nodes(A, S) /\ First(q) < Sentinel(q)
    <3>1. First(q) + 4 <= Sentinel(q)
      BY <1>0, Places
    <3>2. First(p) \in Nat /\ Sentinel(p) \in Nat /\ First(q) \in Nat /\ Sentinel(q) \in Nat
      BY <1>0, Places
    <3> QED  BY <3>1, <3>2 DEF Nodes, Ends
  <2>3. After(Z, b) <= Sentinel(p)
    BY <1>0, <2>1, <2>2
  <2>4. p # q => Sentinel(p) < First(q) \/ Sentinel(q) < First(p)
    BY <1>0, PoolsApart
  <2>5. b \in Nat /\ After(Z, b) \in Nat /\ b + 4 <= After(Z, b)
    BY <1>0
  <2> QED  BY <2>1, <2>2, <2>3, <2>4, <2>5
<1>3. ASSUME NEW b \in S, NEW c \in S, After(Z, b) = After(Z, c) PROVE b = c
  <2>1. /\ b \in Nat /\ c \in Nat /\ After(Z, b) \in Nat
        /\ b < c => After(Z, b) <= c
        /\ c < b => After(Z, c) <= b
        /\ b + 4 <= After(Z, b) /\ c + 4 <= After(Z, c)
    BY <1>0
  <2> QED  BY <1>3, <2>1
<1> QED  BY <1>1, <1>2, <1>3 DEF Ends, Firsts

\* No block is as large as block_size_max.
LEMMA SizeBound ==
    ASSUME NEW A, NEW S, NEW Z, Tiles(A, S, Z), NEW b \in S
    PROVE  Z[b] < BlockMax /\ mapping_insert(Z[b]) \in Class
<1>1. PICK p \in A : First(p) <= b /\ b < Sentinel(p)
  BY DEF Tiles
<1>2. Sentinel(p) \in Nodes(A, S) /\ p \in Usable
  BY DEF Tiles, Nodes, Ends
<1>3. After(Z, b) <= Sentinel(p)
  BY <1>1, <1>2 DEF Tiles
<1>4. b \in Nat /\ Z[b] \in Nat /\ After(Z, b) = b + 1 + Z[b]
  BY TileWords
<1>5. /\ First(p) \in Nat /\ Sentinel(p) = First(p) + PoolWords[p] - 1 /\ PoolWords[p] \in Nat
      /\ PoolWords[p] - 2 < BlockMax
  BY <1>2, Places
<1>6. Z[b] < BlockMax
  BY <1>1, <1>3, <1>4, <1>5, SlCountType
<1> QED  BY <1>4, <1>6, ClassExists

\* Splitting a block leaves tiles.
LEMMA SplitTiles ==
    ASSUME NEW A, NEW S, NEW Z, Tiles(A, S, Z), NEW b \in S,
           NEW n \in Nat, n >= 3, n + 4 <= Z[b], NEW r, r = b + 1 + n,
           NEW y, y = Z[b] - n - 1,
           NEW Y, Y \in Sizes, Y[b] = n, Y[r] = y, \A c \in 1..Top \ {b, r} : Y[c] = Z[c]
    PROVE  /\ Tiles(A, S \cup {r}, Y)
           /\ r \notin Nodes(A, S) /\ r # b /\ r \in 1..Top
           /\ Y[b] = n /\ Y[r] = y /\ \A c \in Nodes(A, S) : c # b => Y[c] = Z[c]
           /\ After(Y, b) = r /\ After(Y, r) = After(Z, b)
           /\ \A c \in S : c # b => After(Y, c) = After(Z, c)
<1> DEFINE N == Nodes(A, S)
           M == Nodes(A, S \cup {r})
           e == After(Z, b)
<1>0. /\ Z[b] \in Nat /\ e = b + 1 + Z[b] /\ e \in N /\ b \in N /\ Top \in Nat
      /\ Z \in [1..Top -> Nat]
  <2>1. Z[b] \in Nat /\ e = b + 1 + Z[b] /\ e \in N /\ b \in N /\ Top \in Nat
    BY TileWords
  <2> QED  BY <2>1 DEF Tiles, Sizes
<1>1. /\ b \in Nat /\ b >= 3 /\ b \in 1..Top /\ e \in Nat /\ e \in 1..Top
  BY <1>0, TileWords
<1> HIDE DEF e
<1>2. r \in 1..Top /\ r # b /\ b < r /\ r < e /\ r \in Nat /\ y \in Nat /\ y >= 3 /\ r + 1 + y = e
  <2>1. PICK z \in Nat : z = Z[b]
    BY <1>0
  <2>2. y \in Nat /\ y >= 3 /\ n + 1 + y = z
    BY <2>1
  <2>3. r \in Nat /\ b < r
    BY <1>1
  <2>4. r + 1 + y = e
    BY <1>0, <1>1, <2>1, <2>2
  <2>5. r < e
    BY <1>1, <2>2, <2>3, <2>4
  <2>6. r \in 1..Top
    BY <1>0, <1>1, <2>3, <2>5
  <2> QED  BY <1>1, <2>2, <2>3, <2>4, <2>5, <2>6
<1>3. r \notin N
  <2>1. SUFFICES ASSUME r \in N PROVE FALSE
    OBVIOUS
  <2>2. e <= r
    BY <1>2, <2>1, Spaced DEF e
  <2> QED  BY <1>1, <1>2, <2>2
<1>4. /\ Y \in [1..Top -> Nat] /\ Y[b] = n /\ Y[r] = y
      /\ \A c \in 1..Top : c # b /\ c # r => Y[c] = Z[c]
  BY <1>1, <1>2 DEF Sizes
<1>5. \A c \in N : c \in 1..Top /\ c # r /\ c \in Nat
  BY <1>3, TileWords
<1>6. \A c \in N : c # b => Y[c] = Z[c] /\ After(Y, c) = After(Z, c)
  BY <1>4, <1>5 DEF After
<1>7. After(Y, b) = r /\ After(Y, r) = After(Z, b)
  <2>1. After(Y, b) = b + 1 + Y[b] /\ After(Y, r) = r + 1 + Y[r]
    BY DEF After
  <2> QED  BY <1>2, <1>4, <2>1 DEF e
<1>8. M = N \cup {r} /\ S \subseteq N /\ b \in S
  BY DEF Nodes
<1> HIDE DEF N, M
<1>9. Tiles(A, S \cup {r}, Y)
  <2>1. /\ A \subseteq Usable /\ S \subseteq 1..Top
        /\ \A p \in A : First(p) \in S /\ Z[Sentinel(p)] = 0 /\ Sentinel(p) \in N
        /\ \A c \in S : Z[c] >= MinSize /\ After(Z, c) \in N
        /\ \A c \in S : \E p \in A : First(p) <= c /\ c < Sentinel(p)
        /\ \A c \in S, d \in N : c < d => After(Z, c) <= d
        /\ \A c \in N : c \in Firsts(A) \/ \E d \in S : After(Z, d) = c
    BY DEF Tiles, N, Nodes, Ends
  <2>2. \A p \in A : First(p) \in S \cup {r} /\ Y[Sentinel(p)] = 0
    <3>1. TAKE p \in A
    <3>2. Sentinel(p) # b
      BY Spaced DEF Ends
    <3> QED  BY <1>6, <2>1, <3>2
  <2>3. ASSUME NEW c \in S \cup {r} PROVE Y[c] >= MinSize /\ After(Y, c) \in M
    <3>1. CASE c = b
      BY <1>4, <1>7, <1>8, <3>1 DEF MinSize
    <3>2. CASE c = r
      <4>1. Y[r] >= MinSize
        BY <1>2, <1>4 DEF MinSize
      <4> QED  BY <1>0, <1>7, <1>8, <3>2, <4>1 DEF e
    <3>3. CASE c \in S /\ c # b
      BY <1>6, <1>8, <2>1, <3>3
    <3> QED  BY <3>1, <3>2, <3>3
  <2>4. ASSUME NEW c \in S \cup {r} PROVE \E p \in A : First(p) <= c /\ c < Sentinel(p)
    <3>1. CASE c = r
      <4>1. PICK p \in A : First(p) <= b /\ b < Sentinel(p)
        BY <2>1
      <4>2. e <= Sentinel(p) /\ First(p) \in Nat /\ Sentinel(p) \in Nat
        <5>1. After(Z, b) <= Sentinel(p)
          BY <2>1, <4>1
        <5> QED  BY <2>1, <5>1, Places DEF e
      <4>3. First(p) <= r /\ r < Sentinel(p)
        BY <1>1, <1>2, <4>1, <4>2
      <4> QED  BY <3>1, <4>3
    <3> QED  BY <2>1, <3>1
  <2>5. ASSUME NEW c \in S \cup {r}, NEW d \in M, c < d PROVE After(Y, c) <= d
    <3>1. CASE c \in S /\ c # b /\ d \in N
      BY <1>6, <1>8, <2>1, <2>5, <3>1
    <3>2. CASE c \in S /\ c # b /\ d = r
      <4>0. c \in N /\ After(Z, c) \in N /\ c < r
        BY <1>8, <2>1, <2>5, <3>2
      <4>1. After(Z, c) = After(Y, c) /\ c \in Nat /\ After(Z, c) \in Nat
        BY <1>5, <1>6, <3>2, <4>0
      <4>2. c < b
        <5>1. SUFFICES ASSUME b < c PROVE FALSE
          BY <1>1, <3>2, <4>1
        <5>2. e <= c
          BY <1>8, <2>1, <3>2, <5>1 DEF e
        <5> QED  BY <1>1, <1>2, <4>0, <4>1, <5>2
      <4>3. After(Z, c) <= b
        BY <1>8, <2>1, <3>2, <4>2
      <4> QED  BY <1>1, <1>2, <3>2, <4>1, <4>3
    <3>3. CASE c = b /\ d \in N
      <4>1. e <= d /\ d \in Nat
        BY <1>5, <2>1, <2>5, <3>3 DEF e
      <4> QED  BY <1>1, <1>2, <1>7, <3>3, <4>1
    <3>4. CASE c = b /\ d = r
      BY <1>2, <1>7, <3>4
    <3>5. CASE c = r /\ d \in N
      <4>0. r < d /\ d \in Nat
        BY <1>5, <2>5, <3>5
      <4>1. b < d
        BY <1>1, <1>2, <4>0
      <4>2. After(Z, b) <= d
        BY <2>1, <3>5, <4>1
      <4> QED  BY <1>7, <3>5, <4>2
    <3>6. ~(c = r /\ d = r)
      BY <1>2, <2>5
    <3> QED  BY <1>8, <3>1, <3>2, <3>3, <3>4, <3>5, <3>6
  <2>6. ASSUME NEW c \in M PROVE c \in Firsts(A) \/ \E d \in S \cup {r} : After(Y, d) = c
    <3>1. CASE c = r
      BY <1>7, <3>1
    <3>2. CASE c \in N
      <4>1. CASE c \notin Firsts(A)
        <5>1. PICK d \in S : After(Z, d) = c
          BY <2>1, <3>2, <4>1
        <5>2. CASE d = b
          BY <1>7, <5>1, <5>2
        <5>3. CASE d # b
          BY <1>6, <1>8, <5>1, <5>3
        <5> QED  BY <5>2, <5>3
      <4> QED  BY <4>1
    <3> QED  BY <1>8, <3>1, <3>2
  <2>7. S \cup {r} \subseteq 1..Top /\ Y \in Sizes
    BY <1>2, <1>4, <2>1 DEF Sizes
  <2> QED  BY <2>1, <2>2, <2>3, <2>4, <2>5, <2>6, <2>7 DEF Tiles, M
<1> QED  BY <1>2, <1>3, <1>4, <1>6, <1>7, <1>8, <1>9 DEF N

\* So does merging a block with the one behind it.
LEMMA MergeTiles ==
    ASSUME NEW A, NEW S, NEW Z, Tiles(A, S, Z), NEW b \in S, NEW c \in S, c = After(Z, b),
           NEW Y, Y \in Sizes, Y[b] = Z[b] + Z[c] + 1, \A d \in 1..Top \ {b} : Y[d] = Z[d]
    PROVE  /\ Tiles(A, S \ {c}, Y) /\ b # c /\ Nodes(A, S \ {c}) = Nodes(A, S) \ {c}
           /\ After(Y, b) = After(Z, c) /\ \A d \in Nodes(A, S) : d # b => Y[d] = Z[d]
           /\ \A d \in S : d # b => After(Y, d) = After(Z, d)
<1> DEFINE N == Nodes(A, S)
           M == Nodes(A, S \ {c})
           e == After(Z, c)
<1>1. /\ Z[b] \in Nat /\ Z[c] \in Nat /\ c = b + 1 + Z[b] /\ e = c + 1 + Z[c]
      /\ e \in N /\ b \in N /\ c \in N /\ Z[b] >= 3 /\ Z[c] >= 3 /\ Top \in Nat
  BY TileWords
<1>2. b \in Nat /\ c \in Nat /\ e \in Nat
  BY <1>1, TileWords
<1> HIDE DEF e
<1>3. b < c /\ c < e
  BY <1>1, <1>2
<1>4. \A d \in N : d \in 1..Top /\ d \in Nat
  BY TileWords
<1>5. M = N \ {c} /\ S \subseteq N
  <2>1. c \notin Ends(A)
    BY Spaced
  <2> QED  BY <2>1 DEF Nodes
<1>6. \A d \in N : d # b => Y[d] = Z[d] /\ After(Y, d) = After(Z, d)
  BY <1>4 DEF After
<1>7. After(Y, b) = e
  <2>1. PICK x \in Nat, y \in Nat : x = Z[b] /\ y = Z[c]
    BY <1>1
  <2>2. After(Y, b) = b + 1 + (x + y + 1)
    BY <2>1 DEF After
  <2> QED  BY <1>1, <1>2, <2>1, <2>2
<1> HIDE DEF N, M
<1>8. /\ A \subseteq Usable /\ S \subseteq 1..Top
      /\ \A p \in A : First(p) \in S /\ Z[Sentinel(p)] = 0 /\ Sentinel(p) \in N
      /\ \A d \in S : Z[d] >= MinSize /\ After(Z, d) \in N
      /\ \A d \in S : \E p \in A : First(p) <= d /\ d < Sentinel(p)
      /\ \A d \in S, u \in N : d < u => After(Z, d) <= u
      /\ \A d \in N : d \in Firsts(A) \/ \E u \in S : After(Z, u) = d
  BY DEF Tiles, N, Nodes, Ends
<1>9. \A p \in A : First(p) \in S \ {c} /\ Y[Sentinel(p)] = 0
  <2>1. TAKE p \in A
  <2>2. Sentinel(p) # b /\ c # First(p)
    BY Spaced DEF Ends, Firsts
  <2> QED  BY <1>6, <1>8, <2>2
<1>10. ASSUME NEW d \in S \ {c} PROVE Y[d] >= MinSize /\ After(Y, d) \in M
  <2>1. CASE d = b
    <3>1. Y[b] >= MinSize
      BY <1>1 DEF MinSize
    <3>2. e \in M
      BY <1>1, <1>2, <1>3, <1>5
    <3> QED  BY <1>7, <2>1, <3>1, <3>2
  <2>2. CASE d # b
    <3>1. After(Z, d) # c
      BY <2>2, Spaced
    <3> QED  BY <1>5, <1>6, <1>8, <2>2, <3>1
  <2> QED  BY <2>1, <2>2
<1>11. ASSUME NEW d \in S \ {c}, NEW u \in M, d < u PROVE After(Y, d) <= u
  <2>1. CASE d = b
    <3>1. c <= u /\ u # c /\ u \in Nat /\ u \in N
      BY <1>4, <1>5, <1>8, <1>11, <2>1
    <3>2. c < u
      BY <1>2, <3>1
    <3>3. e <= u
      BY <1>8, <3>1, <3>2 DEF e
    <3> QED  BY <1>7, <2>1, <3>3
  <2>2. CASE d # b
    BY <1>5, <1>6, <1>8, <1>11, <2>2
  <2> QED  BY <2>1, <2>2
<1>12. ASSUME NEW d \in M PROVE d \in Firsts(A) \/ \E u \in S \ {c} : After(Y, u) = d
  <2>1. SUFFICES ASSUME d \notin Firsts(A) PROVE \E u \in S \ {c} : After(Y, u) = d
    OBVIOUS
  <2>2. PICK u \in S : After(Z, u) = d
    BY <1>5, <1>8, <2>1
  <2>3. CASE u = c
    BY <1>2, <1>3, <1>7, <2>2, <2>3 DEF e
  <2>4. CASE u # c
    <3>1. u # b
      BY <1>5, <2>2
    <3> QED  BY <1>5, <1>6, <2>2, <2>4, <3>1
  <2> QED  BY <2>3, <2>4
<1>13. Tiles(A, S \ {c}, Y)
  BY <1>8, <1>9, <1>10, <1>11, <1>12 DEF Tiles, M
<1> QED  BY <1>2, <1>3, <1>5, <1>6, <1>7, <1>13 DEF N, M, e

\* A new pool is one block.
LEMMA AddTiles ==
    ASSUME NEW A, NEW S, NEW Z, Tiles(A, S, Z), NEW p \in Usable \ A,
           NEW Y, Y \in Sizes, Y[First(p)] = PoolWords[p] - 2, Y[Sentinel(p)] = 0,
           \A d \in 1..Top \ {First(p), Sentinel(p)} : Y[d] = Z[d]
    PROVE  /\ Tiles(A \cup {p}, S \cup {First(p)}, Y)
           /\ Nodes(A \cup {p}, S \cup {First(p)}) = Nodes(A, S) \cup {First(p), Sentinel(p)}
           /\ After(Y, First(p)) = Sentinel(p)
           /\ \A d \in Nodes(A, S) : d # First(p) /\ d # Sentinel(p) /\ Y[d] = Z[d]
                                     /\ After(Y, d) = After(Z, d)
           /\ \A d \in Nodes(A, S) : d < First(p) \/ Sentinel(p) < d
           /\ \A b \in S : After(Z, b) < First(p) \/ Sentinel(p) < b
<1> DEFINE N == Nodes(A, S)
           f == First(p)
           s == Sentinel(p)
           T == S \cup {f}
           B == A \cup {p}
           M == Nodes(B, T)
<1>1. /\ A \subseteq Usable /\ S \subseteq 1..Top /\ S \subseteq N
      /\ \A q \in A : First(q) \in S /\ Z[Sentinel(q)] = 0 /\ Sentinel(q) \in N
      /\ \A d \in S : Z[d] >= MinSize /\ After(Z, d) \in N
      /\ \A d \in S : \E q \in A : First(q) <= d /\ d < Sentinel(q)
      /\ \A d \in S, u \in N : d < u => After(Z, d) <= u
      /\ \A d \in N : d \in Firsts(A) \/ \E u \in S : After(Z, u) = d
  BY DEF Tiles, Nodes, Ends
<1>2. M = N \cup {f, s}
  BY DEF Nodes, Ends
<1>3. /\ f \in Nat /\ f >= 3 /\ s \in Nat /\ s = f + PoolWords[p] - 1 /\ s + 1 <= Top
      /\ PoolWords[p] \in Nat /\ PoolWords[p] - 2 >= 3 /\ f + 4 <= s /\ Top \in Nat
  BY Places
<1> HIDE DEF f, s, N, M
<1>4. ASSUME NEW d \in N PROVE d \in Nat /\ d \in 1..Top /\ (d + 1 <= f \/ s < d)
  <2>1. d \in Nat /\ d \in 1..Top
    BY TileWords DEF N
  <2>2. PICK q \in A : First(q) <= d /\ d <= Sentinel(q)
    <3>1. CASE d \in S
      <4>1. PICK q \in A : First(q) <= d /\ d < Sentinel(q)
        BY <1>1, <3>1
      <4>2. d <= Sentinel(q)
        <5>1. Sentinel(q) \in Nat
          BY <1>1, Places
        <5> QED  BY <2>1, <4>1, <5>1
      <4> QED  BY <4>1, <4>2
    <3>2. ASSUME NEW q \in A, d = Sentinel(q) PROVE First(q) <= d /\ d <= Sentinel(q)
      <4>1. First(q) \in Nat /\ Sentinel(q) \in Nat /\ First(q) + 4 <= Sentinel(q)
        BY <1>1, Places
      <4> QED  BY <3>2, <4>1
    <3> QED  BY <3>1, <3>2 DEF N, Nodes, Ends
  <2>3. q \in Usable /\ q # p /\ p \in Usable
    BY <1>1
  <2>4. Sentinel(q) + 1 <= f \/ s < First(q)
    <3>1. /\ PoolAt[p] \in 4..Top /\ PoolWords[p] \in Nat /\ PoolAt[q] \in 4..Top /\ PoolWords[q] \in Nat
          /\ Top \in Nat
      BY <2>3, HeapAssumption DEF HeapAssumption, Usable
    <3>2. PoolAt[p] + PoolWords[p] <= PoolAt[q] \/ PoolAt[q] + PoolWords[q] <= PoolAt[p]
      BY <2>3, PoolAssumption DEF PoolAssumption, Usable
    <3> QED  BY <3>1, <3>2 DEF First, Sentinel, Overhead, f, s
  <2>5. First(q) \in Nat /\ Sentinel(q) \in Nat
    BY <2>3, Places
  <2> QED  BY <1>3, <2>1, <2>2, <2>4, <2>5
<1>5. f \in 1..Top /\ s \in 1..Top /\ f < s
  BY <1>3
<1>6. \A d \in N : d # f /\ d # s /\ Y[d] = Z[d] /\ After(Y, d) = After(Z, d)
  <2>1. TAKE d \in N
  <2>2. d \in 1..Top /\ d # f /\ d # s
    BY <1>3, <1>4
  <2> QED  BY <2>2 DEF After, f, s
<1>7. Y[f] = PoolWords[p] - 2 /\ Y[s] = 0 /\ After(Y, f) = s
  BY <1>3 DEF After, f, s
<1>8. \A d \in S : After(Z, d) < f \/ s < d
  <2>1. TAKE d \in S
  <2>2. After(Z, d) \in N /\ d \in N /\ d + 4 <= After(Z, d)
    BY <1>1, TileWords
  <2>3. /\ d \in Nat /\ After(Z, d) \in Nat /\ (After(Z, d) + 1 <= f \/ s < After(Z, d))
        /\ (d + 1 <= f \/ s < d)
    BY <1>4, <2>2
  <2>4. ~(d + 1 <= f /\ s < After(Z, d))
    <3>1. SUFFICES ASSUME d + 1 <= f, s < After(Z, d) PROVE FALSE
      OBVIOUS
    <3>2. PICK q \in A : First(q) <= d /\ d < Sentinel(q)
      BY <1>1
    <3>3. After(Z, d) <= Sentinel(q)
      BY <1>1, <3>2
    <3>4. First(q) \in Nat /\ Sentinel(q) \in Nat
      BY <1>1, Places
    <3>5. Sentinel(q) < f \/ s < First(q)
      BY <1>1, PoolsApart DEF f, s
    <3> QED  BY <1>3, <2>3, <3>1, <3>2, <3>3, <3>4, <3>5
  <2> QED  BY <1>3, <2>3, <2>4
<1>9. \A q \in B : First(q) \in T /\ Y[Sentinel(q)] = 0
  BY <1>1, <1>6, <1>7 DEF f, s
<1>10. ASSUME NEW d \in T PROVE Y[d] >= MinSize /\ After(Y, d) \in M
  <2>1. CASE d = f
    BY <1>2, <1>3, <1>7, <2>1 DEF MinSize
  <2>2. CASE d \in S
    BY <1>1, <1>2, <1>6, <2>2
  <2> QED  BY <2>1, <2>2
<1>11. \A d \in T : \E q \in B : First(q) <= d /\ d < Sentinel(q)
  <2>1. First(p) <= f /\ f < Sentinel(p)
    BY <1>3, <1>5 DEF f, s
  <2> QED  BY <1>1, <2>1
<1>12. ASSUME NEW d \in T, NEW u \in M, d < u PROVE After(Y, d) <= u
  <2>1. CASE d \in S /\ u \in N
    BY <1>1, <1>6, <1>12, <2>1
  <2>2. CASE d = f /\ u \in N
    BY <1>3, <1>4, <1>7, <1>12, <2>2
  <2>3. CASE d = f /\ u \notin N
    BY <1>2, <1>3, <1>7, <1>12, <2>3
  <2>4. CASE d \in S /\ u \in {f, s}
    <3>1. After(Z, d) < f \/ s < d
      BY <1>8, <2>4
    <3>2. d \in Nat /\ After(Z, d) \in Nat /\ After(Y, d) = After(Z, d)
      BY <1>1, <1>4, <1>6, <2>4
    <3> QED  BY <1>3, <1>12, <2>4, <3>1, <3>2
  <2> QED  BY <1>2, <2>1, <2>2, <2>3, <2>4
<1>13. ASSUME NEW d \in M PROVE d \in Firsts(B) \/ \E u \in T : After(Y, u) = d
  <2>1. CASE d \in N
    <3>1. d \in Firsts(A) => d \in Firsts(B)
      BY DEF Firsts
    <3> QED  BY <1>1, <1>6, <2>1, <3>1
  <2>2. CASE d = f
    BY <2>2 DEF Firsts, f
  <2>3. CASE d = s
    BY <1>7, <2>3
  <2> QED  BY <1>2, <2>1, <2>2, <2>3
<1>14. Tiles(B, T, Y)
  <2>1. B \subseteq Usable /\ T \subseteq 1..Top
    BY <1>1, <1>5
  <2> QED  BY <1>9, <1>10, <1>11, <1>12, <1>13, <2>1 DEF Tiles, M
<1>15. \A d \in N : d < f \/ s < d
  BY <1>3, <1>4
<1> QED  BY <1>2, <1>6, <1>7, <1>8, <1>14, <1>15 DEF f, s, N, M

\* A pool that is one block can go.
LEMMA RemoveTiles ==
    ASSUME NEW A, NEW S, NEW Z, Tiles(A, S, Z), NEW p \in A, After(Z, First(p)) = Sentinel(p)
    PROVE  /\ Tiles(A \ {p}, S \ {First(p)}, Z)
           /\ Nodes(A \ {p}, S \ {First(p)}) = Nodes(A, S) \ {First(p), Sentinel(p)}
<1> DEFINE f == First(p)
           s == Sentinel(p)
           N == Nodes(A, S)
           M == Nodes(A \ {p}, S \ {f})
<1>1. /\ A \subseteq Usable /\ S \subseteq 1..Top /\ S \subseteq N /\ f \in S /\ s \in N
      /\ \A q \in A : First(q) \in S /\ Z[Sentinel(q)] = 0 /\ Sentinel(q) \in N
      /\ \A d \in S : Z[d] >= MinSize /\ After(Z, d) \in N
      /\ \A d \in S : \E q \in A : First(q) <= d /\ d < Sentinel(q)
      /\ \A d \in S, u \in N : d < u => After(Z, d) <= u
      /\ \A d \in N : d \in Firsts(A) \/ \E u \in S : After(Z, u) = d
      /\ Z \in Sizes
  BY DEF Tiles, Nodes, Ends
<1>2. /\ \A d \in S : d \notin Ends(A) /\ After(Z, d) \notin Firsts(A)
      /\ \A d, u \in S : After(Z, d) = After(Z, u) => d = u
      /\ f \notin Ends(A) /\ f \in Firsts(A) /\ s \in Ends(A)
  BY <1>1, Spaced DEF Ends, Firsts
<1>3. \A q \in A : q # p => First(q) # f /\ Sentinel(q) # s
  <2>1. TAKE q \in A
  <2>2. HAVE q # p
  <2>3. s < First(q) \/ Sentinel(q) < f
    BY <1>1, <2>2, PoolsApart
  <2>4. /\ First(q) \in Nat /\ Sentinel(q) \in Nat /\ First(q) + 4 <= Sentinel(q)
        /\ f \in Nat /\ s \in Nat /\ f + 4 <= s
    BY <1>1, Places
  <2> QED  BY <2>3, <2>4
<1>4. Ends(A \ {p}) = Ends(A) \ {s} /\ Firsts(A \ {p}) = Firsts(A) \ {f}
  BY <1>3 DEF Ends, Firsts
<1>5. M = N \ {f, s}
  BY <1>2, <1>4 DEF Nodes
<1>6. ASSUME NEW d \in S \ {f} PROVE \E q \in A \ {p} : First(q) <= d /\ d < Sentinel(q)
  <2>1. PICK q \in A : First(q) <= d /\ d < Sentinel(q)
    BY <1>1
  <2>2. q # p
    <3>1. SUFFICES ASSUME q = p PROVE FALSE
      OBVIOUS
    <3>2. f \in Nat /\ s \in Nat /\ d \in Nat
      <4>1. p \in Usable
        BY <1>1
      <4>2. f \in Nat /\ s \in Nat
        BY <4>1, Places
      <4>3. d \in Nat
        BY <1>1
      <4> QED  BY <4>2, <4>3
    <3>3. f < d /\ d < s
      BY <2>1, <3>1, <3>2
    <3>4. After(Z, f) <= d
      BY <1>1, <3>3
    <3> QED  BY <3>2, <3>3, <3>4
  <2> QED  BY <2>1, <2>2
<1>7. \A d \in S \ {f} : After(Z, d) \in M
  <2>1. TAKE d \in S \ {f}
  <2>2. After(Z, d) \in N /\ After(Z, d) # f /\ After(Z, d) # s
    BY <1>1, <1>2
  <2> QED  BY <1>5, <2>2
<1>8. \A d \in M : d \in Firsts(A \ {p}) \/ \E u \in S \ {f} : After(Z, u) = d
  <2>1. TAKE d \in M
  <2>2. d \in N /\ d # f /\ d # s
    BY <1>5
  <2> QED  BY <1>1, <1>4, <2>2
<1>9. \A q \in A \ {p} : First(q) \in S \ {f}
  BY <1>1, <1>3
<1> QED
  <2>1. A \ {p} \subseteq Usable /\ S \ {f} \subseteq 1..Top
    BY <1>1
  <2>2. \A d \in S \ {f}, u \in M : d < u => After(Z, d) <= u
    BY <1>1, <1>5
  <2> HIDE DEF f, s, M, N
  <2>3. Tiles(A \ {p}, S \ {f}, Z)
    BY <1>1, <1>6, <1>7, <1>8, <1>9, <2>1, <2>2 DEF Tiles, M
  <2> QED  BY <1>5, <2>3 DEF f, s, M, N

\* The words of different blocks, and of different fields, are different.
LEMMA WordsApart ==
    ASSUME NEW A, NEW S, NEW Z, Tiles(A, S, Z)
    PROVE  /\ \A c \in Nodes(A, S), d \in S : c + 1 # d + 2 /\ c + 1 # d + 3
           /\ \A c \in Nodes(A, S), d \in Nodes(A, S) : c + 1 = d + 1 => c = d
           /\ \A b, d \in S : After(Z, b) # d + 2 /\ After(Z, b) # d + 3
           /\ \A b \in S, c \in Nodes(A, S) : After(Z, b) # c + 1
           /\ \A b, d \in S : b + 2 # d + 3 /\ (b + 2 = d + 2 => b = d) /\ (b + 3 = d + 3 => b = d)
<1>1. \A c \in Nodes(A, S) : c \in Nat
  BY TileWords
<1>2. \A c \in S : c \in Nodes(A, S) /\ After(Z, c) \in Nodes(A, S)
  BY TileWords
<1>3. \A b \in S, c \in Nodes(A, S) : b < c => b + 4 <= c
  BY Spaced
<1>4. ASSUME NEW d \in S, NEW c \in Nodes(A, S)
      PROVE  c + 1 # d + 2 /\ c + 1 # d + 3 /\ c # d + 2 /\ c # d + 3
  <2>1. d \in Nat /\ c \in Nat /\ (d < c => d + 4 <= c)
    BY <1>1, <1>2, <1>3
  <2> QED  BY <2>1
<1>5. ASSUME NEW b \in S, NEW c \in Nodes(A, S) PROVE After(Z, b) # c + 1
  <2>1. CASE c \in S
    <3>1. c \in Nat /\ After(Z, b) \in Nat /\ (c < After(Z, b) => c + 4 <= After(Z, b))
      BY <1>1, <1>2, <1>3, <2>1
    <3> QED  BY <3>1
  <2>2. ASSUME NEW q \in A, c = Sentinel(q) PROVE After(Z, b) # c + 1
    <3>1. SUFFICES ASSUME After(Z, b) = c + 1 PROVE FALSE
      OBVIOUS
    <3>2. PICK p \in A : First(p) <= b /\ b < Sentinel(p)
      BY DEF Tiles
    <3>3. Sentinel(p) \in Nodes(A, S) /\ p \in Usable /\ q \in Usable
      BY DEF Nodes, Ends, Tiles
    <3>4. After(Z, b) <= Sentinel(p)
      BY <3>2, <3>3, Spaced
    <3>5. /\ First(p) \in Nat /\ Sentinel(p) \in Nat /\ First(q) \in Nat /\ Sentinel(q) \in Nat
          /\ First(p) + 4 <= Sentinel(p) /\ First(q) + 4 <= Sentinel(q)
      BY <3>3, Places
    <3>6. b \in Nat /\ After(Z, b) \in Nat /\ b + 4 <= After(Z, b) /\ c \in Nat
      BY <1>1, <1>2, TileWords
    <3>7. CASE p = q
      BY <2>2, <3>1, <3>4, <3>5, <3>6, <3>7
    <3>8. CASE p # q
      <4>1. Sentinel(p) < First(q) \/ Sentinel(q) < First(p)
        BY <3>3, <3>8, PoolsApart
      <4> QED  BY <2>2, <3>1, <3>2, <3>4, <3>5, <3>6, <4>1
    <3> QED  BY <3>7, <3>8
  <2> QED  BY <2>1, <2>2 DEF Nodes, Ends
<1>6. ASSUME NEW b \in S, NEW d \in S
      PROVE  b + 2 # d + 3 /\ (b + 2 = d + 2 => b = d) /\ (b + 3 = d + 3 => b = d)
  <2>1. b \in Nat /\ d \in Nat /\ (d < b => d + 4 <= b)
    BY <1>1, <1>2, <1>3
  <2> QED  BY <2>1
<1>7. \A c, d \in Nodes(A, S) : c + 1 = d + 1 => c = d
  BY <1>1
<1> QED  BY <1>2, <1>4, <1>5, <1>6, <1>7

\* The words a caller of the block at u may write.
Payload(Z, u) == u + 2..After(Z, u)

\* A caller's words are in no size word, and in no other block.
LEMMA PayloadApart ==
    ASSUME NEW A, NEW S, NEW Z, Tiles(A, S, Z), NEW u \in S, NEW a \in Payload(Z, u)
    PROVE  /\ a \in 1..Top
           /\ \A c \in Nodes(A, S) : a # c + 1
           /\ \A b \in S : b # u => a # After(Z, b) /\ a # b + 2 /\ a # b + 3 /\ a \notin Payload(Z, b)
<1>1. /\ u \in Nat /\ After(Z, u) \in Nat /\ u + 4 <= After(Z, u) /\ After(Z, u) \in 1..Top
      /\ u \in Nodes(A, S) /\ After(Z, u) \in Nodes(A, S)
  BY TileWords
<1>2. a \in Nat /\ u + 2 <= a /\ a <= After(Z, u) /\ Top \in Nat
  BY <1>1, TileWords DEF Payload
<1>3. a \in 1..Top
  BY <1>1, <1>2
<1>4. ASSUME NEW c \in Nodes(A, S) PROVE a # c + 1
  <2>1. /\ c \in Nat /\ (u < c => After(Z, u) <= c)
    BY TileWords, Spaced
  <2> QED  BY <1>1, <1>2, <2>1
<1>5. ASSUME NEW b \in S, b # u
      PROVE  a # After(Z, b) /\ a # b + 2 /\ a # b + 3 /\ a \notin Payload(Z, b)
  <2>1. /\ b \in Nat /\ After(Z, b) \in Nat /\ b + 4 <= After(Z, b)
        /\ (u < b => After(Z, u) <= b) /\ (b < u => After(Z, b) <= u)
    BY TileWords, Spaced
  <2> QED  BY <1>1, <1>2, <1>5, <2>1 DEF Payload
<1> QED  BY <1>3, <1>4, <1>5

-----------------------------------------------------------------------------
(* What the heap says.  F: blocks with the flag of a free block; P: blocks  *)
(* the next one takes for free; B: blocks the next one has a link to; L:    *)
(* blocks in a list, R: numbers that fall along it; W: words of live blocks.*)

\* Sizes, flags and links between neighbours.
Tags(h, A, S, Z, F, P, B) ==
    /\ \A c \in Nodes(A, S) :
         /\ block_size(h, c) = Z[c]
         /\ block_is_free(h, c) <=> c \in F
         /\ block_is_prev_free(h, c) <=> \E b \in P : After(Z, b) = c
    /\ \A b \in B : h.mem[After(Z, b)] = b

ClassOf(Z, b) == mapping_insert(Z[b])

\* The free lists and their bits.
Lists(h, Z, L, R) ==
    /\ R \in [1..Top -> Nat]
    /\ h.fl = {f \in 0..FlMax : h.sl[f] # {}}
    /\ \A c \in Class :
         /\ c[2] \in h.sl[c[1]] <=> h.head[c] # Null
         /\ h.head[c] # Null => /\ h.head[c] \in L /\ ClassOf(Z, h.head[c]) = c
                                /\ h.mem[h.head[c] + 3] = Null
    /\ \A b \in L :
         /\ h.mem[b + 2] # Null => /\ h.mem[b + 2] \in L /\ ClassOf(Z, h.mem[b + 2]) = ClassOf(Z, b)
                                   /\ h.mem[h.mem[b + 2] + 3] = b /\ R[h.mem[b + 2]] < R[b]
         /\ h.mem[b + 3] # Null => /\ h.mem[b + 3] \in L /\ ClassOf(Z, h.mem[b + 3]) = ClassOf(Z, b)
                                   /\ h.mem[h.mem[b + 3] + 2] = b
         /\ h.mem[b + 3] = Null => h.head[ClassOf(Z, b)] = b

\* Words that the callers have written and that are theirs.
Kept(h, S, Z, F, W) ==
    \A a \in W : h.mem[a] = Data /\ \E u \in S \ F : a \in Payload(Z, u)

Rep(h, A, S, Z, F, P, B, L, R, W) ==
    /\ h \in HeapType /\ Tiles(A, S, Z)
    /\ F \subseteq S /\ P \subseteq S /\ B \subseteq S /\ L \subseteq F
    /\ Tags(h, A, S, Z, F, P, B) /\ Lists(h, Z, L, R) /\ Kept(h, S, Z, F, W)

\* The lists are what they were when no link is written.
LEMMA ListsFrame ==
    ASSUME NEW h, NEW k, NEW D, WritesOnly(h, k, D), NEW A, NEW S, NEW Z, Tiles(A, S, Z),
           NEW L \in SUBSET S, NEW R, Lists(h, Z, L, R), \A l \in L : l + 2 \notin D /\ l + 3 \notin D
    PROVE  Lists(k, Z, L, R)
<1>1. /\ k.head = h.head /\ k.fl = h.fl /\ k.sl = h.sl
      /\ \A a \in 1..Top : a \notin D => k.mem[a] = h.mem[a]
  BY DEF WritesOnly
<1>2. \A l \in L : l + 2 \in 1..Top /\ l + 3 \in 1..Top
  BY TileWords
<1>3. \A l \in L : k.mem[l + 2] = h.mem[l + 2] /\ k.mem[l + 3] = h.mem[l + 3]
  BY <1>1, <1>2
<1>4. \A c \in Class : h.head[c] # Null => k.mem[h.head[c] + 3] = h.mem[h.head[c] + 3]
  BY <1>3 DEF Lists
<1>5. \A b \in L : h.mem[b + 2] # Null => k.mem[h.mem[b + 2] + 3] = h.mem[h.mem[b + 2] + 3]
  BY <1>3 DEF Lists
<1>6. \A b \in L : h.mem[b + 3] # Null => k.mem[h.mem[b + 3] + 2] = h.mem[h.mem[b + 3] + 2]
  BY <1>3 DEF Lists
<1> QED  BY <1>1, <1>3, <1>4, <1>5, <1>6 DEF Lists

\* So are the words of the callers when none of them is.
LEMMA KeptFrame ==
    ASSUME NEW h, NEW k, NEW D, WritesOnly(h, k, D), NEW A, NEW S, NEW Z, Tiles(A, S, Z),
           NEW F, NEW W, Kept(h, S, Z, F, W), \A a \in W : a \notin D
    PROVE  Kept(k, S, Z, F, W)
<1>1. \A a \in W : a \in 1..Top
  BY PayloadApart DEF Kept
<1> QED  BY <1>1 DEF Kept, WritesOnly

\* The word of c says what is true for G and Q, which are F and P but for that.
Retags(k, c, S, Z, F, P, G, Q, W) ==
    /\ G \subseteq S /\ Q \subseteq S /\ block_size(k, c) = Z[c]
    /\ block_is_free(k, c) <=> c \in G
    /\ block_is_prev_free(k, c) <=> \E b \in Q : After(Z, b) = c
    /\ \A d \in S : d # c => (d \in G <=> d \in F)
    /\ \A d \in S : After(Z, d) # c => (d \in Q <=> d \in P)
    /\ c \in G => \A a \in W : a \notin Payload(Z, c)

\* One word with a size and flags is written.
LEMMA Retag ==
    ASSUME NEW h, NEW A, NEW S, NEW Z, NEW F, NEW P, NEW B, NEW L, NEW R, NEW W,
           Rep(h, A, S, Z, F, P, B, L, R, W),
           NEW c \in Nodes(A, S), NEW k, WritesOnly(h, k, {c + 1}),
           NEW G, NEW Q, L \subseteq G, Retags(k, c, S, Z, F, P, G, Q, W)
    PROVE  Rep(k, A, S, Z, G, Q, B, L, R, W)
<1>1. /\ Tiles(A, S, Z) /\ F \subseteq S /\ P \subseteq S /\ B \subseteq S /\ L \subseteq F
      /\ Tags(h, A, S, Z, F, P, B) /\ Lists(h, Z, L, R) /\ Kept(h, S, Z, F, W) /\ h \in HeapType
  BY DEF Rep
<1>2. Lists(k, Z, L, R)
  <2>1. \A l \in L : l + 2 \notin {c + 1} /\ l + 3 \notin {c + 1}
    BY <1>1, WordsApart
  <2>2. L \in SUBSET S
    BY <1>1
  <2> QED  BY <1>1, <2>1, <2>2, ListsFrame
<1>3. Kept(k, S, Z, G, W)
  <2>1. \A a \in W : a \notin {c + 1}
    BY <1>1, PayloadApart DEF Kept
  <2>2. Kept(k, S, Z, F, W)
    BY <1>1, <2>1, KeptFrame
  <2>3. ASSUME NEW a \in W PROVE \E u \in S \ G : a \in Payload(Z, u)
    <3>1. PICK u \in S \ F : a \in Payload(Z, u)
      BY <2>2 DEF Kept
    <3>2. u \notin G
      BY <3>1 DEF Retags
    <3> QED  BY <3>1, <3>2
  <2> QED  BY <2>2, <2>3 DEF Kept
<1>4. Tags(k, A, S, Z, G, Q, B)
  <2>1. ASSUME NEW d \in Nodes(A, S)
        PROVE  /\ block_size(k, d) = Z[d] /\ (block_is_free(k, d) <=> d \in G)
               /\ block_is_prev_free(k, d) <=> \E b \in Q : After(Z, b) = d
    <3>1. CASE d = c
      BY <3>1 DEF Retags
    <3>2. CASE d # c
      <4>1. d + 1 \in 1..Top /\ d + 1 \notin {c + 1}
        BY <1>1, <3>2, TileWords, WordsApart
      <4>2. Same(h, k, d)
        BY <4>1, SameWord
      <4>3. (\E b \in Q : After(Z, b) = d) <=> \E b \in P : After(Z, b) = d
        BY <1>1, <3>2 DEF Retags
      <4>4. d \in G <=> d \in F
        BY <1>1, <3>2 DEF Retags
      <4> QED  BY <1>1, <4>2, <4>3, <4>4 DEF Same, Tags
    <3> QED  BY <3>1, <3>2
  <2>2. ASSUME NEW b \in B PROVE k.mem[After(Z, b)] = b
    <3>1. After(Z, b) \in 1..Top /\ After(Z, b) # c + 1
      BY <1>1, TileWords, WordsApart
    <3>2. k.mem[After(Z, b)] = h.mem[After(Z, b)]
      BY <3>1 DEF WritesOnly
    <3> QED  BY <1>1, <3>2 DEF Tags
  <2> QED  BY <2>1, <2>2 DEF Tags
<1>5. G \subseteq S /\ Q \subseteq S
  BY DEF Retags
<1> QED  BY <1>1, <1>2, <1>3, <1>4, <1>5 DEF Rep, WritesOnly

\* What a block with its place in the heap is.
LEMMA RepBlock ==
    ASSUME NEW h, NEW A, NEW S, NEW Z, NEW F, NEW P, NEW B, NEW L, NEW R, NEW W,
           Rep(h, A, S, Z, F, P, B, L, R, W), NEW b \in S
    PROVE  /\ h \in HeapType /\ b \in Int /\ b # Null /\ b + 1 \in 1..Top /\ b \in Nodes(A, S)
           /\ block_size(h, b) = Z[b] /\ (block_is_free(h, b) <=> b \in F)
           /\ block_next(h, b) = After(Z, b) /\ After(Z, b) \in Nodes(A, S)
           /\ After(Z, b) \in Int /\ After(Z, b) \in 1..Top /\ After(Z, b) + 1 \in 1..Top
           /\ (block_is_prev_free(h, After(Z, b)) <=> b \in P)
           /\ (block_is_free(h, After(Z, b)) <=> After(Z, b) \in F)
           /\ (block_is_prev_free(h, b) <=> \E d \in P : After(Z, d) = b)
<1>1. h \in HeapType /\ Tiles(A, S, Z) /\ P \subseteq S /\ Tags(h, A, S, Z, F, P, B)
  BY DEF Rep
<1>2. b \in Nat /\ b >= 3 /\ b + 1 \in 1..Top /\ b \in Nodes(A, S) /\ Z[b] \in Nat
  BY <1>1, TileWords
<1>3. After(Z, b) \in Nodes(A, S) /\ After(Z, b) = b + 1 + Z[b]
  BY <1>1, TileWords
<1>4. After(Z, b) \in Int /\ After(Z, b) \in 1..Top /\ After(Z, b) + 1 \in 1..Top
  BY <1>1, <1>3, TileWords
<1>5. block_size(h, b) = Z[b] /\ (block_is_free(h, b) <=> b \in F)
  BY <1>1, <1>2 DEF Tags
<1>6. block_next(h, b) = After(Z, b)
  BY <1>2, <1>3, <1>5 DEF block_next, Overhead
<1>7. block_is_prev_free(h, After(Z, b)) <=> b \in P
  <2>1. (\E d \in P : After(Z, d) = After(Z, b)) <=> b \in P
    BY <1>1, Spaced
  <2> QED  BY <1>1, <1>3, <2>1 DEF Tags
<1>8. block_is_free(h, After(Z, b)) <=> After(Z, b) \in F
  BY <1>1, <1>3 DEF Tags
<1>9. block_is_prev_free(h, b) <=> \E d \in P : After(Z, d) = b
  BY <1>1, <1>2 DEF Tags
<1>10. b # Null /\ b \in Int
  BY <1>2 DEF Null
<1> QED  BY <1>1, <1>2, <1>3, <1>4, <1>5, <1>6, <1>7, <1>8, <1>9, <1>10

\* block_set_free, in a heap that is well-formed.
LEMMA RepSetFree ==
    ASSUME NEW h, NEW A, NEW S, NEW Z, NEW F, NEW P, NEW B, NEW L, NEW R, NEW W,
           Rep(h, A, S, Z, F, P, B, L, R, W), NEW b \in S, \A a \in W : a \notin Payload(Z, b),
           NEW k, k = block_set_free(h, b)
    PROVE  Rep(k, A, S, Z, F \cup {b}, P, B, L, R, W)
<1>1. h \in HeapType /\ b \in Int /\ b + 1 \in 1..Top /\ b \in Nodes(A, S) /\ block_size(h, b) = Z[b]
      /\ (block_is_prev_free(h, b) <=> \E d \in P : After(Z, d) = b)
  BY RepBlock
<1>2. /\ WritesOnly(h, k, {b + 1}) /\ block_size(k, b) = block_size(h, b)
      /\ block_is_free(k, b) /\ (block_is_prev_free(k, b) <=> block_is_prev_free(h, b))
  BY <1>1, SetFree
<1>3. PICK G : G = F \cup {b}
  OBVIOUS
<1>4. /\ G \in SUBSET S /\ P \in SUBSET S /\ L \subseteq G /\ b \in G
      /\ \A d \in S : d # b => (d \in G <=> d \in F)
  BY <1>3 DEF Rep
<1>5. /\ block_size(k, b) = Z[b] /\ (block_is_free(k, b) <=> b \in G)
      /\ (block_is_prev_free(k, b) <=> \E d \in P : After(Z, d) = b)
  BY <1>1, <1>2, <1>4
<1>6. Retags(k, b, S, Z, F, P, G, P, W)
  BY <1>4, <1>5 DEF Retags
<1>7. b \in Nodes(A, S) /\ WritesOnly(h, k, {b + 1}) /\ L \subseteq G
  BY <1>1, <1>2, <1>4
<1>8. Rep(k, A, S, Z, G, P, B, L, R, W)
  BY <1>6, <1>7, Retag
<1> QED  BY <1>3, <1>8

\* block_set_used.
LEMMA RepSetUsed ==
    ASSUME NEW h, NEW A, NEW S, NEW Z, NEW F, NEW P, NEW B, NEW L, NEW R, NEW W,
           Rep(h, A, S, Z, F, P, B, L, R, W), NEW b \in S, b \notin L,
           NEW k, k = block_set_used(h, b)
    PROVE  Rep(k, A, S, Z, F \ {b}, P, B, L, R, W)
<1>1. h \in HeapType /\ b \in Int /\ b + 1 \in 1..Top /\ b \in Nodes(A, S) /\ block_size(h, b) = Z[b]
      /\ (block_is_prev_free(h, b) <=> \E d \in P : After(Z, d) = b)
  BY RepBlock
<1>2. /\ WritesOnly(h, k, {b + 1}) /\ block_size(k, b) = block_size(h, b)
      /\ ~block_is_free(k, b) /\ (block_is_prev_free(k, b) <=> block_is_prev_free(h, b))
  BY <1>1, SetUsed
<1>3. F \ {b} \in SUBSET S /\ P \in SUBSET S /\ L \subseteq F \ {b}
  BY DEF Rep
<1>4. PICK G : G = F \ {b}
  OBVIOUS
<1>5. /\ G \in SUBSET S /\ P \in SUBSET S /\ L \subseteq G /\ b \notin G
      /\ \A d \in S : d # b => (d \in G <=> d \in F)
  BY <1>3, <1>4
<1>6. /\ block_size(k, b) = Z[b] /\ (block_is_free(k, b) <=> b \in G)
      /\ (block_is_prev_free(k, b) <=> \E d \in P : After(Z, d) = b)
  BY <1>1, <1>2, <1>5
<1>7. Retags(k, b, S, Z, F, P, G, P, W)
  BY <1>5, <1>6 DEF Retags
<1>8. b \in Nodes(A, S) /\ WritesOnly(h, k, {b + 1}) /\ L \subseteq G
  BY <1>1, <1>2, <1>5
<1>9. Rep(k, A, S, Z, G, P, B, L, R, W)
  BY <1>7, <1>8, Retag
<1> QED  BY <1>4, <1>9

\* block_set_prev_free.
LEMMA RepSetPrevFree ==
    ASSUME NEW h, NEW A, NEW S, NEW Z, NEW F, NEW P, NEW B, NEW L, NEW R, NEW W,
           Rep(h, A, S, Z, F, P, B, L, R, W), NEW b \in S,
           NEW c, c = After(Z, b), NEW k, k = block_set_prev_free(h, c)
    PROVE  Rep(k, A, S, Z, F, P \cup {b}, B, L, R, W)
<1>1. /\ Tiles(A, S, Z) /\ h \in HeapType /\ c \in Int /\ c + 1 \in 1..Top /\ c \in Nodes(A, S)
      /\ block_size(h, c) = Z[c] /\ (block_is_free(h, c) <=> c \in F)
  <2>1. c \in Int /\ c + 1 \in 1..Top /\ c \in Nodes(A, S) /\ h \in HeapType
    BY RepBlock
  <2>2. Tags(h, A, S, Z, F, P, B) /\ Tiles(A, S, Z)
    BY DEF Rep
  <2> QED  BY <2>1, <2>2 DEF Tags
<1>2. /\ WritesOnly(h, k, {c + 1}) /\ block_size(k, c) = block_size(h, c)
      /\ (block_is_free(k, c) <=> block_is_free(h, c)) /\ block_is_prev_free(k, c)
  BY <1>1, SetPrevFree
<1>3. F \in SUBSET S /\ P \cup {b} \in SUBSET S /\ L \subseteq F
  BY DEF Rep
<1>4. c \in F => \A a \in W : a \notin Payload(Z, c)
  <2>1. SUFFICES ASSUME c \in F, NEW a \in W PROVE a \notin Payload(Z, c)
    OBVIOUS
  <2>2. PICK u \in S \ F : a \in Payload(Z, u)
    BY DEF Rep, Kept
  <2> QED  BY <1>1, <1>3, <2>1, <2>2, PayloadApart
<1>5. PICK Q : Q = P \cup {b}
  OBVIOUS
<1>6. /\ F \subseteq S /\ Q \subseteq S /\ L \subseteq F /\ b \in Q
      /\ \A d \in S : After(Z, d) # c => (d \in Q <=> d \in P)
  BY <1>3, <1>5
<1>7. /\ block_size(k, c) = Z[c] /\ (block_is_free(k, c) <=> c \in F)
      /\ (block_is_prev_free(k, c) <=> \E d \in Q : After(Z, d) = c)
  BY <1>1, <1>2, <1>6
<1>8. Retags(k, c, S, Z, F, P, F, Q, W)
  BY <1>4, <1>6, <1>7 DEF Retags
<1>9. c \in Nodes(A, S) /\ WritesOnly(h, k, {c + 1})
  BY <1>1, <1>2
<1>10. Rep(k, A, S, Z, F, Q, B, L, R, W)
  BY <1>6, <1>8, <1>9, Retag
<1> QED  BY <1>5, <1>10

\* block_set_prev_used.
LEMMA RepSetPrevUsed ==
    ASSUME NEW h, NEW A, NEW S, NEW Z, NEW F, NEW P, NEW B, NEW L, NEW R, NEW W,
           Rep(h, A, S, Z, F, P, B, L, R, W), NEW b \in S,
           NEW c, c = After(Z, b), NEW k, k = block_set_prev_used(h, c)
    PROVE  Rep(k, A, S, Z, F, P \ {b}, B, L, R, W)
<1>1. /\ Tiles(A, S, Z) /\ h \in HeapType /\ c \in Int /\ c + 1 \in 1..Top /\ c \in Nodes(A, S)
      /\ block_size(h, c) = Z[c] /\ (block_is_free(h, c) <=> c \in F)
  <2>1. c \in Int /\ c + 1 \in 1..Top /\ c \in Nodes(A, S) /\ h \in HeapType
    BY RepBlock
  <2>2. Tags(h, A, S, Z, F, P, B) /\ Tiles(A, S, Z)
    BY DEF Rep
  <2> QED  BY <2>1, <2>2 DEF Tags
<1>2. /\ WritesOnly(h, k, {c + 1}) /\ block_size(k, c) = block_size(h, c)
      /\ (block_is_free(k, c) <=> block_is_free(h, c)) /\ ~block_is_prev_free(k, c)
  BY <1>1, SetPrevUsed
<1>3. F \in SUBSET S /\ P \ {b} \in SUBSET S /\ L \subseteq F
  BY DEF Rep
<1>4. c \in F => \A a \in W : a \notin Payload(Z, c)
  <2>1. SUFFICES ASSUME c \in F, NEW a \in W PROVE a \notin Payload(Z, c)
    OBVIOUS
  <2>2. PICK u \in S \ F : a \in Payload(Z, u)
    BY DEF Rep, Kept
  <2> QED  BY <1>1, <1>3, <2>1, <2>2, PayloadApart
<1>5. PICK Q : Q = P \ {b}
  OBVIOUS
<1>6. ~\E d \in Q : After(Z, d) = c
  BY <1>1, <1>3, <1>5, Spaced DEF Rep
<1>7. /\ F \subseteq S /\ Q \subseteq S /\ L \subseteq F
      /\ \A d \in S : After(Z, d) # c => (d \in Q <=> d \in P)
  BY <1>3, <1>5
<1>8. /\ block_size(k, c) = Z[c] /\ (block_is_free(k, c) <=> c \in F)
      /\ (block_is_prev_free(k, c) <=> \E d \in Q : After(Z, d) = c)
  BY <1>1, <1>2, <1>6
<1>9. Retags(k, c, S, Z, F, P, F, Q, W)
  BY <1>4, <1>7, <1>8 DEF Retags
<1>10. c \in Nodes(A, S) /\ WritesOnly(h, k, {c + 1})
  BY <1>1, <1>2
<1>11. Rep(k, A, S, Z, F, Q, B, L, R, W)
  BY <1>7, <1>9, <1>10, Retag
<1> QED  BY <1>5, <1>11

\* block_link_next: the last word of the block is not its owner's.
LEMMA RepLinkNext ==
    ASSUME NEW h, NEW A, NEW S, NEW Z, NEW F, NEW P, NEW B, NEW L, NEW R, NEW W,
           Rep(h, A, S, Z, F, P, B, L, R, W), NEW b \in S, After(Z, b) \notin W,
           NEW k, k = block_link_next(h, b)
    PROVE  Rep(k, A, S, Z, F, P, B \cup {b}, L, R, W)
<1> DEFINE c == After(Z, b)
<1>1. /\ Tiles(A, S, Z) /\ F \subseteq S /\ P \subseteq S /\ B \subseteq S /\ L \subseteq F
      /\ Tags(h, A, S, Z, F, P, B) /\ Lists(h, Z, L, R) /\ Kept(h, S, Z, F, W)
  BY DEF Rep
<1>2. /\ h \in HeapType /\ block_next(h, b) = c /\ c \in 1..Top /\ b \in Int
  BY RepBlock
<1> HIDE DEF c
<1>3. WritesOnly(h, k, {c}) /\ k.mem[c] = b
  <2>1. k = Put(h, c, b)
    BY <1>2 DEF block_link_next
  <2> QED  BY <1>2, <2>1, PutWord
<1>4. Lists(k, Z, L, R)
  <2>1. \A l \in L : l + 2 \notin {c} /\ l + 3 \notin {c}
    BY <1>1, WordsApart DEF c
  <2>2. L \in SUBSET S
    BY <1>1
  <2> QED  BY <1>1, <1>3, <2>1, <2>2, ListsFrame
<1>5. Kept(k, S, Z, F, W)
  <2>1. \A a \in W : a \notin {c}
    BY DEF c
  <2> QED  BY <1>1, <1>3, <2>1, KeptFrame
<1>6. Tags(k, A, S, Z, F, P, B \cup {b})
  <2>1. ASSUME NEW d \in Nodes(A, S)
        PROVE  /\ block_size(k, d) = Z[d] /\ (block_is_free(k, d) <=> d \in F)
               /\ block_is_prev_free(k, d) <=> \E u \in P : After(Z, u) = d
    <3>1. d + 1 \in 1..Top /\ d + 1 \notin {c}
      BY <1>1, TileWords, WordsApart DEF c
    <3>2. Same(h, k, d)
      BY <1>3, <3>1, SameWord
    <3> QED  BY <1>1, <3>2 DEF Same, Tags
  <2>2. ASSUME NEW d \in B \cup {b} PROVE k.mem[After(Z, d)] = d
    <3>1. CASE d = b
      BY <1>3, <3>1 DEF c
    <3>2. CASE d # b
      <4>1. After(Z, d) \in 1..Top /\ After(Z, d) # c
        BY <1>1, <3>2, TileWords, Spaced DEF c
      <4>2. k.mem[After(Z, d)] = h.mem[After(Z, d)]
        BY <1>3, <4>1 DEF WritesOnly
      <4> QED  BY <1>1, <3>2, <4>2 DEF Tags
    <3> QED  BY <3>1, <3>2
  <2> QED  BY <2>1, <2>2 DEF Tags
<1>7. B \cup {b} \subseteq S /\ k \in HeapType
  BY <1>1, <1>3 DEF WritesOnly
<1> QED  BY <1>1, <1>4, <1>5, <1>6, <1>7 DEF Rep

\* block_mark_as_free.
LEMMA RepMarkFree ==
    ASSUME NEW h, NEW A, NEW S, NEW Z, NEW F, NEW P, NEW B, NEW L, NEW R, NEW W,
           Rep(h, A, S, Z, F, P, B, L, R, W), NEW b \in S, \A a \in W : a \notin Payload(Z, b),
           NEW k, k = block_mark_as_free(h, b)
    PROVE  Rep(k, A, S, Z, F \cup {b}, P \cup {b}, B \cup {b}, L, R, W)
<1>0. PICK i : i = block_link_next(h, b)
  OBVIOUS
<1>1. After(Z, b) \notin W
  <2>1. After(Z, b) \in Payload(Z, b)
    <3>1. /\ Tiles(A, S, Z)
      BY DEF Rep
    <3>2. b \in Nat /\ After(Z, b) \in Nat /\ b + 4 <= After(Z, b)
      BY <3>1, TileWords
    <3> QED  BY <3>2 DEF Payload
  <2> QED  BY <2>1
<1>2. Rep(i, A, S, Z, F, P, B \cup {b}, L, R, W)
  BY <1>0, <1>1, RepLinkNext
<1>3. block_next(h, b) = After(Z, b)
  BY RepBlock
<1>6. PICK j : j = block_set_prev_free(i, After(Z, b))
  OBVIOUS
<1>4. k = block_set_free(j, b)
  BY <1>0, <1>3, <1>6 DEF block_mark_as_free
<1>5. Rep(j, A, S, Z, F, P \cup {b}, B \cup {b}, L, R, W)
  BY <1>2, <1>6, RepSetPrevFree
<1> QED  BY <1>4, <1>5, RepSetFree

\* block_mark_as_used.
LEMMA RepMarkUsed ==
    ASSUME NEW h, NEW A, NEW S, NEW Z, NEW F, NEW P, NEW B, NEW L, NEW R, NEW W,
           Rep(h, A, S, Z, F, P, B, L, R, W), NEW b \in S, b \notin L,
           NEW k, k = block_mark_as_used(h, b)
    PROVE  Rep(k, A, S, Z, F \ {b}, P \ {b}, B, L, R, W)
<1> DEFINE told == block_set_prev_used(h, After(Z, b))
<1>1. k = block_set_used(told, b)
  <2>1. block_next(h, b) = After(Z, b)
    BY RepBlock
  <2> QED  BY <2>1 DEF block_mark_as_used
<1>2. Rep(told, A, S, Z, F, P \ {b}, B, L, R, W)
  BY RepSetPrevUsed
<1> HIDE DEF told
<1> QED  BY <1>1, <1>2, RepSetUsed

\* Words that are not of interest, and links nobody reads.
LEMMA RepWeaker ==
    ASSUME NEW h, NEW A, NEW S, NEW Z, NEW F, NEW P, NEW B, NEW L, NEW R, NEW W,
           Rep(h, A, S, Z, F, P, B, L, R, W), NEW D \in SUBSET B, NEW V \in SUBSET W
    PROVE  Rep(h, A, S, Z, F, P, D, L, R, V)
  BY DEF Rep, Tags, Kept

-----------------------------------------------------------------------------
(* Taking blocks out of the free lists and putting them in. *)

\* The links of a list are in words that belong to nobody else.
LEMMA LinksFrame ==
    ASSUME NEW h, NEW A, NEW S, NEW Z, NEW F \in SUBSET S, NEW P \in SUBSET S, NEW B \in SUBSET S, NEW W,
           Tiles(A, S, Z), Tags(h, A, S, Z, F, P, B), Kept(h, S, Z, F, W), NEW k,
           \A a \in 1..Top : (\A l \in F : a # l + 2 /\ a # l + 3) => k.mem[a] = h.mem[a]
    PROVE  Tags(k, A, S, Z, F, P, B) /\ Kept(k, S, Z, F, W)
<1>1. ASSUME NEW c \in Nodes(A, S) PROVE Same(h, k, c)
  <2>1. c + 1 \in 1..Top
    BY TileWords
  <2>2. \A l \in F : c + 1 # l + 2 /\ c + 1 # l + 3
    BY WordsApart
  <2>3. k.mem[c + 1] = h.mem[c + 1]
    BY <2>1, <2>2
  <2> QED  BY <2>3 DEF Same, block_size, block_is_free, block_is_prev_free
<1>2. ASSUME NEW b \in B PROVE k.mem[After(Z, b)] = h.mem[After(Z, b)]
  <2>1. After(Z, b) \in 1..Top
    BY TileWords
  <2>2. \A l \in F : After(Z, b) # l + 2 /\ After(Z, b) # l + 3
    BY WordsApart
  <2> QED  BY <2>1, <2>2
<1>3. Tags(k, A, S, Z, F, P, B)
  BY <1>1, <1>2 DEF Tags, Same
<1>4. ASSUME NEW a \in W PROVE k.mem[a] = h.mem[a]
  <2>1. PICK u \in S \ F : a \in Payload(Z, u)
    BY DEF Kept
  <2>2. a \in 1..Top /\ \A l \in F : a # l + 2 /\ a # l + 3
    BY <2>1, PayloadApart
  <2> QED  BY <2>2
<1> QED  BY <1>3, <1>4 DEF Kept

\* A link is written unless there is nothing to write to.
Linked(h, x, a, w) == IF x = Null THEN h ELSE Put(h, a, w)

\* It changes that word only.
LEMMA LinkedWords ==
    ASSUME NEW h \in HeapType, NEW x, NEW a, x # Null => a \in 1..Top, NEW w \in Int,
           NEW k, k = Linked(h, x, a, w)
    PROVE  /\ k \in HeapType /\ k.head = h.head /\ k.fl = h.fl /\ k.sl = h.sl
           /\ x # Null => k.mem[a] = w
           /\ \A d \in 1..Top : (x # Null => d # a) => k.mem[d] = h.mem[d]
<1>1. CASE x = Null
  BY <1>1 DEF Linked
<1>2. CASE x # Null
  <2>1. k = Put(h, a, w) /\ a \in 1..Top
    BY <1>2 DEF Linked
  <2>2. WritesOnly(h, k, {a}) /\ k.mem[a] = w
    BY <2>1, PutWord
  <2> QED  BY <1>2, <2>2 DEF WritesOnly
<1> QED  BY <1>1, <1>2

\* A list begins with another block.
WithHead(j, c, n) == [j EXCEPT !.head[c] = n]

Headed(j, k, c, n) ==
    /\ k \in HeapType /\ k.mem = j.mem /\ k.sl = j.sl /\ k.fl = j.fl
    /\ \A d \in Class : k.head[d] = IF d = c THEN n ELSE j.head[d]

\* The rest is as before.
LEMMA NewHead ==
    ASSUME NEW j \in HeapType, NEW c \in Class, NEW n \in Int,
           NEW k, k = WithHead(j, c, n)
    PROVE  Headed(j, k, c, n)
<1>1. /\ k.head = [j.head EXCEPT ![c] = n] /\ k.mem = j.mem /\ k.sl = j.sl /\ k.fl = j.fl
      /\ k = [mem |-> k.mem, head |-> k.head, fl |-> k.fl, sl |-> k.sl]
  BY DEF HeapType, WithHead
<1>2. /\ j.head \in [Class -> Int] /\ j.sl \in [0..FlMax -> SUBSET (0..SlCount - 1)]
      /\ j.fl \in SUBSET (0..FlMax) /\ j.mem \in [1..Top -> Int]
  BY DEF HeapType
<1>3. k.head \in [Class -> Int] /\ \A d \in Class : k.head[d] = IF d = c THEN n ELSE j.head[d]
  BY <1>1, <1>2
<1>4. k \in HeapType
  BY <1>1, <1>2, <1>3 DEF HeapType
<1> QED  BY <1>1, <1>3, <1>4 DEF Headed

\* The bits of a class change.
WithBits(j, f, s, t) == [j EXCEPT !.sl[f] = s, !.fl = t]

\* Nothing else is.
LEMMA NewBits ==
    ASSUME NEW j \in HeapType, NEW f \in 0..FlMax, NEW s \in SUBSET (0..SlCount - 1),
           NEW t \in SUBSET (0..FlMax), NEW k, k = WithBits(j, f, s, t)
    PROVE  /\ k \in HeapType /\ k.mem = j.mem /\ k.head = j.head /\ k.fl = t
           /\ \A g \in 0..FlMax : k.sl[g] = IF g = f THEN s ELSE j.sl[g]
<1>1. /\ k.sl = [j.sl EXCEPT ![f] = s] /\ k.mem = j.mem /\ k.head = j.head /\ k.fl = t
      /\ k = [mem |-> k.mem, head |-> k.head, fl |-> k.fl, sl |-> k.sl]
  BY DEF HeapType, WithBits
<1>2. /\ j.head \in [Class -> Int] /\ j.sl \in [0..FlMax -> SUBSET (0..SlCount - 1)]
      /\ j.mem \in [1..Top -> Int]
  BY DEF HeapType
<1>3. /\ k.sl \in [0..FlMax -> SUBSET (0..SlCount - 1)]
      /\ \A g \in 0..FlMax : k.sl[g] = IF g = f THEN s ELSE j.sl[g]
  BY <1>1, <1>2
<1>4. k \in HeapType
  BY <1>1, <1>2, <1>3 DEF HeapType
<1> QED  BY <1>1, <1>3, <1>4

\* The bits that agree with a list that has become empty, and with one that has not.
FirstLevel(h) == h.fl = {f \in 0..FlMax : h.sl[f] # {}}

Clear(h, c) == WithBits(h, c[1], h.sl[c[1]] \ {c[2]},
                       IF h.sl[c[1]] \ {c[2]} = {} THEN h.fl \ {c[1]} ELSE h.fl)

Cleared(h, k, c) ==
    /\ k \in HeapType /\ k.mem = h.mem /\ k.head = h.head
    /\ \A f \in 0..FlMax : k.sl[f] = IF f = c[1] THEN h.sl[f] \ {c[2]} ELSE h.sl[f]
    /\ FirstLevel(k)

\* The first level is cleared with the last bit of the second.
LEMMA ClearedBits ==
    ASSUME NEW h \in HeapType, NEW c \in Class, FirstLevel(h), NEW k, k = Clear(h, c)
    PROVE  Cleared(h, k, c)
<1> DEFINE s == h.sl[c[1]] \ {c[2]}
           t == IF s = {} THEN h.fl \ {c[1]} ELSE h.fl
<1>0. k = WithBits(h, c[1], s, t) /\ h.fl = {f \in 0..FlMax : h.sl[f] # {}}
  BY DEF Clear, FirstLevel
<1>1. c[1] \in 0..FlMax /\ h.sl[c[1]] \in SUBSET (0..SlCount - 1)
  BY DEF Class, HeapType
<1>2. s \in SUBSET (0..SlCount - 1) /\ t \in SUBSET (0..FlMax)
  BY <1>0, <1>1
<1> HIDE DEF s, t
<1>3. /\ k \in HeapType /\ k.mem = h.mem /\ k.head = h.head /\ k.fl = t
      /\ \A g \in 0..FlMax : k.sl[g] = IF g = c[1] THEN s ELSE h.sl[g]
  BY <1>0, <1>1, <1>2, NewBits
<1>4. k.fl = {f \in 0..FlMax : k.sl[f] # {}}
  <2>1. t \subseteq 0..FlMax
    BY <1>2
  <2>2. ASSUME NEW f \in 0..FlMax PROVE f \in t <=> k.sl[f] # {}
    <3>1. CASE f = c[1]
      BY <1>0, <1>1, <1>3, <3>1 DEF s, t
    <3>2. CASE f # c[1]
      BY <1>0, <1>3, <3>2 DEF s, t
    <3> QED  BY <3>1, <3>2
  <2> QED  BY <1>3, <2>1, <2>2
<1> QED  BY <1>3, <1>4 DEF Cleared, FirstLevel, s

Mark(h, c) == WithBits(h, c[1], h.sl[c[1]] \cup {c[2]}, h.fl \cup {c[1]})

Marked(h, k, c) ==
    /\ k \in HeapType /\ k.mem = h.mem /\ k.head = h.head
    /\ \A f \in 0..FlMax : k.sl[f] = IF f = c[1] THEN h.sl[f] \cup {c[2]} ELSE h.sl[f]
    /\ FirstLevel(k)

\* It is set with the first.
LEMMA AddedBits ==
    ASSUME NEW h \in HeapType, NEW c \in Class, FirstLevel(h), NEW k, k = Mark(h, c)
    PROVE  Marked(h, k, c)
<1> DEFINE s == h.sl[c[1]] \cup {c[2]}
           t == h.fl \cup {c[1]}
<1>0. k = WithBits(h, c[1], s, t) /\ h.fl = {f \in 0..FlMax : h.sl[f] # {}}
  BY DEF Mark, FirstLevel
<1>1. c[1] \in 0..FlMax /\ h.sl[c[1]] \in SUBSET (0..SlCount - 1) /\ c[2] \in 0..SlCount - 1
  BY DEF Class, HeapType
<1>2. s \in SUBSET (0..SlCount - 1) /\ t \in SUBSET (0..FlMax)
  BY <1>0, <1>1
<1> HIDE DEF s, t
<1>3. /\ k \in HeapType /\ k.mem = h.mem /\ k.head = h.head /\ k.fl = t
      /\ \A g \in 0..FlMax : k.sl[g] = IF g = c[1] THEN s ELSE h.sl[g]
  BY <1>0, <1>1, <1>2, NewBits
<1>4. k.fl = {f \in 0..FlMax : k.sl[f] # {}}
  BY <1>0, <1>1, <1>3 DEF s, t
<1> QED  BY <1>3, <1>4 DEF Marked, FirstLevel, s

WithAll(j, c, n, s, t) == [j EXCEPT !.head[c] = n, !.sl[c[1]] = s, !.fl = t]

\* Writing a head and both bitmaps at once, or one after the other.
LEMMA ThreeFields ==
    ASSUME NEW j \in HeapType, NEW c, NEW n, NEW s, NEW t
    PROVE  WithAll(j, c, n, s, t) = WithHead(WithBits(j, c[1], s, t), c, n)
<1>0. PICK k, f, i : k = WithAll(j, c, n, s, t) /\ f = c[1] /\ i = WithBits(j, f, s, t)
  OBVIOUS
<1>1. /\ k = [mem |-> k.mem, head |-> k.head, fl |-> k.fl, sl |-> k.sl]
      /\ k.mem = j.mem /\ k.head = [j.head EXCEPT ![c] = n] /\ k.fl = t /\ k.sl = [j.sl EXCEPT ![f] = s]
  BY <1>0 DEF WithAll, HeapType
<1>2. /\ i = [mem |-> i.mem, head |-> i.head, fl |-> i.fl, sl |-> i.sl]
      /\ i.mem = j.mem /\ i.head = j.head /\ i.fl = t /\ i.sl = [j.sl EXCEPT ![f] = s]
  BY <1>0 DEF WithBits, HeapType
<1>3. PICK l : l = WithHead(i, c, n)
  OBVIOUS
<1>4. /\ l = [mem |-> l.mem, head |-> l.head, fl |-> l.fl, sl |-> l.sl]
      /\ l.mem = i.mem /\ l.head = [i.head EXCEPT ![c] = n] /\ l.fl = i.fl /\ l.sl = i.sl
  BY <1>2, <1>3 DEF WithHead
<1>5. k = l
  BY <1>1, <1>2, <1>4
<1> QED  BY <1>0, <1>3, <1>5

\* remove_free_block and insert_free_block, step by step.
LEMMA RemoveSteps ==
    ASSUME NEW h, NEW b, NEW c, NEW next, next = h.mem[b + 2], NEW prev, prev = h.mem[b + 3],
           NEW i, i = Linked(h, next, next + 3, prev),
           NEW j, j = Linked(i, prev, prev + 2, next), j \in HeapType,
           j.head = h.head, j.sl = h.sl, j.fl = h.fl
    PROVE  /\ h.head[c] # b => remove_free_block(h, b, c) = j
           /\ h.head[c] = b /\ next # Null => remove_free_block(h, b, c) = WithHead(j, c, next)
           /\ h.head[c] = b /\ next = Null => remove_free_block(h, b, c) = WithHead(Clear(j, c), c, Null)
<1>1. PICK s : s = h.sl[c[1]] \ {c[2]}
  OBVIOUS
<1>2. PICK t : t = IF s = {} THEN j.fl \ {c[1]} ELSE j.fl
  OBVIOUS
<1>3. remove_free_block(h, b, c) =
        IF h.head[c] # b THEN j
        ELSE IF next # Null THEN [j EXCEPT !.head[c] = next]
        ELSE WithAll(j, c, next, s, t)
  BY <1>1, <1>2 DEF remove_free_block, Linked, WithAll
<1>4. WithAll(j, c, Null, s, t) = WithHead(Clear(j, c), c, Null)
  <2>1. WithBits(j, c[1], s, t) = Clear(j, c)
    BY <1>1, <1>2 DEF Clear
  <2> QED  BY <2>1, ThreeFields
<1>5. WithHead(j, c, next) = [j EXCEPT !.head[c] = next]
  BY DEF WithHead
<1>6. h.head[c] # b => remove_free_block(h, b, c) = j
  BY <1>3
<1>7. h.head[c] = b /\ next # Null => remove_free_block(h, b, c) = WithHead(j, c, next)
  BY <1>3, <1>5
<1>8. h.head[c] = b /\ next = Null => remove_free_block(h, b, c) = WithHead(Clear(j, c), c, Null)
  <2>1. SUFFICES ASSUME h.head[c] = b, next = Null
                 PROVE  remove_free_block(h, b, c) = WithHead(Clear(j, c), c, Null)
    OBVIOUS
  <2>2. remove_free_block(h, b, c) = WithAll(j, c, Null, s, t)
    BY <1>3, <2>1
  <2> QED  BY <1>4, <2>2
<1> QED  BY <1>6, <1>7, <1>8

\* The same for insert_free_block.
LEMMA InsertSteps ==
    ASSUME NEW h, NEW b, NEW c, NEW current, current = h.head[c],
           NEW g, g = Put(h, b + 2, current), NEW i, i = Put(g, b + 3, Null),
           NEW j, j = Linked(i, current, current + 3, b),
           j \in HeapType, j.sl = h.sl, j.fl = h.fl
    PROVE  insert_free_block(h, b, c) = WithHead(Mark(j, c), c, b)
<1>1. insert_free_block(h, b, c) =
        [j EXCEPT !.head[c] = b, !.fl = @ \cup {c[1]}, !.sl[c[1]] = @ \cup {c[2]}]
  BY DEF insert_free_block, Linked
<1> QED  BY <1>1 DEF WithHead, WithBits, HeapType, Mark

\* What remove_free_block leaves behind.
Removed(h, k, b, c, next, prev) ==
    /\ k \in HeapType
    /\ next # Null => k.mem[next + 3] = prev
    /\ prev # Null => k.mem[prev + 2] = next
    /\ \A a \in 1..Top : (next # Null => a # next + 3) /\ (prev # Null => a # prev + 2)
                            => k.mem[a] = h.mem[a]
    /\ \A d \in Class : k.head[d] = IF d = c /\ h.head[c] = b THEN next ELSE h.head[d]
    /\ \A f \in 0..FlMax : k.sl[f] = IF f = c[1] /\ h.head[c] = b /\ next = Null
                                     THEN h.sl[f] \ {c[2]} ELSE h.sl[f]
    /\ k.fl = {f \in 0..FlMax : k.sl[f] # {}}

\* A block that can be taken out of its list.
Removable(h, b, c, next, prev) ==
    /\ h \in HeapType /\ c \in Class /\ FirstLevel(h)
    /\ next = h.mem[b + 2] /\ prev = h.mem[b + 3] /\ b + 2 \in 1..Top /\ b + 3 \in 1..Top
    /\ next # Null => next + 3 \in 1..Top
    /\ prev # Null => prev + 2 \in 1..Top
    /\ next # Null /\ prev # Null => next + 3 # prev + 2

\* The words of two links.
Relinked(h, k, next, prev) ==
    /\ k \in HeapType
    /\ next # Null => k.mem[next + 3] = prev
    /\ prev # Null => k.mem[prev + 2] = next
    /\ \A a \in 1..Top : (next # Null => a # next + 3) /\ (prev # Null => a # prev + 2)
                            => k.mem[a] = h.mem[a]

\* The first two steps of remove_free_block.
LEMMA RemoveLinks ==
    ASSUME NEW h, NEW b, NEW c, NEW next, NEW prev, Removable(h, b, c, next, prev),
           NEW i, i = Linked(h, next, next + 3, prev), NEW j, j = Linked(i, prev, prev + 2, next)
    PROVE  Relinked(h, j, next, prev) /\ j.head = h.head /\ j.fl = h.fl /\ j.sl = h.sl
<1>1. /\ next \in Int /\ prev \in Int /\ h \in HeapType
      /\ next # Null => next + 3 \in 1..Top
      /\ prev # Null => prev + 2 \in 1..Top
      /\ next # Null /\ prev # Null => next + 3 # prev + 2
  BY DEF HeapType, Removable
<1>3. /\ i \in HeapType /\ i.head = h.head /\ i.fl = h.fl /\ i.sl = h.sl
      /\ next # Null => i.mem[next + 3] = prev
      /\ \A d \in 1..Top : (next # Null => d # next + 3) => i.mem[d] = h.mem[d]
  <2>1. h \in HeapType /\ prev \in Int /\ (next # Null => next + 3 \in 1..Top)
    BY <1>1
  <2>2. PICK a : a = next + 3
    OBVIOUS
  <2>3. i = Linked(h, next, a, prev)
    BY <2>2
  <2>4. /\ i \in HeapType /\ i.head = h.head /\ i.fl = h.fl /\ i.sl = h.sl
        /\ next # Null => i.mem[a] = prev
        /\ \A d \in 1..Top : (next # Null => d # a) => i.mem[d] = h.mem[d]
    BY <2>1, <2>2, <2>3, LinkedWords
  <2> QED  BY <2>2, <2>4
<1>4. i \in HeapType
  BY <1>3
<1>5. /\ j \in HeapType /\ j.head = i.head /\ j.fl = i.fl /\ j.sl = i.sl
      /\ prev # Null => j.mem[prev + 2] = next
      /\ \A d \in 1..Top : (prev # Null => d # prev + 2) => j.mem[d] = i.mem[d]
  BY <1>1, <1>4, LinkedWords
<1> QED  BY <1>1, <1>3, <1>5 DEF Relinked

\* All of them.
LEMMA RemoveWords ==
    ASSUME NEW h, NEW b, NEW c, NEW next, NEW prev, Removable(h, b, c, next, prev),
           NEW k, k = remove_free_block(h, b, c)
    PROVE  Removed(h, k, b, c, next, prev)
<1>1. PICK i : i = Linked(h, next, next + 3, prev)
  OBVIOUS
<1>2. PICK j : j = Linked(i, prev, prev + 2, next)
  OBVIOUS
<1>3. Relinked(h, j, next, prev) /\ j.head = h.head /\ j.fl = h.fl /\ j.sl = h.sl
  BY <1>1, <1>2, RemoveLinks
<1>4. /\ h \in HeapType /\ c \in Class /\ FirstLevel(h) /\ next = h.mem[b + 2] /\ prev = h.mem[b + 3]
      /\ next \in Int /\ j \in HeapType /\ FirstLevel(j) /\ Null \in Int
  <2>1. /\ h \in HeapType /\ c \in Class /\ FirstLevel(h) /\ b + 2 \in 1..Top
        /\ next = h.mem[b + 2] /\ prev = h.mem[b + 3]
    BY DEF Removable
  <2>2. next \in Int
    BY <2>1 DEF HeapType
  <2>3. j \in HeapType
    BY <1>3 DEF Relinked
  <2>4. FirstLevel(j)
    BY <1>3, <2>1 DEF FirstLevel
  <2> QED  BY <2>1, <2>2, <2>3, <2>4 DEF Null
<1>5. /\ h.head[c] # b => k = j
      /\ h.head[c] = b /\ next # Null => k = WithHead(j, c, next)
      /\ h.head[c] = b /\ next = Null => k = WithHead(Clear(j, c), c, Null)
  BY <1>1, <1>2, <1>3, <1>4, RemoveSteps
<1>6. CASE h.head[c] # b
  BY <1>3, <1>4, <1>5, <1>6 DEF Removed, Relinked, FirstLevel
<1>7. CASE h.head[c] = b /\ next # Null
  <2>1. Headed(j, k, c, next)
    BY <1>4, <1>5, <1>7, NewHead
  <2> QED  BY <1>3, <1>4, <1>7, <2>1 DEF Removed, Relinked, FirstLevel, Headed
<1>8. CASE h.head[c] = b /\ next = Null
  <2>1. PICK m : m = Clear(j, c)
    OBVIOUS
  <2>2. Cleared(j, m, c)
    BY <1>4, <2>1, ClearedBits
  <2>3. m \in HeapType
    BY <2>2 DEF Cleared
  <2>4. Headed(m, k, c, Null)
    BY <1>4, <1>5, <1>8, <2>1, <2>3, NewHead
  <2>5. /\ k \in HeapType /\ k.mem = j.mem
        /\ \A d \in Class : k.head[d] = IF d = c THEN Null ELSE j.head[d]
        /\ \A f \in 0..FlMax : k.sl[f] = IF f = c[1] THEN j.sl[f] \ {c[2]} ELSE j.sl[f]
        /\ k.fl = {f \in 0..FlMax : k.sl[f] # {}}
    BY <2>2, <2>4 DEF Headed, Cleared, FirstLevel
  <2> QED  BY <1>3, <1>8, <2>5 DEF Removed, Relinked
<1> QED  BY <1>6, <1>7, <1>8

\* What insert_free_block leaves behind.
Inserted(h, k, b, c, current) ==
    /\ k \in HeapType
    /\ k.mem[b + 2] = current /\ k.mem[b + 3] = Null
    /\ current # Null => k.mem[current + 3] = b
    /\ \A a \in 1..Top : a # b + 2 /\ a # b + 3 /\ (current # Null => a # current + 3)
                            => k.mem[a] = h.mem[a]
    /\ \A d \in Class : k.head[d] = IF d = c THEN b ELSE h.head[d]
    /\ \A f \in 0..FlMax : k.sl[f] = IF f = c[1] THEN h.sl[f] \cup {c[2]} ELSE h.sl[f]
    /\ k.fl = {f \in 0..FlMax : k.sl[f] # {}}

\* A block that can be put in front of a list.
Insertable(h, b, c, current) ==
    /\ h \in HeapType /\ b \in Int /\ c \in Class /\ FirstLevel(h)
    /\ current = h.head[c] /\ b + 2 \in 1..Top /\ b + 3 \in 1..Top
    /\ current # Null => current + 3 \in 1..Top /\ current + 3 # b + 2 /\ current + 3 # b + 3

Fronted(h, k, b, current) ==
    /\ k \in HeapType
    /\ k.mem[b + 2] = current /\ k.mem[b + 3] = Null
    /\ current # Null => k.mem[current + 3] = b
    /\ \A a \in 1..Top : a # b + 2 /\ a # b + 3 /\ (current # Null => a # current + 3)
                            => k.mem[a] = h.mem[a]

\* The first three steps of insert_free_block.
LEMMA InsertLinks ==
    ASSUME NEW h, NEW b, NEW c, NEW current, Insertable(h, b, c, current),
           NEW g, g = Put(h, b + 2, current), NEW i, i = Put(g, b + 3, Null),
           NEW j, j = Linked(i, current, current + 3, b)
    PROVE  Fronted(h, j, b, current) /\ j.head = h.head /\ j.fl = h.fl /\ j.sl = h.sl
<1>1. /\ current \in Int /\ Null \in Int /\ h \in HeapType /\ b \in Int
      /\ b + 2 \in 1..Top /\ b + 3 \in 1..Top /\ b + 2 # b + 3
      /\ current # Null => current + 3 \in 1..Top /\ current + 3 # b + 2 /\ current + 3 # b + 3
  BY DEF HeapType, Null, Insertable
<1>2. WritesOnly(h, g, {b + 2}) /\ g.mem[b + 2] = current
  BY <1>1, PutWord
<1>3. g \in HeapType
  BY <1>2 DEF WritesOnly
<1>4. WritesOnly(g, i, {b + 3}) /\ i.mem[b + 3] = Null
  BY <1>1, <1>3, PutWord
<1>5. /\ i \in HeapType /\ i.head = h.head /\ i.fl = h.fl /\ i.sl = h.sl
      /\ i.mem[b + 2] = current /\ i.mem[b + 3] = Null
      /\ \A a \in 1..Top : a # b + 2 /\ a # b + 3 => i.mem[a] = h.mem[a]
  BY <1>1, <1>2, <1>4 DEF WritesOnly
<1>6. i \in HeapType
  BY <1>5
<1>7. /\ j \in HeapType /\ j.head = i.head /\ j.fl = i.fl /\ j.sl = i.sl
      /\ current # Null => j.mem[current + 3] = b
      /\ \A d \in 1..Top : (current # Null => d # current + 3) => j.mem[d] = i.mem[d]
  BY <1>1, <1>6, LinkedWords
<1> QED  BY <1>1, <1>5, <1>7 DEF Fronted

\* All of them.
LEMMA InsertWords ==
    ASSUME NEW h, NEW b, NEW c, NEW current, Insertable(h, b, c, current),
           NEW k, k = insert_free_block(h, b, c)
    PROVE  Inserted(h, k, b, c, current)
<1>1. PICK g : g = Put(h, b + 2, current)
  OBVIOUS
<1>2. PICK i : i = Put(g, b + 3, Null)
  OBVIOUS
<1>3. PICK j : j = Linked(i, current, current + 3, b)
  OBVIOUS
<1>4. Fronted(h, j, b, current) /\ j.head = h.head /\ j.fl = h.fl /\ j.sl = h.sl
  BY <1>1, <1>2, <1>3, InsertLinks
<1>5. /\ h \in HeapType /\ c \in Class /\ current = h.head[c] /\ b \in Int
      /\ j \in HeapType /\ FirstLevel(j)
  BY <1>4 DEF HeapType, Insertable, Fronted, FirstLevel
<1>6. PICK m : m = Mark(j, c)
  OBVIOUS
<1>7. k = WithHead(m, c, b)
  BY <1>1, <1>2, <1>3, <1>4, <1>5, <1>6, InsertSteps
<1>8. Marked(j, m, c)
  BY <1>5, <1>6, AddedBits
<1>9. m \in HeapType
  BY <1>8 DEF Marked
<1>10. Headed(m, k, c, b)
  BY <1>5, <1>7, <1>9, NewHead
<1>11. /\ k \in HeapType /\ k.mem = j.mem
       /\ \A d \in Class : k.head[d] = IF d = c THEN b ELSE j.head[d]
       /\ \A f \in 0..FlMax : k.sl[f] = IF f = c[1] THEN j.sl[f] \cup {c[2]} ELSE j.sl[f]
       /\ k.fl = {f \in 0..FlMax : k.sl[f] # {}}
  BY <1>8, <1>10 DEF Headed, Marked, FirstLevel
<1> QED  BY <1>4, <1>11 DEF Inserted, Fronted

\* Taking a block out of its list leaves the lists of the others.
LEMMA ListsRemove ==
    ASSUME NEW A, NEW S, NEW Z, Tiles(A, S, Z), NEW L \in SUBSET S, NEW h, NEW R, Lists(h, Z, L, R),
           NEW b \in L, NEW c, c = ClassOf(Z, b), c \in Class,
           NEW next, next = h.mem[b + 2], NEW prev, prev = h.mem[b + 3],
           NEW k, Removed(h, k, b, c, next, prev)
    PROVE  Lists(k, Z, L \ {b}, R)
<1>1. \A l \in L : /\ l + 2 \in 1..Top /\ l + 3 \in 1..Top /\ l # Null /\ l \in 1..Top
                   /\ \A m \in L : l + 2 # m + 3 /\ (l + 2 = m + 2 => l = m) /\ (l + 3 = m + 3 => l = m)
  <2>1. ASSUME NEW l \in L PROVE l + 2 \in 1..Top /\ l + 3 \in 1..Top /\ l # Null /\ l \in 1..Top
    <3>1. l \in 1..Top /\ l + 2 \in 1..Top /\ l + 3 \in 1..Top /\ l >= 3
      BY TileWords DEF Nodes
    <3> QED  BY <3>1 DEF Null
  <2>2. ASSUME NEW l \in L, NEW m \in L PROVE l + 2 # m + 3 /\ (l + 2 = m + 2 => l = m)
                                              /\ (l + 3 = m + 3 => l = m)
    BY WordsApart
  <2> QED  BY <2>1, <2>2
<1>2. \A l \in L : /\ h.mem[l + 2] # Null => /\ h.mem[l + 2] \in L /\ ClassOf(Z, h.mem[l + 2]) = ClassOf(Z, l)
                                             /\ h.mem[h.mem[l + 2] + 3] = l /\ R[h.mem[l + 2]] < R[l]
                   /\ h.mem[l + 3] # Null => /\ h.mem[l + 3] \in L /\ ClassOf(Z, h.mem[l + 3]) = ClassOf(Z, l)
                                             /\ h.mem[h.mem[l + 3] + 2] = l
                   /\ h.mem[l + 3] = Null => h.head[ClassOf(Z, l)] = l
  BY DEF Lists
<1>3. /\ R \in [1..Top -> Nat]
      /\ \A d \in Class :
           /\ d[2] \in h.sl[d[1]] <=> h.head[d] # Null
           /\ h.head[d] # Null => h.head[d] \in L /\ ClassOf(Z, h.head[d]) = d /\ h.mem[h.head[d] + 3] = Null
  BY DEF Lists
<1>4. /\ k \in HeapType
      /\ next # Null => k.mem[next + 3] = prev
      /\ prev # Null => k.mem[prev + 2] = next
      /\ \A a \in 1..Top : (next # Null => a # next + 3) /\ (prev # Null => a # prev + 2)
                              => k.mem[a] = h.mem[a]
  BY DEF Removed
<1>5. /\ \A d \in Class : k.head[d] = IF d = c /\ h.head[c] = b THEN next ELSE h.head[d]
      /\ \A f \in 0..FlMax : k.sl[f] = IF f = c[1] /\ h.head[c] = b /\ next = Null
                                       THEN h.sl[f] \ {c[2]} ELSE h.sl[f]
      /\ k.fl = {f \in 0..FlMax : k.sl[f] # {}}
  BY DEF Removed
<1>6. next # Null => next \in L /\ ClassOf(Z, next) = c /\ h.mem[next + 3] = b /\ R[next] < R[b] /\ next # b
  <2>1. SUFFICES ASSUME next # Null PROVE next \in L /\ ClassOf(Z, next) = c
                                          /\ h.mem[next + 3] = b /\ R[next] < R[b] /\ next # b
    OBVIOUS
  <2>2. next \in L /\ ClassOf(Z, next) = c /\ h.mem[next + 3] = b /\ R[next] < R[b]
    BY <1>2, <2>1
  <2>3. R[b] \in Nat
    BY <1>1, <1>3
  <2> QED  BY <2>2, <2>3
<1>7. prev # Null => prev \in L /\ ClassOf(Z, prev) = c /\ h.mem[prev + 2] = b /\ R[b] < R[prev] /\ prev # b
  <2>1. SUFFICES ASSUME prev # Null PROVE prev \in L /\ ClassOf(Z, prev) = c
                                          /\ h.mem[prev + 2] = b /\ R[b] < R[prev] /\ prev # b
    OBVIOUS
  <2>2. prev \in L /\ ClassOf(Z, prev) = c /\ h.mem[prev + 2] = b
    BY <1>2, <2>1
  <2>3. R[b] < R[prev]
    BY <1>1, <1>2, <2>2
  <2>4. R[b] \in Nat
    BY <1>1, <1>3
  <2> QED  BY <2>2, <2>3, <2>4
<1>8. ASSUME NEW l \in L
      PROVE  k.mem[l + 2] = (IF l = prev THEN next ELSE h.mem[l + 2])
             /\ k.mem[l + 3] = (IF l = next THEN prev ELSE h.mem[l + 3])
  <2>1. l + 2 \in 1..Top /\ l + 3 \in 1..Top /\ l # Null
    BY <1>1
  <2>2. (next # Null => l + 2 # next + 3) /\ (prev # Null => l + 3 # prev + 2)
    BY <1>1, <1>6, <1>7
  <2>3. (next # Null /\ l # next => l + 3 # next + 3) /\ (prev # Null /\ l # prev => l + 2 # prev + 2)
    BY <1>1, <1>6, <1>7
  <2>4. k.mem[l + 2] = IF l = prev THEN next ELSE h.mem[l + 2]
    BY <1>4, <2>1, <2>2, <2>3
  <2>5. k.mem[l + 3] = IF l = next THEN prev ELSE h.mem[l + 3]
    BY <1>4, <2>1, <2>2, <2>3
  <2> QED  BY <2>4, <2>5
<1>9. h.head[c] = b <=> prev = Null
  BY <1>1, <1>2, <1>3
<1>10. ASSUME NEW l \in L \ {b}
       PROVE  /\ k.mem[l + 2] # Null => /\ k.mem[l + 2] \in L \ {b} /\ ClassOf(Z, k.mem[l + 2]) = ClassOf(Z, l)
                                        /\ k.mem[k.mem[l + 2] + 3] = l /\ R[k.mem[l + 2]] < R[l]
              /\ k.mem[l + 3] # Null => /\ k.mem[l + 3] \in L \ {b} /\ ClassOf(Z, k.mem[l + 3]) = ClassOf(Z, l)
                                        /\ k.mem[k.mem[l + 3] + 2] = l
              /\ k.mem[l + 3] = Null => k.head[ClassOf(Z, l)] = l
  <2>1. ASSUME k.mem[l + 2] # Null
        PROVE  /\ k.mem[l + 2] \in L \ {b} /\ ClassOf(Z, k.mem[l + 2]) = ClassOf(Z, l)
               /\ k.mem[k.mem[l + 2] + 3] = l /\ R[k.mem[l + 2]] < R[l]
    <3>1. CASE l = prev
      <4>1. k.mem[l + 2] = next /\ next # Null /\ prev # Null
        BY <1>1, <1>8, <2>1, <3>1
      <4>2. k.mem[next + 3] = prev
        BY <1>4, <4>1
      <4>3. R[next] < R[prev]
        <5>1. R[next] \in Nat /\ R[b] \in Nat /\ R[prev] \in Nat
          BY <1>1, <1>3, <1>6, <1>7, <4>1
        <5> QED  BY <1>6, <1>7, <4>1, <5>1
      <4> QED  BY <1>6, <1>7, <3>1, <4>1, <4>2, <4>3
    <3>2. CASE l # prev
      <4>1. PICK m : m = h.mem[l + 2]
        OBVIOUS
      <4>2. k.mem[l + 2] = m /\ m # Null
        BY <1>8, <2>1, <3>2, <4>1
      <4>3. m \in L /\ ClassOf(Z, m) = ClassOf(Z, l) /\ h.mem[m + 3] = l /\ R[m] < R[l]
        BY <1>2, <4>1, <4>2
      <4>4. m # b /\ m # next
        BY <1>6, <3>2, <4>2, <4>3
      <4>5. k.mem[m + 3] = l
        BY <1>8, <4>3, <4>4
      <4> QED  BY <4>2, <4>3, <4>4, <4>5
    <3> QED  BY <3>1, <3>2
  <2>2. ASSUME k.mem[l + 3] # Null
        PROVE  /\ k.mem[l + 3] \in L \ {b} /\ ClassOf(Z, k.mem[l + 3]) = ClassOf(Z, l)
               /\ k.mem[k.mem[l + 3] + 2] = l
    <3>1. CASE l = next
      <4>1. k.mem[l + 3] = prev /\ next # Null /\ prev # Null
        BY <1>1, <1>8, <2>2, <3>1
      <4>2. k.mem[prev + 2] = next
        BY <1>4, <4>1
      <4> QED  BY <1>6, <1>7, <3>1, <4>1, <4>2
    <3>2. CASE l # next
      <4>1. PICK m : m = h.mem[l + 3]
        OBVIOUS
      <4>2. k.mem[l + 3] = m /\ m # Null
        BY <1>8, <2>2, <3>2, <4>1
      <4>3. m \in L /\ ClassOf(Z, m) = ClassOf(Z, l) /\ h.mem[m + 2] = l
        BY <1>2, <4>1, <4>2
      <4>4. m # b /\ m # prev
        BY <1>7, <3>2, <4>2, <4>3
      <4>5. k.mem[m + 2] = l
        BY <1>8, <4>3, <4>4
      <4> QED  BY <4>2, <4>3, <4>4, <4>5
    <3> QED  BY <3>1, <3>2
  <2>3. ASSUME k.mem[l + 3] = Null PROVE k.head[ClassOf(Z, l)] = l
    <3>1. CASE l = next
      <4>1. prev = Null /\ next # Null
        BY <1>1, <1>8, <2>3, <3>1
      <4> QED  BY <1>5, <1>6, <1>9, <3>1, <4>1
    <3>2. CASE l # next
      <4>1. h.mem[l + 3] = Null
        BY <1>8, <2>3, <3>2
      <4>2. h.head[ClassOf(Z, l)] = l
        BY <1>2, <4>1
      <4>3. ClassOf(Z, l) \in Class
        BY SizeBound DEF ClassOf
      <4> QED  BY <1>5, <4>2, <4>3
    <3> QED  BY <3>1, <3>2
  <2> QED  BY <2>1, <2>2, <2>3
<1>11. ASSUME NEW d \in Class
       PROVE  /\ d[2] \in k.sl[d[1]] <=> k.head[d] # Null
              /\ k.head[d] # Null => k.head[d] \in L \ {b} /\ ClassOf(Z, k.head[d]) = d /\ k.mem[k.head[d] + 3] = Null
  <2>0. d[1] \in 0..FlMax /\ c[1] \in 0..FlMax /\ (d[1] = c[1] /\ d[2] = c[2] => d = c)
    BY DEF Class
  <2>1. CASE d = c /\ h.head[c] = b
    <3>1. k.head[d] = next /\ prev = Null
      BY <1>5, <1>9, <2>1
    <3>2. next # Null => next \in L \ {b} /\ ClassOf(Z, next) = d /\ k.mem[next + 3] = Null
      BY <1>4, <1>6, <2>1, <3>1
    <3>3. d[2] \in h.sl[d[1]]
      BY <1>1, <1>3, <2>1
    <3>4. d[2] \in k.sl[d[1]] <=> next # Null
      BY <1>5, <2>0, <2>1, <3>3
    <3> QED  BY <3>1, <3>2, <3>4
  <2>2. CASE ~(d = c /\ h.head[c] = b)
    <3>1. k.head[d] = h.head[d]
      BY <1>5, <2>2
    <3>2. d[2] \in k.sl[d[1]] <=> d[2] \in h.sl[d[1]]
      BY <1>5, <2>0, <2>2
    <3>3. ASSUME h.head[d] # Null PROVE h.head[d] # b /\ k.mem[h.head[d] + 3] = Null
      <4>1. h.head[d] \in L /\ ClassOf(Z, h.head[d]) = d /\ h.mem[h.head[d] + 3] = Null
        BY <1>3, <3>3
      <4>2. h.head[d] # b
        BY <2>2, <4>1
      <4>3. next # Null => h.head[d] # next
        BY <1>1, <1>6, <4>1
      <4> QED  BY <1>8, <3>3, <4>1, <4>2, <4>3
    <3> QED  BY <1>3, <3>1, <3>2, <3>3
  <2> QED  BY <2>1, <2>2
<1> QED  BY <1>3, <1>5, <1>10, <1>11 DEF Lists

\* Putting a block in front of the list of its class.
LEMMA ListsInsert ==
    ASSUME NEW A, NEW S, NEW Z, Tiles(A, S, Z), NEW L \in SUBSET S, NEW h, NEW R, Lists(h, Z, L, R),
           NEW b \in S \ L, NEW c, c = ClassOf(Z, b), c \in Class,
           NEW current, current = h.head[c], NEW k, Inserted(h, k, b, c, current)
    PROVE  \E Q : Lists(k, Z, L \cup {b}, Q)
<1>1. ASSUME NEW l \in S
      PROVE  /\ l + 2 \in 1..Top /\ l + 3 \in 1..Top /\ l # Null /\ l \in 1..Top
             /\ \A m \in S : l + 2 # m + 3 /\ (l + 2 = m + 2 => l = m) /\ (l + 3 = m + 3 => l = m)
  <2>1. l + 2 \in 1..Top /\ l + 3 \in 1..Top /\ l # Null /\ l \in 1..Top
    <3>1. l \in 1..Top /\ l + 2 \in 1..Top /\ l + 3 \in 1..Top /\ l >= 3
      BY TileWords DEF Nodes
    <3> QED  BY <3>1 DEF Null
  <2>2. \A m \in S : l + 2 # m + 3 /\ (l + 2 = m + 2 => l = m) /\ (l + 3 = m + 3 => l = m)
    BY WordsApart
  <2> QED  BY <2>1, <2>2
<1>2. \A l \in L : /\ h.mem[l + 2] # Null => /\ h.mem[l + 2] \in L /\ ClassOf(Z, h.mem[l + 2]) = ClassOf(Z, l)
                                             /\ h.mem[h.mem[l + 2] + 3] = l /\ R[h.mem[l + 2]] < R[l]
                   /\ h.mem[l + 3] # Null => /\ h.mem[l + 3] \in L /\ ClassOf(Z, h.mem[l + 3]) = ClassOf(Z, l)
                                             /\ h.mem[h.mem[l + 3] + 2] = l
                   /\ h.mem[l + 3] = Null => h.head[ClassOf(Z, l)] = l
  BY DEF Lists
<1>3. /\ R \in [1..Top -> Nat]
      /\ \A d \in Class :
           /\ d[2] \in h.sl[d[1]] <=> h.head[d] # Null
           /\ h.head[d] # Null => h.head[d] \in L /\ ClassOf(Z, h.head[d]) = d /\ h.mem[h.head[d] + 3] = Null
  BY DEF Lists
<1>4. /\ k \in HeapType
      /\ k.mem[b + 2] = current /\ k.mem[b + 3] = Null
      /\ current # Null => k.mem[current + 3] = b
      /\ \A a \in 1..Top : a # b + 2 /\ a # b + 3 /\ (current # Null => a # current + 3)
                              => k.mem[a] = h.mem[a]
  BY DEF Inserted
<1>5. /\ \A d \in Class : k.head[d] = IF d = c THEN b ELSE h.head[d]
      /\ \A f \in 0..FlMax : k.sl[f] = IF f = c[1] THEN h.sl[f] \cup {c[2]} ELSE h.sl[f]
      /\ k.fl = {f \in 0..FlMax : k.sl[f] # {}}
  BY DEF Inserted
<1>6. current # Null => current \in L /\ ClassOf(Z, current) = c /\ h.mem[current + 3] = Null /\ current # b
  BY <1>3
<1>7. PICK Q : /\ Q \in [1..Top -> Nat] /\ \A l \in L : Q[l] = R[l]
               /\ current # Null => Q[current] < Q[b]
  <2>1. PICK n \in Nat : current # Null => n = R[current] + 1
    <3>1. CASE current = Null
      BY <3>1
    <3>2. CASE current # Null
      <4>1. R[current] + 1 \in Nat
        <5>1. current \in 1..Top
          BY <1>1, <1>6, <3>2
        <5>2. R \in [1..Top -> Nat]
          BY <1>3
        <5> QED  BY <5>1, <5>2
      <4> QED  BY <4>1
    <3> QED  BY <3>1, <3>2
  <2>2. PICK Q : Q = [R EXCEPT ![b] = n]
    OBVIOUS
  <2>3. b \in 1..Top /\ \A l \in L : l \in 1..Top /\ l # b
    BY <1>1
  <2>4. Q \in [1..Top -> Nat] /\ Q[b] = n /\ \A l \in L : Q[l] = R[l]
    BY <1>3, <2>2, <2>3
  <2>5. current # Null => Q[current] < Q[b]
    <3>1. SUFFICES ASSUME current # Null PROVE Q[current] < Q[b]
      OBVIOUS
    <3>2. Q[current] = R[current] /\ R[current] \in Nat
      BY <1>3, <1>6, <2>3, <2>4, <3>1
    <3>3. n = R[current] + 1
      BY <2>1, <3>1
    <3> QED  BY <2>4, <3>2, <3>3
  <2> QED  BY <2>4, <2>5
<1>8. ASSUME NEW l \in L
      PROVE  k.mem[l + 2] = h.mem[l + 2] /\ k.mem[l + 3] = (IF l = current THEN b ELSE h.mem[l + 3])
  <2>1. l + 2 \in 1..Top /\ l + 3 \in 1..Top /\ l # Null /\ l # b
    BY <1>1
  <2>2. l + 2 # b + 2 /\ l + 2 # b + 3 /\ l + 3 # b + 2 /\ l + 3 # b + 3
    BY <1>1, <2>1
  <2>3. (current # Null => l + 2 # current + 3) /\ (current # Null /\ l # current => l + 3 # current + 3)
    BY <1>1, <1>6
  <2>4. k.mem[l + 2] = h.mem[l + 2]
    BY <1>4, <2>1, <2>2, <2>3
  <2>5. k.mem[l + 3] = IF l = current THEN b ELSE h.mem[l + 3]
    BY <1>4, <2>1, <2>2, <2>3
  <2> QED  BY <2>4, <2>5
<1>9. ASSUME NEW l \in L \cup {b}
      PROVE  /\ k.mem[l + 2] # Null => /\ k.mem[l + 2] \in L \cup {b} /\ ClassOf(Z, k.mem[l + 2]) = ClassOf(Z, l)
                                       /\ k.mem[k.mem[l + 2] + 3] = l /\ Q[k.mem[l + 2]] < Q[l]
             /\ k.mem[l + 3] # Null => /\ k.mem[l + 3] \in L \cup {b} /\ ClassOf(Z, k.mem[l + 3]) = ClassOf(Z, l)
                                       /\ k.mem[k.mem[l + 3] + 2] = l
             /\ k.mem[l + 3] = Null => k.head[ClassOf(Z, l)] = l
  <2>1. CASE l = b
    <3>1. k.mem[l + 3] = Null /\ k.head[ClassOf(Z, l)] = l
      BY <1>4, <1>5, <2>1
    <3>2. current # Null => k.mem[current + 3] = l /\ Q[current] < Q[l]
      BY <1>4, <1>7, <2>1
    <3> QED  BY <1>4, <1>6, <2>1, <3>1, <3>2
  <2>2. CASE l \in L
    <3>1. ASSUME k.mem[l + 2] # Null
          PROVE  /\ k.mem[l + 2] \in L \cup {b} /\ ClassOf(Z, k.mem[l + 2]) = ClassOf(Z, l)
                 /\ k.mem[k.mem[l + 2] + 3] = l /\ Q[k.mem[l + 2]] < Q[l]
      <4>1. PICK m : m = h.mem[l + 2]
        OBVIOUS
      <4>2. k.mem[l + 2] = m /\ m # Null
        BY <1>8, <2>2, <3>1, <4>1
      <4>3. m \in L /\ ClassOf(Z, m) = ClassOf(Z, l) /\ h.mem[m + 3] = l /\ R[m] < R[l]
        BY <1>2, <2>2, <4>1, <4>2
      <4>4. m # current
        BY <1>1, <1>6, <2>2, <4>2, <4>3
      <4>5. k.mem[m + 3] = l
        BY <1>8, <4>3, <4>4
      <4> QED  BY <1>7, <2>2, <4>2, <4>3, <4>5
    <3>2. ASSUME k.mem[l + 3] # Null
          PROVE  /\ k.mem[l + 3] \in L \cup {b} /\ ClassOf(Z, k.mem[l + 3]) = ClassOf(Z, l)
                 /\ k.mem[k.mem[l + 3] + 2] = l
      <4>1. CASE l = current
        BY <1>1, <1>4, <1>6, <1>8, <2>2, <4>1
      <4>2. CASE l # current
        <5>1. k.mem[l + 3] = h.mem[l + 3]
          BY <1>8, <2>2, <4>2
        <5>2. h.mem[l + 3] \in L /\ ClassOf(Z, h.mem[l + 3]) = ClassOf(Z, l) /\ h.mem[h.mem[l + 3] + 2] = l
          BY <1>2, <2>2, <3>2, <5>1
        <5> QED  BY <1>8, <5>1, <5>2
      <4> QED  BY <4>1, <4>2
    <3>3. ASSUME k.mem[l + 3] = Null PROVE k.head[ClassOf(Z, l)] = l
      <4>1. l # current
        BY <1>1, <1>8, <2>2, <3>3
      <4>2. h.mem[l + 3] = Null
        BY <1>8, <2>2, <3>3, <4>1
      <4>3. h.head[ClassOf(Z, l)] = l
        BY <1>2, <2>2, <4>2
      <4>4. ClassOf(Z, l) # c
        BY <4>1, <4>3
      <4>5. ClassOf(Z, l) \in Class
        BY <2>2, SizeBound DEF ClassOf
      <4> QED  BY <1>5, <4>3, <4>4, <4>5
    <3> QED  BY <3>1, <3>2, <3>3
  <2> QED  BY <2>1, <2>2
<1>10. ASSUME NEW d \in Class
       PROVE  /\ d[2] \in k.sl[d[1]] <=> k.head[d] # Null
              /\ k.head[d] # Null => k.head[d] \in L \cup {b} /\ ClassOf(Z, k.head[d]) = d /\ k.mem[k.head[d] + 3] = Null
  <2>0. d[1] \in 0..FlMax /\ c[1] \in 0..FlMax /\ (d[1] = c[1] /\ d[2] = c[2] => d = c)
    BY DEF Class
  <2>1. CASE d = c
    <3>1. k.head[d] = b /\ b # Null
      BY <1>1, <1>5, <2>1
    <3>2. d[2] \in k.sl[d[1]]
      BY <1>5, <2>0, <2>1
    <3> QED  BY <1>4, <2>1, <3>1, <3>2
  <2>2. CASE d # c
    <3>1. k.head[d] = h.head[d]
      BY <1>5, <2>2
    <3>2. d[2] \in k.sl[d[1]] <=> d[2] \in h.sl[d[1]]
      <4>1. k.sl[d[1]] = IF d[1] = c[1] THEN h.sl[d[1]] \cup {c[2]} ELSE h.sl[d[1]]
        BY <1>5, <2>0
      <4>2. ~(d[1] = c[1] /\ d[2] = c[2])
        BY <2>0, <2>2
      <4> QED  BY <4>1, <4>2
    <3>3. ASSUME h.head[d] # Null PROVE k.mem[h.head[d] + 3] = Null
      <4>1. h.head[d] \in L /\ ClassOf(Z, h.head[d]) = d /\ h.mem[h.head[d] + 3] = Null
        BY <1>3, <3>3
      <4>2. h.head[d] # current
        BY <1>6, <2>2, <3>3, <4>1
      <4> QED  BY <1>8, <4>1, <4>2
    <3> QED  BY <1>3, <3>1, <3>2, <3>3
  <2> QED  BY <2>1, <2>2
<1>11. Lists(k, Z, L \cup {b}, Q)
  BY <1>5, <1>7, <1>9, <1>10 DEF Lists
<1> QED  BY <1>11

\* remove_free_block, in a heap that is well-formed.
LEMMA RepRemove ==
    ASSUME NEW h, NEW A, NEW S, NEW Z, NEW F, NEW P, NEW B, NEW L, NEW R, NEW W,
           Rep(h, A, S, Z, F, P, B, L, R, W), NEW b \in L,
           NEW c, c = ClassOf(Z, b), NEW k, k = remove_free_block(h, b, c)
    PROVE  Rep(k, A, S, Z, F, P, B, L \ {b}, R, W)
<1>1. /\ h \in HeapType /\ Tiles(A, S, Z) /\ F \in SUBSET S /\ P \in SUBSET S /\ B \in SUBSET S
      /\ L \in SUBSET S /\ L \subseteq F /\ b \in S
      /\ Tags(h, A, S, Z, F, P, B) /\ Lists(h, Z, L, R) /\ Kept(h, S, Z, F, W)
  BY DEF Rep
<1>2. PICK next : next = h.mem[b + 2]
  OBVIOUS
<1>3. PICK prev : prev = h.mem[b + 3]
  OBVIOUS
<1>4. (next # Null => next \in L) /\ (prev # Null => prev \in L) /\ FirstLevel(h)
  BY <1>1, <1>2, <1>3 DEF Lists, FirstLevel
<1>5. \A l \in L : l + 2 \in 1..Top /\ l + 3 \in 1..Top /\ \A m \in L : l + 2 # m + 3
  <2>1. TAKE l \in L
  <2>2. l + 2 \in 1..Top /\ l + 3 \in 1..Top
    BY <1>1, TileWords
  <2>3. \A m \in L : l + 2 # m + 3
    BY <1>1, WordsApart
  <2> QED  BY <2>2, <2>3
<1>6. c \in Class
  BY <1>1, SizeBound DEF ClassOf
<1>7. Removable(h, b, c, next, prev)
  BY <1>1, <1>2, <1>3, <1>4, <1>5, <1>6 DEF Removable
<1>8. Removed(h, k, b, c, next, prev)
  BY <1>7, RemoveWords
<1>9. Lists(k, Z, L \ {b}, R)
  BY <1>1, <1>2, <1>3, <1>6, <1>8, ListsRemove
<1>10. Tags(k, A, S, Z, F, P, B) /\ Kept(k, S, Z, F, W)
  <2>1. \A a \in 1..Top : (\A l \in F : a # l + 2 /\ a # l + 3) => k.mem[a] = h.mem[a]
    BY <1>1, <1>4, <1>8 DEF Removed
  <2> QED  BY <1>1, <2>1, LinksFrame
<1> QED  BY <1>1, <1>8, <1>9, <1>10 DEF Rep, Removed

\* block_insert.
LEMMA RepInsert ==
    ASSUME NEW h, NEW A, NEW S, NEW Z, NEW F, NEW P, NEW B, NEW L, NEW R, NEW W,
           Rep(h, A, S, Z, F, P, B, L, R, W), NEW b \in F \ L,
           NEW k, k = block_insert(h, b)
    PROVE  \E Q : Rep(k, A, S, Z, F, P, B, L \cup {b}, Q, W)
<1>1. /\ h \in HeapType /\ Tiles(A, S, Z) /\ F \in SUBSET S /\ P \in SUBSET S /\ B \in SUBSET S
      /\ L \in SUBSET S /\ L \subseteq F /\ b \in S
      /\ Tags(h, A, S, Z, F, P, B) /\ Lists(h, Z, L, R) /\ Kept(h, S, Z, F, W)
  BY DEF Rep
<1>2. PICK c : c = ClassOf(Z, b)
  OBVIOUS
<1>3. c \in Class
  BY <1>1, <1>2, SizeBound DEF ClassOf
<1>4. PICK current : current = h.head[c]
  OBVIOUS
<1>5. (current # Null => current \in L) /\ FirstLevel(h)
  BY <1>1, <1>3, <1>4 DEF Lists, FirstLevel
<1>6. \A l \in S : l \in Int /\ l + 2 \in 1..Top /\ l + 3 \in 1..Top /\ \A m \in S : l + 3 # m + 2 /\ (l + 3 = m + 3 => l = m)
  <2>1. TAKE l \in S
  <2>2. l \in Int /\ l + 2 \in 1..Top /\ l + 3 \in 1..Top
    BY <1>1, TileWords
  <2>3. \A m \in S : m + 2 # l + 3 /\ (l + 3 = m + 3 => l = m)
    BY <1>1, WordsApart
  <2> QED  BY <2>2, <2>3
<1>7. Insertable(h, b, c, current)
  <2>1. b + 2 \in 1..Top /\ b + 3 \in 1..Top /\ b \in Int
    BY <1>1, <1>6
  <2>2. current # Null => current + 3 \in 1..Top /\ current + 3 # b + 2 /\ current + 3 # b + 3
    BY <1>1, <1>5, <1>6
  <2> QED  BY <1>1, <1>3, <1>4, <1>5, <2>1, <2>2 DEF Insertable
<1>8. k = insert_free_block(h, b, c)
  <2>1. block_size(h, b) = Z[b]
    BY <1>1, RepBlock
  <2> QED  BY <1>2, <2>1 DEF block_insert, ClassOf
<1>9. Inserted(h, k, b, c, current)
  BY <1>7, <1>8, InsertWords
<1>10. PICK Q : Lists(k, Z, L \cup {b}, Q)
  BY <1>1, <1>2, <1>3, <1>4, <1>9, ListsInsert
<1>11. Tags(k, A, S, Z, F, P, B) /\ Kept(k, S, Z, F, W)
  <2>1. \A a \in 1..Top : (\A l \in F : a # l + 2 /\ a # l + 3) => k.mem[a] = h.mem[a]
    BY <1>1, <1>5, <1>9 DEF Inserted
  <2> QED  BY <1>1, <2>1, LinksFrame
<1>12. L \cup {b} \subseteq F /\ k \in HeapType
  BY <1>1, <1>9 DEF Inserted
<1>13. Rep(k, A, S, Z, F, P, B, L \cup {b}, Q, W)
  BY <1>1, <1>10, <1>11, <1>12 DEF Rep
<1> QED  BY <1>13

\* The same with the class read from the heap.
LEMMA RepBlockRemove ==
    ASSUME NEW h, NEW A, NEW S, NEW Z, NEW F, NEW P, NEW B, NEW L, NEW R, NEW W,
           Rep(h, A, S, Z, F, P, B, L, R, W), NEW b \in L, NEW k, k = block_remove(h, b)
    PROVE  Rep(k, A, S, Z, F, P, B, L \ {b}, R, W)
<1>1. b \in S
  BY DEF Rep
<1>2. block_size(h, b) = Z[b]
  BY <1>1, RepBlock
<1>3. k = remove_free_block(h, b, ClassOf(Z, b))
  BY <1>2 DEF block_remove, ClassOf
<1> QED  BY <1>3, RepRemove

-----------------------------------------------------------------------------
(* Splitting and merging. *)

\* The lists do not depend on the sizes of other blocks.
LEMMA ListsResized ==
    ASSUME NEW h, NEW Z, NEW L, NEW R, Lists(h, Z, L, R), NEW Y, \A l \in L : Y[l] = Z[l]
    PROVE  Lists(h, Y, L, R)
<1>1. \A l \in L : ClassOf(Y, l) = ClassOf(Z, l)
  BY DEF ClassOf
<1> QED  BY <1>1 DEF Lists

\* A block takes in the free block behind it.
LEMMA RepAbsorb ==
    ASSUME NEW h, NEW A, NEW S, NEW Z, NEW F, NEW P, NEW B, NEW L, NEW R, NEW W,
           Rep(h, A, S, Z, F, P, B, L, R, W), NEW b \in S \ L, NEW c \in F \ L, c \in P,
           c = After(Z, b), NEW k, k = block_absorb(h, b, c)
    PROVE  \E Y : /\ Rep(k, A, S \ {c}, Y, F \ {c}, (P \ {c}) \cup {b}, (B \ {c}) \cup {b}, L, R, W)
                  /\ Y[b] = Z[b] + Z[c] + 1 /\ After(Y, b) = After(Z, c) /\ b # c
                  /\ \A d \in S \ {b} : Y[d] = Z[d] /\ After(Y, d) = After(Z, d)
<1>1. /\ h \in HeapType /\ Tiles(A, S, Z) /\ F \subseteq S /\ P \subseteq S /\ B \subseteq S
      /\ L \subseteq F /\ c \in S
      /\ Tags(h, A, S, Z, F, P, B) /\ Lists(h, Z, L, R) /\ Kept(h, S, Z, F, W)
  BY DEF Rep
<1>2. PICK z \in Nat : z = Z[b] + Z[c] + 1
  <2>1. Z[b] \in Nat /\ Z[c] \in Nat
    BY <1>1, TileWords
  <2> QED  BY <2>1
<1>3. PICK Y : Y \in Sizes /\ Y[b] = z /\ \A d \in 1..Top \ {b} : Y[d] = Z[d]
  <2>1. Z \in [1..Top -> Nat] /\ b \in 1..Top
    BY <1>1 DEF Tiles, Sizes
  <2>2. PICK Y : Y = [Z EXCEPT ![b] = z]
    OBVIOUS
  <2>3. Y \in [1..Top -> Nat] /\ Y[b] = z /\ \A d \in 1..Top \ {b} : Y[d] = Z[d]
    BY <2>1, <2>2
  <2> QED  BY <2>3 DEF Sizes
<1>4. /\ Tiles(A, S \ {c}, Y) /\ b # c /\ Nodes(A, S \ {c}) = Nodes(A, S) \ {c}
      /\ After(Y, b) = After(Z, c) /\ \A d \in Nodes(A, S) : d # b => Y[d] = Z[d]
      /\ \A d \in S : d # b => After(Y, d) = After(Z, d)
  <2>1. Tiles(A, S, Z) /\ b \in S /\ c \in S /\ c = After(Z, b)
    BY <1>1
  <2>2. Y \in Sizes /\ Y[b] = Z[b] + Z[c] + 1 /\ \A d \in 1..Top \ {b} : Y[d] = Z[d]
    BY <1>2, <1>3
  <2> QED  BY <2>1, <2>2, MergeTiles
<1>5. PICK g : g = block_set_size(h, b, z)
  OBVIOUS
<1>6. k = block_link_next(g, b)
  <2>1. block_size(h, b) = Z[b] /\ block_size(h, c) = Z[c]
    BY <1>1, RepBlock
  <2> QED  BY <1>2, <1>5, <2>1 DEF block_absorb, Overhead
<1>7. /\ WritesOnly(h, g, {b + 1}) /\ block_size(g, b) = z
      /\ block_is_free(g, b) <=> block_is_free(h, b)
      /\ block_is_prev_free(g, b) <=> block_is_prev_free(h, b)
  <2>1. b \in Int /\ b + 1 \in 1..Top /\ z \in Int
    BY RepBlock
  <2> QED  BY <1>1, <1>5, <2>1, SetSize
<1>8. b \in Nodes(A, S) /\ \A d \in S : d \in Nodes(A, S)
  BY DEF Nodes
<1>9. Lists(g, Y, L, R)
  <2>1. \A l \in L : l + 2 \notin {b + 1} /\ l + 3 \notin {b + 1}
    BY <1>1, <1>8, WordsApart
  <2>2. L \in SUBSET S
    BY <1>1
  <2>3. Lists(g, Z, L, R)
    BY <1>1, <1>7, <2>1, <2>2, ListsFrame
  <2>4. \A l \in L : Y[l] = Z[l]
    BY <1>1, <1>4, <1>8
  <2> QED  BY <2>3, <2>4, ListsResized
<1>10. Kept(g, S \ {c}, Y, F \ {c}, W)
  <2>1. \A a \in W : a \notin {b + 1}
    BY <1>1, <1>8, PayloadApart DEF Kept
  <2>2. Kept(g, S, Z, F, W)
    BY <1>1, <1>7, <2>1, KeptFrame
  <2>3. ASSUME NEW u \in S \ F PROVE u \in (S \ {c}) \ (F \ {c}) /\ Payload(Z, u) \subseteq Payload(Y, u)
    <3>1. u # c
      OBVIOUS
    <3>2. CASE u # b
      BY <1>4, <3>1, <3>2 DEF Payload
    <3>3. CASE u = b
      <4>1. /\ b \in Nat /\ c \in Nat /\ After(Z, c) \in Nat /\ c + 4 <= After(Z, c)
        BY <1>1, TileWords
      <4>2. Payload(Z, b) = b + 2..c /\ Payload(Y, b) = b + 2..After(Z, c)
        BY <1>4 DEF Payload
      <4> QED  BY <3>1, <3>3, <4>1, <4>2
    <3> QED  BY <3>2, <3>3
  <2> QED  BY <2>2, <2>3 DEF Kept
<1>11. Tags(g, A, S \ {c}, Y, F \ {c}, (P \ {c}) \cup {b}, B \ {b, c})
  <2>1. ASSUME NEW d \in Nodes(A, S), d # c
        PROVE  /\ block_size(g, d) = Y[d] /\ (block_is_free(g, d) <=> d \in F \ {c})
               /\ block_is_prev_free(g, d) <=> \E u \in (P \ {c}) \cup {b} : After(Y, u) = d
    <3>1. block_is_prev_free(h, d) <=> \E u \in (P \ {c}) \cup {b} : After(Y, u) = d
      <4>1. block_is_prev_free(h, d) <=> \E u \in P : After(Z, u) = d
        BY <1>1 DEF Tags
      <4>2. ASSUME NEW u \in P, After(Z, u) = d PROVE \E v \in (P \ {c}) \cup {b} : After(Y, v) = d
        <5>1. u # b
          BY <2>1, <4>2
        <5>2. CASE u = c
          BY <1>4, <4>2, <5>2
        <5>3. CASE u # c
          BY <1>1, <1>4, <4>2, <5>1, <5>3
        <5> QED  BY <5>2, <5>3
      <4>3. ASSUME NEW u \in (P \ {c}) \cup {b}, After(Y, u) = d PROVE \E v \in P : After(Z, v) = d
        <5>1. CASE u = b
          BY <1>4, <4>3, <5>1
        <5>2. CASE u # b
          BY <1>1, <1>4, <4>3, <5>2
        <5> QED  BY <5>1, <5>2
      <4> QED  BY <4>1, <4>2, <4>3
    <3>2. block_size(h, d) = Z[d] /\ (block_is_free(h, d) <=> d \in F \ {c})
      BY <1>1, <2>1 DEF Tags
    <3>3. CASE d = b
      BY <1>3, <1>7, <3>1, <3>2, <3>3
    <3>4. CASE d # b
      <4>1. d + 1 \in 1..Top /\ d + 1 \notin {b + 1}
        BY <1>1, <1>8, <3>4, TileWords, WordsApart
      <4>2. Same(h, g, d)
        BY <1>7, <4>1, SameWord
      <4> QED  BY <1>4, <3>1, <3>2, <3>4, <4>2 DEF Same
    <3> QED  BY <3>3, <3>4
  <2>2. ASSUME NEW d \in B \ {b, c} PROVE g.mem[After(Y, d)] = d
    <3>1. After(Z, d) \in 1..Top /\ After(Z, d) # b + 1
      BY <1>1, <1>8, TileWords, WordsApart
    <3>2. g.mem[After(Z, d)] = h.mem[After(Z, d)]
      BY <1>7, <3>1 DEF WritesOnly
    <3>3. h.mem[After(Z, d)] = d /\ After(Y, d) = After(Z, d)
      BY <1>1, <1>4 DEF Tags
    <3> QED  BY <3>2, <3>3
  <2> QED  BY <1>4, <2>1, <2>2 DEF Tags
<1>12. Rep(g, A, S \ {c}, Y, F \ {c}, (P \ {c}) \cup {b}, B \ {b, c}, L, R, W)
  <2>1. /\ F \ {c} \subseteq S \ {c} /\ (P \ {c}) \cup {b} \subseteq S \ {c} /\ B \ {b, c} \subseteq S \ {c}
        /\ L \subseteq F \ {c} /\ g \in HeapType
    BY <1>1, <1>4, <1>7 DEF WritesOnly
  <2> QED  BY <1>4, <1>9, <1>10, <1>11, <2>1 DEF Rep
<1>13. After(Y, b) \notin W
  <2>1. After(Z, c) \in Payload(Z, c)
    <3>1. c \in Nat /\ After(Z, c) \in Nat /\ c + 4 <= After(Z, c)
      BY <1>1, TileWords
    <3> QED  BY <3>1 DEF Payload
  <2>2. \A u \in S \ F : After(Z, c) \notin Payload(Z, u)
    BY <1>1, <2>1, PayloadApart
  <2> QED  BY <1>1, <1>4, <2>2 DEF Kept
<1>14. Rep(k, A, S \ {c}, Y, F \ {c}, (P \ {c}) \cup {b}, (B \ {b, c}) \cup {b}, L, R, W)
  <2>1. b \in S \ {c}
    BY <1>4
  <2> QED  BY <1>6, <1>12, <1>13, <2>1, RepLinkNext
<1>15. (B \ {b, c}) \cup {b} = (B \ {c}) \cup {b}
  BY <1>4
<1>16. \A d \in S \ {b} : Y[d] = Z[d] /\ After(Y, d) = After(Z, d)
  BY <1>4, <1>8
<1> QED  BY <1>2, <1>3, <1>4, <1>14, <1>15, <1>16

\* The sizes after a block has been split.
Split(A, S, Z, b, n, r, Y) ==
    /\ r \notin S /\ r # b /\ r = b + 1 + n /\ r \in 1..Top
    /\ Y[b] = n /\ Y[r] = Z[b] - n - 1
    /\ After(Y, b) = r /\ After(Y, r) = After(Z, b)
    /\ \A c \in S \ {b} : Y[c] = Z[c] /\ After(Y, c) = After(Z, c)

\* A block at b large enough to be cut at r, behind n words.
Cuts(Z, b, n, r) == n \in Nat /\ n >= 3 /\ n + 4 <= Z[b] /\ r = b + 1 + n

\* Its rear becomes a free block, which the block behind is linked to.
Halves(S, F, P, B, b, r, T, E, Q, D) ==
    /\ T = S \cup {r} /\ E = F \cup {r}
    /\ Q \ {b} = (P \ {b}) \cup {r} /\ D = (B \ {b}) \cup {r}

\* The words of W that a block holds are in front of r, or the link of r.
Below(W, Z, b, r) == \A a \in W : a \in Payload(Z, b) => a <= r

\* A block gives up its rear, which is marked free.
LEMMA RepSplit ==
    ASSUME NEW h, NEW A, NEW S, NEW Z, NEW F, NEW P, NEW B, NEW L, NEW R, NEW W,
           Rep(h, A, S, Z, F, P, B, L, R, W), NEW b \in S \ L,
           NEW n, NEW r, Cuts(Z, b, n, r), Below(W, Z, b, r),
           NEW k, k = block_split(h, b, n)
    PROVE  \E T, Y, E, Q, D : /\ Rep(k, A, T, Y, E, Q, D, L, R, W)
                              /\ Split(A, S, Z, b, n, r, Y)
                              /\ Halves(S, F, P, B, b, r, T, E, Q, D)
<1> USE DEF Cuts, Below
<1>1. /\ h \in HeapType /\ Tiles(A, S, Z) /\ F \subseteq S /\ P \subseteq S /\ B \subseteq S
      /\ L \subseteq F /\ L \in SUBSET S
      /\ Tags(h, A, S, Z, F, P, B) /\ Lists(h, Z, L, R) /\ Kept(h, S, Z, F, W)
  BY DEF Rep
<1>2. PICK y : y = Z[b] - n - 1
  OBVIOUS
<1>3. /\ b \in Nat /\ b \in 1..Top /\ Z[b] \in Nat /\ After(Z, b) = b + 1 + Z[b] /\ Top \in Nat
      /\ After(Z, b) \in Nat /\ b + 1 \in 1..Top /\ After(Z, b) \in 1..Top
  BY <1>1, TileWords
<1>4. y \in Nat /\ y >= 3 /\ r \in Nat /\ b < r /\ r + 1 + y = After(Z, b)
  <2>1. PICK z \in Nat : z = Z[b]
    BY <1>3
  <2>2. y \in Nat /\ y >= 3 /\ n + 1 + y = z
    BY <1>2, <2>1
  <2>3. r \in Nat /\ b < r
    BY <1>3
  <2>4. r + 1 + y = After(Z, b)
    BY <1>3, <2>1, <2>2
  <2> QED  BY <2>2, <2>3, <2>4
<1>5. r \in 1..Top /\ r + 1 \in 1..Top /\ r + 1 \in Payload(Z, b) /\ r \in Payload(Z, b)
      /\ r + 1 # After(Z, b)
      /\ r # b /\ r \in Int
  <2>1. PICK e \in Nat : e = After(Z, b) /\ e \in 1..Top
    BY <1>3
  <2>2. r + 1 + y = e
    BY <1>4, <2>1
  <2>3. r + 1 <= e /\ b + 2 <= r
    BY <1>3, <1>4, <2>2
  <2> QED  BY <1>3, <1>4, <2>1, <2>2, <2>3 DEF Payload
<1>6. PICK Y : Y \in Sizes /\ Y[b] = n /\ Y[r] = y /\ \A d \in 1..Top \ {b, r} : Y[d] = Z[d]
  <2>1. Z \in [1..Top -> Nat]
    BY <1>1 DEF Tiles, Sizes
  <2>2. PICK Y : Y = [Z EXCEPT ![b] = n, ![r] = y]
    OBVIOUS
  <2>3. Y \in [1..Top -> Nat] /\ Y[b] = n /\ Y[r] = y /\ \A d \in 1..Top \ {b, r} : Y[d] = Z[d]
    BY <1>3, <1>4, <1>5, <2>1, <2>2
  <2> QED  BY <2>3 DEF Sizes
<1>7. /\ Tiles(A, S \cup {r}, Y)
      /\ r \notin Nodes(A, S) /\ r # b /\ r \in 1..Top
      /\ Y[b] = n /\ Y[r] = y /\ \A c \in Nodes(A, S) : c # b => Y[c] = Z[c]
      /\ After(Y, b) = r /\ After(Y, r) = After(Z, b)
      /\ \A c \in S : c # b => After(Y, c) = After(Z, c)
  <2>1. b \in S
    OBVIOUS
  <2> QED  BY <1>1, <1>2, <1>6, <2>1, SplitTiles
<1>8. Nodes(A, S \cup {r}) = Nodes(A, S) \cup {r} /\ S \subseteq Nodes(A, S)
  BY DEF Nodes
<1>9. PICK g : g = block_set_size(h, r, y)
  OBVIOUS
<1>10. PICK i : i = block_set_size(g, b, n)
  OBVIOUS
<1>11. k = block_mark_as_free(i, r)
  <2>1. block_size(h, b) = Z[b]
    BY RepBlock
  <2>2. SplitAt(b, n) = r
    BY <1>3 DEF SplitAt, Overhead
  <2>3. block_size(h, b) - (n + Overhead) = y
    BY <1>2, <1>3, <2>1 DEF Overhead
  <2> QED  BY <1>9, <1>10, <2>2, <2>3 DEF block_split
<1>12. /\ WritesOnly(h, g, {r + 1}) /\ block_size(g, r) = y
       /\ block_is_free(g, r) <=> block_is_free(h, r)
       /\ block_is_prev_free(g, r) <=> block_is_prev_free(h, r)
  <2>1. y \in Int
    BY <1>4
  <2> QED  BY <1>1, <1>5, <1>9, <2>1, SetSize
<1>13. g \in HeapType
  BY <1>12 DEF WritesOnly
<1>14. /\ WritesOnly(g, i, {b + 1}) /\ block_size(i, b) = n
       /\ block_is_free(i, b) <=> block_is_free(g, b)
       /\ block_is_prev_free(i, b) <=> block_is_prev_free(g, b)
  <2>1. n \in Int /\ b \in Int
    BY <1>3
  <2> QED  BY <1>3, <1>10, <1>13, <2>1, SetSize
<1>15. WritesOnly(h, i, {r + 1, b + 1})
  <2>1. WritesOnly(h, i, {r + 1} \cup {b + 1})
    BY <1>12, <1>14, WritesTwice
  <2>2. {r + 1} \cup {b + 1} = {r + 1, b + 1}
    OBVIOUS
  <2> QED  BY <2>1, <2>2
<1>16. /\ \A c \in Nodes(A, S) : c + 1 # r + 1 /\ (c # b => c + 1 # b + 1)
       /\ \A u \in S : /\ After(Z, u) # r + 1 /\ After(Z, u) # b + 1
                       /\ u # b => u + 2 # r + 1 /\ u + 3 # r + 1
                       /\ u + 2 # b + 1 /\ u + 3 # b + 1
  <2>1. \A c \in Nodes(A, S) : c + 1 # r + 1 /\ (c # b => c + 1 # b + 1)
    BY <1>1, <1>5, <1>8, PayloadApart, WordsApart
  <2>2. ASSUME NEW u \in S PROVE After(Z, u) # b + 1 /\ u + 2 # b + 1 /\ u + 3 # b + 1
    BY <1>1, <1>8, WordsApart
  <2>3. ASSUME NEW u \in S, u # b PROVE After(Z, u) # r + 1 /\ u + 2 # r + 1 /\ u + 3 # r + 1
    BY <1>1, <1>5, <2>3, PayloadApart
  <2> QED  BY <1>5, <2>1, <2>2, <2>3
<1>17. Lists(i, Y, L, R)
  <2>1. \A l \in L : l + 2 \notin {r + 1, b + 1} /\ l + 3 \notin {r + 1, b + 1}
    BY <1>1, <1>16
  <2>2. Lists(i, Z, L, R)
    BY <1>1, <1>15, <2>1, ListsFrame
  <2>3. \A l \in L : Y[l] = Z[l]
    BY <1>1, <1>7, <1>8
  <2> QED  BY <2>2, <2>3, ListsResized
<1>18. PICK G \in SUBSET (S \cup {r}) : /\ r \in G <=> block_is_free(h, r)
                                        /\ G \ {r} = F
  <2>1. CASE block_is_free(h, r)
    <3>1. F \cup {r} \in SUBSET (S \cup {r}) /\ (F \cup {r}) \ {r} = F
      BY <1>1, <1>7, <1>8
    <3> QED  BY <2>1, <3>1
  <2>2. CASE ~block_is_free(h, r)
    <3>1. F \in SUBSET (S \cup {r}) /\ F \ {r} = F /\ r \notin F
      BY <1>1, <1>7, <1>8
    <3> QED  BY <2>2, <3>1
  <2> QED  BY <2>1, <2>2
<1>19. PICK Q \in SUBSET (S \cup {r}) : /\ b \in Q <=> block_is_prev_free(h, r)
                                        /\ r \in Q <=> b \in P
                                        /\ Q \ {b, r} = P \ {b, r}
  <2>1. PICK D : D = {d \in {b} : block_is_prev_free(h, r)}
    OBVIOUS
  <2>2. PICK E : E = {d \in {r} : b \in P}
    OBVIOUS
  <2>3. PICK Q : Q = (P \ {b}) \cup D \cup E
    OBVIOUS
  <2>4. r \notin P
    BY <1>1, <1>7, <1>8
  <2> QED  BY <1>1, <1>7, <2>1, <2>2, <2>3, <2>4
<1>20. ASSUME NEW a \in W
       PROVE  /\ a \notin {r + 1, b + 1} /\ a \notin Payload(Y, r)
              /\ \E u \in (S \cup {r}) \ G : a \in Payload(Y, u)
  <2>1. PICK u \in S \ F : a \in Payload(Z, u)
    BY <1>1 DEF Kept
  <2>2. u \in (S \cup {r}) \ G
    BY <1>7, <1>8, <1>18
  <2>3. a # b + 1
    BY <1>1, <1>8, <2>1, PayloadApart
  <2>4. Payload(Y, r) = r + 2..After(Z, b) /\ Payload(Y, b) = b + 2..r
    BY <1>7 DEF Payload
  <2>5. CASE u = b
    <3>1. a <= r /\ a \in Nat /\ b + 2 <= a
      BY <1>3, <2>1, <2>5 DEF Payload
    <3>2. a \in Payload(Y, b)
      BY <1>3, <1>4, <2>4, <3>1
    <3>3. a # r + 1 /\ a \notin Payload(Y, r)
      BY <1>4, <2>4, <3>1
    <3> QED  BY <2>2, <2>3, <2>5, <3>2, <3>3
  <2>6. CASE u # b
    <3>1. a \notin Payload(Z, b)
      BY <1>1, <2>1, <2>6, PayloadApart
    <3>2. Payload(Y, r) \subseteq Payload(Z, b)
      <4>1. PICK e \in Nat : e = After(Z, b)
        BY <1>3
      <4>2. Payload(Y, r) = r + 2..e /\ Payload(Z, b) = b + 2..e
        BY <2>4, <4>1 DEF Payload
      <4>3. r \in Nat /\ b \in Nat /\ b < r
        BY <1>3, <1>4
      <4>4. b + 2 <= r + 2
        BY <4>3
      <4> QED  BY <4>1, <4>2, <4>3, <4>4
    <3>3. Payload(Y, u) = Payload(Z, u)
      BY <1>7, <2>6 DEF Payload
    <3> QED  BY <1>5, <2>1, <2>2, <2>3, <3>1, <3>2, <3>3
  <2> QED  BY <2>5, <2>6
<1>21. Kept(i, S \cup {r}, Y, G, W)
  <2>1. \A a \in W : a \in 1..Top /\ h.mem[a] = Data
    BY <1>1, PayloadApart DEF Kept
  <2>2. \A a \in W : i.mem[a] = Data
    BY <1>15, <1>20, <2>1 DEF WritesOnly
  <2> QED  BY <1>20, <2>2 DEF Kept
<1>22. Tags(i, A, S \cup {r}, Y, G, Q, B \ {b})
  <2>1. \A d \in Nodes(A, S) : d \in G <=> d \in F
    BY <1>7, <1>18
  <2>2. ASSUME NEW d \in Nodes(A, S)
        PROVE  block_is_prev_free(h, d) <=> \E u \in Q : After(Y, u) = d
    <3>1. block_is_prev_free(h, d) <=> \E u \in P : After(Z, u) = d
      BY <1>1 DEF Tags
    <3>2. ASSUME NEW u \in P, After(Z, u) = d PROVE \E v \in Q : After(Y, v) = d
      <4>1. CASE u = b
        BY <1>7, <1>19, <3>2, <4>1
      <4>2. CASE u # b
        <5>1. u # r /\ u \in S
          BY <1>1, <1>7, <1>8
        <5>2. u \in Q
          BY <1>19, <4>2, <5>1
        <5> QED  BY <1>7, <3>2, <4>2, <5>1, <5>2
      <4> QED  BY <4>1, <4>2
    <3>3. ASSUME NEW u \in Q, After(Y, u) = d PROVE \E v \in P : After(Z, v) = d
      <4>1. CASE u = r
        BY <1>7, <1>19, <3>3, <4>1
      <4>2. CASE u = b
        BY <1>7, <3>3, <4>2
      <4>3. CASE u # r /\ u # b
        <5>1. u \in P /\ u \in S
          BY <1>1, <1>19, <4>3
        <5> QED  BY <1>7, <3>3, <4>3, <5>1
      <4> QED  BY <4>1, <4>2, <4>3
    <3> QED  BY <3>1, <3>2, <3>3
  <2>3. ASSUME NEW d \in Nodes(A, S), d # b
        PROVE  /\ block_size(i, d) = Y[d] /\ (block_is_free(i, d) <=> d \in G)
               /\ block_is_prev_free(i, d) <=> \E u \in Q : After(Y, u) = d
    <3>1. d + 1 \in 1..Top /\ d + 1 \notin {r + 1, b + 1}
      BY <1>1, <1>16, <2>3, TileWords
    <3>2. Same(h, i, d)
      BY <1>15, <3>1, SameWord
    <3>3. block_size(h, d) = Z[d] /\ (block_is_free(h, d) <=> d \in F)
      BY <1>1 DEF Tags
    <3> QED  BY <1>7, <2>1, <2>2, <2>3, <3>2, <3>3 DEF Same
  <2>4. /\ block_size(i, b) = Y[b] /\ (block_is_free(i, b) <=> b \in G)
        /\ block_is_prev_free(i, b) <=> \E u \in Q : After(Y, u) = b
    <3>1. Same(h, g, b)
      <4>1. b + 1 \notin {r + 1}
        BY <1>8, <1>16
      <4> QED  BY <1>3, <1>12, <4>1, SameWord
    <3>2. block_is_free(h, b) <=> b \in F
      BY <1>1, <1>8 DEF Tags
    <3> QED  BY <1>7, <1>8, <1>14, <2>1, <2>2, <3>1, <3>2 DEF Same
  <2>5. /\ block_size(i, r) = Y[r] /\ (block_is_free(i, r) <=> r \in G)
        /\ block_is_prev_free(i, r) <=> \E u \in Q : After(Y, u) = r
    <3>1. Same(g, i, r)
      <4>1. r + 1 \notin {b + 1}
        BY <1>8, <1>16
      <4> QED  BY <1>5, <1>14, <4>1, SameWord
    <3>2. ASSUME NEW u \in Q, After(Y, u) = r PROVE u = b
      <4>1. u \in S \cup {r} /\ b \in S \cup {r}
        BY <1>19
      <4> QED  BY <1>7, <3>2, <4>1, Spaced
    <3>3. (\E u \in Q : After(Y, u) = r) <=> b \in Q
      BY <1>7, <3>2
    <3> QED  BY <1>7, <1>12, <1>18, <1>19, <3>1, <3>3 DEF Same
  <2>6. ASSUME NEW d \in B \ {b} PROVE i.mem[After(Y, d)] = d
    <3>1. After(Z, d) \in 1..Top /\ After(Z, d) \notin {r + 1, b + 1}
      BY <1>1, <1>16, TileWords
    <3>2. i.mem[After(Z, d)] = h.mem[After(Z, d)]
      BY <1>15, <3>1 DEF WritesOnly
    <3>3. h.mem[After(Z, d)] = d /\ After(Y, d) = After(Z, d)
      BY <1>1, <1>7 DEF Tags
    <3> QED  BY <3>2, <3>3
  <2> QED  BY <1>8, <2>3, <2>4, <2>5, <2>6 DEF Tags
<1>23. Rep(i, A, S \cup {r}, Y, G, Q, B \ {b}, L, R, W)
  <2>1. B \ {b} \subseteq S \cup {r} /\ L \subseteq G /\ i \in HeapType
        /\ G \subseteq S \cup {r} /\ Q \subseteq S \cup {r}
    BY <1>1, <1>15, <1>18, <1>19 DEF WritesOnly
  <2> QED  BY <1>7, <1>17, <1>21, <1>22, <2>1 DEF Rep
<1>24. Rep(k, A, S \cup {r}, Y, G \cup {r}, Q \cup {r}, (B \ {b}) \cup {r}, L, R, W)
  <2>1. r \in S \cup {r} /\ \A a \in W : a \notin Payload(Y, r)
    BY <1>20
  <2> QED  BY <1>11, <1>23, <2>1, RepMarkFree
<1>25. G \cup {r} = F \cup {r} /\ (Q \cup {r}) \ {b} = (P \ {b}) \cup {r}
  <2>1. G \cup {r} = F \cup {r}
    BY <1>18
  <2>2. (Q \cup {r}) \ {b} = (P \ {b}) \cup {r}
    BY <1>7, <1>19
  <2> QED  BY <2>1, <2>2
<1>26. Split(A, S, Z, b, n, r, Y)
  <2>1. \A c \in S \ {b} : Y[c] = Z[c] /\ After(Y, c) = After(Z, c)
    BY <1>7, <1>8
  <2> QED  BY <1>2, <1>5, <1>7, <1>8, <2>1 DEF Split
<1>27. PICK T, E, V, D : /\ T = S \cup {r} /\ E = F \cup {r} /\ V = Q \cup {r}
                         /\ D = (B \ {b}) \cup {r}
  OBVIOUS
<1>28. Rep(k, A, T, Y, E, V, D, L, R, W)
  BY <1>24, <1>25, <1>27
<1>29. Halves(S, F, P, B, b, r, T, E, V, D)
  BY <1>25, <1>27 DEF Halves
<1> QED  BY <1>26, <1>28, <1>29

-----------------------------------------------------------------------------
(* Between two calls every free block is in a list, and no two are neighbours. *)

Good(h, A, S, Z, F, R, W) ==
    /\ Rep(h, A, S, Z, F, F, F, F, R, W)
    /\ \A u \in F : After(Z, u) \notin F

\* During a call one free block is in no list.
Loose(h, A, S, Z, F, b, R, W) ==
    /\ b \in F
    /\ Rep(h, A, S, Z, F, F, F, F \ {b}, R, W)
    /\ \A u \in F \ {b} : After(Z, u) \notin F \ {b}

\* The blocks in use are the same, and as large.
Keeps(S, Z, F, T, Y, G) ==
    /\ T \ G = S \ F
    /\ \A u \in S \ F : Y[u] = Z[u]

\* Two calls in a row.
LEMMA KeepsTwice ==
    ASSUME NEW S, NEW Z, NEW F, NEW T, NEW Y, NEW G, NEW U, NEW X, NEW H,
           Keeps(S, Z, F, T, Y, G), Keeps(T, Y, G, U, X, H)
    PROVE  Keeps(S, Z, F, U, X, H)
  BY DEF Keeps

\* Nothing has changed.
LEMMA KeepsSelf ==
    ASSUME NEW S, NEW Z, NEW F
    PROVE  Keeps(S, Z, F, S, Z, F)
  BY DEF Keeps

\* block_insert ends a call: the block is in a list again.
LEMMA LooseInsert ==
    ASSUME NEW h, NEW A, NEW S, NEW Z, NEW F, NEW b, NEW R, NEW W, Loose(h, A, S, Z, F, b, R, W),
           \A u \in F : After(Z, u) # b, After(Z, b) \notin F,
           NEW k, k = block_insert(h, b)
    PROVE  \E Q : Good(k, A, S, Z, F, Q, W)
<1>1. b \in F \ (F \ {b}) /\ Rep(h, A, S, Z, F, F, F, F \ {b}, R, W) /\ (F \ {b}) \cup {b} = F
  BY DEF Loose
<1>2. PICK Q : Rep(k, A, S, Z, F, F, F, (F \ {b}) \cup {b}, Q, W)
  BY <1>1, RepInsert
<1>3. \A u \in F : After(Z, u) \notin F
  BY DEF Loose
<1> QED  BY <1>1, <1>2, <1>3 DEF Good

\* block_absorb of a free block, between free blocks and blocks in use alike.
LEMMA RepAbsorbFree ==
    ASSUME NEW g, NEW A, NEW S, NEW Z, NEW F, NEW L, NEW R, NEW W,
           Rep(g, A, S, Z, F, F, F, L, R, W), NEW p, p \in S \ L, NEW c, c \in F \ L,
           c = After(Z, p), NEW k, k = block_absorb(g, p, c)
    PROVE  \E Y : /\ Rep(k, A, S \ {c}, Y, F \ {c}, (F \ {c}) \cup {p}, (F \ {c}) \cup {p}, L, R, W)
                  /\ Y[p] = Z[p] + Z[c] + 1 /\ After(Y, p) = After(Z, c) /\ p # c
                  /\ \A d \in S \ {p} : Y[d] = Z[d] /\ After(Y, d) = After(Z, d)
<1>1. c \in F
  OBVIOUS
<1> QED  BY <1>1, RepAbsorb

\* block_merge_next: the block behind is not free any more.
LEMMA LooseMergeNext ==
    ASSUME NEW h, NEW A, NEW S, NEW Z, NEW F, NEW b, NEW R, NEW W, Loose(h, A, S, Z, F, b, R, W),
           \A u \in F : After(Z, u) # b,
           NEW k, k = block_merge_next(h, b)
    PROVE  \E T, Y, G : /\ Loose(k, A, T, Y, G, b, R, W) /\ Keeps(S, Z, F, T, Y, G)
                        /\ \A u \in G : After(Y, u) # b
                        /\ After(Y, b) \notin G /\ After(Y, b) >= After(Z, b)
<1> DEFINE c == After(Z, b)
<1>1. /\ Rep(h, A, S, Z, F, F, F, F \ {b}, R, W) /\ b \in F /\ F \subseteq S /\ b \in S /\ Tiles(A, S, Z)
      /\ \A u \in F \ {b} : After(Z, u) \notin F \ {b}
  BY DEF Loose, Rep
<1>2. block_next(h, b) = c /\ (block_is_free(h, c) <=> c \in F) /\ c \in Int
  BY <1>1, RepBlock
<1>3. CASE c \notin F
  <2>1. k = h
    BY <1>2, <1>3 DEF block_merge_next
  <2>2. c >= c
    BY <1>2
  <2> QED  BY <1>3, <2>1, <2>2, KeepsSelf
<1>4. CASE c \in F
  <2>1. c # b
    BY <1>1
  <2>2. PICK g : g = block_remove(h, c)
    OBVIOUS
  <2>3. c \in F \ {b}
    BY <1>4, <2>1
  <2>4. PICK L : L = (F \ {b}) \ {c}
    OBVIOUS
  <2>5. Rep(g, A, S, Z, F, F, F, L, R, W)
    BY <1>1, <2>2, <2>3, <2>4, RepBlockRemove
  <2>6. k = block_absorb(g, b, c)
    BY <1>2, <1>4, <2>2 DEF block_merge_next
  <2>7. PICK Y : /\ Rep(k, A, S \ {c}, Y, F \ {c}, (F \ {c}) \cup {b}, (F \ {c}) \cup {b}, L, R, W)
                 /\ Y[b] = Z[b] + Z[c] + 1 /\ After(Y, b) = After(Z, c) /\ b # c
                 /\ \A d \in S \ {b} : Y[d] = Z[d] /\ After(Y, d) = After(Z, d)
    <3>1. b \in S \ L /\ c \in F \ L /\ c \in F /\ c = After(Z, b)
      BY <1>1, <1>4, <2>4
    <3> QED  BY <2>5, <2>6, <3>1, RepAbsorb
  <2>8. PICK T : T = S \ {c}
    OBVIOUS
  <2>9. PICK G : G = F \ {c}
    OBVIOUS
  <2>10. (F \ {c}) \cup {b} = G /\ L = G \ {b} /\ b \in G
    BY <1>1, <2>1, <2>4, <2>9
  <2>11. Rep(k, A, T, Y, G, G, G, G \ {b}, R, W)
    BY <2>7, <2>8, <2>9, <2>10
  <2>12. \A u \in G : u # b => u \in S /\ u \in F \ {b} /\ After(Y, u) = After(Z, u)
    BY <1>1, <2>7, <2>9
  <2>13. \A u \in G \ {b} : After(Y, u) \notin G \ {b}
    BY <1>1, <2>9, <2>12
  <2>14. After(Y, b) = After(Z, c) /\ After(Z, c) \notin F /\ After(Z, c) # b
    BY <1>1, <1>4, <2>3, <2>7
  <2>15. c \in Nat /\ After(Z, c) \in Nat /\ c + 4 <= After(Z, c)
    BY <1>1, <1>4, TileWords
  <2>16. Keeps(S, Z, F, T, Y, G)
    BY <1>1, <1>4, <2>7, <2>8, <2>9 DEF Keeps
  <2>17. After(Y, b) >= c
    BY <2>14, <2>15
  <2>18. Loose(k, A, T, Y, G, b, R, W)
    BY <2>10, <2>11, <2>13 DEF Loose
  <2>19. \A u \in G : After(Y, u) # b
    BY <2>9, <2>12, <2>14
  <2> QED  BY <2>9, <2>14, <2>16, <2>17, <2>18, <2>19
<1> QED  BY <1>3, <1>4

\* block_merge_prev: nor is the block in front.
LEMMA LooseMergePrev ==
    ASSUME NEW h, NEW A, NEW S, NEW Z, NEW F, NEW b, NEW R, NEW W, Loose(h, A, S, Z, F, b, R, W),
           NEW k, k = block_merge_prev(h, b), NEW at, at = MergedAt(h, b)
    PROVE  \E T, Y, G : /\ Loose(k, A, T, Y, G, at, R, W) /\ Keeps(S, Z, F, T, Y, G)
                        /\ \A u \in G : After(Y, u) # at
<1>1. /\ Rep(h, A, S, Z, F, F, F, F \ {b}, R, W) /\ b \in F /\ F \subseteq S /\ b \in S /\ Tiles(A, S, Z)
      /\ \A u \in F \ {b} : After(Z, u) \notin F \ {b}
      /\ Tags(h, A, S, Z, F, F, F)
  BY DEF Loose, Rep
<1>2. block_is_prev_free(h, b) <=> \E u \in F : After(Z, u) = b
  BY <1>1, RepBlock
<1>3. CASE ~\E u \in F : After(Z, u) = b
  <2>1. k = h /\ at = b
    BY <1>2, <1>3 DEF block_merge_prev, MergedAt
  <2> QED  BY <1>3, <2>1, KeepsSelf
<1>4. ASSUME NEW p \in F, After(Z, p) = b
      PROVE  \E T, Y, G : /\ Loose(k, A, T, Y, G, at, R, W) /\ Keeps(S, Z, F, T, Y, G)
                          /\ \A u \in G : After(Y, u) # at
  <2>1. h.mem[b] = p
    BY <1>1, <1>4 DEF Tags
  <2>2. at = p /\ k = block_absorb(block_remove(h, p), p, b)
    BY <1>2, <1>4, <2>1 DEF MergedAt, block_merge_prev
  <2>3. p # b /\ p \in S
    <3>1. p \in S /\ p + 4 <= After(Z, p) /\ p \in Nat
      BY <1>1, TileWords
    <3> QED  BY <1>4, <3>1
  <2>4. PICK g : g = block_remove(h, p)
    OBVIOUS
  <2>5. PICK L : L = (F \ {b}) \ {p}
    OBVIOUS
  <2>6. Rep(g, A, S, Z, F, F, F, L, R, W)
    <3>1. p \in F \ {b}
      BY <2>3
    <3> QED  BY <1>1, <2>4, <2>5, <3>1, RepBlockRemove
  <2>7. PICK Y : /\ Rep(k, A, S \ {b}, Y, F \ {b}, (F \ {b}) \cup {p}, (F \ {b}) \cup {p}, L, R, W)
                 /\ Y[p] = Z[p] + Z[b] + 1 /\ After(Y, p) = After(Z, b) /\ p # b
                 /\ \A d \in S \ {p} : Y[d] = Z[d] /\ After(Y, d) = After(Z, d)
    <3>1. p \in S \ L
      BY <2>3, <2>5
    <3>2. b \in F \ L
      BY <1>1, <2>5
    <3>3. b \in F
      BY <1>1
    <3>4. b = After(Z, p)
      BY <1>4
    <3>5. k = block_absorb(g, p, b)
      BY <2>2, <2>4
    <3> QED  BY <2>6, <3>1, <3>2, <3>3, <3>4, <3>5, RepAbsorbFree
  <2>8. PICK T : T = S \ {b}
    OBVIOUS
  <2>9. PICK G : G = F \ {b}
    OBVIOUS
  <2>10. (F \ {b}) \cup {p} = G /\ L = G \ {p} /\ p \in G
    BY <2>3, <2>5, <2>9
  <2>11. Rep(k, A, T, Y, G, G, G, G \ {p}, R, W)
    BY <2>7, <2>8, <2>9, <2>10
  <2>12. \A u \in G : u # p => u \in S /\ u \in F \ {b} /\ After(Y, u) = After(Z, u)
    BY <1>1, <2>7, <2>9
  <2>13. \A u \in G \ {p} : After(Y, u) \notin G \ {p}
    BY <1>1, <2>9, <2>12
  <2>14. \A u \in G : After(Y, u) # p
    <3>1. TAKE u \in G
    <3>2. CASE u = p
      <4>1. b \in Nat /\ After(Z, b) \in Nat /\ b + 4 <= After(Z, b) /\ p \in Nat /\ p + 4 <= b
        BY <1>1, <1>4, <2>3, TileWords
      <4> QED  BY <2>7, <3>2, <4>1
    <3>3. CASE u # p
      BY <1>1, <2>3, <2>12, <3>3
    <3> QED  BY <3>2, <3>3
  <2>15. Keeps(S, Z, F, T, Y, G)
    BY <1>1, <2>7, <2>8, <2>9 DEF Keeps
  <2>16. Loose(k, A, T, Y, G, p, R, W)
    BY <2>10, <2>11, <2>13 DEF Loose
  <2> QED  BY <2>2, <2>14, <2>15, <2>16
<1> QED  BY <1>3, <1>4

\* tlsf_free: the block is gone, and all others are what they were.
LEMMA FreeHeap ==
    ASSUME NEW h, NEW A, NEW S, NEW Z, NEW F, NEW R, NEW W, Good(h, A, S, Z, F, R, W),
           NEW b \in S \ F, \A a \in W : a \notin Payload(Z, b),
           NEW k, k = tlsf_free(h, b)
    PROVE  \E T, Y, G, Q : /\ Good(k, A, T, Y, G, Q, W)
                           /\ T \ G = (S \ F) \ {b}
                           /\ \A u \in T \ G : Y[u] = Z[u]
<1>1. PICK i : i = block_mark_as_free(h, b)
  OBVIOUS
<1>2. Rep(h, A, S, Z, F, F, F, F, R, W) /\ \A u \in F : After(Z, u) \notin F
  BY DEF Good
<1>3. PICK E : E = F \cup {b}
  OBVIOUS
<1>4. Rep(i, A, S, Z, E, E, E, F, R, W)
  BY <1>1, <1>2, <1>3, RepMarkFree
<1>5. F = E \ {b} /\ b \in E
  BY <1>3
<1>6. Loose(i, A, S, Z, E, b, R, W)
  BY <1>2, <1>4, <1>5 DEF Loose
<1>7. PICK at : at = MergedAt(i, b)
  OBVIOUS
<1>8. PICK j : j = block_merge_prev(i, b)
  OBVIOUS
<1>9. PICK T1, Y1, G1 : /\ Loose(j, A, T1, Y1, G1, at, R, W) /\ Keeps(S, Z, E, T1, Y1, G1)
                        /\ \A u \in G1 : After(Y1, u) # at
  BY <1>6, <1>7, <1>8, LooseMergePrev
<1>10. PICK m : m = block_merge_next(j, at)
  OBVIOUS
<1>11. PICK T, Y, G : /\ Loose(m, A, T, Y, G, at, R, W) /\ Keeps(T1, Y1, G1, T, Y, G)
                      /\ \A u \in G : After(Y, u) # at
                      /\ After(Y, at) \notin G
  BY <1>9, <1>10, LooseMergeNext
<1>12. k = block_insert(m, at)
  BY <1>1, <1>7, <1>8, <1>10 DEF tlsf_free
<1>13. PICK Q : Good(k, A, T, Y, G, Q, W)
  BY <1>11, <1>12, LooseInsert
<1>14. Keeps(S, Z, E, T, Y, G)
  BY <1>9, <1>11, KeepsTwice
<1>15. T \ G = (S \ F) \ {b} /\ \A u \in T \ G : Y[u] = Z[u]
  BY <1>3, <1>14 DEF Keeps
<1> QED  BY <1>13, <1>15

\* The words of a free block are nobody's.
LEMMA FreeWords ==
    ASSUME NEW h, NEW A, NEW S, NEW Z, NEW F, NEW P, NEW B, NEW L, NEW R, NEW W,
           Rep(h, A, S, Z, F, P, B, L, R, W), NEW b \in F
    PROVE  \A a \in W : a \notin Payload(Z, b)
<1>1. Tiles(A, S, Z) /\ b \in S /\ Kept(h, S, Z, F, W)
  BY DEF Rep
<1>2. SUFFICES ASSUME NEW a \in W, a \in Payload(Z, b) PROVE FALSE
  OBVIOUS
<1>3. PICK u \in S \ F : a \in Payload(Z, u)
  BY <1>1 DEF Kept
<1>4. b # u
  OBVIOUS
<1> QED  BY <1>1, <1>2, <1>3, <1>4, PayloadApart

\* Given out: b is in use, with n words at least.
Gives(S, Z, F, b, n, T, Y, G) ==
    /\ b \notin S \ F /\ T \ G = (S \ F) \cup {b}
    /\ \A u \in S \ F : Y[u] = Z[u]
    /\ Y[b] >= n

\* A block divided into one of n words and one behind it that is free.
Divided(S, Z, b, n, r, Y) ==
    /\ r \notin S /\ r # b
    /\ After(Y, b) = r /\ After(Y, r) = After(Z, b) /\ After(Y, r) # r
    /\ \A u \in S : u # b => Y[u] = Z[u] /\ After(Y, u) = After(Z, u) /\ After(Y, u) # r
    /\ Y[b] = n /\ Y[r] = Z[b] - n - 1

\* What Split says, without the places.
LEMMA SplitApart ==
    ASSUME NEW A, NEW S, NEW Z, NEW F, NEW b \in S, NEW n, NEW r, NEW Y, Split(A, S, Z, b, n, r, Y),
           Tiles(A, S \cup {r}, Y)
    PROVE  Divided(S, Z, b, n, r, Y)
<1>1. /\ After(Y, b) = r /\ After(Y, r) = After(Z, b) /\ r \notin S /\ r # b
      /\ Y[b] = n /\ Y[r] = Z[b] - n - 1
      /\ \A c \in S \ {b} : Y[c] = Z[c] /\ After(Y, c) = After(Z, c)
  BY DEF Split
<1>2. \A u \in S \cup {r} : After(Y, u) = r => u = b
  BY <1>1, Spaced
<1>3. After(Y, r) # r
  BY <1>1, <1>2
<1> QED  BY <1>1, <1>2, <1>3 DEF Divided

\* block_split, of a block that is in no list.
LEMMA Divide ==
    ASSUME NEW h, NEW A, NEW S, NEW Z, NEW F, NEW L, NEW R, NEW W, Rep(h, A, S, Z, F, F, F, L, R, W),
           NEW b \in S \ L, NEW n, NEW r, Cuts(Z, b, n, r),
           Below(W, Z, b, r),
           NEW k, k = block_split(h, b, n)
    PROVE  \E T, Y, E, Q, D : /\ Rep(k, A, T, Y, E, Q, D, L, R, W)
                              /\ Divided(S, Z, b, n, r, Y)
                              /\ Halves(S, F, F, F, b, r, T, E, Q, D)
<1>1. PICK T, Y, E, Q, D : /\ Rep(k, A, T, Y, E, Q, D, L, R, W)
                           /\ Split(A, S, Z, b, n, r, Y)
                           /\ Halves(S, F, F, F, b, r, T, E, Q, D)
  BY RepSplit
<1>2. Divided(S, Z, b, n, r, Y)
  <2>1. Tiles(A, S \cup {r}, Y)
    BY <1>1 DEF Rep, Halves
  <2> QED  BY <1>1, <2>1, SplitApart
<1> QED  BY <1>1, <1>2

\* The first word of the rear of a free block is nobody's.
LEMMA RearWord ==
    ASSUME NEW h, NEW A, NEW S, NEW Z, NEW F, NEW P, NEW B, NEW L, NEW R, NEW W,
           Rep(h, A, S, Z, F, P, B, L, R, W), NEW b \in F,
           NEW n, NEW r, Cuts(Z, b, n, r)
    PROVE  r \notin W
<1>1. Tiles(A, S, Z) /\ b \in S
  BY DEF Rep
<1>2. b \in Nat /\ Z[b] \in Nat /\ After(Z, b) = b + 1 + Z[b]
  BY <1>1, TileWords
<1>3. r \in Payload(Z, b)
  BY <1>2 DEF Payload, Cuts
<1> QED  BY <1>3, FreeWords

\* block_prepare_used, not dividing the block.
LEMMA PrepareWhole ==
    ASSUME NEW h, NEW A, NEW S, NEW Z, NEW F, NEW b, NEW R, NEW W, Loose(h, A, S, Z, F, b, R, W),
           NEW k, k = block_mark_as_used(h, b)
    PROVE  Good(k, A, S, Z, F \ {b}, R, W)
<1>1. /\ Rep(h, A, S, Z, F, F, F, F \ {b}, R, W) /\ b \in F /\ b \in S
      /\ \A u \in F \ {b} : After(Z, u) \notin F \ {b}
  BY DEF Loose, Rep
<1>2. PICK G : G = F \ {b}
  OBVIOUS
<1>3. Rep(k, A, S, Z, G, G, F, G, R, W)
  <2>1. b \notin G /\ Rep(h, A, S, Z, F, F, F, G, R, W)
    BY <1>1, <1>2
  <2> QED  BY <1>1, <1>2, <2>1, RepMarkUsed
<1>4. Rep(k, A, S, Z, G, G, G, G, R, W)
  <2>1. G \in SUBSET F /\ W \in SUBSET W
    BY <1>2
  <2> QED  BY <1>3, <2>1, RepWeaker
<1> QED  BY <1>1, <1>2, <1>4 DEF Good

\* block_prepare_used, giving the rest back.
LEMMA PrepareSplit ==
    ASSUME NEW h, NEW A, NEW S, NEW Z, NEW F, NEW b, NEW R, NEW W, Loose(h, A, S, Z, F, b, R, W),
           After(Z, b) \notin F, NEW n, NEW r, Cuts(Z, b, n, r),
           NEW k, k = block_insert(block_set_prev_free(block_link_next(block_split(h, b, n), b), r), r)
    PROVE  \E T, Y, E, Q : /\ Loose(k, A, T, Y, E, b, Q, W)
                           /\ Gives(S, Z, F, b, n, T, Y, E \ {b})
<1>1. /\ Rep(h, A, S, Z, F, F, F, F \ {b}, R, W) /\ b \in F /\ b \in S /\ F \subseteq S
      /\ \A u \in F \ {b} : After(Z, u) \notin F \ {b}
  BY DEF Loose, Rep
<1>2. PICK L : L = F \ {b}
  OBVIOUS
<1>3. PICK i : i = block_split(h, b, n)
  OBVIOUS
<1>4. PICK j : j = block_link_next(i, b)
  OBVIOUS
<1>5. PICK l : l = block_set_prev_free(j, r)
  OBVIOUS
<1>6. k = block_insert(l, r)
  BY <1>3, <1>4, <1>5
<1>7. PICK T, Y, E, Q, D : /\ Rep(i, A, T, Y, E, Q, D, L, R, W)
                           /\ Divided(S, Z, b, n, r, Y)
                           /\ Halves(S, F, F, F, b, r, T, E, Q, D)
  <2>1. Below(W, Z, b, r)
    BY <1>1, FreeWords DEF Below
  <2>2. Rep(h, A, S, Z, F, F, F, L, R, W) /\ b \in S \ L
    BY <1>1, <1>2
  <2> QED  BY <1>3, <2>1, <2>2, Divide
<1>8. b \in T /\ r = After(Y, b) /\ r \notin W
  BY <1>1, <1>7, RearWord DEF Divided, Halves
<1>9. Rep(j, A, T, Y, E, Q, D \cup {b}, L, R, W)
  BY <1>4, <1>7, <1>8, RepLinkNext
<1>10. Rep(l, A, T, Y, E, Q \cup {b}, D \cup {b}, L, R, W)
  BY <1>5, <1>8, <1>9, RepSetPrevFree
<1>11. Q \cup {b} = E /\ D \cup {b} = E /\ L \cup {r} = E \ {b} /\ b \in E /\ r \in E \ L
  BY <1>1, <1>2, <1>7 DEF Divided, Halves
<1>12. Rep(l, A, T, Y, E, E, E, L, R, W)
  BY <1>10, <1>11
<1>13. PICK V : Rep(k, A, T, Y, E, E, E, L \cup {r}, V, W)
  BY <1>6, <1>11, <1>12, RepInsert
<1>14. Loose(k, A, T, Y, E, b, V, W)
  <2>1. Rep(k, A, T, Y, E, E, E, E \ {b}, V, W)
    BY <1>11, <1>13
  <2>2. \A u \in E \ {b} : After(Y, u) \notin E \ {b}
    BY <1>1, <1>7 DEF Divided, Halves
  <2> QED  BY <1>11, <2>1, <2>2 DEF Loose
<1>15. Gives(S, Z, F, b, n, T, Y, E \ {b})
  <2>1. Y[b] = n /\ n >= n
    BY <1>7 DEF Divided, Cuts
  <2>2. T \ (E \ {b}) = (S \ F) \cup {b}
    BY <1>1, <1>7 DEF Divided, Halves
  <2>3. \A u \in S \ F : Y[u] = Z[u]
    BY <1>1, <1>7 DEF Divided, Halves
  <2> QED  BY <1>1, <2>1, <2>2, <2>3 DEF Gives
<1> QED  BY <1>14, <1>15

\* block_prepare_used: the block is given out, and what is left of it goes back.
LEMMA PrepareUsed ==
    ASSUME NEW h, NEW A, NEW S, NEW Z, NEW F, NEW b, NEW R, NEW W, Loose(h, A, S, Z, F, b, R, W),
           After(Z, b) \notin F, NEW n \in Nat, n >= 3, n <= Z[b],
           NEW k, k = block_prepare_used(h, b, n)
    PROVE  k.block = b /\ \E T, Y, G, Q : Good(k.heap, A, T, Y, G, Q, W) /\ Gives(S, Z, F, b, n, T, Y, G)
<1>1. /\ Rep(h, A, S, Z, F, F, F, F \ {b}, R, W) /\ b \in F /\ b \in S /\ F \subseteq S /\ Tiles(A, S, Z)
  BY DEF Loose, Rep
<1>2. b \in Nat /\ b >= 3 /\ Z[b] \in Nat /\ b # Null /\ block_size(h, b) = Z[b]
  BY <1>1, RepBlock, TileWords
<1>3. k.block = b /\ k.heap = block_mark_as_used(block_trim_free(h, b, n), b)
  BY <1>2 DEF block_prepare_used
<1>4. CASE n + 4 <= Z[b]
  <2>1. PICK r : r = b + 1 + n
    OBVIOUS
  <2>2. SplitAt(b, n) = r /\ block_can_split(h, b, n)
    BY <1>2, <1>4, <2>1 DEF SplitAt, Overhead, block_can_split, Header
  <2>3. PICK m : m = block_trim_free(h, b, n)
    OBVIOUS
  <2>4. m = block_insert(block_set_prev_free(block_link_next(block_split(h, b, n), b), r), r)
    BY <2>2, <2>3 DEF block_trim_free
  <2>5. PICK T, Y, E, Q : Loose(m, A, T, Y, E, b, Q, W) /\ Gives(S, Z, F, b, n, T, Y, E \ {b})
    <3>1. Cuts(Z, b, n, r)
      BY <1>4, <2>1 DEF Cuts
    <3> QED  BY <2>4, <3>1, PrepareSplit
  <2>6. PICK x : x = k.heap
    OBVIOUS
  <2>7. x = block_mark_as_used(m, b)
    BY <1>3, <2>3, <2>6
  <2>8. Good(x, A, T, Y, E \ {b}, Q, W)
    BY <2>5, <2>7, PrepareWhole
  <2> QED  BY <1>3, <2>5, <2>6, <2>8
<1>5. CASE ~(n + 4 <= Z[b])
  <2>1. block_trim_free(h, b, n) = h
    BY <1>2, <1>5 DEF block_trim_free, block_can_split, Header
  <2>2. PICK x : x = k.heap
    OBVIOUS
  <2>3. x = block_mark_as_used(h, b)
    BY <1>3, <2>1, <2>2
  <2>4. Good(x, A, S, Z, F \ {b}, R, W)
    BY <2>3, PrepareWhole
  <2>5. Gives(S, Z, F, b, n, S, Z, F \ {b})
    <3>1. S \ (F \ {b}) = (S \ F) \cup {b}
      BY <1>1
    <3>2. Z[b] >= n
      BY <1>2
    <3> QED  BY <1>1, <3>1, <3>2 DEF Gives
  <2> QED  BY <1>3, <2>2, <2>4, <2>5
<1> QED  BY <1>4, <1>5

\* Shrunk: the blocks in use are the same, and only b is smaller, but not than n.
Trims(S, Z, F, b, n, T, Y, G) ==
    /\ T \ G = S \ F
    /\ \A u \in S \ F : u # b => Y[u] = Z[u]
    /\ Y[b] >= n

\* block_trim_used: what a block in use does not need any more is free.
LEMMA TrimSplit ==
    ASSUME NEW h, NEW A, NEW S, NEW Z, NEW F, NEW R, NEW W, Good(h, A, S, Z, F, R, W), NEW b \in S \ F,
           NEW n, NEW r, Cuts(Z, b, n, r), Below(W, Z, b, r),
           NEW k, k = block_insert(block_merge_next(block_set_prev_used(block_split(h, b, n), r), r), r)
    PROVE  \E T, Y, G, Q : Good(k, A, T, Y, G, Q, W) /\ Trims(S, Z, F, b, n, T, Y, G)
<1>1. /\ Rep(h, A, S, Z, F, F, F, F, R, W) /\ b \in S /\ F \subseteq S
      /\ \A u \in F : After(Z, u) \notin F
  BY DEF Good, Rep
<1>2. PICK i : i = block_split(h, b, n)
  OBVIOUS
<1>3. PICK j : j = block_set_prev_used(i, r)
  OBVIOUS
<1>4. PICK m : m = block_merge_next(j, r)
  OBVIOUS
<1>5. k = block_insert(m, r)
  BY <1>2, <1>3, <1>4
<1>6. PICK T1, Y1, E, Q1, D : /\ Rep(i, A, T1, Y1, E, Q1, D, F, R, W)
                              /\ Divided(S, Z, b, n, r, Y1)
                              /\ Halves(S, F, F, F, b, r, T1, E, Q1, D)
  BY <1>1, <1>2, Divide
<1>7. D = E /\ F = E \ {r} /\ r \in E /\ b \in T1 /\ r = After(Y1, b) /\ Q1 \ {b} = E
  BY <1>1, <1>6 DEF Divided, Halves
<1>8. Rep(j, A, T1, Y1, E, E, E, E \ {r}, R, W)
  <2>1. Rep(j, A, T1, Y1, E, Q1 \ {b}, D, F, R, W)
    BY <1>3, <1>6, <1>7, RepSetPrevUsed
  <2> QED  BY <1>7, <2>1
<1>9. Loose(j, A, T1, Y1, E, r, R, W)
  <2>1. \A u \in E \ {r} : After(Y1, u) \notin E \ {r}
    BY <1>1, <1>6, <1>7 DEF Divided
  <2> QED  BY <1>7, <1>8, <2>1 DEF Loose
<1>10. \A u \in E : After(Y1, u) # r
  BY <1>1, <1>6, <1>7 DEF Divided
<1>11. PICK T, Y, G : /\ Loose(m, A, T, Y, G, r, R, W) /\ Keeps(T1, Y1, E, T, Y, G)
                      /\ \A u \in G : After(Y, u) # r
                      /\ After(Y, r) \notin G
  BY <1>4, <1>9, <1>10, LooseMergeNext
<1>12. PICK Q : Good(k, A, T, Y, G, Q, W)
  BY <1>5, <1>11, LooseInsert
<1>13. T1 \ E = S \ F
  BY <1>1, <1>6 DEF Divided, Halves
<1>14. T \ G = S \ F /\ \A u \in S \ F : Y[u] = Y1[u]
  BY <1>11, <1>13 DEF Keeps
<1>15. Y1[b] = n /\ (\A u \in S : u # b => Y1[u] = Z[u]) /\ n >= n
  BY <1>6 DEF Divided, Cuts
<1>16. Trims(S, Z, F, b, n, T, Y, G)
  BY <1>14, <1>15 DEF Trims
<1> QED  BY <1>12, <1>16

\* The same whether or not the block is divided.
LEMMA TrimUsed ==
    ASSUME NEW h, NEW A, NEW S, NEW Z, NEW F, NEW R, NEW W, Good(h, A, S, Z, F, R, W), NEW b \in S \ F,
           NEW n \in Nat, n >= 3, n <= Z[b], Below(W, Z, b, b + 1 + n),
           NEW k, k = block_trim_used(h, b, n)
    PROVE  \E T, Y, G, Q : Good(k, A, T, Y, G, Q, W) /\ Trims(S, Z, F, b, n, T, Y, G)
<1>1. Rep(h, A, S, Z, F, F, F, F, R, W) /\ b \in S /\ Tiles(A, S, Z)
  BY DEF Good, Rep
<1>2. b \in Nat /\ Z[b] \in Nat /\ block_size(h, b) = Z[b]
  BY <1>1, RepBlock, TileWords
<1>3. CASE n + 4 <= Z[b]
  <2>1. PICK r : r = b + 1 + n
    OBVIOUS
  <2>2. SplitAt(b, n) = r /\ block_can_split(h, b, n)
    BY <1>2, <1>3, <2>1 DEF SplitAt, Overhead, block_can_split, Header
  <2>3. k = block_insert(block_merge_next(block_set_prev_used(block_split(h, b, n), r), r), r)
    BY <2>2 DEF block_trim_used
  <2>4. Cuts(Z, b, n, r) /\ Below(W, Z, b, r)
    BY <1>3, <2>1 DEF Cuts
  <2> QED  BY <2>3, <2>4, TrimSplit
<1>4. CASE ~(n + 4 <= Z[b])
  <2>1. k = h
    BY <1>2, <1>4 DEF block_trim_used, block_can_split, Header
  <2>2. Trims(S, Z, F, b, n, S, Z, F)
    BY <1>2 DEF Trims
  <2> QED  BY <2>1, <2>2
<1> QED  BY <1>3, <1>4

\* No two free blocks are neighbours.
Apart(Z, F) == \A u \in F : After(Z, u) \notin F

\* The gap in front of an aligned block is a free block of its own.
LEMMA TrimLeading ==
    ASSUME NEW h, NEW A, NEW S, NEW Z, NEW F, NEW b, NEW R, NEW W, Loose(h, A, S, Z, F, b, R, W),
           Apart(Z, F), NEW n, NEW r, Cuts(Z, b, n, r),
           NEW k, k = block_insert(block_link_next(block_set_prev_free(block_split(h, b, n), r), b), b)
    PROVE  \E T, Y, E, Q : /\ Loose(k, A, T, Y, E, r, Q, W) /\ Keeps(S, Z, F, T, Y, E)
                           /\ Y[r] = Z[b] - n - 1 /\ After(Y, r) \notin E
<1>1. /\ Rep(h, A, S, Z, F, F, F, F \ {b}, R, W) /\ b \in F /\ b \in S /\ F \subseteq S
      /\ \A u \in F : After(Z, u) \notin F
  BY DEF Loose, Rep, Apart
<1>2. PICK L : L = F \ {b}
  OBVIOUS
<1>3. PICK i : i = block_split(h, b, n)
  OBVIOUS
<1>4. PICK j : j = block_set_prev_free(i, r)
  OBVIOUS
<1>5. PICK l : l = block_link_next(j, b)
  OBVIOUS
<1>6. k = block_insert(l, b)
  BY <1>3, <1>4, <1>5
<1>7. PICK T, Y, E, Q, D : /\ Rep(i, A, T, Y, E, Q, D, L, R, W)
                           /\ Divided(S, Z, b, n, r, Y)
                           /\ Halves(S, F, F, F, b, r, T, E, Q, D)
  <2>1. Below(W, Z, b, r)
    BY <1>1, FreeWords DEF Below
  <2>2. Rep(h, A, S, Z, F, F, F, L, R, W) /\ b \in S \ L
    BY <1>1, <1>2
  <2> QED  BY <1>3, <2>1, <2>2, Divide
<1>8. b \in T /\ r = After(Y, b) /\ r \notin W
  BY <1>1, <1>7, RearWord DEF Divided, Halves
<1>9. Rep(j, A, T, Y, E, Q \cup {b}, D, L, R, W)
  BY <1>4, <1>7, <1>8, RepSetPrevFree
<1>10. Rep(l, A, T, Y, E, Q \cup {b}, D \cup {b}, L, R, W)
  BY <1>5, <1>8, <1>9, RepLinkNext
<1>11. /\ Q \cup {b} = E /\ D \cup {b} = E /\ L \cup {b} = F /\ F = E \ {r}
       /\ b \in E /\ r \in E /\ b \in E \ L
  BY <1>1, <1>2, <1>7 DEF Divided, Halves
<1>12. Rep(l, A, T, Y, E, E, E, L, R, W)
  BY <1>10, <1>11
<1>13. PICK V : Rep(k, A, T, Y, E, E, E, L \cup {b}, V, W)
  BY <1>6, <1>11, <1>12, RepInsert
<1>14. Loose(k, A, T, Y, E, r, V, W)
  <2>1. Rep(k, A, T, Y, E, E, E, E \ {r}, V, W)
    BY <1>11, <1>13
  <2>2. \A u \in E \ {r} : After(Y, u) \notin E \ {r}
    BY <1>1, <1>7, <1>11 DEF Divided
  <2> QED  BY <1>11, <2>1, <2>2 DEF Loose
<1>15. Keeps(S, Z, F, T, Y, E)
  BY <1>1, <1>7 DEF Divided, Halves, Keeps
<1>16. Y[r] = Z[b] - n - 1 /\ After(Y, r) \notin E
  BY <1>1, <1>7 DEF Divided, Halves
<1> QED  BY <1>14, <1>15, <1>16

-----------------------------------------------------------------------------
(* Looking for a free block. *)

\* A set of numbers has a least one.
LEMMA Least ==
    ASSUME NEW T \in SUBSET Nat, T # {}
    PROVE  \E x \in T : \A y \in T : x <= y
<1> DEFINE U == {n \in Nat : (\E x \in T : x <= n) => \E x \in T : \A y \in T : x <= y}
<1>1. 0 \in U
  BY SMT
<1>2. ASSUME NEW n \in U PROVE n + 1 \in U
  <2>1. SUFFICES ASSUME NEW x \in T, x <= n + 1, ~\E z \in T : \A y \in T : z <= y
                 PROVE  FALSE
    OBVIOUS
  <2>2. \A y \in T : ~(y <= n)
    BY <1>2, <2>1
  <2>3. \A y \in T : x <= y
    BY <2>1, <2>2
  <2> QED  BY <2>1, <2>3
<1>3. U = Nat
  <2>1. U \in SUBSET Nat
    OBVIOUS
  <2>2. \A n \in U : n + 1 \in U
    BY <1>2
  <2> HIDE DEF U
  <2> QED  BY <1>1, <2>1, <2>2, AllNaturals
<1>4. PICK z \in T : TRUE
  OBVIOUS
<1> QED  BY <1>3, <1>4

\* Min is the least.
LEMMA MinOf ==
    ASSUME NEW N \in Nat, NEW T \in SUBSET (0..N), T # {}, NEW m, m = Min(T)
    PROVE  m \in T /\ \A y \in T : m <= y
<1>1. T \in SUBSET Nat
  OBVIOUS
<1>2. \E x \in T : \A y \in T : x <= y
  BY <1>1, Least
<1> QED  BY <1>2 DEF Min

\* R has a greatest value on a set of addresses.
LEMMA Highest ==
    ASSUME NEW C \in SUBSET (1..Top), C # {}, NEW R \in [1..Top -> Nat]
    PROVE  \E u \in C : \A v \in C : R[v] <= R[u]
<1>1. Top \in Nat
  BY HeapAssumption
<1> DEFINE T == {n \in 0..Top : \E m \in Nat : \A i \in 1..n : R[i] <= m}
<1>2. 0 \in T
  BY <1>1
<1>3. ASSUME NEW n \in 1..Top, n - 1 \in T PROVE n \in T
  <2>1. PICK m \in Nat : \A i \in 1..n - 1 : R[i] <= m
    BY <1>3
  <2>2. R[n] \in Nat
    OBVIOUS
  <2>3. PICK x \in Nat : x >= m /\ x >= R[n]
    <3>1. m >= R[n] \/ R[n] >= m
      BY <2>2
    <3>2. CASE m >= R[n]
      BY <3>2
    <3>3. CASE R[n] >= m
      BY <2>2, <3>3
    <3> QED  BY <3>1, <3>2, <3>3
  <2>4. \A i \in 1..n : R[i] <= x
    <3>1. TAKE i \in 1..n
    <3>2. i \in 1..Top /\ R[i] \in Nat
      BY <1>1
    <3>3. CASE i = n
      BY <2>3, <3>3
    <3>4. CASE i # n
      <4>1. i \in 1..n - 1
        BY <3>4
      <4>2. R[i] <= m
        BY <2>1, <4>1
      <4> QED  BY <2>3, <3>2, <4>2
    <3> QED  BY <3>3, <3>4
  <2> QED  BY <1>1, <2>3, <2>4
<1>4. Top \in T
  <2>1. \A n \in 1..Top : n - 1 \in T => n \in T
    BY <1>3
  <2> HIDE DEF T
  <2>2. \A n \in 0..Top : n \in T
    BY <1>1, <1>2, <2>1, UpTo
  <2>3. Top \in 0..Top
    BY <1>1
  <2> QED  BY <2>2, <2>3
<1>5. PICK m \in Nat : \A i \in 1..Top : R[i] <= m
  BY <1>4
<1>6. PICK V : V = {m - R[u] : u \in C}
  OBVIOUS
<1>7. V \in SUBSET Nat /\ V # {}
  <2>1. \A u \in C : R[u] \in Nat /\ R[u] <= m
    BY <1>5
  <2>2. \A u \in C : m - R[u] \in Nat
    BY <2>1
  <2> QED  BY <1>6, <2>2
<1>8. PICK x \in V : \A y \in V : x <= y
  BY <1>7, Least
<1>9. PICK u \in C : x = m - R[u]
  BY <1>6
<1>10. ASSUME NEW v \in C PROVE R[v] <= R[u]
  <2>1. m - R[v] \in V
    BY <1>6
  <2>2. m - R[u] <= m - R[v] /\ R[u] \in Nat /\ R[v] \in Nat
    BY <1>8, <1>9, <2>1
  <2> QED  BY <2>2
<1> QED  BY <1>10

\* The list of a block in a list is not empty.
LEMMA ListHead ==
    ASSUME NEW S \in SUBSET (1..Top), NEW h, NEW Z, NEW L \in SUBSET S, NEW R, Lists(h, Z, L, R),
           NEW b \in L, NEW c, c = ClassOf(Z, b), c \in Class
    PROVE  c[2] \in h.sl[c[1]] /\ h.head[c] # Null
<1>1. PICK C : C = {u \in L : ClassOf(Z, u) = c}
  OBVIOUS
<1>2. C \in SUBSET (1..Top) /\ C # {} /\ R \in [1..Top -> Nat]
  BY <1>1 DEF Lists
<1>3. PICK u \in C : \A v \in C : R[v] <= R[u]
  BY <1>2, Highest
<1>4. u \in L /\ ClassOf(Z, u) = c /\ u \in 1..Top
  BY <1>1
<1>5. h.mem[u + 3] = Null
  <2>1. SUFFICES ASSUME h.mem[u + 3] # Null PROVE FALSE
    OBVIOUS
  <2>2. PICK v : v = h.mem[u + 3]
    OBVIOUS
  <2>3. v \in L /\ ClassOf(Z, v) = c /\ h.mem[v + 2] = u
    BY <1>4, <2>1, <2>2 DEF Lists
  <2>4. u # Null
    BY <1>4 DEF Null
  <2>5. R[u] < R[v]
    BY <2>3, <2>4 DEF Lists
  <2>6. v \in C /\ R[v] \in Nat /\ R[u] \in Nat
    BY <1>1, <1>2, <2>3
  <2> QED  BY <1>3, <2>5, <2>6
<1>6. h.head[c] = u
  BY <1>4, <1>5 DEF Lists
<1>7. h.head[c] # Null
  BY <1>4, <1>6 DEF Null
<1> QED  BY <1>7 DEF Lists

\* search_suitable_class finds a class that is not before c and has its bit set.
Finds(h, c, f) == \E d \in Class : f = {d} /\ NotAfter(c, d) /\ d[2] \in h.sl[d[1]]

\* There is none.
FindsNone(h, c, f) == f = {} /\ \A d \in Class : NotAfter(c, d) => d[2] \notin h.sl[d[1]]

\* search_suitable_class finds a class when there is one.
LEMMA Search ==
    ASSUME NEW h \in HeapType, NEW c \in Class, h.fl = {f \in 0..FlMax : h.sl[f] # {}},
           NEW f, f = search_suitable_class(h, c)
    PROVE  Finds(h, c, f) \/ FindsNone(h, c, f)
<1>1. PICK x, y : c = <<x, y>> /\ x \in 0..FlMax /\ y \in 0..SlCount - 1
  BY DEF Class
<1>2. c[1] = x /\ c[2] = y /\ SlCount \in Nat /\ FlMax \in Nat
  BY <1>1, SlCountType
<1>3. PICK sl_map : sl_map = {s \in h.sl[c[1]] : s >= c[2]}
  OBVIOUS
<1>4. PICK fl_map : fl_map = {g \in h.fl : g > c[1]}
  OBVIOUS
<1>5. PICK m : m = SlCount - 1
  OBVIOUS
<1>6. h.sl \in [0..FlMax -> SUBSET (0..m)] /\ m \in Nat
  <2>1. SlCount > 0
    BY SlCountType
  <2> QED  BY <1>2, <1>5, <2>1 DEF HeapType
<1>7. f = IF sl_map # {} THEN {<<c[1], Min(sl_map)>>}
          ELSE IF fl_map # {} THEN {<<Min(fl_map), Min(h.sl[Min(fl_map)])>>} ELSE {}
  BY <1>3, <1>4 DEF search_suitable_class
<1>8. CASE sl_map # {}
  <2>1. sl_map \in SUBSET (0..m)
    BY <1>1, <1>2, <1>3, <1>6
  <2>2. PICK s : s = Min(sl_map)
    OBVIOUS
  <2>3. s \in sl_map
    BY <1>6, <1>8, <2>1, <2>2, MinOf
  <2>4. s \in h.sl[x] /\ y <= s /\ s \in 0..SlCount - 1
    BY <1>2, <1>3, <1>5, <2>1, <2>3
  <2>5. f = {<<x, s>>}
    BY <1>2, <1>7, <1>8, <2>2
  <2>6. PICK d : d = <<x, s>>
    OBVIOUS
  <2>7. d \in Class /\ d[1] = x /\ d[2] = s
    BY <1>1, <2>4, <2>6 DEF Class
  <2>8. NotAfter(c, d)
    BY <1>2, <2>4, <2>7 DEF NotAfter
  <2> QED  BY <2>4, <2>5, <2>6, <2>7, <2>8 DEF Finds
<1>9. CASE sl_map = {} /\ fl_map # {}
  <2>1. fl_map \in SUBSET (0..FlMax)
    BY <1>4
  <2>2. PICK g : g = Min(fl_map)
    OBVIOUS
  <2>3. g \in fl_map
    BY <1>2, <1>9, <2>1, <2>2, MinOf
  <2>4. g \in 0..FlMax /\ g > x /\ h.sl[g] # {} /\ h.sl[g] \in SUBSET (0..m)
    BY <1>2, <1>4, <1>6, <2>3
  <2>5. PICK s : s = Min(h.sl[g])
    OBVIOUS
  <2>6. s \in h.sl[g]
    BY <1>6, <2>4, <2>5, MinOf
  <2>7. s \in 0..SlCount - 1
    BY <1>5, <2>4, <2>6
  <2>8. f = {<<g, s>>}
    BY <1>7, <1>9, <2>2, <2>5
  <2>9. PICK d : d = <<g, s>>
    OBVIOUS
  <2>10. d \in Class /\ d[1] = g /\ d[2] = s
    BY <2>4, <2>7, <2>9 DEF Class
  <2>11. NotAfter(c, d)
    BY <1>1, <1>2, <2>4, <2>10 DEF NotAfter
  <2> QED  BY <2>6, <2>8, <2>9, <2>10, <2>11 DEF Finds
<1>10. CASE sl_map = {} /\ fl_map = {}
  <2>1. f = {}
    BY <1>7, <1>10
  <2>2. ASSUME NEW d \in Class, NotAfter(c, d) PROVE d[2] \notin h.sl[d[1]]
    <3>1. PICK u, v : d = <<u, v>> /\ u \in 0..FlMax /\ v \in 0..SlCount - 1
      BY DEF Class
    <3>2. d[1] = u /\ d[2] = v /\ (x < u \/ (x = u /\ y <= v))
      BY <1>2, <2>2, <3>1 DEF NotAfter
    <3>3. CASE x < u
      <4>1. u \notin h.fl
        BY <1>1, <1>2, <1>4, <1>10, <3>1, <3>3
      <4> QED  BY <3>1, <3>2, <4>1
    <3>4. CASE x = u /\ y <= v
      BY <1>1, <1>2, <1>3, <1>10, <3>1, <3>2, <3>4
    <3> QED  BY <3>2, <3>3, <3>4
  <2> QED  BY <2>1, <2>2 DEF FindsNone
<1> QED  BY <1>8, <1>9, <1>10

\* No free block is as large as w words.
NoneAsLarge(Z, F, w) == \A u \in F : Z[u] < w

\* block_locate_free.
LEMMA LocateFree ==
    ASSUME NEW h, NEW A, NEW S, NEW Z, NEW F, NEW R, NEW W, Good(h, A, S, Z, F, R, W),
           NEW n \in Nat, n # 0, RoundUp(n) < BlockMax,
           NEW k, k = block_locate_free(h, n)
    PROVE  \/ k.block = Null /\ k.heap = h /\ NoneAsLarge(Z, F, RoundUp(n))
           \/ /\ k.block # Null /\ Z[k.block] >= n /\ Apart(Z, F)
              /\ Loose(k.heap, A, S, Z, F, k.block, R, W)
<1>1. /\ Rep(h, A, S, Z, F, F, F, F, R, W) /\ Apart(Z, F) /\ F \in SUBSET S /\ S \in SUBSET (1..Top)
      /\ Tiles(A, S, Z) /\ Lists(h, Z, F, R) /\ h \in HeapType
  BY DEF Good, Rep, Apart, Tiles
<1>2. PICK w \in Nat : w = RoundUp(n) /\ w < BlockMax
  BY RoundUpType
<1>3. PICK c : c = mapping_search(n)
  OBVIOUS
<1>4. c \in Class /\ c = mapping_insert(w)
  BY <1>2, <1>3, ClassExists DEF mapping_search
<1>5. PICK f : f = search_suitable_class(h, c)
  OBVIOUS
<1>6. Finds(h, c, f) \/ FindsNone(h, c, f)
  <2>1. h.fl = {g \in 0..FlMax : h.sl[g] # {}}
    BY <1>1 DEF Lists
  <2> QED  BY <1>1, <1>4, <1>5, <2>1, Search
<1>7. CASE FindsNone(h, c, f)
  <2>1. f = {}
    BY <1>7 DEF FindsNone
  <2>2. k.block = Null /\ k.heap = h
    BY <1>3, <1>5, <2>1 DEF block_locate_free
  <2>3. ASSUME NEW u \in F PROVE Z[u] < w
    <3>1. u \in S /\ Z[u] \in Nat
      BY <1>1, TileWords
    <3>2. PICK d : d = ClassOf(Z, u)
      OBVIOUS
    <3>3. d \in Class
      BY <1>1, <3>1, <3>2, SizeBound DEF ClassOf
    <3>4. d[2] \in h.sl[d[1]]
      BY <1>1, <3>2, <3>3, ListHead
    <3>5. ~NotAfter(c, d)
      BY <1>7, <3>3, <3>4 DEF FindsNone
    <3>6. ~(w <= Z[u])
      BY <1>4, <3>1, <3>2, <3>5, ClassGrows DEF ClassOf
    <3> QED  BY <3>1, <3>6
  <2>4. NoneAsLarge(Z, F, RoundUp(n))
    BY <1>2, <2>3 DEF NoneAsLarge
  <2> QED  BY <2>2, <2>4
<1>8. CASE Finds(h, c, f)
  <2>1. PICK d \in Class : f = {d} /\ NotAfter(c, d) /\ d[2] \in h.sl[d[1]]
    BY <1>8 DEF Finds
  <2>2. PICK b : b = h.head[d]
    OBVIOUS
  <2>3. b # Null /\ b \in F /\ ClassOf(Z, b) = d
    BY <1>1, <2>1, <2>2 DEF Lists
  <2>4. (CHOOSE e \in f : TRUE) = d /\ f # {}
    BY <2>1
  <2>5. PICK g : g = remove_free_block(h, b, d)
    OBVIOUS
  <2>6. k.block = b /\ k.heap = g
    BY <1>3, <1>5, <2>2, <2>4, <2>5 DEF block_locate_free
  <2>7. Rep(g, A, S, Z, F, F, F, F \ {b}, R, W)
    BY <1>1, <2>3, <2>5, RepRemove
  <2>8. Loose(g, A, S, Z, F, b, R, W)
    BY <1>1, <2>3, <2>7 DEF Loose, Apart
  <2>9. Z[b] \in Nat /\ NotAfter(mapping_search(n), mapping_insert(Z[b]))
    BY <1>1, <1>3, <2>1, <2>3, TileWords DEF ClassOf
  <2>10. n <= Z[b]
    BY <2>9, SearchedSuffices
  <2>11. Z[b] >= n
    BY <2>9, <2>10
  <2> QED  BY <1>1, <2>3, <2>6, <2>8, <2>11
<1> QED  BY <1>6, <1>7, <1>8

-----------------------------------------------------------------------------
(* tlsf_malloc and tlsf_memalign. *)

\* The greater of two numbers.
LEMMA MaxOfTwo ==
    ASSUME NEW x \in Int, NEW y \in Int, NEW m, m = Max({x, y})
    PROVE  (m = x \/ m = y) /\ m >= x /\ m >= y
<1>1. \E z \in {x, y} : \A w \in {x, y} : z >= w
  <2>1. x >= y \/ y >= x
    OBVIOUS
  <2>2. x >= x /\ y >= y
    OBVIOUS
  <2> QED  BY <2>1, <2>2
<1>2. m \in {x, y} /\ \A w \in {x, y} : m >= w
  BY <1>1 DEF Max
<1> QED  BY <1>2

Multiple(y, d) == \E q \in Nat : y = q * d

\* align_up makes a multiple, and adds less than one.
LEMMA AlignUp ==
    ASSUME NEW x \in Nat, NEW d \in Nat, d > 0, NEW y, y = align_up(x, d)
    PROVE  y \in Nat /\ x <= y /\ y <= x + d - 1 /\ Multiple(y, d)
<1>1. PICK u \in Nat : u = x + d - 1
  OBVIOUS
<1>2. PICK q : q = u \div d
  OBVIOUS
<1>3. PICK p : p = q * d
  OBVIOUS
<1>4. q \in Nat /\ p \in Nat /\ p <= u /\ u < p + d
  BY <1>2, <1>3, Quotient
<1>5. y = p
  BY <1>1, <1>2, <1>3 DEF align_up
<1>6. x <= p /\ p <= x + d - 1
  BY <1>1, <1>4
<1>7. Multiple(y, d)
  BY <1>3, <1>4, <1>5 DEF Multiple
<1> QED  BY <1>4, <1>5, <1>6, <1>7

\* What is aligned is left alone.
LEMMA AlignedAlready ==
    ASSUME NEW q \in Nat, NEW d \in Nat, d > 0, NEW x \in Nat, x = q * d, NEW y, y = align_up(x, d)
    PROVE  y = x
<1>0. y \in Nat /\ x <= y /\ y <= x + d - 1 /\ Multiple(y, d)
  BY AlignUp
<1>1. PICK p \in Nat : y = p * d /\ y \in Nat /\ x <= y /\ y <= x + d - 1
  BY <1>0 DEF Multiple
<1>2. CASE p < q
  <2>1. p * d + d <= q * d
    BY <1>2, ProductGrows
  <2>2. y + d <= x
    BY <1>1, <2>1
  <2> QED  BY <1>1, <2>2
<1>3. CASE q < p
  <2>1. q * d + d <= p * d
    BY <1>3, ProductGrows
  <2>2. x + d <= y
    BY <1>1, <2>1
  <2> QED  BY <1>1, <2>2
<1>4. CASE p = q
  BY <1>1, <1>4
<1> QED  BY <1>2, <1>3, <1>4

\* adjust_request_size makes room for the links of a free block.
LEMMA Adjusted ==
    ASSUME NEW n \in Nat, n # 0, n < BlockMax, NEW d \in Nat, d > 0, NEW x, x = adjust_request_size(n, d)
    PROVE  x \in Nat /\ x >= 3 /\ x >= n
<1>1. PICK u : u = align_up(n, d)
  OBVIOUS
<1>2. u \in Nat /\ n <= u
  BY <1>1, AlignUp
<1>3. x = Max({u, 3})
  <2>1. BlockMax \in Nat
    BY SlCountType
  <2> QED  BY <1>1, <2>1 DEF adjust_request_size, MinSize
<1>4. (x = u \/ x = 3) /\ x >= u /\ x >= 3
  BY <1>2, <1>3, MaxOfTwo
<1> QED  BY <1>2, <1>4

\* The requests of the callers, adjusted.
LEMMA Adjust ==
    ASSUME NEW n \in Requests, NEW x, x = adjust_request_size(n, 1)
    PROVE  /\ n \in Nat /\ x \in Nat /\ x >= n /\ RoundUp(x) < BlockMax
           /\ n = 0 => x = 0
           /\ n # 0 => x >= 3
<1>1. n \in Nat /\ n < BlockMax /\ RoundUp(x) < BlockMax
  BY HeapAssumption, RequestAssumption
<1>2. CASE n = 0
  BY <1>1, <1>2 DEF adjust_request_size
<1>3. CASE n # 0
  <2>1. x \in Nat /\ x >= 3 /\ x >= n
    BY <1>1, <1>3, Adjusted
  <2> QED  BY <1>1, <1>3, <2>1
<1> QED  BY <1>2, <1>3

\* A call that found a block.
Serves(A, S, Z, F, n, W, k) ==
    /\ k.block # Null /\ n # 0
    /\ \E T, Y, G, Q : Good(k.heap, A, T, Y, G, Q, W) /\ Gives(S, Z, F, k.block, n, T, Y, G)

\* A block large enough for the adjusted length is for the length.
LEMMA GivesLess ==
    ASSUME NEW h, NEW A, NEW S, NEW Z, NEW F, NEW b, NEW x \in Nat, NEW n \in Nat, n <= x, NEW T,
           NEW Y, NEW G, NEW Q,
           NEW W, Good(h, A, T, Y, G, Q, W), Gives(S, Z, F, b, x, T, Y, G)
    PROVE  Gives(S, Z, F, b, n, T, Y, G)
<1>1. Tiles(A, T, Y) /\ b \in T /\ Y[b] >= x
  BY DEF Good, Rep, Gives
<1>2. Y[b] \in Nat
  BY <1>1, TileWords
<1>3. Y[b] >= n
  BY <1>1, <1>2
<1> QED  BY <1>3 DEF Gives

\* tlsf_malloc gives out a block, or none is as large as its class asks for.
LEMMA MallocHeap ==
    ASSUME NEW h, NEW A, NEW S, NEW Z, NEW F, NEW R, NEW W, Good(h, A, S, Z, F, R, W),
           NEW n \in Requests, NEW k, k = tlsf_malloc(h, n)
    PROVE  \/ /\ k.block = Null /\ k.heap = h
              /\ n # 0 => NoneAsLarge(Z, F, RoundUp(adjust_request_size(n, 1)))
           \/ Serves(A, S, Z, F, n, W, k)
<1>1. PICK x : x = adjust_request_size(n, 1)
  OBVIOUS
<1>2. /\ n \in Nat /\ x \in Nat /\ x >= n /\ RoundUp(x) < BlockMax
      /\ n = 0 => x = 0
      /\ n # 0 => x >= 3
  BY <1>1, Adjust
<1>3. PICK f : f = block_locate_free(h, x)
  OBVIOUS
<1>4. k = block_prepare_used(f.heap, f.block, x)
  BY <1>1, <1>3 DEF tlsf_malloc
<1>5. CASE n = 0
  <2>1. f.heap = h /\ f.block = Null
    BY <1>2, <1>3, <1>5 DEF block_locate_free
  <2> QED  BY <1>4, <1>5, <2>1 DEF block_prepare_used
<1>6. CASE n # 0 /\ f.block = Null /\ f.heap = h /\ NoneAsLarge(Z, F, RoundUp(x))
  BY <1>1, <1>4, <1>6 DEF block_prepare_used
<1>7. CASE /\ n # 0 /\ f.block # Null /\ Z[f.block] >= x /\ Apart(Z, F)
           /\ Loose(f.heap, A, S, Z, F, f.block, R, W)
  <2>1. PICK b, g : b = f.block /\ g = f.heap
    OBVIOUS
  <2>2. Loose(g, A, S, Z, F, b, R, W) /\ b # Null /\ k = block_prepare_used(g, b, x)
    BY <1>4, <1>7, <2>1
  <2>3. After(Z, b) \notin F
    BY <1>7, <2>2 DEF Apart, Loose
  <2>4. x <= Z[b] /\ x >= 3
    <3>1. Tiles(A, S, Z) /\ b \in S
      BY <2>2 DEF Loose, Rep
    <3>2. Z[b] \in Nat /\ Z[b] >= x
      BY <1>7, <2>1, <3>1, TileWords
    <3> QED  BY <1>2, <1>7, <3>2
  <2>5. k.block = b /\ \E T, Y, G, Q : Good(k.heap, A, T, Y, G, Q, W) /\ Gives(S, Z, F, b, x, T, Y, G)
    BY <1>2, <2>2, <2>3, <2>4, PrepareUsed
  <2>6. PICK T, Y, G, Q : Good(k.heap, A, T, Y, G, Q, W) /\ Gives(S, Z, F, b, x, T, Y, G)
    BY <2>5
  <2>7. n <= x
    BY <1>2
  <2>8. Gives(S, Z, F, b, n, T, Y, G)
    BY <1>2, <2>6, <2>7, GivesLess
  <2> QED  BY <1>7, <2>2, <2>5, <2>6, <2>8 DEF Serves
<1>8. n # 0 => x # 0
  BY <1>2
<1>9. CASE n # 0
  <2>1. \/ f.block = Null /\ f.heap = h /\ NoneAsLarge(Z, F, RoundUp(x))
        \/ f.block # Null /\ Z[f.block] >= x /\ Apart(Z, F) /\ Loose(f.heap, A, S, Z, F, f.block, R, W)
    BY <1>2, <1>3, <1>8, <1>9, LocateFree
  <2> QED  BY <1>6, <1>7, <1>9, <2>1
<1> QED  BY <1>5, <1>9

\* Alignments are positive.
LEMMA AlignType ==
    ASSUME NEW align \in Aligns
    PROVE  align \in Nat /\ align > 0
<1>1. PICK i \in Nat : align = pow2[i]
  BY HeapAssumption
<1> QED  BY <1>1, Pow2Above

\* The gap tlsf_memalign leaves is none, or a block, and no more than was asked for.
LEMMA GapRange ==
    ASSUME NEW b \in Nat, NEW align \in Nat, align > 0, NEW g, g = Gap(b, align)
    PROVE  /\ g \in Nat /\ (g = 0 \/ (g >= 4 /\ g <= align + 3))
           /\ align = 1 => g = 0
<1>1. PICK aligned : aligned = align_up(b + 2, align)
  OBVIOUS
<1>2. PICK q \in Nat : aligned = q * align
  <2>1. b + 2 \in Nat
    OBVIOUS
  <2>2. Multiple(aligned, align)
    BY <1>1, <2>1, AlignUp
  <2> QED  BY <2>2 DEF Multiple
<1>3. aligned \in Nat /\ b + 2 <= aligned /\ aligned <= b + 2 + align - 1
  BY <1>1, AlignUp
<1>4. PICK gap : gap = aligned - (b + 2)
  OBVIOUS
<1>5. gap \in Nat /\ gap <= align - 1
  BY <1>3, <1>4
<1>6. CASE ~(gap > 0 /\ gap < 4)
  <2>1. g = gap
    BY <1>1, <1>4, <1>6 DEF Gap, Header
  <2> QED  BY <1>5, <1>6, <2>1
<1>7. CASE gap > 0 /\ gap < 4
  <2>1. PICK m : m = Max({4 - gap, align})
    OBVIOUS
  <2>2. (m = 4 - gap \/ m = align) /\ m >= 4 - gap /\ m >= align
    BY <1>5, <2>1, MaxOfTwo
  <2>3. m \in Nat
    BY <1>5, <2>2
  <2>4. PICK further : further = align_up(aligned + m, align)
    OBVIOUS
  <2>5. g = further - (b + 2)
    BY <1>1, <1>4, <1>7, <2>1, <2>4 DEF Gap, Header
  <2>6. aligned + m \in Nat
    BY <1>3, <2>3
  <2>7. further \in Nat /\ aligned + m <= further /\ further <= aligned + m + align - 1
    BY <2>4, <2>6, AlignUp
  <2>8. CASE m = align
    <3>1. aligned + m = (q + 1) * align /\ q + 1 \in Nat
      BY <1>2, <2>8
    <3>2. further = aligned + m
      BY <2>4, <2>6, <3>1, AlignedAlready
    <3>3. g = gap + align
      BY <1>3, <1>4, <2>5, <2>8, <3>2
    <3> QED  BY <1>5, <1>7, <2>2, <2>8, <3>3
  <2>9. CASE m # align
    <3>1. m = 4 - gap /\ align < 4 - gap
      BY <1>5, <2>2, <2>9
    <3>2. gap = 1 /\ align = 2 /\ m = 3
      BY <1>5, <1>7, <3>1
    <3>3. aligned = q * 2
      BY <1>2, <3>2
    <3>4. PICK p \in Nat : further = p * align
      <4>1. Multiple(further, align)
        BY <2>4, <2>6, AlignUp
      <4> QED  BY <4>1 DEF Multiple
    <3>5. further = p * 2
      BY <3>2, <3>4
    <3>6. further = aligned + 4
      BY <2>7, <3>2, <3>3, <3>5
    <3>7. g = gap + 4
      BY <1>3, <1>4, <2>5, <3>6
    <3> QED  BY <3>2, <3>7
  <2> QED  BY <2>8, <2>9
<1> QED  BY <1>6, <1>7

\* tlsf_memalign looks for a block with room for the gap.
LEMMA WidenedType ==
    ASSUME NEW n \in Requests, n # 0, NEW align \in Aligns, NEW x, x = adjust_request_size(n, 1),
           NEW w, w = Widened(n, align)
    PROVE  w \in Nat /\ w >= x + align + 4 /\ RoundUp(w) < BlockMax
<1>1. x \in Nat /\ x >= 3 /\ align \in Nat /\ align > 0
  BY Adjust, AlignType
<1>2. PICK y : y = x + align + 4
  OBVIOUS
<1>3. y \in Nat /\ y # 0 /\ y < BlockMax /\ w = adjust_request_size(y, align) /\ RoundUp(w) < BlockMax
  BY <1>1, <1>2, RequestAssumption DEF Widened, Header
<1>4. w \in Nat /\ w >= y
  BY <1>1, <1>3, Adjusted
<1> QED  BY <1>2, <1>3, <1>4

\* The part of tlsf_memalign behind block_locate_free, when a gap is left.
LEMMA MemalignGap ==
    ASSUME NEW h, NEW A, NEW S, NEW Z, NEW F, NEW b, NEW R, NEW W, Loose(h, A, S, Z, F, b, R, W),
           Apart(Z, F),
           NEW x \in Nat, x >= 3, NEW align \in Nat, Z[b] >= x + align + 4,
           NEW g \in Nat, g >= 4, g <= align + 3,
           NEW k, k = block_prepare_used(block_trim_free_leading(h, b, g), SplitAt(b, g - Overhead), x)
    PROVE  /\ k.block # Null
           /\ \E T, Y, G, Q : Good(k.heap, A, T, Y, G, Q, W) /\ Gives(S, Z, F, k.block, x, T, Y, G)
<1>1. /\ Rep(h, A, S, Z, F, F, F, F \ {b}, R, W) /\ b \in F /\ b \in S /\ Tiles(A, S, Z)
  BY DEF Loose, Rep
<1>2. b \in Nat /\ Z[b] \in Nat /\ block_size(h, b) = Z[b]
  BY <1>1, RepBlock, TileWords
<1>3. PICK z \in Nat : z = Z[b]
  BY <1>2
<1>4. PICK m : m = g - 1
  OBVIOUS
<1>5. PICK r : r = b + 1 + m
  OBVIOUS
<1>6. m \in Nat /\ m >= 3 /\ m + 4 <= z /\ z >= 4 + g /\ z - m - 1 >= x /\ z - m - 1 \in Nat
  BY <1>3, <1>4
<1>7. Cuts(Z, b, m, r)
  BY <1>3, <1>5, <1>6 DEF Cuts
<1>8. PICK l : l = block_trim_free_leading(h, b, g)
  OBVIOUS
<1>9. SplitAt(b, g - Overhead) = r /\ block_can_split(h, b, g)
  BY <1>2, <1>3, <1>4, <1>5, <1>6 DEF SplitAt, Overhead, block_can_split, Header
<1>10. l = block_insert(block_link_next(block_set_prev_free(block_split(h, b, m), r), b), b)
  BY <1>4, <1>8, <1>9 DEF block_trim_free_leading, Overhead
<1>11. PICK T, Y, E, Q : /\ Loose(l, A, T, Y, E, r, Q, W) /\ Keeps(S, Z, F, T, Y, E)
                         /\ Y[r] = Z[b] - m - 1 /\ After(Y, r) \notin E
  BY <1>7, <1>10, TrimLeading
<1>12. x <= Y[r]
  BY <1>3, <1>6, <1>11
<1>13. k = block_prepare_used(l, r, x)
  BY <1>8, <1>9
<1>14. k.block = r /\ \E U, X, G, V : Good(k.heap, A, U, X, G, V, W) /\ Gives(T, Y, E, r, x, U, X, G)
  BY <1>11, <1>12, <1>13, PrepareUsed
<1>15. PICK U, X, G, V : Good(k.heap, A, U, X, G, V, W) /\ Gives(T, Y, E, r, x, U, X, G)
  BY <1>14
<1>16. Gives(S, Z, F, r, x, U, X, G)
  BY <1>11, <1>15 DEF Gives, Keeps
<1>17. r # Null
  BY <1>2, <1>5, <1>6 DEF Null
<1> QED  BY <1>14, <1>15, <1>16, <1>17

\* tlsf_memalign gives out a block, or leaves the heap alone.
LEMMA MemalignHeap ==
    ASSUME NEW h, NEW A, NEW S, NEW Z, NEW F, NEW R, NEW W, Good(h, A, S, Z, F, R, W),
           NEW n \in Requests, n # 0, NEW align \in Aligns, NEW k, k = tlsf_memalign(h, align, n)
    PROVE  (k.block = Null /\ k.heap = h) \/ Serves(A, S, Z, F, n, W, k)
<1>1. PICK x : x = adjust_request_size(n, 1)
  OBVIOUS
<1>2. /\ n \in Nat /\ x \in Nat /\ x >= n /\ RoundUp(x) < BlockMax /\ x >= 3
      /\ align \in Nat /\ align > 0
  BY <1>1, Adjust, AlignType
<1>3. PICK w : w = IF align <= 1 THEN x ELSE Widened(n, align)
  OBVIOUS
<1>4. w \in Nat /\ w >= x /\ RoundUp(w) < BlockMax /\ (align > 1 => w >= x + align + 4)
  <2>1. CASE align <= 1
    BY <1>2, <1>3, <2>1
  <2>2. CASE ~(align <= 1)
    <3>1. w = Widened(n, align)
      BY <1>3, <2>2
    <3>2. w \in Nat /\ w >= x + align + 4 /\ RoundUp(w) < BlockMax
      BY <1>1, <3>1, WidenedType
    <3> QED  BY <1>2, <3>2
  <2> QED  BY <2>1, <2>2
<1>5. PICK f : f = block_locate_free(h, w)
  OBVIOUS
<1>6. PICK g : g = Gap(f.block, align)
  OBVIOUS
<1>7. k = IF f.block = Null \/ g = 0 THEN block_prepare_used(f.heap, f.block, x)
          ELSE block_prepare_used(block_trim_free_leading(f.heap, f.block, g),
                                  SplitAt(f.block, g - Overhead), x)
  BY <1>1, <1>3, <1>5, <1>6 DEF tlsf_memalign
<1>8. \/ f.block = Null /\ f.heap = h
      \/ f.block # Null /\ Z[f.block] >= w /\ Apart(Z, F) /\ Loose(f.heap, A, S, Z, F, f.block, R, W)
  <2>1. w # 0
    BY <1>2, <1>4
  <2> QED  BY <1>4, <1>5, <2>1, LocateFree
<1>9. CASE f.block = Null /\ f.heap = h
  BY <1>7, <1>9 DEF block_prepare_used
<1>10. CASE f.block # Null /\ Z[f.block] >= w /\ Apart(Z, F) /\ Loose(f.heap, A, S, Z, F, f.block, R, W)
  <2>1. PICK b, i : b = f.block /\ i = f.heap
    OBVIOUS
  <2>2. Loose(i, A, S, Z, F, b, R, W) /\ b # Null /\ Apart(Z, F)
    BY <1>10, <2>1
  <2>3. After(Z, b) \notin F /\ Tiles(A, S, Z) /\ b \in S
    BY <2>2 DEF Apart, Loose, Rep
  <2>4. Z[b] \in Nat /\ b \in Nat /\ Z[b] >= w
    BY <1>10, <2>1, <2>3, TileWords
  <2>5. /\ k.block # Null
        /\ \E T, Y, G, Q : Good(k.heap, A, T, Y, G, Q, W) /\ Gives(S, Z, F, k.block, x, T, Y, G)
    <3>1. CASE g = 0
      <4>1. k = block_prepare_used(i, b, x)
        BY <1>7, <2>1, <3>1
      <4>2. x <= Z[b]
        BY <1>2, <1>4, <2>4
      <4>3. k.block = b /\ \E T, Y, G, Q : Good(k.heap, A, T, Y, G, Q, W) /\ Gives(S, Z, F, b, x, T, Y, G)
        BY <1>2, <2>2, <2>3, <4>1, <4>2, PrepareUsed
      <4> QED  BY <2>2, <4>3
    <3>2. CASE g # 0
      <4>1. g = Gap(b, align)
        BY <1>6, <2>1
      <4>2. /\ g \in Nat /\ (g = 0 \/ (g >= 4 /\ g <= align + 3))
            /\ align = 1 => g = 0
        BY <1>2, <2>4, <4>1, GapRange
      <4>3. g \in Nat /\ g >= 4 /\ g <= align + 3 /\ align > 1
        BY <1>2, <3>2, <4>2
      <4>4. Z[b] >= x + align + 4
        BY <1>2, <1>4, <2>4, <4>3
      <4>5. k = block_prepare_used(block_trim_free_leading(i, b, g), SplitAt(b, g - Overhead), x)
        BY <1>7, <2>1, <2>2, <3>2
      <4> QED  BY <1>2, <2>2, <4>3, <4>4, <4>5, MemalignGap
    <3> QED  BY <3>1, <3>2
  <2>6. PICK T, Y, G, Q : Good(k.heap, A, T, Y, G, Q, W) /\ Gives(S, Z, F, k.block, x, T, Y, G)
    BY <2>5
  <2>7. n <= x
    BY <1>2
  <2>8. Gives(S, Z, F, k.block, n, T, Y, G)
    BY <1>2, <2>6, <2>7, GivesLess
  <2> QED  BY <2>5, <2>6, <2>8 DEF Serves
<1> QED  BY <1>8, <1>9, <1>10

-----------------------------------------------------------------------------
(* What the owners write. *)

\* h becomes i by words written into the block at c; V are the words to keep.
Writes(h, i, D, Z, c, W, V) ==
    /\ WritesOnly(h, i, D) /\ D \subseteq Payload(Z, c)
    /\ \A a \in V : (a \in W /\ a \notin D) \/ (a \in D /\ i.mem[a] = Data)

\* A caller may write what is in its block.
LEMMA WriteWords ==
    ASSUME NEW h, NEW A, NEW S, NEW Z, NEW F, NEW R, NEW W, Good(h, A, S, Z, F, R, W), NEW c \in S \ F,
           NEW i, NEW D, NEW V, Writes(h, i, D, Z, c, W, V)
    PROVE  Good(i, A, S, Z, F, R, V)
<1>1. /\ Rep(h, A, S, Z, F, F, F, F, R, W) /\ F \in SUBSET S /\ c \in S /\ Tiles(A, S, Z)
      /\ Tags(h, A, S, Z, F, F, F) /\ Lists(h, Z, F, R) /\ Kept(h, S, Z, F, W)
      /\ \A u \in F : After(Z, u) \notin F
  BY DEF Good, Rep
<1>2. WritesOnly(h, i, D) /\ \A a \in D : a \in Payload(Z, c)
  BY DEF Writes
<1>3. \A d \in Nodes(A, S) : d + 1 \notin D
  BY <1>1, <1>2, PayloadApart
<1>4. \A l \in F : l # c /\ l + 2 \notin D /\ l + 3 \notin D /\ After(Z, l) \notin D
  BY <1>1, <1>2, PayloadApart
<1>5. Lists(i, Z, F, R)
  BY <1>1, <1>2, <1>4, ListsFrame
<1>6. Tags(i, A, S, Z, F, F, F)
  <2>1. \A d \in Nodes(A, S) : Same(h, i, d)
    <3>1. \A d \in Nodes(A, S) : d + 1 \in 1..Top
      BY <1>1, TileWords
    <3> QED  BY <1>2, <1>3, <3>1, SameWord
  <2>2. \A l \in F : i.mem[After(Z, l)] = h.mem[After(Z, l)]
    <3>1. \A l \in F : After(Z, l) \in 1..Top
      BY <1>1, TileWords
    <3> QED  BY <1>2, <1>4, <3>1 DEF WritesOnly
  <2> QED  BY <1>1, <2>1, <2>2 DEF Tags, Same
<1>7. Kept(i, S, Z, F, V)
  <2>1. SUFFICES ASSUME NEW a \in V PROVE i.mem[a] = Data /\ \E u \in S \ F : a \in Payload(Z, u)
    BY DEF Kept
  <2>2. (a \in W /\ a \notin D) \/ (a \in D /\ i.mem[a] = Data)
    BY DEF Writes
  <2>3. CASE a \in W /\ a \notin D
    <3>1. h.mem[a] = Data /\ \E u \in S \ F : a \in Payload(Z, u)
      BY <1>1, <2>3 DEF Kept
    <3>2. a \in 1..Top
      BY <1>1, <3>1, PayloadApart
    <3>3. i.mem[a] = h.mem[a]
      BY <1>2, <2>3, <3>2 DEF WritesOnly
    <3> QED  BY <3>1, <3>3
  <2>4. CASE a \in D /\ i.mem[a] = Data
    BY <1>2, <2>4
  <2> QED  BY <2>2, <2>3, <2>4
<1>8. i \in HeapType
  BY <1>2 DEF WritesOnly
<1>9. Rep(i, A, S, Z, F, F, F, F, R, V)
  BY <1>1, <1>5, <1>6, <1>7, <1>8 DEF Rep
<1> QED  BY <1>1, <1>9 DEF Good

\* Some of the words may be forgotten.
LEMMA GoodWeaker ==
    ASSUME NEW h, NEW A, NEW S, NEW Z, NEW F, NEW R, NEW W, Good(h, A, S, Z, F, R, W), NEW V \in SUBSET W
    PROVE  Good(h, A, S, Z, F, R, V)
<1>1. Rep(h, A, S, Z, F, F, F, F, R, W) /\ F \in SUBSET F
  BY DEF Good
<1>2. Rep(h, A, S, Z, F, F, F, F, R, V)
  BY <1>1, RepWeaker
<1> QED  BY <1>2 DEF Good

\* The first n words of the block at b.
Words(b, n) == b + 2..b + 1 + n

\* fills of them are written by the owner.
LEMMA FillHeap ==
    ASSUME NEW h, NEW A, NEW S, NEW Z, NEW F, NEW R, NEW W, Good(h, A, S, Z, F, R, W), NEW b \in S \ F,
           NEW n \in Nat, Z[b] >= n, NEW k, k = Fill(h, b, n)
    PROVE  Good(k, A, S, Z, F, R, W \cup Words(b, n))
<1>1. h \in HeapType /\ Tiles(A, S, Z) /\ b \in S
  BY DEF Good, Rep
<1>2. b \in Nat /\ Z[b] \in Nat /\ After(Z, b) = b + 1 + Z[b] /\ After(Z, b) \in 1..Top /\ Top \in Nat
  BY <1>1, TileWords
<1>3. PICK D : D = b + 2..b + 1 + n
  OBVIOUS
<1>4. D \subseteq Payload(Z, b) /\ D \subseteq 1..Top
  <2>1. PICK z \in Nat : z = Z[b]
    BY <1>2
  <2>2. b + 1 + n <= After(Z, b) /\ b + 1 + n <= Top
    BY <1>2, <2>1
  <2> QED  BY <1>2, <1>3, <2>2 DEF Payload
<1>5. PICK f : f = [a \in DOMAIN h.mem |-> IF a \in D THEN Data ELSE h.mem[a]]
  OBVIOUS
<1>6. k = [h EXCEPT !.mem = f]
  BY <1>3, <1>5 DEF Fill
<1>7. h.mem \in [1..Top -> Int] /\ DOMAIN h.mem = 1..Top
  BY <1>1 DEF HeapType
<1>8. f \in [1..Top -> Int] /\ \A a \in 1..Top : f[a] = IF a \in D THEN Data ELSE h.mem[a]
  <2>1. PICK v \in Int : v = Data
    BY DEF Data
  <2>2. f = [a \in 1..Top |-> IF a \in D THEN v ELSE h.mem[a]]
    BY <1>5, <1>7, <2>1
  <2>3. f \in [1..Top -> Int] /\ \A a \in 1..Top : f[a] = IF a \in D THEN v ELSE h.mem[a]
    BY <1>7, <2>2
  <2> QED  BY <2>1, <2>3
<1>9. k \in HeapType /\ k.mem = f /\ k.head = h.head /\ k.fl = h.fl /\ k.sl = h.sl
  BY <1>1, <1>6, <1>8 DEF HeapType
<1>10. WritesOnly(h, k, D)
  BY <1>8, <1>9 DEF WritesOnly
<1>11. \A a \in D : k.mem[a] = Data
  BY <1>4, <1>8, <1>9
<1>12. Writes(h, k, D, Z, b, W, W \cup D)
  BY <1>4, <1>10, <1>11 DEF Writes
<1>13. Good(k, A, S, Z, F, R, W \cup D)
  BY <1>12, WriteWords
<1> QED  BY <1>3, <1>13 DEF Words

\* memcpy brings along the first words of a block.
LEMMA CopyHeap ==
    ASSUME NEW h, NEW A, NEW S, NEW Z, NEW F, NEW R, NEW V, NEW b \in S \ F, NEW c \in S \ F, b # c,
           NEW m \in Nat, Good(h, A, S, Z, F, R, V \cup Words(b, m)),
           NEW n \in Nat, Z[c] >= n, Z[b] >= n, NEW l \in Nat, l <= m, l <= n,
           \A a \in V : a \notin Payload(Z, c),
           NEW k, k = Copy(h, b, c, n)
    PROVE  Good(k, A, S, Z, F, R, V \cup Words(c, l))
<1>1. h \in HeapType /\ Tiles(A, S, Z) /\ b \in S /\ c \in S /\ Kept(h, S, Z, F, V \cup Words(b, m))
  BY DEF Good, Rep
<1>2. /\ c \in Nat /\ Z[c] \in Nat /\ After(Z, c) = c + 1 + Z[c] /\ After(Z, c) \in 1..Top /\ Top \in Nat
      /\ b \in Nat /\ Z[b] \in Nat /\ After(Z, b) = b + 1 + Z[b] /\ After(Z, b) \in 1..Top
  BY <1>1, TileWords
<1>3. PICK D : D = c + 2..c + 1 + n
  OBVIOUS
<1>4. D \subseteq Payload(Z, c) /\ D \subseteq 1..Top
  <2>1. PICK z \in Nat : z = Z[c]
    BY <1>2
  <2>2. c + 1 + n <= After(Z, c) /\ c + 1 + n <= Top
    BY <1>2, <2>1
  <2> QED  BY <1>2, <1>3, <2>2 DEF Payload
<1>5. \A a \in D : a - c + b \in 1..Top
  <2>1. PICK z \in Nat : z = Z[b]
    BY <1>2
  <2>2. b + 1 + n <= Top
    BY <1>2, <2>1
  <2> QED  BY <1>2, <1>3, <2>2
<1>6. PICK f : f = [a \in DOMAIN h.mem |-> IF a \in D THEN h.mem[a - c + b] ELSE h.mem[a]]
  OBVIOUS
<1>7. k = [h EXCEPT !.mem = f]
  BY <1>3, <1>6 DEF Copy
<1>8. h.mem \in [1..Top -> Int] /\ DOMAIN h.mem = 1..Top
  BY <1>1 DEF HeapType
<1>9. f \in [1..Top -> Int] /\ \A a \in 1..Top : f[a] = IF a \in D THEN h.mem[a - c + b] ELSE h.mem[a]
  BY <1>5, <1>6, <1>8
<1>10. k \in HeapType /\ k.mem = f /\ k.head = h.head /\ k.fl = h.fl /\ k.sl = h.sl
  BY <1>1, <1>7, <1>9 DEF HeapType
<1>11. WritesOnly(h, k, D)
  BY <1>9, <1>10 DEF WritesOnly
<1>12. ASSUME NEW a \in Words(c, l) PROVE a \in D /\ k.mem[a] = Data
  <2>1. a \in c + 2..c + 1 + l
    BY DEF Words
  <2>2. a \in D /\ a - c + b \in b + 2..b + 1 + m
    BY <1>2, <1>3, <2>1
  <2>3. h.mem[a - c + b] = Data
    BY <1>1, <2>2 DEF Kept, Words
  <2> QED  BY <1>4, <1>9, <1>10, <2>2, <2>3
<1>13. Writes(h, k, D, Z, c, V \cup Words(b, m), V \cup Words(c, l))
  BY <1>4, <1>11, <1>12 DEF Writes
<1> QED  BY <1>13, WriteWords

-----------------------------------------------------------------------------
(* tlsf_realloc. *)

\* The words of V are in blocks in use other than b.
Elsewhere(V, S, Z, F, b) == \A a \in V : \E u \in S \ F : u # b /\ a \in Payload(Z, u)

\* What is elsewhere is not in b.
LEMMA NotInside ==
    ASSUME NEW A, NEW S, NEW Z, Tiles(A, S, Z), NEW F, NEW b \in S, NEW V, Elsewhere(V, S, Z, F, b)
    PROVE  \A a \in V : a \notin Payload(Z, b)
<1>1. SUFFICES ASSUME NEW a \in V, a \in Payload(Z, b) PROVE FALSE
  OBVIOUS
<1>2. PICK u \in S \ F : u # b /\ a \in Payload(Z, u)
  BY DEF Elsewhere
<1> QED  BY <1>1, <1>2, PayloadApart

\* The block at b has become the one at c, of n words at least.
Becomes(S, Z, F, b, c, n, T, Y, G) ==
    /\ T \ G = ((S \ F) \ {b}) \cup {c}
    /\ \A u \in S \ F : u # b => u # c /\ Y[u] = Z[u]
    /\ Y[c] >= n

\* The block takes in the free one behind it.
LEMMA GrowBlock ==
    ASSUME NEW h, NEW A, NEW S, NEW Z, NEW F, NEW R, NEW W, Good(h, A, S, Z, F, R, W), NEW b \in S \ F,
           After(Z, b) \in F, NEW k, k = block_mark_as_used(block_merge_next(h, b), b)
    PROVE  \E T, Y, G : /\ Good(k, A, T, Y, G, R, W) /\ T \ G = S \ F
                        /\ \A u \in S \ F : u # b => Y[u] = Z[u]
                        /\ Y[b] = Z[b] + Z[After(Z, b)] + 1
<1>1. /\ Rep(h, A, S, Z, F, F, F, F, R, W) /\ F \subseteq S /\ b \in S /\ Tiles(A, S, Z)
      /\ \A u \in F : After(Z, u) \notin F
  BY DEF Good, Rep
<1>2. PICK c : c = After(Z, b)
  OBVIOUS
<1>3. block_next(h, b) = c /\ block_is_free(h, c)
  BY <1>1, <1>2, RepBlock
<1>4. PICK g : g = block_remove(h, c)
  OBVIOUS
<1>5. PICK L : L = F \ {c}
  OBVIOUS
<1>6. Rep(g, A, S, Z, F, F, F, L, R, W)
  BY <1>1, <1>2, <1>4, <1>5, RepBlockRemove
<1>7. PICK j : j = block_merge_next(h, b)
  OBVIOUS
<1>8. j = block_absorb(g, b, c)
  BY <1>3, <1>4, <1>7 DEF block_merge_next
<1>9. PICK Y : /\ Rep(j, A, S \ {c}, Y, F \ {c}, (F \ {c}) \cup {b}, (F \ {c}) \cup {b}, L, R, W)
               /\ Y[b] = Z[b] + Z[c] + 1 /\ After(Y, b) = After(Z, c) /\ b # c
               /\ \A d \in S \ {b} : Y[d] = Z[d] /\ After(Y, d) = After(Z, d)
  <2>1. b \in S \ L
    BY <1>1, <1>5
  <2>2. c \in F \ L
    BY <1>2, <1>5
  <2> QED  BY <1>2, <1>6, <1>8, <2>1, <2>2, RepAbsorbFree
<1>10. PICK T, B : T = S \ {c} /\ B = L \cup {b}
  OBVIOUS
<1>11. Rep(j, A, T, Y, L, B, B, L, R, W)
  BY <1>5, <1>9, <1>10
<1>12. b \in T /\ b \notin L /\ L \ {b} = L /\ B \ {b} = L /\ L \in SUBSET B /\ W \in SUBSET W
  BY <1>1, <1>5, <1>9, <1>10
<1>13. Rep(k, A, T, Y, L \ {b}, B \ {b}, B, L, R, W)
  <2>1. k = block_mark_as_used(j, b)
    BY <1>7
  <2> QED  BY <1>11, <1>12, <2>1, RepMarkUsed
<1>14. Rep(k, A, T, Y, L, L, B, L, R, W)
  BY <1>12, <1>13
<1>15. Rep(k, A, T, Y, L, L, L, L, R, W)
  BY <1>12, <1>14, RepWeaker
<1>16. \A u \in L : After(Y, u) \notin L
  BY <1>1, <1>5, <1>9, <1>12
<1>17. Good(k, A, T, Y, L, R, W)
  BY <1>15, <1>16 DEF Good
<1>18. T \ L = S \ F /\ \A u \in S \ F : u # b => Y[u] = Z[u]
  BY <1>1, <1>2, <1>5, <1>9, <1>10
<1>19. Y[b] = Z[b] + Z[After(Z, b)] + 1
  BY <1>2, <1>9
<1> QED  BY <1>17, <1>18, <1>19

\* The lesser of two numbers.
LEMMA MinOfTwo ==
    ASSUME NEW x \in Nat, NEW y \in Nat, NEW m, m = Min({x, y})
    PROVE  m \in Nat /\ (m = x \/ m = y) /\ m <= x /\ m <= y
<1>1. \E z \in {x, y} : \A w \in {x, y} : z <= w
  <2>1. x <= y \/ y <= x
    OBVIOUS
  <2>2. x <= x /\ y <= y
    OBVIOUS
  <2> QED  BY <2>1, <2>2
<1>2. m \in {x, y} /\ \A w \in {x, y} : m <= w
  BY <1>1 DEF Min
<1> QED  BY <1>2

\* A block in use stays where it is.
LEMMA ReallocInPlace ==
    ASSUME NEW h, NEW A, NEW S, NEW Z, NEW F, NEW R, NEW V, NEW b \in S \ F, NEW m \in Nat,
           Good(h, A, S, Z, F, R, V \cup Words(b, m)), Elsewhere(V, S, Z, F, b),
           NEW x \in Nat, x >= 3, x <= Z[b], NEW n \in Nat, n <= x,
           NEW l \in Nat, l <= m, l <= n, NEW k, k = block_trim_used(h, b, x)
    PROVE  \E T, Y, G, Q : /\ Good(k, A, T, Y, G, Q, V \cup Words(b, l))
                           /\ Becomes(S, Z, F, b, b, n, T, Y, G)
<1>1. Tiles(A, S, Z) /\ b \in S
  BY DEF Good, Rep
<1>2. b \in Nat
  BY <1>1, TileWords
<1>3. PICK W : W = V \cup Words(b, l)
  OBVIOUS
<1>4. Words(b, l) \subseteq Words(b, m) /\ \A a \in Words(b, l) : a <= b + 1 + x
  BY <1>2 DEF Words
<1>5. Good(h, A, S, Z, F, R, W)
  <2>1. W \in SUBSET (V \cup Words(b, m))
    BY <1>3, <1>4
  <2> QED  BY <2>1, GoodWeaker
<1>6. Below(W, Z, b, b + 1 + x)
  <2>1. \A a \in V : a \notin Payload(Z, b)
    BY <1>1, NotInside
  <2> QED  BY <1>3, <1>4, <2>1 DEF Below
<1>7. PICK T, Y, G, Q : Good(k, A, T, Y, G, Q, W) /\ Trims(S, Z, F, b, x, T, Y, G)
  BY <1>5, <1>6, TrimUsed
<1>8. Y[b] >= n
  <2>1. Tiles(A, T, Y) /\ b \in T /\ Y[b] >= x
    BY <1>7 DEF Good, Rep, Trims
  <2>2. Y[b] \in Nat
    BY <2>1, TileWords
  <2> QED  BY <2>1, <2>2
<1>9. Becomes(S, Z, F, b, b, n, T, Y, G)
  BY <1>7, <1>8 DEF Becomes, Trims
<1> QED  BY <1>3, <1>7, <1>9

\* The answer of tlsf_realloc when there is a block.
Reallocates(A, S, Z, F, V, b, n, l, k) ==
    /\ k.block # Null
    /\ \E T, Y, G, Q : /\ Good(k.heap, A, T, Y, G, Q, V \cup Words(k.block, l))
                       /\ Becomes(S, Z, F, b, k.block, n, T, Y, G)

\* The words of the live blocks stay where they are when others come and go.
LEMMA StillElsewhere ==
    ASSUME NEW S, NEW Z, NEW F, NEW b, NEW V, Elsewhere(V, S, Z, F, b), NEW T, NEW Y, NEW G,
           \A u \in S \ F : u # b => u \in T \ G /\ Y[u] = Z[u]
    PROVE  Elsewhere(V, T, Y, G, b)
  BY DEF Elsewhere, Payload, After

\* tlsf_realloc by way of a new block: the words are copied before the old one is freed.
LEMMA MovedHeap ==
    ASSUME NEW h, NEW A, NEW S, NEW Z, NEW F, NEW R, NEW V, NEW b \in S \ F, NEW m \in Nat,
           Good(h, A, S, Z, F, R, V \cup Words(b, m)), Elsewhere(V, S, Z, F, b), Z[b] >= m,
           NEW n \in Requests, n # 0, NEW l \in Nat, l <= m, l <= n, NEW k, k = Moved(h, b, n)
    PROVE  \/ /\ k.block = Null /\ k.heap = h
              /\ NoneAsLarge(Z, F, RoundUp(adjust_request_size(n, 1)))
           \/ Reallocates(A, S, Z, F, V, b, n, l, k)
<1>1. /\ Rep(h, A, S, Z, F, F, F, F, R, V \cup Words(b, m)) /\ b \in S /\ Tiles(A, S, Z)
      /\ n \in Nat
  BY HeapAssumption DEF Good, Rep
<1>2. Z[b] \in Nat /\ block_size(h, b) = Z[b]
  BY <1>1, RepBlock, TileWords
<1>3. PICK f : f = tlsf_malloc(h, n)
  OBVIOUS
<1>4. \/ /\ f.block = Null /\ f.heap = h
         /\ NoneAsLarge(Z, F, RoundUp(adjust_request_size(n, 1)))
      \/ Serves(A, S, Z, F, n, V \cup Words(b, m), f)
  BY <1>3, MallocHeap
<1>5. ASSUME /\ f.block = Null /\ f.heap = h
             /\ NoneAsLarge(Z, F, RoundUp(adjust_request_size(n, 1)))
      PROVE  k = f
  BY <1>3, <1>5 DEF Moved
<1>6. ASSUME Serves(A, S, Z, F, n, V \cup Words(b, m), f)
      PROVE  Reallocates(A, S, Z, F, V, b, n, l, k)
  <2>1. PICK c, g : c = f.block /\ g = f.heap
    OBVIOUS
  <2>2. PICK T, Y, E, Q : Good(g, A, T, Y, E, Q, V \cup Words(b, m)) /\ Gives(S, Z, F, c, n, T, Y, E)
    BY <1>6, <2>1 DEF Serves
  <2>3. c # Null
    BY <1>6, <2>1 DEF Serves
  <2>4. PICK w : w = Min({block_size(h, b), n})
    OBVIOUS
  <2>5. w \in Nat /\ w <= Z[b] /\ w <= n /\ l <= w
    <3>1. w \in Nat /\ (w = Z[b] \/ w = n) /\ w <= Z[b] /\ w <= n
      BY <1>1, <1>2, <2>4, MinOfTwo
    <3>2. l <= Z[b]
      BY <1>2
    <3> QED  BY <3>1, <3>2
  <2>6. PICK i : i = Copy(g, b, c, w)
    OBVIOUS
  <2>7. k.block = c /\ k.heap = tlsf_free(i, b)
    BY <1>3, <2>1, <2>3, <2>4, <2>6 DEF Moved
  <2>8. /\ T \ E = (S \ F) \cup {c} /\ c \notin S \ F /\ b # c /\ b \in T \ E /\ c \in T \ E
        /\ \A u \in S \ F : u # c /\ Y[u] = Z[u]
        /\ Y[c] >= n
    BY <2>2 DEF Gives
  <2>9. Tiles(A, T, Y)
    BY <2>2 DEF Good, Rep
  <2>10. Y[c] \in Nat /\ Y[c] >= w /\ Y[b] >= w
    <3>1. Y[c] \in Nat /\ Y[b] = Z[b]
      BY <2>8, <2>9, TileWords
    <3> QED  BY <1>1, <1>2, <2>5, <2>8, <3>1
  <2>11. Elsewhere(V, T, Y, E, b)
    BY <2>8, StillElsewhere
  <2>12. \A a \in V : a \notin Payload(Y, c)
    <3>1. SUFFICES ASSUME NEW a \in V, a \in Payload(Y, c) PROVE FALSE
      OBVIOUS
    <3>2. PICK u \in S \ F : a \in Payload(Z, u)
      BY DEF Elsewhere
    <3>3. u \in T /\ u # c /\ a \in Payload(Y, u)
      BY <2>8, <3>2 DEF Payload, After
    <3> QED  BY <2>8, <2>9, <3>1, <3>3, PayloadApart
  <2>13. Good(i, A, T, Y, E, Q, V \cup Words(c, l))
    BY <2>2, <2>5, <2>6, <2>8, <2>10, <2>12, CopyHeap
  <2>14. \A a \in V \cup Words(c, l) : a \notin Payload(Y, b)
    <3>1. \A a \in V : a \notin Payload(Y, b)
      BY <2>8, <2>9, <2>11, NotInside
    <3>2. Words(c, l) \subseteq Payload(Y, c)
      <4>1. PICK y \in Nat : y = Y[c]
        BY <2>10
      <4>2. l <= y /\ c \in Nat /\ After(Y, c) = c + 1 + y
        BY <2>5, <2>8, <2>9, <2>10, <4>1, TileWords
      <4> QED  BY <4>2 DEF Words, Payload
    <3>3. \A a \in Words(c, l) : a \notin Payload(Y, b)
      BY <2>8, <2>9, <3>2, PayloadApart
    <3> QED  BY <3>1, <3>3
  <2>15. PICK j : j = k.heap
    OBVIOUS
  <2>16. PICK W : W = V \cup Words(c, l)
    OBVIOUS
  <2>17. \E U, X, G, P : /\ Good(j, A, U, X, G, P, W)
                         /\ U \ G = (T \ E) \ {b}
                         /\ \A u \in U \ G : X[u] = Y[u]
    <3>1. Good(i, A, T, Y, E, Q, W) /\ b \in T \ E /\ (\A a \in W : a \notin Payload(Y, b))
          /\ j = tlsf_free(i, b)
      BY <2>7, <2>8, <2>13, <2>14, <2>15, <2>16
    <3> QED  BY <3>1, FreeHeap
  <2>18. PICK U, X, G, P : /\ Good(j, A, U, X, G, P, W)
                           /\ U \ G = (T \ E) \ {b}
                           /\ \A u \in U \ G : X[u] = Y[u]
    BY <2>17
  <2>19. Becomes(S, Z, F, b, c, n, U, X, G)
    BY <2>8, <2>18 DEF Becomes
  <2> QED  BY <2>3, <2>7, <2>15, <2>16, <2>18, <2>19 DEF Reallocates
<1> QED  BY <1>4, <1>5, <1>6

\* tlsf_realloc, in place or not.
LEMMA ReallocHeap ==
    ASSUME NEW h, NEW A, NEW S, NEW Z, NEW F, NEW R, NEW V, NEW b \in S \ F, NEW m \in Nat,
           Good(h, A, S, Z, F, R, V \cup Words(b, m)), Elsewhere(V, S, Z, F, b), Z[b] >= m,
           NEW n \in Requests, n # 0, NEW l \in Nat, l <= m, l <= n, NEW k, k = tlsf_realloc(h, b, n)
    PROVE  \/ /\ k.block = Null /\ k.heap = h
              /\ NoneAsLarge(Z, F, RoundUp(adjust_request_size(n, 1)))
           \/ Reallocates(A, S, Z, F, V, b, n, l, k)
<1>1. Rep(h, A, S, Z, F, F, F, F, R, V \cup Words(b, m)) /\ b \in S /\ Tiles(A, S, Z)
  BY DEF Good, Rep
<1>2. PICK c : c = After(Z, b)
  OBVIOUS
<1>3. /\ block_size(h, b) = Z[b] /\ block_next(h, b) = c /\ (block_is_free(h, c) <=> c \in F)
      /\ b # Null
  BY <1>1, <1>2, RepBlock
<1>4. block_size(h, c) = Z[c] /\ Z[b] \in Nat /\ Z[c] \in Nat
  <2>1. c \in Nodes(A, S)
    BY <1>1, <1>2, TileWords
  <2> QED  BY <1>1, <2>1, TileWords DEF Rep, Tags
<1>5. PICK x : x = adjust_request_size(n, 1)
  OBVIOUS
<1>6. x \in Nat /\ x >= 3 /\ n \in Nat /\ n <= x
  BY <1>5, Adjust
<1>7. PICK g : g = IF x > Z[b] THEN block_mark_as_used(block_merge_next(h, b), b) ELSE h
  OBVIOUS
<1>8. k = IF x > Z[b] /\ (c \notin F \/ x > Z[b] + Z[c] + 1) THEN Moved(h, b, n)
          ELSE [heap |-> block_trim_used(g, b, x), block |-> b]
  BY <1>3, <1>4, <1>5, <1>7 DEF tlsf_realloc, Overhead
<1>9. CASE x > Z[b] /\ (c \notin F \/ x > Z[b] + Z[c] + 1)
  <2>1. k = Moved(h, b, n)
    BY <1>8, <1>9
  <2> QED  BY <2>1, MovedHeap
<1>10. CASE ~(x > Z[b] /\ (c \notin F \/ x > Z[b] + Z[c] + 1))
  <2>1. PICK j : j = block_trim_used(g, b, x)
    OBVIOUS
  <2>2. k.block = b /\ k.heap = j
    BY <1>8, <1>10, <2>1
  <2>3. CASE ~(x > Z[b])
    <3>1. g = h /\ x <= Z[b]
      BY <1>4, <1>6, <1>7, <2>3
    <3>2. j = block_trim_used(h, b, x)
      BY <2>1, <3>1
    <3>3. \E T, Y, G, Q : /\ Good(j, A, T, Y, G, Q, V \cup Words(b, l))
                          /\ Becomes(S, Z, F, b, b, n, T, Y, G)
      BY <1>6, <3>1, <3>2, ReallocInPlace
    <3> QED  BY <1>3, <2>2, <3>3 DEF Reallocates
  <2>4. CASE x > Z[b]
    <3>1. c \in F /\ x <= Z[b] + Z[c] + 1 /\ g = block_mark_as_used(block_merge_next(h, b), b)
      BY <1>4, <1>6, <1>7, <1>10, <2>4
    <3>2. PICK W : W = V \cup Words(b, m)
      OBVIOUS
    <3>3. Good(h, A, S, Z, F, R, W) /\ After(Z, b) \in F
      BY <1>2, <3>1, <3>2
    <3>4. PICK T, Y, G : /\ Good(g, A, T, Y, G, R, W) /\ T \ G = S \ F
                         /\ \A u \in S \ F : u # b => Y[u] = Z[u]
                         /\ Y[b] = Z[b] + Z[After(Z, b)] + 1
      BY <3>1, <3>3, GrowBlock
    <3>5. Elsewhere(V, T, Y, G, b)
      BY <3>4, StillElsewhere
    <3>6. b \in T \ G /\ x <= Y[b] /\ Good(g, A, T, Y, G, R, V \cup Words(b, m))
      BY <1>2, <3>1, <3>2, <3>4
    <3>7. PICK U, X, H, Q : /\ Good(j, A, U, X, H, Q, V \cup Words(b, l))
                            /\ Becomes(T, Y, G, b, b, n, U, X, H)
      BY <1>6, <2>1, <3>5, <3>6, ReallocInPlace
    <3>8. Becomes(S, Z, F, b, b, n, U, X, H)
      BY <3>4, <3>7 DEF Becomes
    <3> QED  BY <1>3, <2>2, <3>7, <3>8 DEF Reallocates
  <2> QED  BY <2>3, <2>4
<1> QED  BY <1>9, <1>10

-----------------------------------------------------------------------------
(* tlsf_add_pool and tlsf_remove_pool. *)

\* The size and flags of the one block of a new pool.
LEMMA PoolMain ==
    ASSUME NEW h \in HeapType, NEW b \in Int, b + 1 \in 1..Top, NEW n \in Int,
           NEW k, k = block_set_prev_used(block_set_free(block_set_size(h, b, n), b), b)
    PROVE  /\ WritesOnly(h, k, {b + 1}) /\ k \in HeapType /\ block_size(k, b) = n
           /\ block_is_free(k, b) /\ ~block_is_prev_free(k, b)
<1>1. PICK i : i = block_set_size(h, b, n)
  OBVIOUS
<1>2. WritesOnly(h, i, {b + 1}) /\ block_size(i, b) = n /\ i \in HeapType
  <2>1. WritesOnly(h, i, {b + 1}) /\ block_size(i, b) = n
    BY <1>1, SetSize
  <2> QED  BY <2>1 DEF WritesOnly
<1>3. PICK j : j = block_set_free(i, b)
  OBVIOUS
<1>4. WritesOnly(i, j, {b + 1}) /\ block_size(j, b) = n /\ block_is_free(j, b) /\ j \in HeapType
  BY <1>2, <1>3, SetFree DEF WritesOnly
<1>5. k = block_set_prev_used(j, b)
  BY <1>1, <1>3
<1>6. /\ WritesOnly(j, k, {b + 1}) /\ block_size(k, b) = n /\ block_is_free(k, b)
      /\ ~block_is_prev_free(k, b)
  BY <1>4, <1>5, SetPrevUsed
<1>7. WritesOnly(h, k, {b + 1})
  BY <1>2, <1>4, <1>6 DEF WritesOnly
<1> QED  BY <1>6, <1>7 DEF WritesOnly

\* Those of its sentinel.
LEMMA PoolEnd ==
    ASSUME NEW h \in HeapType, NEW e \in Int, e + 1 \in 1..Top,
           NEW k, k = block_set_prev_free(block_set_used(block_set_size(h, e, 0), e), e)
    PROVE  /\ WritesOnly(h, k, {e + 1}) /\ k \in HeapType /\ block_size(k, e) = 0
           /\ ~block_is_free(k, e) /\ block_is_prev_free(k, e)
<1>1. PICK i : i = block_set_size(h, e, 0)
  OBVIOUS
<1>2. WritesOnly(h, i, {e + 1}) /\ block_size(i, e) = 0 /\ i \in HeapType
  BY <1>1, SetSize DEF WritesOnly
<1>3. PICK j : j = block_set_used(i, e)
  OBVIOUS
<1>4. WritesOnly(i, j, {e + 1}) /\ block_size(j, e) = 0 /\ ~block_is_free(j, e) /\ j \in HeapType
  BY <1>2, <1>3, SetUsed DEF WritesOnly
<1>5. k = block_set_prev_free(j, e)
  BY <1>1, <1>3
<1>6. /\ WritesOnly(j, k, {e + 1}) /\ block_size(k, e) = 0 /\ ~block_is_free(k, e)
      /\ block_is_prev_free(k, e)
  BY <1>4, <1>5, SetPrevFree
<1>7. WritesOnly(h, k, {e + 1})
  BY <1>2, <1>4, <1>6 DEF WritesOnly
<1> QED  BY <1>6, <1>7 DEF WritesOnly

\* The words of a pool that is added are nobody's.
LEMMA PoolWordsApart ==
    ASSUME NEW A, NEW S, NEW Z, Tiles(A, S, Z), NEW b \in Nat, NEW e \in Nat, b + 4 <= e,
           \A d \in Nodes(A, S) : d < b \/ e < d,
           \A u \in S : After(Z, u) < b \/ e < u
    PROVE  /\ \A d \in Nodes(A, S) : d + 1 \notin b + 1..e + 1
           /\ \A u \in S : u + 2 \notin b + 1..e + 1 /\ u + 3 \notin b + 1..e + 1
                           /\ After(Z, u) \notin b + 1..e + 1
           /\ \A u \in S : \A a \in Payload(Z, u) : a \notin b + 1..e + 1
<1>1. ASSUME NEW d \in Nodes(A, S) PROVE d + 1 \notin b + 1..e + 1
  <2>1. d \in Nat /\ (d < b \/ e < d)
    BY TileWords
  <2> QED  BY <2>1
<1>2. ASSUME NEW u \in S
      PROVE  /\ u + 2 \notin b + 1..e + 1 /\ u + 3 \notin b + 1..e + 1 /\ After(Z, u) \notin b + 1..e + 1
             /\ \A a \in Payload(Z, u) : a \notin b + 1..e + 1
  <2>1. u \in Nat /\ u + 4 <= After(Z, u) /\ After(Z, u) \in Nat /\ (After(Z, u) < b \/ e < u)
    BY TileWords
  <2>2. \A a \in Payload(Z, u) : a \in Int /\ u + 2 <= a /\ a <= After(Z, u)
    BY <2>1 DEF Payload
  <2> QED  BY <2>1, <2>2
<1> QED  BY <1>1, <1>2

\* The heap has changed in the pool from b to e, and in one link of x.
PoolOnly(h, k, b, e, x) ==
    \A a \in 1..Top : a \notin b + 1..e + 1 /\ (x # Null => a # x + 3) => k.mem[a] = h.mem[a]

\* The four steps of tlsf_add_pool.
LEMMA AddPoolSteps ==
    ASSUME NEW h, NEW p \in Usable, NEW k, k = tlsf_add_pool(h, p),
           NEW b, b = First(p), NEW n, n = PoolWords[p] - 2,
           NEW i, i = block_set_prev_used(block_set_free(block_set_size(h, b, n), b), b),
           NEW j, j = block_insert(i, b), NEW l, l = block_link_next(j, b),
           NEW e, block_next(l, b) = e
    PROVE  k = block_set_prev_free(block_set_used(block_set_size(l, e, 0), e), e)
<1>1. PoolAt[p] - Overhead = b /\ PoolWords[p] - 2 * Overhead = n
  BY DEF First, Overhead
<1> QED  BY <1>1 DEF tlsf_add_pool

\* tlsf_add_pool adds a free block, and nothing else changes.
LEMMA AddPoolHeap ==
    ASSUME NEW h, NEW A, NEW S, NEW Z, NEW F, NEW R, NEW W, Good(h, A, S, Z, F, R, W),
           NEW p \in Usable \ A, NEW k, k = tlsf_add_pool(h, p)
    PROVE  \E T, Y, G, Q : Good(k, A \cup {p}, T, Y, G, Q, W) /\ Keeps(S, Z, F, T, Y, G)
<1>1. /\ h \in HeapType /\ Rep(h, A, S, Z, F, F, F, F, R, W) /\ F \in SUBSET S /\ Tiles(A, S, Z)
      /\ Tags(h, A, S, Z, F, F, F) /\ Lists(h, Z, F, R) /\ Kept(h, S, Z, F, W)
      /\ \A u \in F : After(Z, u) \notin F
  BY DEF Good, Rep
<1>2. PICK b, e, n : b = First(p) /\ e = Sentinel(p) /\ n = PoolWords[p] - 2
  OBVIOUS
<1>3. /\ b \in Nat /\ b \in 1..Top /\ b + 1 \in 1..Top /\ b + 2 \in 1..Top /\ b + 3 \in 1..Top
      /\ e \in Nat /\ e \in 1..Top /\ e + 1 \in 1..Top /\ n \in Nat /\ b + 4 <= e /\ e = b + 1 + n
      /\ p \in Usable /\ Top \in Nat /\ b # Null
  BY <1>2, Places DEF Null
<1>4. PICK Y : Y \in Sizes /\ Y[b] = n /\ Y[e] = 0 /\ \A d \in 1..Top \ {b, e} : Y[d] = Z[d]
  <2>1. Z \in [1..Top -> Nat]
    BY <1>1 DEF Tiles, Sizes
  <2>2. PICK Y : Y = [Z EXCEPT ![b] = n, ![e] = 0]
    OBVIOUS
  <2>3. Y \in [1..Top -> Nat] /\ Y[b] = n /\ Y[e] = 0 /\ \A d \in 1..Top \ {b, e} : Y[d] = Z[d]
    BY <1>3, <2>1, <2>2
  <2> QED  BY <2>3 DEF Sizes
<1>5. PICK B, T, G : B = A \cup {p} /\ T = S \cup {b} /\ G = F \cup {b}
  OBVIOUS
<1>6. /\ Tiles(B, T, Y) /\ Nodes(B, T) = Nodes(A, S) \cup {b, e} /\ After(Y, b) = e
      /\ \A d \in Nodes(A, S) : d # b /\ d # e /\ Y[d] = Z[d] /\ After(Y, d) = After(Z, d)
      /\ \A d \in Nodes(A, S) : d < b \/ e < d
      /\ \A u \in S : After(Z, u) < b \/ e < u
  <2>1. /\ Y \in Sizes /\ Y[First(p)] = PoolWords[p] - 2 /\ Y[Sentinel(p)] = 0
        /\ \A d \in 1..Top \ {First(p), Sentinel(p)} : Y[d] = Z[d]
    BY <1>2, <1>4
  <2>2. /\ Tiles(A \cup {p}, S \cup {First(p)}, Y)
        /\ Nodes(A \cup {p}, S \cup {First(p)}) = Nodes(A, S) \cup {First(p), Sentinel(p)}
        /\ After(Y, First(p)) = Sentinel(p)
        /\ \A d \in Nodes(A, S) : d # First(p) /\ d # Sentinel(p) /\ Y[d] = Z[d]
                                  /\ After(Y, d) = After(Z, d)
        /\ \A d \in Nodes(A, S) : d < First(p) \/ Sentinel(p) < d
        /\ \A u \in S : After(Z, u) < First(p) \/ Sentinel(p) < u
    BY <1>1, <2>1, AddTiles
  <2> QED  BY <1>2, <1>5, <2>2
<1>7. S \subseteq Nodes(A, S) /\ b \notin S /\ b \notin F /\ e \notin S /\ e \notin G /\ b \in T /\ b \in G
      /\ G \in SUBSET T
  BY <1>1, <1>3, <1>5, <1>6 DEF Nodes
<1>8. /\ \A d \in Nodes(A, S) : d + 1 \notin b + 1..e + 1
      /\ \A u \in S : u + 2 \notin b + 1..e + 1 /\ u + 3 \notin b + 1..e + 1
                      /\ After(Z, u) \notin b + 1..e + 1
      /\ \A u \in S : \A a \in Payload(Z, u) : a \notin b + 1..e + 1
  BY <1>1, <1>3, <1>6, PoolWordsApart
<1>9. PICK i : i = block_set_prev_used(block_set_free(block_set_size(h, b, n), b), b)
  OBVIOUS
<1>10. /\ WritesOnly(h, i, {b + 1}) /\ i \in HeapType /\ block_size(i, b) = n
       /\ block_is_free(i, b) /\ ~block_is_prev_free(i, b)
  BY <1>1, <1>3, <1>9, PoolMain
<1>11. Lists(i, Y, F, R)
  <2>1. \A u \in F : u + 2 \notin {b + 1} /\ u + 3 \notin {b + 1}
    BY <1>1, <1>3, <1>8
  <2>2. Lists(i, Z, F, R)
    BY <1>1, <1>10, <2>1, ListsFrame
  <2>3. \A u \in F : Y[u] = Z[u]
    BY <1>1, <1>6, <1>7
  <2> QED  BY <2>2, <2>3, ListsResized
<1>12. PICK j : j = block_insert(i, b)
  OBVIOUS
<1>13. PICK c : c = ClassOf(Y, b)
  OBVIOUS
<1>14. c \in Class /\ j = insert_free_block(i, b, c)
  <2>1. c \in Class
    BY <1>6, <1>7, <1>13, SizeBound DEF ClassOf
  <2> QED  BY <1>4, <1>10, <1>12, <1>13, <2>1 DEF block_insert, ClassOf
<1>15. PICK x : x = i.head[c]
  OBVIOUS
<1>16. x # Null => x \in F
  BY <1>11, <1>14, <1>15 DEF Lists
<1>17. Inserted(i, j, b, c, x)
  <2>1. i.fl = {f \in 0..FlMax : i.sl[f] # {}}
    BY <1>11 DEF Lists
  <2>2. x # Null => x + 3 \in 1..Top /\ x + 3 # b + 2 /\ x + 3 # b + 3
    <3>1. SUFFICES ASSUME x # Null PROVE x + 3 \in 1..Top /\ x + 3 # b + 2 /\ x + 3 # b + 3
      OBVIOUS
    <3>2. x \in F /\ x + 3 \notin b + 1..e + 1
      BY <1>1, <1>8, <1>16, <3>1
    <3>3. x + 3 \in 1..Top
      BY <1>1, <3>2, TileWords
    <3> QED  BY <1>3, <3>2, <3>3
  <2>3. Insertable(i, b, c, x)
    BY <1>3, <1>10, <1>14, <1>15, <2>1, <2>2 DEF Insertable, FirstLevel
  <2> QED  BY <1>14, <2>3, InsertWords
<1>18. PICK Q : Lists(j, Y, G, Q)
  <2>1. b \in T \ F /\ F \in SUBSET T
    BY <1>1, <1>5, <1>7
  <2> QED  BY <1>5, <1>6, <1>11, <1>13, <1>14, <1>15, <1>17, <2>1, ListsInsert
<1>19. j \in HeapType /\ PoolOnly(i, j, b, e, x) /\ j.mem[b + 1] = i.mem[b + 1]
  <2>1. j \in HeapType
    BY <1>17 DEF Inserted
  <2>2. PoolOnly(i, j, b, e, x)
    BY <1>3, <1>17 DEF Inserted, PoolOnly
  <2>3. x # Null => b + 1 # x + 3
    BY <1>1, <1>3, <1>8, <1>16
  <2>4. j.mem[b + 1] = i.mem[b + 1]
    BY <1>3, <1>17, <2>3 DEF Inserted
  <2> QED  BY <2>1, <2>2, <2>4
<1>20. Same(i, j, b)
  BY <1>19 DEF Same, block_size, block_is_free, block_is_prev_free
<1>21. PICK l : l = block_link_next(j, b)
  OBVIOUS
<1>22. WritesOnly(j, l, {e}) /\ l.mem[e] = b /\ l \in HeapType /\ Same(j, l, b) /\ block_next(l, b) = e
  <2>1. block_size(j, b) = n
    BY <1>10, <1>20 DEF Same
  <2>2. block_next(j, b) = e
    BY <1>3, <2>1 DEF block_next, Overhead
  <2>3. l = Put(j, e, b)
    BY <1>21, <2>2 DEF block_link_next
  <2>4. WritesOnly(j, l, {e}) /\ l.mem[e] = b
    BY <1>3, <1>19, <2>3, PutWord
  <2>5. l \in HeapType
    BY <2>4 DEF WritesOnly
  <2>6. b + 1 \notin {e}
    BY <1>3
  <2>7. Same(j, l, b)
    BY <1>3, <2>4, <2>6, SameWord
  <2>8. block_size(l, b) = n
    BY <2>1, <2>7 DEF Same
  <2>9. block_next(l, b) = e
    BY <1>3, <2>8 DEF block_next, Overhead
  <2> QED  BY <2>4, <2>5, <2>7, <2>9
<1>23. k = block_set_prev_free(block_set_used(block_set_size(l, e, 0), e), e)
  BY <1>2, <1>3, <1>9, <1>12, <1>21, <1>22, AddPoolSteps
<1>24. /\ WritesOnly(l, k, {e + 1}) /\ k \in HeapType /\ block_size(k, e) = 0
       /\ ~block_is_free(k, e) /\ block_is_prev_free(k, e)
  BY <1>3, <1>22, <1>23, PoolEnd
<1>25. PoolOnly(h, k, b, e, x)
  <2>1. PoolOnly(h, i, b, e, x)
    BY <1>3, <1>10 DEF WritesOnly, PoolOnly
  <2>2. PoolOnly(j, l, b, e, x)
    BY <1>3, <1>22 DEF WritesOnly, PoolOnly
  <2>3. PoolOnly(l, k, b, e, x)
    BY <1>3, <1>24 DEF WritesOnly, PoolOnly
  <2> QED  BY <1>19, <2>1, <2>2, <2>3 DEF PoolOnly
<1>26. /\ block_size(k, b) = n /\ block_is_free(k, b) /\ ~block_is_prev_free(k, b)
       /\ k.mem[e] = b
  <2>1. b + 1 \notin {e + 1} /\ e \notin {e + 1}
    BY <1>3
  <2>2. Same(l, k, b)
    BY <1>3, <1>24, <2>1, SameWord
  <2>3. k.mem[e] = l.mem[e]
    BY <1>3, <1>24, <2>1 DEF WritesOnly
  <2> QED  BY <1>10, <1>20, <1>22, <2>2, <2>3 DEF Same
<1>27. Lists(k, Y, G, Q)
  <2>1. \A g \in G : g + 2 \notin {e} /\ g + 3 \notin {e} /\ g + 2 \notin {e + 1} /\ g + 3 \notin {e + 1}
    <3>1. TAKE g \in G
    <3>2. CASE g = b
      BY <1>3, <3>2
    <3>3. CASE g # b
      BY <1>1, <1>3, <1>5, <1>8, <3>3
    <3> QED  BY <3>2, <3>3
  <2>2. Lists(l, Y, G, Q)
    BY <1>6, <1>7, <1>18, <1>22, <2>1, ListsFrame
  <2> QED  BY <1>6, <1>7, <1>24, <2>1, <2>2, ListsFrame
<1>28. Tags(k, B, T, Y, G, G, G)
  <2>1. \A d \in Nodes(A, S) : Same(h, k, d)
    <3>1. TAKE d \in Nodes(A, S)
    <3>2. d + 1 \in 1..Top /\ d + 1 \notin b + 1..e + 1
      BY <1>1, <1>8, TileWords
    <3>3. x # Null => d + 1 # x + 3
      BY <1>1, <1>16, WordsApart
    <3>4. k.mem[d + 1] = h.mem[d + 1]
      BY <1>25, <3>2, <3>3 DEF PoolOnly
    <3> QED  BY <3>4 DEF Same, block_size, block_is_free, block_is_prev_free
  <2>2. ASSUME NEW d \in Nodes(A, S)
        PROVE  /\ block_size(k, d) = Y[d] /\ (block_is_free(k, d) <=> d \in G)
               /\ (block_is_prev_free(k, d) <=> \E u \in G : After(Y, u) = d)
    <3>1. block_size(h, d) = Z[d] /\ (block_is_free(h, d) <=> d \in F)
          /\ (block_is_prev_free(h, d) <=> \E u \in F : After(Z, u) = d)
      BY <1>1 DEF Tags
    <3>2. d # b /\ d # e /\ Y[d] = Z[d]
      BY <1>6
    <3>3. (\E u \in F : After(Z, u) = d) <=> \E u \in G : After(Y, u) = d
      BY <1>1, <1>5, <1>6, <1>7, <3>2
    <3> QED  BY <1>5, <2>1, <3>1, <3>2, <3>3 DEF Same
  <2>3. ~\E u \in G : After(Y, u) = b
    <3>1. b \in Firsts(B)
      BY <1>2, <1>5 DEF Firsts
    <3> QED  BY <1>6, <1>7, <3>1, Spaced
  <2>4. ASSUME NEW u \in G PROVE k.mem[After(Y, u)] = u
    <3>1. CASE u = b
      BY <1>6, <1>26, <3>1
    <3>2. CASE u # b
      <4>1. u \in F /\ u \in S /\ After(Y, u) = After(Z, u) /\ h.mem[After(Z, u)] = u
        BY <1>1, <1>5, <1>6, <1>7, <3>2 DEF Tags
      <4>2. After(Z, u) \in 1..Top /\ After(Z, u) \notin b + 1..e + 1
        BY <1>1, <1>8, <4>1, TileWords
      <4>3. x # Null => After(Z, u) # x + 3
        BY <1>1, <1>16, <4>1, WordsApart
      <4> QED  BY <1>25, <4>1, <4>2, <4>3 DEF PoolOnly
    <3> QED  BY <3>1, <3>2
  <2>5. \A d \in Nodes(B, T) : /\ block_size(k, d) = Y[d] /\ (block_is_free(k, d) <=> d \in G)
                               /\ (block_is_prev_free(k, d) <=> \E u \in G : After(Y, u) = d)
    BY <1>4, <1>6, <1>7, <1>24, <1>26, <2>2, <2>3
  <2> QED  BY <2>4, <2>5 DEF Tags
<1>29. Kept(k, T, Y, G, W)
  <2>1. SUFFICES ASSUME NEW a \in W PROVE k.mem[a] = Data /\ \E u \in T \ G : a \in Payload(Y, u)
    BY DEF Kept
  <2>2. PICK u \in S \ F : a \in Payload(Z, u)
    BY <1>1 DEF Kept
  <2>3. u \in T \ G /\ a \in Payload(Y, u)
    BY <1>5, <1>6, <1>7, <2>2 DEF Payload
  <2>4. a \in 1..Top /\ a \notin b + 1..e + 1
    BY <1>1, <1>8, <2>2, PayloadApart
  <2>5. x # Null => a # x + 3
    <3>1. x # Null => x \in S /\ x # u
      BY <1>1, <1>16, <2>2
    <3> QED  BY <1>1, <2>2, <3>1, PayloadApart
  <2>6. k.mem[a] = h.mem[a] /\ h.mem[a] = Data
    BY <1>1, <1>25, <2>4, <2>5 DEF PoolOnly, Kept
  <2> QED  BY <2>3, <2>6
<1>30. Rep(k, B, T, Y, G, G, G, G, Q, W)
  BY <1>6, <1>7, <1>24, <1>27, <1>28, <1>29 DEF Rep
<1>31. \A u \in G : After(Y, u) \notin G
  <2>1. TAKE u \in G
  <2>2. CASE u = b
    BY <1>6, <1>7, <2>2
  <2>3. CASE u # b
    <3>1. u \in F /\ After(Y, u) = After(Z, u) /\ After(Z, u) \notin F /\ After(Z, u) \in Nodes(A, S)
      BY <1>1, <1>5, <1>6, <1>7, <2>3, TileWords
    <3> QED  BY <1>5, <1>6, <3>1
  <2> QED  BY <2>2, <2>3
<1>32. Keeps(S, Z, F, T, Y, G)
  BY <1>5, <1>6, <1>7 DEF Keeps
<1>33. Good(k, B, T, Y, G, Q, W)
  BY <1>30, <1>31 DEF Good
<1> QED  BY <1>5, <1>32, <1>33

\* A pool in which no block is live is one free block.
LEMMA EmptyPool ==
    ASSUME NEW A, NEW S, NEW Z, NEW F, Tiles(A, S, Z), \A u \in F : After(Z, u) \notin F,
           NEW p \in A, \A u \in S \ F : ~InPool(u, p), NEW b, b = First(p)
    PROVE  b \in S /\ b \in F /\ After(Z, b) = Sentinel(p)
<1>1. p \in Usable /\ b \in S
  BY DEF Tiles
<1>2. PICK e : e = Sentinel(p)
  OBVIOUS
<1>3. PICK n \in Nat : n = PoolWords[p]
  BY <1>1, Places
<1>4. b \in Nat /\ e \in Nat /\ b + 4 <= e /\ e = b + n - 1 /\ PoolAt[p] = b + 1
  <2>1. PoolAt[p] \in 4..Top /\ Top \in Nat
    BY <1>1, HeapAssumption DEF Usable
  <2> QED  BY <1>1, <1>2, <1>3, <2>1, Places DEF First, Overhead
<1>5. \A u \in S \ F : ~(u + 1 \in b + 1..b + n)
  BY <1>3, <1>4 DEF InPool
<1>6. b \in F
  <2>1. b + 1 \in b + 1..b + n
    BY <1>4
  <2> QED  BY <1>1, <1>5, <2>1
<1>7. PICK d : d = After(Z, b)
  OBVIOUS
<1>8. d \in Nodes(A, S) /\ d \in Nat /\ b + 4 <= d /\ d <= e
  <2>1. e \in Nodes(A, S) /\ b < e
    <3>1. e \in Ends(A)
      BY <1>2 DEF Ends
    <3>2. b < e
      BY <1>4
    <3> QED  BY <3>1, <3>2 DEF Nodes
  <2> QED  BY <1>1, <1>7, <2>1, TileWords, Spaced
<1>9. CASE d \in S /\ d # e
  <2>1. d + 1 \in b + 1..b + n
    BY <1>4, <1>8, <1>9
  <2>2. d \in S \ F
    BY <1>6, <1>7, <1>9
  <2> QED  BY <1>5, <2>1, <2>2
<1>10. CASE d \notin S /\ d # e
  <2>1. PICK q \in A : d = Sentinel(q)
    BY <1>8, <1>10 DEF Nodes, Ends
  <2>2. q \in Usable /\ q # p
    BY <1>2, <1>10, <2>1 DEF Tiles
  <2>3. e < First(q) \/ d < b
    BY <1>1, <1>2, <2>1, <2>2, PoolsApart
  <2>4. First(q) \in Nat /\ First(q) + 4 <= d
    BY <2>1, <2>2, Places
  <2> QED  BY <1>4, <1>8, <2>3, <2>4
<1>11. CASE d = e
  BY <1>1, <1>2, <1>6, <1>7, <1>11
<1> QED  BY <1>9, <1>10, <1>11

\* It can go, then.
LEMMA PoolTiles ==
    ASSUME NEW A, NEW S, NEW Z, Tiles(A, S, Z), NEW p \in A, NEW b, NEW e,
           b = First(p), e = Sentinel(p), After(Z, b) = e
    PROVE  \E B, T : /\ B = A \ {p} /\ T = S \ {b}
                     /\ Tiles(B, T, Z) /\ Nodes(B, T) = Nodes(A, S) \ {b, e}
<1>1. After(Z, First(p)) = Sentinel(p)
  OBVIOUS
<1> HIDE DEF After
<1>2. /\ Tiles(A \ {p}, S \ {First(p)}, Z)
      /\ Nodes(A \ {p}, S \ {First(p)}) = Nodes(A, S) \ {First(p), Sentinel(p)}
  BY <1>1, RemoveTiles
<1> QED  BY <1>2

\* tlsf_remove_pool takes it out of its list.
LEMMA RemovePoolHeap ==
    ASSUME NEW h, NEW A, NEW S, NEW Z, NEW F, NEW R, NEW W, Good(h, A, S, Z, F, R, W),
           NEW p \in A, \A u \in S \ F : ~InPool(u, p), NEW k, k = tlsf_remove_pool(h, p)
    PROVE  \E T, Y, G, Q : Good(k, A \ {p}, T, Y, G, Q, W) /\ Keeps(S, Z, F, T, Y, G)
<1>1. /\ Rep(h, A, S, Z, F, F, F, F, R, W) /\ F \subseteq S /\ Tiles(A, S, Z)
      /\ \A u \in F : After(Z, u) \notin F
  BY DEF Good, Rep
<1>2. PICK b, e : b = First(p) /\ e = Sentinel(p)
  OBVIOUS
<1>3. b \in S /\ b \in F /\ After(Z, b) = e
  BY <1>1, <1>2, EmptyPool
<1>4. PICK B, T, G : /\ B = A \ {p} /\ T = S \ {b} /\ G = F \ {b}
                     /\ Tiles(B, T, Z) /\ Nodes(B, T) = Nodes(A, S) \ {b, e}
  <2>1. Tiles(A, S, Z) /\ After(Z, b) = e
    BY <1>1, <1>3
  <2>2. \E B, T : /\ B = A \ {p} /\ T = S \ {b}
                  /\ Tiles(B, T, Z) /\ Nodes(B, T) = Nodes(A, S) \ {b, e}
    BY <1>2, <2>1, PoolTiles
  <2> QED  BY <2>2
<1>5. Tiles(B, T, Z) /\ Nodes(B, T) = Nodes(A, S) \ {b, e}
  BY <1>4
<1>6. k = block_remove(h, b)
  BY <1>2 DEF tlsf_remove_pool, First
<1>7. Rep(k, A, S, Z, F, F, F, G, R, W)
  BY <1>1, <1>3, <1>4, <1>6, RepBlockRemove
<1>8. /\ k \in HeapType /\ Tags(k, A, S, Z, F, F, F) /\ Lists(k, Z, G, R) /\ Kept(k, S, Z, F, W)
  BY <1>7 DEF Rep
<1>9. Tags(k, B, T, Z, G, G, G)
  <2>1. ASSUME NEW d \in Nodes(B, T)
        PROVE  /\ block_size(k, d) = Z[d] /\ (block_is_free(k, d) <=> d \in G)
               /\ (block_is_prev_free(k, d) <=> \E u \in G : After(Z, u) = d)
    <3>1. d \in Nodes(A, S) /\ d # b /\ d # e
      BY <1>5
    <3>2. block_size(k, d) = Z[d] /\ (block_is_free(k, d) <=> d \in F)
          /\ (block_is_prev_free(k, d) <=> \E u \in F : After(Z, u) = d)
      BY <1>8, <3>1 DEF Tags
    <3> QED  BY <1>3, <1>4, <3>1, <3>2
  <2>2. \A u \in G : k.mem[After(Z, u)] = u
    BY <1>4, <1>8 DEF Tags
  <2> QED  BY <2>1, <2>2 DEF Tags
<1>10. T \ G = S \ F /\ G \subseteq T
  BY <1>1, <1>3, <1>4
<1>11. Kept(k, T, Z, G, W)
  BY <1>8, <1>10 DEF Kept
<1>12. Rep(k, B, T, Z, G, G, G, G, R, W)
  BY <1>5, <1>8, <1>9, <1>10, <1>11 DEF Rep
<1>13. Good(k, B, T, Z, G, R, W)
  <2>1. \A u \in G : After(Z, u) \notin G
    BY <1>1, <1>4
  <2> QED  BY <1>12, <2>1 DEF Good
<1>14. Keeps(S, Z, F, T, Z, G)
  BY <1>10 DEF Keeps
<1> QED  BY <1>4, <1>13, <1>14

-----------------------------------------------------------------------------
(* The owners' blocks are the blocks in use. *)

\* The words that the owners have written.
WordsOf(bl, fi) == UNION {Words(bl[o], fi[o]) : o \in {p \in Owner : bl[p] # Null}}

Owned(bl, fi, S, Z, F) ==
    /\ bl \in [Owner -> Nat] /\ fi \in [Owner -> Nat]
    /\ {bl[o] : o \in Owner} \ {Null} = S \ F
    /\ \A o, p \in Owner : bl[o] # Null /\ bl[o] = bl[p] => o = p
    /\ \A o \in Owner : bl[o] # Null => fi[o] <= Z[bl[o]]

\* The last call was served, or nothing in F would have done.
Refused(Z, F, r) == r \in Nat /\ (r > 0 => NoneAsLarge(Z, F, RoundUp(r)))

\* S are the blocks, Z their sizes, F those that are free.
Holds(h, A, bl, fi, r, S, Z, F, R) ==
    /\ Good(h, A, S, Z, F, R, WordsOf(bl, fi))
    /\ Owned(bl, fi, S, Z, F) /\ Refused(Z, F, r)

Others(o) == Owner \ {o}

\* The owners of E have what they had.
Stays(E, bl, Z, cl, Y) ==
    \A o \in E : cl[o] = bl[o] /\ (bl[o] # Null => Y[bl[o]] = Z[bl[o]])

\* g is f but for the value at o.
Updated(f, o, v, g) == g = [f EXCEPT ![o] = v]

\* A block that is held is in use, and long enough for what its owner has written.
LEMMA OwnedBlock ==
    ASSUME NEW bl, NEW fi, NEW S, NEW Z, NEW F, Owned(bl, fi, S, Z, F), NEW o \in Owner, bl[o] # Null
    PROVE  bl[o] \in S \ F /\ bl[o] \in Nat /\ fi[o] \in Nat /\ fi[o] <= Z[bl[o]]
  BY DEF Owned

\* The owners hold what they held.
LEMMA OwnedKeeps ==
    ASSUME NEW bl, NEW fi, NEW S, NEW Z, NEW F, Owned(bl, fi, S, Z, F), NEW T, NEW Y, NEW G,
           Keeps(S, Z, F, T, Y, G)
    PROVE  Owned(bl, fi, T, Y, G) /\ Stays(Owner, bl, Z, bl, Y)
<1>1. /\ bl \in [Owner -> Nat] /\ fi \in [Owner -> Nat]
      /\ {bl[o] : o \in Owner} \ {Null} = T \ G
      /\ \A o, p \in Owner : bl[o] # Null /\ bl[o] = bl[p] => o = p
  BY DEF Owned, Keeps
<1>2. \A o \in Owner : bl[o] # Null => fi[o] <= Z[bl[o]] /\ Y[bl[o]] = Z[bl[o]]
  BY OwnedBlock DEF Keeps
<1> QED  BY <1>1, <1>2 DEF Owned, Stays

\* V, and the first n words of the block at b.
Join(V, b, n) == V \cup Words(b, n)

\* One of them gets a block.
LEMMA OwnedGives ==
    ASSUME NEW bl, NEW fi, NEW S, NEW Z, NEW F, Owned(bl, fi, S, Z, F), NEW T, NEW Y, NEW G,
           NEW b \in Nat, b # Null, NEW n \in Nat, Gives(S, Z, F, b, n, T, Y, G),
           NEW o \in Owner, bl[o] = Null,
           NEW cl, Updated(bl, o, b, cl), NEW gi, Updated(fi, o, n, gi)
    PROVE  /\ Owned(cl, gi, T, Y, G) /\ Stays(Others(o), bl, Z, cl, Y)
           /\ WordsOf(cl, gi) = Join(WordsOf(bl, fi), b, n)
<1>1. /\ bl \in [Owner -> Nat] /\ fi \in [Owner -> Nat]
      /\ {bl[p] : p \in Owner} \ {Null} = S \ F
      /\ \A p, q \in Owner : bl[p] # Null /\ bl[p] = bl[q] => p = q
      /\ \A p \in Owner : bl[p] # Null => fi[p] <= Z[bl[p]] /\ bl[p] \in S \ F
  BY OwnedBlock DEF Owned
<1>2. /\ b \notin S \ F /\ T \ G = (S \ F) \cup {b} /\ Y[b] >= n
      /\ \A u \in S \ F : Y[u] = Z[u]
  BY DEF Gives
<1>3. /\ cl \in [Owner -> Nat] /\ gi \in [Owner -> Nat] /\ cl[o] = b /\ gi[o] = n
      /\ \A p \in Owner : p # o => cl[p] = bl[p] /\ gi[p] = fi[p]
  BY <1>1 DEF Updated
<1>4. {cl[p] : p \in Owner} \ {Null} = T \ G
  BY <1>1, <1>2, <1>3
<1>5. \A p, q \in Owner : cl[p] # Null /\ cl[p] = cl[q] => p = q
  BY <1>1, <1>2, <1>3
<1>6. \A p \in Owner : cl[p] # Null => gi[p] <= Y[cl[p]]
  <2>1. TAKE p \in Owner
  <2>2. CASE p = o
    <3>1. gi[p] = n /\ cl[p] = b
      BY <1>3, <2>2
    <3>2. n <= Y[b]
      BY <1>2
    <3> QED  BY <3>1, <3>2
  <2>3. CASE p # o
    BY <1>1, <1>2, <1>3, <2>3
  <2> QED  BY <2>2, <2>3
<1>7. Owned(cl, gi, T, Y, G) /\ Stays(Others(o), bl, Z, cl, Y)
  BY <1>1, <1>2, <1>3, <1>4, <1>5, <1>6 DEF Owned, Stays, Others
<1>8. \A p \in Owner : p # o => Words(cl[p], gi[p]) = Words(bl[p], fi[p])
  BY <1>3
<1>9. Words(cl[o], gi[o]) = Words(b, n)
  BY <1>3
<1>10. WordsOf(cl, gi) = Join(WordsOf(bl, fi), b, n)
  BY <1>3, <1>8, <1>9 DEF WordsOf, Join
<1> QED  BY <1>7, <1>10

\* The words of the owners other than o.
OtherWords(bl, fi, o) == UNION {Words(bl[p], fi[p]) : p \in {q \in Owner \ {o} : bl[q] # Null}}

\* What others have written is not in the block of o.
LEMMA OthersElsewhere ==
    ASSUME NEW bl, NEW fi, NEW A, NEW S, NEW Z, NEW F, Owned(bl, fi, S, Z, F), Tiles(A, S, Z),
           NEW o \in Owner, bl[o] # Null
    PROVE  /\ Elsewhere(OtherWords(bl, fi, o), S, Z, F, bl[o])
           /\ WordsOf(bl, fi) = OtherWords(bl, fi, o) \cup Words(bl[o], fi[o])
<1>1. ASSUME NEW a \in OtherWords(bl, fi, o) PROVE \E u \in S \ F : u # bl[o] /\ a \in Payload(Z, u)
  <2>1. PICK p \in Owner : p # o /\ bl[p] # Null /\ a \in Words(bl[p], fi[p])
    BY DEF OtherWords
  <2>2. PICK u, m : u = bl[p] /\ m = fi[p]
    OBVIOUS
  <2>3. u \in S \ F /\ u \in Nat /\ m \in Nat /\ m <= Z[u]
    BY <2>1, <2>2, OwnedBlock
  <2>4. u # bl[o]
    BY <2>1, <2>2 DEF Owned
  <2>5. PICK z \in Nat : z = Z[u]
    <3>1. u \in 1..Top /\ Z \in [1..Top -> Nat]
      BY <2>3 DEF Tiles, Sizes
    <3> QED  BY <3>1
  <2>6. a \in u + 2..u + 1 + m
    BY <2>1, <2>2 DEF Words
  <2>7. a \in u + 2..u + 1 + z
    BY <2>3, <2>5, <2>6
  <2>8. a \in Payload(Z, u)
    <3>1. u + 1 + z = After(Z, u)
      BY <2>5 DEF After
    <3> QED  BY <2>7, <3>1 DEF Payload
  <2> QED  BY <2>3, <2>4, <2>8
<1>2. Elsewhere(OtherWords(bl, fi, o), S, Z, F, bl[o])
  BY <1>1 DEF Elsewhere
<1>3. WordsOf(bl, fi) = OtherWords(bl, fi, o) \cup Words(bl[o], fi[o])
  BY DEF WordsOf, OtherWords
<1> QED  BY <1>2, <1>3

\* The block of o is moved or resized.
LEMMA OwnedBecomes ==
    ASSUME NEW bl, NEW fi, NEW S, NEW Z, NEW F, Owned(bl, fi, S, Z, F), NEW T, NEW Y, NEW G,
           NEW c \in Nat, c # Null, NEW n \in Nat, NEW l \in Nat, l <= n,
           NEW o \in Owner, bl[o] # Null, Becomes(S, Z, F, bl[o], c, n, T, Y, G),
           NEW A, Tiles(A, T, Y),
           NEW cl, Updated(bl, o, c, cl), NEW gi, Updated(fi, o, l, gi)
    PROVE  /\ Owned(cl, gi, T, Y, G) /\ Stays(Others(o), bl, Z, cl, Y)
           /\ WordsOf(cl, gi) = Join(OtherWords(bl, fi, o), c, l)
<1>1. /\ bl \in [Owner -> Nat] /\ fi \in [Owner -> Nat]
      /\ {bl[p] : p \in Owner} \ {Null} = S \ F
      /\ \A p, q \in Owner : bl[p] # Null /\ bl[p] = bl[q] => p = q
      /\ \A p \in Owner : bl[p] # Null => fi[p] <= Z[bl[p]] /\ bl[p] \in S \ F
  BY OwnedBlock DEF Owned
<1>2. PICK b : b = bl[o]
  OBVIOUS
<1>3. /\ T \ G = ((S \ F) \ {b}) \cup {c} /\ Y[c] >= n
      /\ \A u \in S \ F : u # b => u # c /\ Y[u] = Z[u]
  BY <1>2 DEF Becomes
<1>4. /\ cl \in [Owner -> Nat] /\ gi \in [Owner -> Nat] /\ cl[o] = c /\ gi[o] = l
      /\ \A p \in Owner : p # o => cl[p] = bl[p] /\ gi[p] = fi[p]
  BY <1>1 DEF Updated
<1>5. \A p \in Owner : p # o /\ bl[p] # Null => bl[p] \in S \ F /\ bl[p] # b
  BY <1>1, <1>2
<1>6. {cl[p] : p \in Owner} \ {Null} = T \ G
  <2>1. ASSUME NEW u \in T \ G PROVE u # Null /\ \E p \in Owner : cl[p] = u
    <3>1. CASE u = c
      BY <1>4, <3>1
    <3>2. CASE u # c
      <4>1. u \in S \ F /\ u # b
        BY <1>3, <3>2
      <4>2. PICK p \in Owner : bl[p] = u /\ u # Null
        BY <1>1, <4>1
      <4> QED  BY <1>2, <1>4, <4>1, <4>2
    <3> QED  BY <3>1, <3>2
  <2>2. ASSUME NEW p \in Owner, cl[p] # Null PROVE cl[p] \in T \ G
    <3>1. CASE p = o
      BY <1>3, <1>4, <3>1
    <3>2. CASE p # o
      BY <1>3, <1>4, <1>5, <2>2, <3>2
    <3> QED  BY <3>1, <3>2
  <2> QED  BY <2>1, <2>2
<1>7. \A p, q \in Owner : cl[p] # Null /\ cl[p] = cl[q] => p = q
  BY <1>1, <1>3, <1>4, <1>5
<1>8. \A p \in Owner : cl[p] # Null => gi[p] <= Y[cl[p]]
  <2>1. TAKE p \in Owner
  <2>2. CASE p = o
    <3>1. gi[p] = l /\ cl[p] = c
      BY <1>4, <2>2
    <3>2. c \in T
      BY <1>3
    <3>3. PICK y \in Nat : y = Y[c]
      BY <3>2 DEF Tiles, Sizes
    <3>4. l <= y
      BY <1>3, <3>3
    <3> QED  BY <3>1, <3>3, <3>4
  <2>3. CASE p # o
    BY <1>1, <1>3, <1>4, <1>5, <2>3
  <2> QED  BY <2>2, <2>3
<1>9. Owned(cl, gi, T, Y, G) /\ Stays(Others(o), bl, Z, cl, Y)
  BY <1>1, <1>3, <1>4, <1>5, <1>6, <1>7, <1>8 DEF Owned, Stays, Others
<1>10. \A p \in Owner : p # o => Words(cl[p], gi[p]) = Words(bl[p], fi[p])
  BY <1>4
<1>11. Words(cl[o], gi[o]) = Words(c, l)
  BY <1>4
<1>12. WordsOf(cl, gi) = Join(OtherWords(bl, fi, o), c, l)
  BY <1>4, <1>10, <1>11 DEF WordsOf, OtherWords, Join
<1> QED  BY <1>9, <1>12

\* The block b is not in use any more.
Loses(S, Z, F, b, T, Y, G) == T \ G = (S \ F) \ {b} /\ \A u \in T \ G : Y[u] = Z[u]

\* The block of o is given back.
LEMMA OwnedFrees ==
    ASSUME NEW bl, NEW fi, NEW S, NEW Z, NEW F, Owned(bl, fi, S, Z, F), NEW T, NEW Y, NEW G,
           NEW o \in Owner, bl[o] # Null, Loses(S, Z, F, bl[o], T, Y, G),
           NEW cl, Updated(bl, o, Null, cl), NEW gi, Updated(fi, o, 0, gi)
    PROVE  /\ Owned(cl, gi, T, Y, G) /\ Stays(Others(o), bl, Z, cl, Y)
           /\ WordsOf(cl, gi) = OtherWords(bl, fi, o)
<1>1. /\ bl \in [Owner -> Nat] /\ fi \in [Owner -> Nat]
      /\ {bl[p] : p \in Owner} \ {Null} = S \ F
      /\ \A p, q \in Owner : bl[p] # Null /\ bl[p] = bl[q] => p = q
      /\ \A p \in Owner : bl[p] # Null => fi[p] <= Z[bl[p]] /\ bl[p] \in S \ F
  BY OwnedBlock DEF Owned
<1>2. /\ cl \in [Owner -> Nat] /\ gi \in [Owner -> Nat] /\ cl[o] = Null
      /\ \A p \in Owner : p # o => cl[p] = bl[p] /\ gi[p] = fi[p]
  BY <1>1 DEF Null, Updated
<1>3. /\ \A p \in Owner : p # o /\ bl[p] # Null => bl[p] \in T \ G
      /\ T \ G = (S \ F) \ {bl[o]} /\ \A u \in T \ G : Y[u] = Z[u]
  BY <1>1 DEF Loses
<1>4. {cl[p] : p \in Owner} \ {Null} = T \ G
  BY <1>1, <1>2, <1>3
<1>5. \A p, q \in Owner : cl[p] # Null /\ cl[p] = cl[q] => p = q
  BY <1>1, <1>2
<1>6. \A p \in Owner : cl[p] # Null => gi[p] <= Y[cl[p]]
  BY <1>1, <1>2, <1>3
<1>7. Owned(cl, gi, T, Y, G) /\ Stays(Others(o), bl, Z, cl, Y)
  BY <1>1, <1>2, <1>3, <1>4, <1>5, <1>6 DEF Owned, Stays, Others
<1>8. \A p \in Owner : p # o => Words(cl[p], gi[p]) = Words(bl[p], fi[p])
  BY <1>2
<1>9. WordsOf(cl, gi) = OtherWords(bl, fi, o)
  BY <1>2, <1>8 DEF WordsOf, OtherWords
<1> QED  BY <1>7, <1>9

-----------------------------------------------------------------------------
(* The invariant, and what every call does to it. *)

\* The heap is well-formed for some set of blocks, and those in use are the owners'.
TlsfInv == \E S, Z, F, R : Holds(heap, added, block, filled, refused, S, Z, F, R)

\* A state for the next call, in which the owners of E have what they had.
HoldsNext(E, Z) ==
    \E T, Y, G, Q : /\ Holds(heap', added', block', filled', refused', T, Y, G, Q)
                    /\ Stays(E, block, Z, block', Y)

\* There is no pool at first.
LEMMA InitHolds ==
    ASSUME Init
    PROVE  TlsfInv
<1>1. PICK S, Z : S = {} /\ Z = [a \in 1..Top |-> 0]
  OBVIOUS
<1>2. Tiles({}, S, Z)
  <2>1. Nodes({}, S) = {} /\ Z \in Sizes
    BY <1>1 DEF Nodes, Ends, Sizes
  <2> QED  BY <1>1, <2>1 DEF Tiles
<1>3. /\ heap.head = [c \in Class |-> Null] /\ heap.mem = [a \in 1..Top |-> 0]
      /\ heap.fl = {} /\ heap.sl = [f \in 0..FlMax |-> {}]
      /\ heap \in HeapType
  BY DEF Init, HeapType, Null
<1>4. Lists(heap, Z, S, Z)
  <2>1. Z \in [1..Top -> Nat]
    BY <1>1
  <2>2. heap.fl = {f \in 0..FlMax : heap.sl[f] # {}}
    BY <1>3
  <2>3. \A c \in Class : c[1] \in 0..FlMax /\ c[2] \notin heap.sl[c[1]] /\ heap.head[c] = Null
    BY <1>3 DEF Class
  <2> QED  BY <1>1, <2>1, <2>2, <2>3 DEF Lists
<1>5. Nodes({}, S) = {}
  BY <1>1 DEF Nodes, Ends
<1>6. Tags(heap, {}, S, Z, S, S, S)
  BY <1>1, <1>5 DEF Tags
<1>7. WordsOf(block, filled) = {}
  BY DEF Init, WordsOf
<1>8. Kept(heap, S, Z, S, WordsOf(block, filled))
  BY <1>7 DEF Kept
<1>9. Rep(heap, {}, S, Z, S, S, S, S, Z, WordsOf(block, filled))
  BY <1>2, <1>3, <1>4, <1>6, <1>8 DEF Rep
<1>10. Good(heap, {}, S, Z, S, Z, WordsOf(block, filled))
  BY <1>1, <1>9 DEF Good
<1>11. Owned(block, filled, S, Z, S)
  BY <1>1 DEF Init, Owned, Null
<1>12. Refused(Z, S, refused) /\ added = {}
  BY DEF Init, Refused
<1> QED  BY <1>10, <1>11, <1>12 DEF TlsfInv, Holds

\* No call has been refused.
LEMMA RefusedNone ==
    ASSUME NEW Z, NEW F
    PROVE  Refused(Z, F, 0)
  BY DEF Refused

\* tlsf_add_pool.
LEMMA AddPoolStep ==
    ASSUME NEW S, NEW Z, NEW F, NEW R, Holds(heap, added, block, filled, refused, S, Z, F, R),
           NEW p \in Pool, AddPool(p)
    PROVE  HoldsNext(Owner, Z)
<1>1. /\ Good(heap, added, S, Z, F, R, WordsOf(block, filled)) /\ Owned(block, filled, S, Z, F)
  BY DEF Holds
<1>2. p \in Usable \ added /\ heap' = tlsf_add_pool(heap, p)
  BY DEF AddPool, Usable
<1>3. PICK T, Y, G, Q : /\ Good(heap', added \cup {p}, T, Y, G, Q, WordsOf(block, filled))
                        /\ Keeps(S, Z, F, T, Y, G)
  BY <1>1, <1>2, AddPoolHeap
<1>4. Owned(block, filled, T, Y, G) /\ Stays(Owner, block, Z, block, Y)
  BY <1>1, <1>3, OwnedKeeps
<1>5. added' = added \cup {p} /\ block' = block /\ filled' = filled /\ refused' = 0
  BY DEF AddPool
<1>6. Refused(Y, G, refused')
  BY <1>5, RefusedNone
<1> QED  BY <1>3, <1>4, <1>5, <1>6 DEF HoldsNext, Holds

\* tlsf_remove_pool: its guard says that no block in the pool is in use.
LEMMA RemovePoolStep ==
    ASSUME NEW S, NEW Z, NEW F, NEW R, Holds(heap, added, block, filled, refused, S, Z, F, R),
           NEW p \in Pool, RemovePool(p)
    PROVE  HoldsNext(Owner, Z)
<1>1. /\ Good(heap, added, S, Z, F, R, WordsOf(block, filled)) /\ Owned(block, filled, S, Z, F)
  BY DEF Holds
<1>2. p \in added /\ heap' = tlsf_remove_pool(heap, p)
  BY DEF RemovePool
<1>3. \A u \in S \ F : ~InPool(u, p)
  <2>1. \A o \in Owner : ~InPool(block[o], p)
    BY DEF RemovePool
  <2>2. {block[o] : o \in Owner} \ {Null} = S \ F
    BY <1>1 DEF Owned
  <2> QED  BY <2>1, <2>2
<1>4. PICK T, Y, G, Q : /\ Good(heap', added \ {p}, T, Y, G, Q, WordsOf(block, filled))
                        /\ Keeps(S, Z, F, T, Y, G)
  BY <1>1, <1>2, <1>3, RemovePoolHeap
<1>5. Owned(block, filled, T, Y, G) /\ Stays(Owner, block, Z, block, Y)
  BY <1>1, <1>4, OwnedKeeps
<1>6. added' = added \ {p} /\ block' = block /\ filled' = filled /\ refused' = 0
  BY DEF RemovePool
<1>7. Refused(Y, G, refused')
  BY <1>6, RefusedNone
<1> QED  BY <1>4, <1>5, <1>6, <1>7 DEF HoldsNext, Holds

\* tlsf_free.
LEMMA FreeStep ==
    ASSUME NEW S, NEW Z, NEW F, NEW R, Holds(heap, added, block, filled, refused, S, Z, F, R),
           NEW o \in Owner, Free(o)
    PROVE  HoldsNext(Others(o), Z)
<1>1. /\ Good(heap, added, S, Z, F, R, WordsOf(block, filled)) /\ Owned(block, filled, S, Z, F)
  BY DEF Holds
<1>2. Tiles(added, S, Z)
  BY <1>1 DEF Good, Rep
<1>3. /\ block[o] # Null /\ heap' = tlsf_free(heap, block[o])
      /\ Updated(block, o, Null, block') /\ Updated(filled, o, 0, filled')
      /\ refused' = 0 /\ added' = added
  BY DEF Free, Updated
<1>4. PICK V : V = OtherWords(block, filled, o)
  OBVIOUS
<1>5. Elsewhere(V, S, Z, F, block[o]) /\ V \subseteq WordsOf(block, filled)
  BY <1>1, <1>2, <1>3, <1>4, OthersElsewhere
<1>6. Good(heap, added, S, Z, F, R, V)
  BY <1>1, <1>5, GoodWeaker
<1>7. block[o] \in S \ F
  BY <1>1, <1>3, OwnedBlock
<1>8. \A a \in V : a \notin Payload(Z, block[o])
  BY <1>2, <1>5, <1>7, NotInside
<1>9. PICK T, Y, G, Q : /\ Good(heap', added, T, Y, G, Q, V)
                        /\ Loses(S, Z, F, block[o], T, Y, G)
  BY <1>3, <1>6, <1>7, <1>8, FreeHeap DEF Loses
<1>10. /\ Owned(block', filled', T, Y, G) /\ Stays(Others(o), block, Z, block', Y)
       /\ WordsOf(block', filled') = V
  <2>1. /\ Owned(block, filled, S, Z, F) /\ block[o] # Null
        /\ Updated(block, o, Null, block') /\ Updated(filled, o, 0, filled')
    BY <1>1, <1>3
  <2>2. /\ Owned(block', filled', T, Y, G) /\ Stays(Others(o), block, Z, block', Y)
        /\ WordsOf(block', filled') = OtherWords(block, filled, o)
    BY <1>9, <2>1, OwnedFrees
  <2> QED  BY <1>4, <2>2
<1>11. Refused(Y, G, refused')
  BY <1>3, RefusedNone
<1> QED  BY <1>3, <1>9, <1>10, <1>11 DEF HoldsNext, Holds

\* An owner without a block has written nothing.
LEMMA OwnedNothing ==
    ASSUME NEW bl, NEW fi, NEW S, NEW Z, NEW F, Owned(bl, fi, S, Z, F), NEW o \in Owner, bl[o] = Null,
           NEW cl, Updated(bl, o, Null, cl), NEW gi, Updated(fi, o, 0, gi)
    PROVE  Owned(cl, gi, S, Z, F) /\ WordsOf(cl, gi) = WordsOf(bl, fi) /\ Stays(Owner, bl, Z, cl, Z)
<1>1. /\ bl \in [Owner -> Nat] /\ fi \in [Owner -> Nat]
      /\ {bl[p] : p \in Owner} \ {Null} = S \ F
      /\ \A p, q \in Owner : bl[p] # Null /\ bl[p] = bl[q] => p = q
      /\ \A p \in Owner : bl[p] # Null => fi[p] <= Z[bl[p]]
  BY DEF Owned
<1>2. /\ cl = bl /\ gi \in [Owner -> Nat]
      /\ \A p \in Owner : p # o => gi[p] = fi[p]
  BY <1>1 DEF Updated
<1>3. Owned(cl, gi, S, Z, F)
  BY <1>1, <1>2 DEF Owned
<1>4. \A p \in Owner : bl[p] # Null => gi[p] = fi[p]
  BY <1>2
<1>5. WordsOf(cl, gi) = WordsOf(bl, fi)
  BY <1>2, <1>4 DEF WordsOf
<1>6. Stays(Owner, bl, Z, cl, Z)
  BY <1>2 DEF Stays
<1> QED  BY <1>3, <1>5, <1>6

\* A call that is served, for n words that the owner then writes.
LEMMA ServedStep ==
    ASSUME NEW S, NEW Z, NEW F, NEW R, Holds(heap, added, block, filled, refused, S, Z, F, R),
           NEW o \in Owner, block[o] = Null, NEW n \in Nat, NEW k,
           Serve(o, n, k), Serves(added, S, Z, F, n, WordsOf(block, filled), k), refused' = 0
    PROVE  HoldsNext(Others(o), Z)
<1>1. Owned(block, filled, S, Z, F)
  BY DEF Holds
<1>2. PICK b, i : b = k.block /\ i = k.heap
  OBVIOUS
<1>3. PICK T, Y, G, Q : /\ Good(i, added, T, Y, G, Q, WordsOf(block, filled))
                        /\ Gives(S, Z, F, b, n, T, Y, G)
  BY <1>2 DEF Serves
<1>4. b # Null
  BY <1>2 DEF Serves
<1>5. /\ heap' = Fill(i, b, n) /\ Updated(block, o, b, block')
      /\ Updated(filled, o, n, filled') /\ added' = added
  BY <1>2, <1>4 DEF Serve, Updated
<1>6. b \in T \ G /\ Y[b] >= n
  BY <1>3 DEF Gives
<1>7. b \in Nat
  <2>1. T \subseteq 1..Top
    BY <1>3 DEF Good, Rep, Tiles
  <2> QED  BY <1>6, <2>1
<1>8. Good(heap', added, T, Y, G, Q, WordsOf(block, filled) \cup Words(b, n))
  BY <1>3, <1>5, <1>6, FillHeap
<1>9. /\ Owned(block', filled', T, Y, G) /\ Stays(Others(o), block, Z, block', Y)
      /\ WordsOf(block', filled') = Join(WordsOf(block, filled), b, n)
  <2>1. /\ Updated(block, o, b, block') /\ Updated(filled, o, n, filled')
        /\ Gives(S, Z, F, b, n, T, Y, G)
    BY <1>3, <1>5
  <2> QED  BY <1>1, <1>4, <1>7, <2>1, OwnedGives
<1>10. Refused(Y, G, refused')
  BY RefusedNone
<1> QED  BY <1>5, <1>8, <1>9, <1>10 DEF HoldsNext, Holds, Join

\* A call that is not.
LEMMA UnservedStep ==
    ASSUME NEW S, NEW Z, NEW F, NEW R, Holds(heap, added, block, filled, refused, S, Z, F, R),
           NEW o \in Owner, block[o] = Null, NEW n, NEW k,
           Serve(o, n, k), k.block = Null, k.heap = heap, Refused(Z, F, refused')
    PROVE  HoldsNext(Others(o), Z)
<1>1. /\ Good(heap, added, S, Z, F, R, WordsOf(block, filled)) /\ Owned(block, filled, S, Z, F)
  BY DEF Holds
<1>2. /\ heap' = heap /\ Updated(block, o, Null, block')
      /\ Updated(filled, o, 0, filled') /\ added' = added
  BY DEF Serve, Updated
<1>3. /\ Owned(block', filled', S, Z, F) /\ WordsOf(block', filled') = WordsOf(block, filled)
      /\ Stays(Owner, block, Z, block', Z)
  BY <1>1, <1>2, OwnedNothing
<1>4. Stays(Others(o), block, Z, block', Z)
  BY <1>3 DEF Stays, Others
<1> QED  BY <1>1, <1>2, <1>3, <1>4 DEF HoldsNext, Holds

\* tlsf_malloc.
LEMMA MallocStep ==
    ASSUME NEW S, NEW Z, NEW F, NEW R, Holds(heap, added, block, filled, refused, S, Z, F, R),
           NEW o \in Owner, NEW n \in Requests, Malloc(o, n)
    PROVE  HoldsNext(Others(o), Z)
<1>1. PICK k : k = tlsf_malloc(heap, n)
  OBVIOUS
<1>2. /\ block[o] = Null /\ Serve(o, n, k)
      /\ refused' = IF k.block = Null THEN adjust_request_size(n, 1) ELSE 0
  BY <1>1 DEF Malloc
<1>3. Good(heap, added, S, Z, F, R, WordsOf(block, filled))
  BY DEF Holds
<1>4. PICK x : x = adjust_request_size(n, 1)
  OBVIOUS
<1>5. n \in Nat /\ x \in Nat /\ (n = 0 => x = 0)
  BY <1>4, Adjust
<1>6. CASE /\ k.block = Null /\ k.heap = heap
           /\ n # 0 => NoneAsLarge(Z, F, RoundUp(adjust_request_size(n, 1)))
  <2>1. Refused(Z, F, refused')
    BY <1>2, <1>4, <1>5, <1>6 DEF Refused
  <2> QED  BY <1>2, <1>6, <2>1, UnservedStep
<1>7. CASE Serves(added, S, Z, F, n, WordsOf(block, filled), k)
  <2>1. refused' = 0
    BY <1>2, <1>7 DEF Serves
  <2> QED  BY <1>2, <1>5, <1>7, <2>1, ServedStep
<1> QED  BY <1>1, <1>3, <1>6, <1>7, MallocHeap

\* tlsf_memalign.
LEMMA MemalignStep ==
    ASSUME NEW S, NEW Z, NEW F, NEW R, Holds(heap, added, block, filled, refused, S, Z, F, R),
           NEW o \in Owner, NEW n \in Requests, NEW align \in Aligns, Memalign(o, align, n)
    PROVE  HoldsNext(Others(o), Z)
<1>1. PICK k : k = tlsf_memalign(heap, align, n)
  OBVIOUS
<1>2. block[o] = Null /\ n > 0 /\ Serve(o, n, k) /\ refused' = 0
  BY <1>1 DEF Memalign
<1>3. Good(heap, added, S, Z, F, R, WordsOf(block, filled))
  BY DEF Holds
<1>4. n \in Nat /\ n # 0
  BY <1>2, Adjust
<1>5. CASE k.block = Null /\ k.heap = heap
  <2>1. Refused(Z, F, refused')
    BY <1>2, RefusedNone
  <2> QED  BY <1>2, <1>5, <2>1, UnservedStep
<1>6. CASE Serves(added, S, Z, F, n, WordsOf(block, filled), k)
  BY <1>2, <1>4, <1>6, ServedStep
<1> QED  BY <1>1, <1>3, <1>4, <1>5, <1>6, MemalignHeap

\* tlsf_realloc.
LEMMA ReallocStep ==
    ASSUME NEW S, NEW Z, NEW F, NEW R, Holds(heap, added, block, filled, refused, S, Z, F, R),
           NEW o \in Owner, NEW n \in Requests, Realloc(o, n)
    PROVE  HoldsNext(Others(o), Z)
<1>1. PICK k, b, m : k = tlsf_realloc(heap, b, n) /\ b = block[o] /\ m = filled[o]
  OBVIOUS
<1>2. /\ b # Null /\ n > 0 /\ heap' = k.heap /\ added' = added
      /\ IF k.block = Null
         THEN refused' = adjust_request_size(n, 1) /\ block' = block /\ filled' = filled
         ELSE /\ refused' = 0 /\ block' = [block EXCEPT ![o] = k.block]
              /\ filled' = [filled EXCEPT ![o] = Min({m, n})]
  BY <1>1 DEF Realloc
<1>3. /\ Good(heap, added, S, Z, F, R, WordsOf(block, filled)) /\ Owned(block, filled, S, Z, F)
      /\ Tiles(added, S, Z)
  BY DEF Holds, Good, Rep
<1>4. n \in Nat /\ n # 0 /\ adjust_request_size(n, 1) \in Nat
  BY <1>2, Adjust
<1>5. b \in S \ F /\ b \in Nat /\ m \in Nat /\ m <= Z[b]
  BY <1>1, <1>2, <1>3, OwnedBlock
<1>6. PICK V : V = OtherWords(block, filled, o)
  OBVIOUS
<1>7. Elsewhere(V, S, Z, F, b) /\ WordsOf(block, filled) = V \cup Words(b, m)
  BY <1>1, <1>2, <1>3, <1>6, OthersElsewhere
<1>8. PICK l : l = Min({m, n})
  OBVIOUS
<1>9. l \in Nat /\ l <= m /\ l <= n
  BY <1>4, <1>5, <1>8, MinOfTwo
<1>10. Z[b] >= m
  <2>1. PICK z \in Nat : z = Z[b]
    BY <1>3, <1>5 DEF Tiles, Sizes
  <2> QED  BY <1>5, <2>1
<1>11. Good(heap, added, S, Z, F, R, V \cup Words(b, m))
  BY <1>3, <1>7
<1>12. \/ /\ k.block = Null /\ k.heap = heap
          /\ NoneAsLarge(Z, F, RoundUp(adjust_request_size(n, 1)))
       \/ Reallocates(added, S, Z, F, V, b, n, l, k)
  BY <1>1, <1>4, <1>5, <1>7, <1>9, <1>10, <1>11, ReallocHeap
<1>13. CASE /\ k.block = Null /\ k.heap = heap
            /\ NoneAsLarge(Z, F, RoundUp(adjust_request_size(n, 1)))
  <2>1. heap' = heap /\ block' = block /\ filled' = filled /\ refused' = adjust_request_size(n, 1)
    BY <1>2, <1>13
  <2>2. Refused(Z, F, refused')
    BY <1>4, <1>13, <2>1 DEF Refused
  <2>3. Stays(Others(o), block, Z, block', Z)
    BY <2>1 DEF Stays, Others
  <2> QED  BY <1>2, <1>3, <2>1, <2>2, <2>3 DEF HoldsNext, Holds
<1>14. CASE Reallocates(added, S, Z, F, V, b, n, l, k)
  <2>1. PICK c, i : c = k.block /\ i = k.heap
    OBVIOUS
  <2>2. PICK T, Y, G, Q : /\ Good(i, added, T, Y, G, Q, V \cup Words(c, l))
                          /\ Becomes(S, Z, F, b, c, n, T, Y, G)
    BY <1>14, <2>1 DEF Reallocates
  <2>3. c # Null
    BY <1>14, <2>1 DEF Reallocates
  <2>4. /\ heap' = i /\ Updated(block, o, c, block')
        /\ Updated(filled, o, l, filled') /\ refused' = 0
    BY <1>2, <1>8, <2>1, <2>3 DEF Updated
  <2>5. Tiles(added, T, Y)
    BY <2>2 DEF Good, Rep
  <2>6. c \in Nat
    <3>1. c \in T
      BY <2>2 DEF Becomes
    <3> QED  BY <2>5, <3>1 DEF Tiles
  <2>7. /\ Owned(block', filled', T, Y, G) /\ Stays(Others(o), block, Z, block', Y)
        /\ WordsOf(block', filled') = V \cup Words(c, l)
    <3>1. /\ Owned(block, filled, S, Z, F) /\ block[o] # Null
          /\ Updated(block, o, c, block') /\ Updated(filled, o, l, filled')
          /\ Becomes(S, Z, F, block[o], c, n, T, Y, G)
      BY <1>1, <1>2, <1>3, <2>2, <2>4
    <3>2. n \in Nat /\ l \in Nat /\ l <= n
      BY <1>4, <1>9
    <3>3. /\ Owned(block', filled', T, Y, G) /\ Stays(Others(o), block, Z, block', Y)
          /\ WordsOf(block', filled') = Join(OtherWords(block, filled, o), c, l)
      BY <2>3, <2>5, <2>6, <3>1, <3>2, OwnedBecomes
    <3> QED  BY <1>6, <3>3 DEF Join
  <2>8. Refused(Y, G, refused')
    BY <2>4, RefusedNone
  <2> QED  BY <1>2, <2>2, <2>4, <2>7, <2>8 DEF HoldsNext, Holds
<1> QED  BY <1>12, <1>13, <1>14

\* Every step leads to such a heap, and changes the block of one owner at most.
LEMMA StepHolds ==
    ASSUME NEW S, NEW Z, NEW F, NEW R, Holds(heap, added, block, filled, refused, S, Z, F, R),
           [Next]_vars
    PROVE  HoldsNext(Owner, Z) \/ \E o \in Owner : HoldsNext(Others(o), Z)
<1>1. CASE \E p \in Pool : AddPool(p) \/ RemovePool(p)
  BY <1>1, AddPoolStep, RemovePoolStep
<1>2. CASE \E o \in Owner, n \in Requests : Malloc(o, n) \/ Realloc(o, n)
  BY <1>2, MallocStep, ReallocStep
<1>3. CASE \E o \in Owner, n \in Requests, align \in Aligns : Memalign(o, align, n)
  BY <1>3, MemalignStep
<1>4. CASE \E o \in Owner : Free(o)
  BY <1>4, FreeStep
<1>5. CASE UNCHANGED vars
  <2>1. /\ heap' = heap /\ added' = added /\ block' = block /\ filled' = filled
        /\ refused' = refused
    BY <1>5 DEF vars
  <2>2. Stays(Owner, block, Z, block', Z)
    BY <2>1 DEF Stays
  <2> QED  BY <2>1, <2>2 DEF HoldsNext
<1> QED  BY <1>1, <1>2, <1>3, <1>4, <1>5 DEF Next

\* So the invariant is inductive.
LEMMA NextHolds == TlsfInv /\ [Next]_vars => TlsfInv'
<1>1. SUFFICES ASSUME TlsfInv, [Next]_vars PROVE TlsfInv'
  OBVIOUS
<1>2. PICK S, Z, F, R : Holds(heap, added, block, filled, refused, S, Z, F, R)
  BY <1>1 DEF TlsfInv
<1>3. HoldsNext(Owner, Z) \/ \E o \in Owner : HoldsNext(Others(o), Z)
  BY <1>1, <1>2, StepHolds
<1> QED  BY <1>3 DEF HoldsNext, TlsfInv

\* After every call the pools are tiled by blocks whose tags, links and lists agree,
\* the blocks in use are those the callers hold, and what they wrote is in them.
THEOREM TlsfInvariant == Spec => []TlsfInv
<1>1. Init => TlsfInv
  BY InitHolds
<1> QED  BY <1>1, NextHolds, PTL DEF Spec

-----------------------------------------------------------------------------
(* What the invariant says of the blocks that callers hold. *)

\* The size word of a block says what Z does.
LEMMA HeldBlock ==
    ASSUME NEW h, NEW A, NEW bl, NEW fi, NEW r, NEW S, NEW Z, NEW F, NEW R,
           Holds(h, A, bl, fi, r, S, Z, F, R), NEW o \in Owner, bl[o] # Null
    PROVE  /\ bl[o] \in S \ F /\ bl[o] \in Nat /\ fi[o] \in Nat /\ fi[o] <= Z[bl[o]]
           /\ block_size(h, bl[o]) = Z[bl[o]]
<1>1. Owned(bl, fi, S, Z, F) /\ Tags(h, A, S, Z, F, F, F)
  BY DEF Holds, Good, Rep
<1>2. bl[o] \in S \ F /\ bl[o] \in Nat /\ fi[o] \in Nat /\ fi[o] <= Z[bl[o]]
  BY <1>1, OwnedBlock
<1>3. block_size(h, bl[o]) = Z[bl[o]]
  BY <1>1, <1>2 DEF Tags, Nodes
<1> QED  BY <1>2, <1>3

\* The words that have been written are within the blocks, and what they were.
LEMMA ContentsHold == TlsfInv => ContentsKept
<1>1. SUFFICES ASSUME TlsfInv, NEW o \in Owner, block[o] # Null
      PROVE  /\ filled[o] <= block_size(heap, block[o])
             /\ \A a \in block[o] + 2..block[o] + 1 + filled[o] : heap.mem[a] = Data
  BY DEF ContentsKept
<1>2. PICK S, Z, F, R : Holds(heap, added, block, filled, refused, S, Z, F, R)
  BY <1>1 DEF TlsfInv
<1>3. filled[o] <= block_size(heap, block[o])
  BY <1>1, <1>2, HeldBlock
<1>4. \A a \in Words(block[o], filled[o]) : a \in WordsOf(block, filled)
  BY <1>1 DEF WordsOf
<1>5. \A a \in WordsOf(block, filled) : heap.mem[a] = Data
  BY <1>2 DEF Holds, Good, Rep, Kept
<1> QED  BY <1>3, <1>4, <1>5 DEF Words

\* What an owner has written is there until it gives the block back, whatever
\* is divided, merged and moved around it.
THEOREM ContentsAreKept == Spec => []ContentsKept
  BY TlsfInvariant, ContentsHold, PTL

-----------------------------------------------------------------------------
(* The calls implement the abstract allocator. *)

RegionOf(h, bl, o) == IF bl[o] = Null THEN {} ELSE bl[o] + 2..bl[o] + 1 + block_size(h, bl[o])

\* A region is the words of a block.
LEMMA RegionIsPayload ==
    ASSUME NEW h, NEW A, NEW bl, NEW fi, NEW r, NEW S, NEW Z, NEW F, NEW R,
           Holds(h, A, bl, fi, r, S, Z, F, R), NEW o \in Owner, bl[o] # Null
    PROVE  RegionOf(h, bl, o) = Payload(Z, bl[o]) /\ RegionOf(h, bl, o) \subseteq 1..Top
<1>1. Tiles(A, S, Z)
  BY DEF Holds, Good, Rep
<1>2. PICK b : b = bl[o]
  OBVIOUS
<1>3. b \in S /\ b \in Nat /\ block_size(h, b) = Z[b]
  BY <1>2, HeldBlock
<1>4. PICK z \in Nat : z = Z[b]
  BY <1>1, <1>3 DEF Tiles, Sizes
<1>5. After(Z, b) = b + 1 + z
  BY <1>4 DEF After
<1>6. b + 1 + z \in 1..Top
  <2>1. After(Z, b) \in 1..Top
    BY <1>1, <1>3, TileWords
  <2> QED  BY <1>5, <2>1
<1>7. RegionOf(h, bl, o) = b + 2..b + 1 + z
  BY <1>2, <1>3, <1>4 DEF RegionOf
<1>8. Payload(Z, b) = b + 2..b + 1 + z
  BY <1>5 DEF Payload
<1>9. b + 2..b + 1 + z \subseteq 1..Top
  BY <1>3, <1>6, HeapAssumption
<1> QED  BY <1>2, <1>7, <1>8, <1>9

\* No two owners share a word.
LEMMA RegionsApart ==
    ASSUME NEW h, NEW A, NEW bl, NEW fi, NEW r, NEW S, NEW Z, NEW F, NEW R,
           Holds(h, A, bl, fi, r, S, Z, F, R), NEW o \in Owner, NEW p \in Owner, o # p
    PROVE  RegionOf(h, bl, o) \cap RegionOf(h, bl, p) = {}
<1>1. SUFFICES ASSUME bl[o] # Null, bl[p] # Null PROVE RegionOf(h, bl, o) \cap RegionOf(h, bl, p) = {}
  BY DEF RegionOf
<1>2. Tiles(A, S, Z) /\ Owned(bl, fi, S, Z, F)
  BY DEF Holds, Good, Rep
<1>3. bl[o] \in S /\ bl[p] \in S /\ bl[o] # bl[p]
  BY <1>1, <1>2, OwnedBlock DEF Owned
<1>4. RegionOf(h, bl, o) = Payload(Z, bl[o]) /\ RegionOf(h, bl, p) = Payload(Z, bl[p])
  BY <1>1, RegionIsPayload
<1>5. \A a \in Payload(Z, bl[o]) : a \notin Payload(Z, bl[p])
  BY <1>2, <1>3, PayloadApart
<1> QED  BY <1>4, <1>5

\* The others keep their regions.
LEMMA RegionStays ==
    ASSUME NEW S, NEW Z, NEW F, NEW R, Holds(heap, added, block, filled, refused, S, Z, F, R),
           NEW T, NEW Y, NEW G, NEW Q, Holds(heap', added', block', filled', refused', T, Y, G, Q),
           NEW E \in SUBSET Owner, Stays(E, block, Z, block', Y), NEW o \in E
    PROVE  RegionOf(heap', block', o) = RegionOf(heap, block, o)
<1>1. o \in Owner /\ block'[o] = block[o] /\ (block[o] # Null => Y[block[o]] = Z[block[o]])
  BY DEF Stays
<1>2. CASE block[o] = Null
  BY <1>1, <1>2 DEF RegionOf
<1>3. CASE block[o] # Null
  <2>1. RegionOf(heap, block, o) = Payload(Z, block[o])
    BY <1>1, <1>3, RegionIsPayload
  <2>2. RegionOf(heap', block', o) = Payload(Y, block'[o])
    BY <1>1, <1>3, RegionIsPayload
  <2> QED  BY <1>1, <1>3, <2>1, <2>2 DEF Payload, After
<1> QED  BY <1>2, <1>3

\* Regions are those of the heap now, and after the step.
LEMMA RegionNow ==
    \A o \in Owner : Region(o) = RegionOf(heap, block, o) /\ Region(o)' = RegionOf(heap', block', o)
  BY DEF Region, RegionOf, block_size

\* No caller has a region at first.
LEMMA InitAllocator == Init => Abstract!Init
  BY DEF Init, Abstract!Init, Region

\* Every step is a call on behalf of one owner, or changes no region.
LEMMA NextAllocator ==
    TlsfInv /\ [Next]_vars => [Abstract!Next]_[o \in Owner |-> Region(o)]
<1>1. SUFFICES ASSUME TlsfInv, [Next]_vars PROVE [Abstract!Next]_[o \in Owner |-> Region(o)]
  OBVIOUS
<1>2. PICK S, Z, F, R : Holds(heap, added, block, filled, refused, S, Z, F, R)
  BY <1>1 DEF TlsfInv
<1>3. CASE HoldsNext(Owner, Z)
  <2>1. PICK T, Y, G, Q : /\ Holds(heap', added', block', filled', refused', T, Y, G, Q)
                          /\ Stays(Owner, block, Z, block', Y)
    BY <1>3 DEF HoldsNext
  <2>2. \A o \in Owner : RegionOf(heap', block', o) = RegionOf(heap, block, o)
    BY <1>2, <2>1, RegionStays
  <2>3. [o \in Owner |-> Region(o)]' = [o \in Owner |-> Region(o)]
    BY <2>2, RegionNow
  <2> QED  BY <2>3
<1>4. ASSUME NEW o \in Owner, HoldsNext(Others(o), Z) PROVE Abstract!Call(o)
  <2>1. PICK T, Y, G, Q : /\ Holds(heap', added', block', filled', refused', T, Y, G, Q)
                          /\ Stays(Others(o), block, Z, block', Y)
    BY <1>4 DEF HoldsNext
  <2>2. \A p \in Others(o) : RegionOf(heap', block', p) = RegionOf(heap, block, p)
    <3>1. Others(o) \subseteq Owner
      BY DEF Others
    <3> QED  BY <1>2, <2>1, <3>1, RegionStays
  <2>3. \A p \in Owner : RegionOf(heap', block', p) \subseteq 1..Top
    <3>1. TAKE p \in Owner
    <3>2. CASE block'[p] = Null
      BY <3>2 DEF RegionOf
    <3>3. CASE block'[p] # Null
      BY <2>1, <3>3, RegionIsPayload
    <3> QED  BY <3>2, <3>3
  <2>4. \A p \in Others(o) : RegionOf(heap', block', o) \cap RegionOf(heap', block', p) = {}
    BY <2>1, RegionsApart DEF Others
  <2>5. [p \in Owner |-> Region(p)]' \in [Owner -> SUBSET (1..Top)]
    BY <2>3, RegionNow
  <2>6. \A p \in Owner \ {o} : Region(p)' = Region(p)
    BY <2>2, RegionNow DEF Others
  <2>7. \A p \in Owner \ {o} : Region(o)' \cap Region(p) = {}
    BY <2>2, <2>4, RegionNow DEF Others
  <2>8. Region(o)' \cap UNION {Region(p) : p \in Owner \ {o}} = {}
    BY <2>7
  <2> QED  BY <2>5, <2>6, <2>8 DEF Abstract!Call, Abstract!HeldByOthers
<1> QED  BY <1>1, <1>2, <1>3, <1>4, StepHolds DEF Abstract!Next

\* Whatever the calls do to the lists and the tags, a caller sees a region of
\* its own that only its own calls change.
THEOREM AllocatorImplemented == Spec => ImplementsAllocator
  BY InitAllocator, NextAllocator, TlsfInvariant, PTL DEF Spec, ImplementsAllocator, Abstract!Spec

-----------------------------------------------------------------------------
(* The walk through a pool. *)

\* Where the walk goes from b.
WalkOn(h, b) == IF b \notin 1..Top - 1 \/ block_size(h, b) <= 0 THEN b ELSE block_next(h, b)

\* at begins with the first block of a pool, and goes on from block to block.
Walks(at, h, p) ==
    /\ DOMAIN at = 0..PoolWords[p] /\ at[0] = First(p)
    /\ \A i \in 1..PoolWords[p] : at[i] = WalkOn(h, at[i - 1])

\* It goes to an address.
LEMMA WalkOnType ==
    ASSUME NEW h \in HeapType, NEW b \in Int
    PROVE  WalkOn(h, b) \in Int
<1>1. CASE b \notin 1..Top - 1 \/ block_size(h, b) <= 0
  BY <1>1 DEF WalkOn
<1>2. CASE b \in 1..Top - 1 /\ ~(block_size(h, b) <= 0)
  <2>1. b + 1 \in 1..Top
    BY <1>2, HeapAssumption
  <2>2. h.mem[b + 1] \in Int
    BY <2>1 DEF HeapType
  <2>3. block_size(h, b) \in Int
    BY <2>2 DEF block_size
  <2> QED  BY <1>2, <2>3 DEF WalkOn, block_next, Overhead
<1> QED  BY <1>1, <1>2

\* The next step of a walk, or of a list, whatever it is called.
Follows(f, n, b, g) == f = [i \in 0..n |-> IF i = 0 THEN b ELSE g[f[i - 1]]]

\* There is such a function.
LEMMA FollowsExists ==
    ASSUME NEW S, NEW b \in S, NEW g \in [S -> S], NEW n \in Nat
    PROVE  \E f \in [0..n -> S] : Follows(f, n, b, g)
<1>1. PICK f \in [0..n -> S] : Recurs(f, n, b, g)
  BY RecursionUpTo
<1>2. ASSUME NEW i \in 0..n PROVE f[i] = IF i = 0 THEN b ELSE g[f[i - 1]]
  <2>1. i # 0 => i \in 1..n
    OBVIOUS
  <2> QED  BY <1>1, <2>1 DEF Recurs
<1> QED  BY <1>2 DEF Follows

\* tlsf_walk_pool is such a walk.
LEMMA WalkIs ==
    ASSUME heap \in HeapType, NEW p \in Usable
    PROVE  Walks(Walk(p), heap, p)
<1> DEFINE IsWalk(at) == at = [i \in 0..PoolWords[p] |-> IF i = 0 THEN First(p)
                                                       ELSE WalkOn(heap, at[i - 1])]
<1>1. PICK g : g = [b \in Int |-> WalkOn(heap, b)]
  OBVIOUS
<1>2. g \in [Int -> Int]
  BY <1>1, WalkOnType
<1>3. PoolWords[p] \in Nat /\ First(p) \in Int
  BY Places
<1>4. PICK f \in [0..PoolWords[p] -> Int] : Follows(f, PoolWords[p], First(p), g)
  BY <1>2, <1>3, FollowsExists
<1>5. IsWalk(f)
  <2>1. \A i \in 0..PoolWords[p] : i # 0 => i - 1 \in 0..PoolWords[p]
    BY <1>3
  <2>2. \A i \in 0..PoolWords[p] : i # 0 => g[f[i - 1]] = WalkOn(heap, f[i - 1])
    BY <1>1, <2>1
  <2> QED  BY <1>4, <2>2 DEF Follows
<1>6. Walk(p) = CHOOSE at : IsWalk(at)
  BY DEF Walk, WalkOn, First
<1>7. IsWalk(Walk(p))
  <2> HIDE DEF IsWalk
  <2> QED  BY <1>5, <1>6
<1>8. \A i \in 0..PoolWords[p] :
        Walk(p)[i] = IF i = 0 THEN First(p) ELSE WalkOn(heap, Walk(p)[i - 1])
  BY <1>7
<1>9. DOMAIN Walk(p) = 0..PoolWords[p]
  BY <1>7
<1>10. 0 \in 0..PoolWords[p] /\ \A i \in 1..PoolWords[p] : i \in 0..PoolWords[p] /\ i # 0
  BY <1>3
<1> QED  BY <1>8, <1>9, <1>10 DEF Walks

\* The blocks of a pool.
PoolBlocks(S, p) == {b \in S : First(p) <= b /\ b < Sentinel(p)}

\* Sizes in the heap are those of Z.
Sized(h, A, S, Z) == \A c \in Nodes(A, S) : block_size(h, c) = Z[c]

\* From a block the walk goes to the one behind, and at the sentinel it stays.
LEMMA WalkOnBlock ==
    ASSUME NEW h, NEW A, NEW S, NEW Z, Tiles(A, S, Z), Sized(h, A, S, Z), NEW p \in A
    PROVE  /\ WalkOn(h, Sentinel(p)) = Sentinel(p)
           /\ \A b \in S : WalkOn(h, b) = After(Z, b)
<1>1. WalkOn(h, Sentinel(p)) = Sentinel(p)
  <2>1. Sentinel(p) \in Nodes(A, S) /\ Z[Sentinel(p)] = 0
    BY DEF Nodes, Ends, Tiles
  <2>2. block_size(h, Sentinel(p)) = 0
    BY <2>1 DEF Sized
  <2> QED  BY <2>2 DEF WalkOn
<1>2. ASSUME NEW b \in S PROVE WalkOn(h, b) = After(Z, b)
  <2>1. b \in Nodes(A, S) /\ b \in Nat /\ b >= 3 /\ b + 1 \in 1..Top /\ Top \in Nat
    BY TileWords
  <2>2. PICK z \in Nat : z = Z[b] /\ z >= 3
    BY TileWords
  <2>3. block_size(h, b) = z
    BY <2>1, <2>2 DEF Sized
  <2>4. b \in 1..Top - 1
    BY <2>1
  <2>5. WalkOn(h, b) = b + 2 + (z - 1)
    BY <2>2, <2>3, <2>4 DEF WalkOn, block_next, Overhead
  <2> QED  BY <2>1, <2>2, <2>5 DEF After
<1> QED  BY <1>1, <1>2

\* A block lies in one pool, and what is between its ends and no block ends it.
LEMMA PoolNodes ==
    ASSUME NEW A, NEW S, NEW Z, Tiles(A, S, Z), NEW p \in A
    PROVE  /\ \A c \in Nodes(A, S) : First(p) <= c /\ c <= Sentinel(p) =>
                c = Sentinel(p) \/ c \in PoolBlocks(S, p)
           /\ \A b \in PoolBlocks(S, p) : /\ After(Z, b) \in Nodes(A, S) /\ b < After(Z, b)
                                          /\ After(Z, b) <= Sentinel(p)
           /\ \A b \in S : After(Z, b) \in PoolBlocks(S, p) => b \in PoolBlocks(S, p)
           /\ First(p) \in PoolBlocks(S, p) /\ Sentinel(p) \notin S
<1>1. p \in Usable /\ First(p) \in S /\ Sentinel(p) \in Nodes(A, S) /\ Sentinel(p) \notin S
  <2>1. p \in Usable /\ First(p) \in S
    BY DEF Tiles
  <2>2. Sentinel(p) \in Ends(A)
    BY DEF Ends
  <2>3. Sentinel(p) \in Nodes(A, S)
    BY <2>2 DEF Nodes
  <2>4. Sentinel(p) \notin S
    BY <2>2, Spaced
  <2> QED  BY <2>1, <2>3, <2>4
<1>2. /\ First(p) \in Nat /\ Sentinel(p) \in Nat /\ First(p) + 4 <= Sentinel(p)
  BY <1>1, Places
<1>3. First(p) \in PoolBlocks(S, p)
  BY <1>1, <1>2 DEF PoolBlocks
<1>4. ASSUME NEW q \in A, q # p
      PROVE  /\ Sentinel(p) < First(q) \/ Sentinel(q) < First(p)
             /\ First(q) \in Nat /\ Sentinel(q) \in Nat /\ First(q) + 4 <= Sentinel(q)
  <2>1. q \in Usable
    BY DEF Tiles
  <2> QED  BY <1>1, <1>4, <2>1, PoolsApart, Places
<1>5. ASSUME NEW c \in Nodes(A, S), First(p) <= c, c <= Sentinel(p), c # Sentinel(p)
      PROVE  c \in PoolBlocks(S, p)
  <2>1. c \in S
    <3>1. SUFFICES ASSUME c \notin S PROVE FALSE
      OBVIOUS
    <3>2. PICK q \in A : c = Sentinel(q)
      BY <3>1 DEF Nodes, Ends
    <3>3. q # p
      BY <1>5, <3>2
    <3> QED  BY <1>2, <1>4, <1>5, <3>2, <3>3
  <2>2. c \in Nat
    BY TileWords
  <2>3. c < Sentinel(p)
    BY <1>2, <1>5, <2>2
  <2> QED  BY <1>5, <2>1, <2>3 DEF PoolBlocks
<1>6. ASSUME NEW b \in PoolBlocks(S, p)
      PROVE  /\ After(Z, b) \in Nodes(A, S) /\ b < After(Z, b) /\ After(Z, b) <= Sentinel(p)
  <2>1. b \in S /\ b < Sentinel(p)
    BY DEF PoolBlocks
  <2>2. After(Z, b) <= Sentinel(p) /\ After(Z, b) \in Nodes(A, S)
    BY <1>1, <2>1, Spaced, TileWords
  <2>3. b \in Nat /\ After(Z, b) \in Nat /\ b + 4 <= After(Z, b)
    BY <2>1, TileWords
  <2> QED  BY <2>2, <2>3
<1>7. ASSUME NEW b \in S, After(Z, b) \in PoolBlocks(S, p)
      PROVE  b \in PoolBlocks(S, p)
  <2>1. PICK d : d = After(Z, b)
    OBVIOUS
  <2>2. d \in S /\ First(p) <= d /\ d < Sentinel(p)
    BY <1>7, <2>1 DEF PoolBlocks
  <2>3. b \in Nat /\ d \in Nat /\ b + 4 <= d
    BY <2>1, <2>2, TileWords
  <2>4. PICK q \in A : First(q) <= b /\ b < Sentinel(q)
    BY DEF Tiles
  <2>5. d <= Sentinel(q)
    <3>1. Sentinel(q) \in Nodes(A, S)
      BY DEF Nodes, Ends
    <3> QED  BY <2>1, <2>4, <3>1, Spaced
  <2>6. q = p
    <3>1. SUFFICES ASSUME q # p PROVE FALSE
      OBVIOUS
    <3>2. First(q) \in Nat /\ Sentinel(q) \in Nat /\ (Sentinel(p) < First(q) \/ Sentinel(q) < First(p))
      BY <1>4, <3>1
    <3> QED  BY <1>2, <2>2, <2>3, <2>4, <2>5, <3>2
  <2>7. First(p) <= b /\ b < Sentinel(p)
    BY <2>4, <2>6
  <2> QED  BY <2>7 DEF PoolBlocks
<1> QED  BY <1>1, <1>3, <1>5, <1>6, <1>7

\* The walk visits the blocks of the pool in order, and stops at its sentinel.
LEMMA WalkVisits ==
    ASSUME NEW h, NEW A, NEW S, NEW Z, Tiles(A, S, Z), Sized(h, A, S, Z), NEW p \in A,
           NEW at, Walks(at, h, p)
    PROVE  /\ at[PoolWords[p]] = Sentinel(p) /\ at[0] = First(p)
           /\ {at[i] : i \in DOMAIN at} = PoolBlocks(S, p) \cup {Sentinel(p)}
           /\ \A i \in 1..PoolWords[p] :
                at[i] # at[i - 1] => at[i - 1] \in S /\ at[i] = After(Z, at[i - 1])
<1>1. PICK n, f, e : n = PoolWords[p] /\ f = First(p) /\ e = Sentinel(p)
  OBVIOUS
<1>2. /\ n \in Nat /\ f \in Nat /\ e \in Nat /\ e = f + n - 1 /\ f + 4 <= e
      /\ e \in Nodes(A, S) /\ e \notin S
  <2>1. p \in Usable
    BY DEF Tiles
  <2>2. /\ n \in Nat /\ f \in Nat /\ e \in Nat /\ e = f + n - 1 /\ f + 4 <= e
    BY <1>1, <2>1, Places
  <2>3. e \in Nodes(A, S)
    BY <1>1 DEF Nodes, Ends
  <2>4. e \notin S
    BY <1>1, PoolNodes
  <2> QED  BY <2>2, <2>3, <2>4
<1>3. /\ DOMAIN at = 0..n /\ at[0] = f /\ \A i \in 1..n : at[i] = WalkOn(h, at[i - 1])
  BY <1>1 DEF Walks
<1>4. PICK P : P = PoolBlocks(S, p)
  OBVIOUS
<1>5. /\ f \in P /\ P \subseteq S /\ \A b \in P : b \in Nat /\ b < e
      /\ \A b \in P : After(Z, b) \in Nat /\ b < After(Z, b)
      /\ \A b \in P : After(Z, b) = e \/ After(Z, b) \in P
  <2>1. f \in P /\ P \subseteq S
    BY <1>1, <1>4, PoolNodes DEF PoolBlocks
  <2>2. ASSUME NEW b \in P PROVE b \in Nat /\ b < e /\ f <= b
    <3>1. b \in S /\ f <= b /\ b < e
      BY <1>1, <1>4 DEF PoolBlocks
    <3> QED  BY <3>1, TileWords
  <2>3. ASSUME NEW b \in P
        PROVE  /\ After(Z, b) \in Nat /\ b < After(Z, b)
               /\ After(Z, b) = e \/ After(Z, b) \in P
    <3>1. PICK d : d = After(Z, b)
      OBVIOUS
    <3>2. d \in Nodes(A, S) /\ b < d /\ d <= e
      BY <1>1, <1>4, <3>1, PoolNodes
    <3>3. d \in Nat
      BY <3>2, TileWords
    <3>4. f <= d
      BY <1>2, <2>2, <3>2, <3>3
    <3>5. d = e \/ d \in P
      BY <1>1, <1>4, <3>2, <3>4, PoolNodes
    <3> QED  BY <3>1, <3>2, <3>3, <3>5
  <2> QED  BY <2>1, <2>2, <2>3
<1>6. WalkOn(h, e) = e /\ \A b \in P : WalkOn(h, b) = After(Z, b)
  BY <1>1, <1>5, WalkOnBlock
<1>7. \A i \in 0..n : at[i] = e \/ (at[i] \in P /\ at[i] >= f + i)
  <2> DEFINE T == {i \in 0..n : at[i] = e \/ (at[i] \in P /\ at[i] >= f + i)}
  <2>1. 0 \in T
    BY <1>2, <1>3, <1>5
  <2>2. ASSUME NEW k \in 1..n, k - 1 \in T PROVE k \in T
    <3>1. PICK b, d : b = at[k - 1] /\ d = at[k]
      OBVIOUS
    <3>2. d = WalkOn(h, b) /\ (b = e \/ (b \in P /\ b >= f + (k - 1)))
      BY <1>3, <2>2, <3>1
    <3>0. k \in 0..n
      BY <1>2
    <3>3. CASE b = e
      BY <1>6, <3>0, <3>1, <3>2, <3>3
    <3>4. CASE b \in P /\ b >= f + (k - 1)
      <4>1. d = After(Z, b) /\ b \in Nat /\ d \in Nat /\ b < d /\ (d = e \/ d \in P)
        BY <1>5, <1>6, <3>2, <3>4
      <4>2. d >= f + k
        BY <1>2, <3>4, <4>1
      <4> QED  BY <3>0, <3>1, <4>1, <4>2
    <3> QED  BY <3>2, <3>3, <3>4
  <2> HIDE DEF T
  <2>3. \A i \in 0..n : i \in T
    BY <1>2, <2>1, <2>2, UpTo
  <2> QED  BY <2>3 DEF T
<1>8. at[n] = e
  <2>1. n \in 0..n
    BY <1>2
  <2>2. PICK b : b = at[n]
    OBVIOUS
  <2>3. b \in P => b \in Nat /\ b < e
    BY <1>5
  <2>4. b = e \/ (b \in P /\ b >= f + n)
    BY <1>7, <2>1, <2>2
  <2>5. b \in P /\ b >= f + n => FALSE
    BY <1>2, <2>3
  <2> QED  BY <2>2, <2>4, <2>5
<1>9. ASSUME NEW i \in 1..n, at[i] # at[i - 1]
      PROVE  at[i - 1] \in S /\ at[i] = After(Z, at[i - 1])
  <2>1. PICK b : b = at[i - 1]
    OBVIOUS
  <2>2. i - 1 \in 0..n /\ at[i] = WalkOn(h, b)
    BY <1>2, <1>3, <2>1
  <2>3. b # e
    BY <1>6, <1>9, <2>1, <2>2
  <2>4. b \in P
    BY <1>7, <2>1, <2>2, <2>3
  <2> QED  BY <1>5, <1>6, <2>1, <2>2, <2>4
<1>10. ASSUME NEW u \in P PROVE \E i \in 0..n : at[i] = u
  <2> DEFINE Lost == {b \in P : ~\E i \in 0..n : at[i] = b}
  <2>1. SUFFICES ASSUME Lost # {} PROVE FALSE
    BY DEF Lost
  <2>2. Lost \subseteq Nat
    BY <1>5
  <2>3. PICK b \in Lost : \A c \in Lost : b <= c
    <3> HIDE DEF Lost
    <3> QED  BY <2>1, <2>2, Least
  <2>4. b \in P /\ \A i \in 0..n : at[i] # b
    OBVIOUS
  <2>5. b # f
    BY <1>2, <1>3, <2>4
  <2>6. PICK c \in S : After(Z, c) = b
    <3>1. b \in Nodes(A, S)
      BY <1>5, <2>4 DEF Nodes
    <3>2. b \in Firsts(A) \/ \E c \in S : After(Z, c) = b
      BY <3>1 DEF Tiles
    <3>3. b \notin Firsts(A)
      <4>1. SUFFICES ASSUME NEW q \in A, b = First(q) PROVE FALSE
        BY DEF Firsts
      <4>2. q # p
        BY <1>1, <2>5, <4>1
      <4>3. p \in Usable /\ q \in Usable
        BY DEF Tiles
      <4>4. /\ First(q) \in Nat /\ Sentinel(q) \in Nat /\ First(q) + 4 <= Sentinel(q)
            /\ e < First(q) \/ Sentinel(q) < f
        BY <1>1, <4>2, <4>3, Places, PoolsApart
      <4>5. f <= b /\ b < e
        BY <1>1, <1>4, <2>4 DEF PoolBlocks
      <4> QED  BY <1>2, <4>1, <4>4, <4>5
    <3> QED  BY <3>2, <3>3
  <2>7. c \in P /\ c \in Nat /\ b \in Nat /\ c < b
    <3>1. c \in P
      BY <1>4, <2>4, <2>6, PoolNodes
    <3> QED  BY <1>5, <2>6, <3>1
  <2>8. c \notin Lost
    <3>1. b <= c => FALSE
      BY <2>7
    <3> HIDE DEF Lost
    <3> QED  BY <2>3, <3>1
  <2>9. PICK i \in 0..n : at[i] = c
    BY <2>7, <2>8
  <2>10. i # n
    BY <1>8, <1>2, <1>5, <2>7, <2>9
  <2>11. i + 1 \in 1..n /\ i + 1 \in 0..n /\ (i + 1) - 1 = i
    BY <1>2, <2>10
  <2>12. at[i + 1] = WalkOn(h, c)
    BY <1>3, <2>9, <2>11
  <2> QED  BY <1>6, <2>4, <2>6, <2>7, <2>11, <2>12
<1>11. {at[i] : i \in DOMAIN at} = P \cup {e}
  <2>1. n \in 0..n
    BY <1>2
  <2>2. \A i \in 0..n : at[i] \in P \cup {e}
    BY <1>7
  <2>3. \A u \in P \cup {e} : \E i \in 0..n : at[i] = u
    BY <1>8, <1>10, <2>1
  <2> QED  BY <1>3, <2>2, <2>3
<1> QED  BY <1>1, <1>3, <1>4, <1>8, <1>9, <1>11

\* What the invariant says of the tags of the blocks.
LEMMA HeldTags ==
    ASSUME NEW S, NEW Z, NEW F, NEW R, Holds(heap, added, block, filled, refused, S, Z, F, R)
    PROVE  /\ heap \in HeapType /\ Tiles(added, S, Z) /\ Sized(heap, added, S, Z)
           /\ Lists(heap, Z, F, R) /\ F \subseteq S
           /\ \A c \in Nodes(added, S) : block_is_free(heap, c) <=> c \in F
           /\ \A c \in Nodes(added, S) :
                block_is_prev_free(heap, c) <=> \E b \in F : After(Z, b) = c
           /\ \A b \in F : heap.mem[After(Z, b)] = b /\ After(Z, b) \notin F
           /\ {block[o] : o \in Owner} \ {Null} = S \ F
<1>1. Tags(heap, added, S, Z, F, F, F)
  BY DEF Holds, Good, Rep
<1>2. Sized(heap, added, S, Z)
  BY <1>1 DEF Tags, Sized
<1>3. /\ \A c \in Nodes(added, S) : block_is_free(heap, c) <=> c \in F
      /\ \A c \in Nodes(added, S) :
           block_is_prev_free(heap, c) <=> \E b \in F : After(Z, b) = c
      /\ \A b \in F : heap.mem[After(Z, b)] = b
  BY <1>1 DEF Tags
<1>4. /\ heap \in HeapType /\ Tiles(added, S, Z) /\ Lists(heap, Z, F, R) /\ F \subseteq S
  BY DEF Holds, Good, Rep
<1>5. \A b \in F : After(Z, b) \notin F
  BY DEF Holds, Good
<1>6. {block[o] : o \in Owner} \ {Null} = S \ F
  BY DEF Holds, Owned
<1> QED  BY <1>2, <1>3, <1>4, <1>5, <1>6

\* The walk through a pool in use, in any state.
LEMMA HeldWalk ==
    ASSUME NEW S, NEW Z, NEW F, NEW R, Holds(heap, added, block, filled, refused, S, Z, F, R),
           NEW p \in added
    PROVE  /\ Walk(p)[PoolWords[p]] = Sentinel(p) /\ Walk(p)[0] = First(p)
           /\ Visited(p) = PoolBlocks(S, p) \cup {Sentinel(p)}
           /\ \A i \in 1..PoolWords[p] : Walk(p)[i] # Walk(p)[i - 1] =>
                Walk(p)[i - 1] \in S /\ Walk(p)[i] = After(Z, Walk(p)[i - 1])
<1>1. Tiles(added, S, Z) /\ Sized(heap, added, S, Z) /\ heap \in HeapType
  BY HeldTags
<1>2. p \in Usable
  BY <1>1 DEF Tiles
<1>3. PICK at : at = Walk(p)
  OBVIOUS
<1>4. Walks(at, heap, p)
  BY <1>1, <1>2, <1>3, WalkIs
<1>5. /\ at[PoolWords[p]] = Sentinel(p) /\ at[0] = First(p)
      /\ {at[i] : i \in DOMAIN at} = PoolBlocks(S, p) \cup {Sentinel(p)}
      /\ \A i \in 1..PoolWords[p] :
           at[i] # at[i - 1] => at[i - 1] \in S /\ at[i] = After(Z, at[i - 1])
  BY <1>1, <1>4, WalkVisits
<1>6. Visited(p) = {at[i] : i \in DOMAIN at}
  BY <1>3 DEF Visited
<1> QED  BY <1>3, <1>5, <1>6

\* The blocks that a walk visits are those of the invariant.
LEMMA BlocksAre ==
    ASSUME NEW S, NEW Z, NEW F, NEW R, Holds(heap, added, block, filled, refused, S, Z, F, R)
    PROVE  Blocks = S
<1>1. Tiles(added, S, Z)
  BY HeldTags
<1>2. ASSUME NEW p \in added PROVE Visited(p) \ {Sentinel(p)} = PoolBlocks(S, p)
  <2>1. Sentinel(p) \notin PoolBlocks(S, p)
    BY <1>1, PoolNodes DEF PoolBlocks
  <2>2. Visited(p) = PoolBlocks(S, p) \cup {Sentinel(p)}
    BY <1>2, HeldWalk
  <2> QED  BY <2>1, <2>2
<1>3. ASSUME NEW b \in S PROVE \E p \in added : b \in PoolBlocks(S, p)
  BY <1>1 DEF Tiles, PoolBlocks
<1>4. \A p \in added : PoolBlocks(S, p) \subseteq S
  BY DEF PoolBlocks
<1> QED  BY <1>2, <1>3, <1>4 DEF Blocks

\* The flags at the next block, and the link to this one.
LEMMA WalkedTags ==
    ASSUME NEW S, NEW Z, NEW F, NEW R, Holds(heap, added, block, filled, refused, S, Z, F, R),
           NEW b \in S, NEW d, d = After(Z, b)
    PROVE  /\ block_is_prev_free(heap, d) = block_is_free(heap, b)
           /\ block_is_free(heap, b) => heap.mem[d] = b /\ ~block_is_free(heap, d)
<1>1. Tiles(added, S, Z)
  BY HeldTags
<1>2. b \in Nodes(added, S) /\ d \in Nodes(added, S)
  BY <1>1, TileWords
<1>3. block_is_free(heap, b) <=> b \in F
  BY <1>2, HeldTags
<1>4. block_is_prev_free(heap, d) <=> \E c \in F : After(Z, c) = d
  BY <1>2, HeldTags
<1>5. (\E c \in F : After(Z, c) = d) <=> b \in F
  <2>1. ASSUME NEW c \in F, After(Z, c) = d PROVE c = b
    <3>1. c \in S
      BY HeldTags
    <3> QED  BY <1>1, <2>1, <3>1, Spaced
  <2> QED  BY <2>1
<1>6. block_is_prev_free(heap, d) <=> block_is_free(heap, b)
  BY <1>3, <1>4, <1>5
<1>7. block_is_prev_free(heap, d) \in BOOLEAN /\ block_is_free(heap, b) \in BOOLEAN
  BY DEF block_is_prev_free, block_is_free
<1>8. block_is_prev_free(heap, d) = block_is_free(heap, b)
  BY <1>6, <1>7, Zenon
<1>9. b \in F => heap.mem[d] = b /\ d \notin F
  BY HeldTags
<1>10. block_is_free(heap, d) <=> d \in F
  BY <1>2, HeldTags
<1> QED  BY <1>3, <1>8, <1>9, <1>10

\* tlsf_check_pool finds nothing, whatever the state.
LEMMA PoolsHold == TlsfInv => PoolsPhysical
<1>1. SUFFICES ASSUME TlsfInv PROVE PoolsPhysical
  OBVIOUS
<1>2. PICK S, Z, F, R : Holds(heap, added, block, filled, refused, S, Z, F, R)
  BY <1>1 DEF TlsfInv
<1>3. Tiles(added, S, Z) /\ F \subseteq S
  BY <1>2, HeldTags
<1>4. ASSUME NEW p \in added
      PROVE  /\ Walk(p)[PoolWords[p]] = Sentinel(p)
             /\ ~block_is_free(heap, Sentinel(p)) /\ ~block_is_prev_free(heap, Walk(p)[0])
             /\ \A i \in 1..PoolWords[p] : Walk(p)[i] # Walk(p)[i - 1] =>
                  /\ block_is_prev_free(heap, Walk(p)[i]) = block_is_free(heap, Walk(p)[i - 1])
                  /\ block_is_free(heap, Walk(p)[i - 1]) =>
                       heap.mem[Walk(p)[i]] = Walk(p)[i - 1] /\ ~block_is_free(heap, Walk(p)[i])
  <2>1. Sentinel(p) \in Nodes(added, S) /\ Sentinel(p) \notin S
    BY <1>3, PoolNodes DEF Nodes, Ends
  <2>2. ~block_is_free(heap, Sentinel(p))
    BY <1>2, <1>3, <2>1, HeldTags
  <2>3. First(p) \in Nodes(added, S) /\ First(p) \in Firsts(added)
    BY <1>3 DEF Tiles, Nodes, Firsts
  <2>4. ~block_is_prev_free(heap, First(p))
    <3>1. \A b \in F : After(Z, b) # First(p)
      BY <1>3, <2>3, Spaced
    <3>2. block_is_prev_free(heap, First(p)) <=> \E b \in F : After(Z, b) = First(p)
      BY <1>2, <2>3, HeldTags
    <3> QED  BY <3>1, <3>2
  <2>5. /\ Walk(p)[PoolWords[p]] = Sentinel(p) /\ Walk(p)[0] = First(p)
        /\ \A i \in 1..PoolWords[p] : Walk(p)[i] # Walk(p)[i - 1] =>
             Walk(p)[i - 1] \in S /\ Walk(p)[i] = After(Z, Walk(p)[i - 1])
    BY <1>2, HeldWalk
  <2>6. ASSUME NEW i \in 1..PoolWords[p], Walk(p)[i] # Walk(p)[i - 1]
        PROVE  /\ block_is_prev_free(heap, Walk(p)[i]) = block_is_free(heap, Walk(p)[i - 1])
               /\ block_is_free(heap, Walk(p)[i - 1]) =>
                    heap.mem[Walk(p)[i]] = Walk(p)[i - 1] /\ ~block_is_free(heap, Walk(p)[i])
    <3>1. PICK b, d : b = Walk(p)[i - 1] /\ d = Walk(p)[i]
      OBVIOUS
    <3>2. b \in S /\ d = After(Z, b)
      BY <2>5, <2>6, <3>1
    <3>3. /\ block_is_prev_free(heap, d) = block_is_free(heap, b)
          /\ block_is_free(heap, b) => heap.mem[d] = b /\ ~block_is_free(heap, d)
      BY <1>2, <3>2, WalkedTags
    <3> QED  BY <3>1, <3>3
  <2> QED  BY <2>2, <2>4, <2>5, <2>6
<1>5. {b \in Blocks : ~block_is_free(heap, b)} = {block[o] : o \in Owner} \ {Null}
  <2>1. Blocks = S /\ {block[o] : o \in Owner} \ {Null} = S \ F
    BY <1>2, BlocksAre, HeldTags
  <2>2. \A b \in S : block_is_free(heap, b) <=> b \in F
    BY <1>2, HeldTags DEF Nodes
  <2> QED  BY <2>1, <2>2
<1> QED  BY <1>4, <1>5 DEF PoolsPhysical

\* Walking a pool ends at its sentinel, and the tags agree, after every call.
THEOREM PoolsArePhysical == Spec => []PoolsPhysical
  BY TlsfInvariant, PoolsHold, PTL

\* What was refused is not there.
LEMMA RefusedHolds == TlsfInv => RefusedOnlyWhenFull
<1>1. SUFFICES ASSUME TlsfInv, refused > 0, NEW b \in Blocks, block_is_free(heap, b)
      PROVE  block_size(heap, b) < RoundUp(refused)
  BY DEF RefusedOnlyWhenFull
<1>2. PICK S, Z, F, R : Holds(heap, added, block, filled, refused, S, Z, F, R)
  BY <1>1 DEF TlsfInv
<1>3. NoneAsLarge(Z, F, RoundUp(refused))
  BY <1>1, <1>2 DEF Holds, Refused
<1>4. b \in S
  BY <1>2, BlocksAre
<1>5. b \in Nodes(added, S)
  BY <1>4 DEF Nodes
<1>6. b \in F /\ block_size(heap, b) = Z[b]
  BY <1>1, <1>2, <1>5, HeldTags DEF Sized
<1> QED  BY <1>3, <1>6 DEF NoneAsLarge

\* A call is refused only when no free block is as large as what it looked for.
THEOREM RefusedWhenFull == Spec => []RefusedOnlyWhenFull
  BY TlsfInvariant, RefusedHolds, PTL

-----------------------------------------------------------------------------
(* What the lists hold. *)

\* What comes behind b in its list.
ListOn(h, b) == IF b \in 1..Top - 2 THEN h.mem[b + 2] ELSE Null

\* at goes through the list of class c.
Lined(at, h, c) == at[0] = h.head[c] /\ \A i \in 1..Top : at[i] = ListOn(h, at[i - 1])

\* The blocks that at goes through.
InList(at) == {at[i] : i \in 0..Top} \ {Null}

\* Listed goes through the list.
LEMMA ListIs ==
    ASSUME heap \in HeapType, NEW c \in Class
    PROVE  \E at : Lined(at, heap, c) /\ Listed(c) = InList(at)
<1> DEFINE IsList(at) == at = [i \in 0..Top |-> IF i = 0 THEN heap.head[c]
                                              ELSE ListOn(heap, at[i - 1])]
<1>1. PICK g : g = [b \in Int |-> ListOn(heap, b)]
  OBVIOUS
<1>2. Top \in Nat /\ heap.head[c] \in Int
  BY HeapAssumption DEF HeapType
<1>3. g \in [Int -> Int]
  <2>1. ASSUME NEW b \in Int PROVE ListOn(heap, b) \in Int
    <3>1. CASE b \in 1..Top - 2
      <4>1. b + 2 \in 1..Top
        BY <1>2, <3>1
      <4> QED  BY <3>1, <4>1 DEF ListOn, HeapType
    <3>2. CASE b \notin 1..Top - 2
      BY <3>2 DEF ListOn, Null
    <3> QED  BY <3>1, <3>2
  <2> QED  BY <1>1, <2>1
<1>4. PICK f \in [0..Top -> Int] : Follows(f, Top, heap.head[c], g)
  BY <1>2, <1>3, FollowsExists
<1>5. IsList(f)
  <2>1. \A i \in 0..Top : i # 0 => i - 1 \in 0..Top
    BY <1>2
  <2>2. \A i \in 0..Top : i # 0 => g[f[i - 1]] = ListOn(heap, f[i - 1])
    BY <1>1, <2>1
  <2> QED  BY <1>4, <2>2 DEF Follows
<1>6. PICK at : at = CHOOSE a : IsList(a)
  OBVIOUS
<1>7. IsList(at)
  <2> HIDE DEF IsList
  <2> QED  BY <1>5, <1>6
<1>8. \A i \in 0..Top : at[i] = IF i = 0 THEN heap.head[c] ELSE ListOn(heap, at[i - 1])
  BY <1>7
<1>9. 0 \in 0..Top /\ \A i \in 1..Top : i \in 0..Top /\ i # 0
  BY <1>2
<1>10. Lined(at, heap, c)
  BY <1>8, <1>9 DEF Lined
<1>11. Listed(c) = InList(at)
  <2>1. Listed(c) = {(CHOOSE a : IsList(a))[i] : i \in 0..Top} \ {Null}
    BY DEF Listed, ListOn
  <2> HIDE DEF IsList
  <2> QED  BY <1>6, <2>1 DEF InList
<1> QED  BY <1>10, <1>11

\* The blocks of class c among those in the lists.
OfClass(Z, L, c) == {b \in L : ClassOf(Z, b) = c}

\* Lists, of one class c whose blocks are C.
List(h, C, R, x) ==
    /\ x # Null => x \in C
    /\ \A b \in C : /\ h.mem[b + 2] # Null => h.mem[b + 2] \in C /\ R[h.mem[b + 2]] < R[b]
                    /\ h.mem[b + 3] # Null => h.mem[b + 3] \in C /\ h.mem[h.mem[b + 3] + 2] = b
                    /\ h.mem[b + 3] = Null => x = b

\* Each class has a list of its own.
LEMMA ListOfClass ==
    ASSUME NEW h, NEW Z, NEW L, NEW R, Lists(h, Z, L, R), NEW c \in Class
    PROVE  List(h, OfClass(Z, L, c), R, h.head[c])
<1>1. PICK x, C : x = h.head[c] /\ C = OfClass(Z, L, c)
  OBVIOUS
<1>2. x # Null => x \in C
  BY <1>1 DEF Lists, OfClass
<1>3. ASSUME NEW b \in C
      PROVE  /\ h.mem[b + 2] # Null => h.mem[b + 2] \in C /\ R[h.mem[b + 2]] < R[b]
             /\ h.mem[b + 3] # Null => h.mem[b + 3] \in C /\ h.mem[h.mem[b + 3] + 2] = b
             /\ h.mem[b + 3] = Null => x = b
  <2>1. b \in L /\ ClassOf(Z, b) = c
    BY <1>1 DEF OfClass
  <2>2. PICK n, q : n = h.mem[b + 2] /\ q = h.mem[b + 3]
    OBVIOUS
  <2>3. n # Null => n \in L /\ ClassOf(Z, n) = c /\ R[n] < R[b]
    BY <2>1, <2>2 DEF Lists
  <2>4. q # Null => q \in L /\ ClassOf(Z, q) = c /\ h.mem[q + 2] = b
    BY <2>1, <2>2 DEF Lists
  <2>5. q = Null => x = b
    BY <1>1, <2>1, <2>2 DEF Lists
  <2> QED  BY <1>1, <2>2, <2>3, <2>4, <2>5 DEF OfClass
<1> QED  BY <1>1, <1>2, <1>3 DEF List

\* Going through a list visits its blocks, and comes to its end.
LEMMA ListVisits ==
    ASSUME NEW h, NEW C, C \subseteq 1..Top - 2, NEW R \in [1..Top -> Nat], NEW c, List(h, C, R, h.head[c]),
           NEW at, Lined(at, h, c)
    PROVE  InList(at) = C
<1>1. Top \in Nat /\ C \subseteq 1..Top /\ Null \notin C /\ Null \notin 1..Top - 2
  BY HeapAssumption DEF Null
<1>2. /\ at[0] # Null => at[0] \in C
      /\ \A i \in 1..Top : at[i] = ListOn(h, at[i - 1])
  BY DEF List, Lined
<1>3. \A b \in C : ListOn(h, b) = h.mem[b + 2]
  BY DEF ListOn
<1>4. ListOn(h, Null) = Null
  BY <1>1 DEF ListOn
<1>5. \A i \in 0..Top : at[i] = Null \/ at[i] \in C
  <2> DEFINE T == {i \in 0..Top : at[i] = Null \/ at[i] \in C}
  <2>1. 0 \in T
    BY <1>1, <1>2
  <2>2. ASSUME NEW k \in 1..Top, k - 1 \in T PROVE k \in T
    <3>1. PICK b : b = at[k - 1]
      OBVIOUS
    <3>2. k \in 0..Top /\ at[k] = ListOn(h, b) /\ (b = Null \/ b \in C)
      BY <1>1, <1>2, <2>2, <3>1
    <3>3. b \in C => ListOn(h, b) = Null \/ ListOn(h, b) \in C
      BY <1>3 DEF List
    <3> QED  BY <1>4, <3>2, <3>3
  <2> HIDE DEF T
  <2>3. \A i \in 0..Top : i \in T
    BY <1>1, <2>1, <2>2, UpTo
  <2> QED  BY <2>3 DEF T
<1>6. at[Top] = Null
  <2>1. SUFFICES ASSUME at[Top] # Null PROVE FALSE
    OBVIOUS
  <2>2. ASSUME NEW m \in 0..Top PROVE at[m] \in C
    <3> DEFINE T == {i \in 0..Top : i >= m => at[i] = Null}
    <3>1. SUFFICES ASSUME at[m] = Null PROVE FALSE
      BY <1>5
    <3>2. 0 \in T
      BY <1>1, <3>1
    <3>3. ASSUME NEW k \in 1..Top, k - 1 \in T PROVE k \in T
      <4>1. k \in 0..Top
        BY <1>1
      <4>2. CASE k - 1 >= m
        BY <1>2, <1>4, <3>3, <4>1, <4>2
      <4>3. CASE ~(k - 1 >= m)
        <5>1. k >= m => k = m
          BY <4>3
        <5> QED  BY <3>1, <4>1, <5>1
      <4> QED  BY <4>2, <4>3
    <3> HIDE DEF T
    <3>4. \A i \in 0..Top : i \in T
      BY <1>1, <3>2, <3>3, UpTo
    <3>5. Top \in T /\ Top >= m
      BY <1>1, <3>4
    <3> QED  BY <2>1, <3>5 DEF T
  <2>3. \A k \in 1..Top : at[k] \in C /\ at[k - 1] \in C /\ R[at[k]] < R[at[k - 1]]
    <3>1. TAKE k \in 1..Top
    <3>2. k \in 0..Top /\ k - 1 \in 0..Top
      BY <1>1
    <3>3. PICK a, b : a = at[k] /\ b = at[k - 1]
      OBVIOUS
    <3>4. a \in C /\ b \in C
      BY <2>2, <3>2, <3>3
    <3>5. a = h.mem[b + 2] /\ a # Null
      BY <1>1, <1>2, <1>3, <3>3, <3>4
    <3>6. R[a] < R[b]
      BY <3>4, <3>5 DEF List
    <3> QED  BY <3>3, <3>4, <3>6
  <2>4. \A k \in 0..Top : \A i \in 0..k : i # k => R[at[k]] < R[at[i]]
    <3> DEFINE T == {k \in 0..Top : \A i \in 0..k : i # k => R[at[k]] < R[at[i]]}
    <3>1. 0 \in T
      BY <1>1
    <3>2. ASSUME NEW k \in 1..Top, k - 1 \in T PROVE k \in T
      <4>1. k \in 0..Top /\ k - 1 \in 0..Top
        BY <1>1
      <4>2. PICK s, t \in Nat : s = R[at[k]] /\ t = R[at[k - 1]]
        BY <1>1, <2>3
      <4>3. s < t
        BY <2>3, <4>2
      <4>4. ASSUME NEW i \in 0..k, i # k PROVE s < R[at[i]]
        <5>1. i \in 0..k - 1 /\ i \in 0..Top
          BY <1>1, <4>4
        <5>2. PICK r \in Nat : r = R[at[i]]
          BY <1>1, <2>2, <5>1
        <5>3. i # k - 1 => t < r
          BY <3>2, <4>2, <5>1, <5>2
        <5>4. i = k - 1 => r = t
          BY <4>2, <5>2
        <5> QED  BY <4>3, <5>2, <5>3, <5>4
      <4> QED  BY <4>1, <4>2, <4>4
    <3> HIDE DEF T
    <3>3. \A k \in 0..Top : k \in T
      BY <1>1, <3>1, <3>2, UpTo
    <3> QED  BY <3>3 DEF T
  <2>5. PICK f : f = [i \in 0..Top |-> at[i]]
    OBVIOUS
  <2>6. f \in [0..Top -> 1..Top]
    BY <1>1, <2>2, <2>5
  <2>7. /\ IsFiniteSet(0..Top) /\ IsFiniteSet(1..Top)
        /\ Cardinality(1..Top) < Cardinality(0..Top)
    <3>1. /\ IsFiniteSet(0..Top) /\ Cardinality(0..Top) = IF 0 > Top THEN 0 ELSE Top - 0 + 1
      BY <1>1, FS_Interval
    <3>2. /\ IsFiniteSet(1..Top) /\ Cardinality(1..Top) = IF 1 > Top THEN 0 ELSE Top - 1 + 1
      BY <1>1, FS_Interval
    <3> QED  BY <1>1, <3>1, <3>2
  <2>8. PICK i, j \in 0..Top : i # j /\ f[i] = f[j]
    BY <2>6, <2>7, FS_PigeonHole
  <2>9. R[at[i]] = R[at[j]] /\ R[at[i]] \in Nat
    BY <1>1, <2>2, <2>5, <2>8
  <2>10. i \in 0..j \/ j \in 0..i
    BY <1>1
  <2>11. R[at[i]] < R[at[j]] \/ R[at[j]] < R[at[i]]
    BY <2>4, <2>8, <2>10
  <2> QED  BY <2>9, <2>11
<1>7. ASSUME NEW u \in C PROVE \E i \in 0..Top : at[i] = u
  <2> DEFINE Lost == {b \in C : ~\E i \in 0..Top : at[i] = b}
  <2>1. SUFFICES ASSUME Lost # {} PROVE FALSE
    BY DEF Lost
  <2>2. Lost \in SUBSET (1..Top)
    BY <1>1
  <2>3. PICK b \in Lost : \A v \in Lost : R[v] <= R[b]
    <3> HIDE DEF Lost
    <3> QED  BY <2>1, <2>2, Highest
  <2>4. b \in C /\ \A i \in 0..Top : at[i] # b
    OBVIOUS
  <2>5. PICK q : q = h.mem[b + 3]
    OBVIOUS
  <2>6. q # Null
    <3>1. at[0] # b /\ at[0] = h.head[c]
      BY <1>1, <2>4 DEF Lined
    <3> QED  BY <2>4, <2>5, <3>1 DEF List
  <2>7. q \in C /\ h.mem[q + 2] = b
    BY <2>4, <2>5, <2>6 DEF List
  <2>8. R[b] < R[q]
    <3>1. b # Null
      BY <1>1, <2>4
    <3> QED  BY <2>7, <3>1 DEF List
  <2>9. q \notin Lost
    <3>1. R[b] \in Nat /\ R[q] \in Nat
      BY <1>1, <2>4, <2>7
    <3>2. ~(R[q] <= R[b])
      BY <2>8, <3>1
    <3> HIDE DEF Lost
    <3> QED  BY <2>3, <3>2
  <2>10. PICK i \in 0..Top : at[i] = q
    BY <2>7, <2>9
  <2>11. i # Top
    BY <1>6, <2>6, <2>10
  <2>12. i + 1 \in 1..Top /\ i + 1 \in 0..Top /\ (i + 1) - 1 = i
    BY <1>1, <2>11
  <2>13. at[i + 1] = b
    BY <1>2, <1>3, <2>7, <2>10, <2>12
  <2> QED  BY <2>4, <2>12, <2>13
<1> QED  BY <1>1, <1>5, <1>7 DEF InList

\* The list of a class is the free blocks of that class.
LEMMA HeldList ==
    ASSUME NEW S, NEW Z, NEW F, NEW R, Holds(heap, added, block, filled, refused, S, Z, F, R),
           NEW c \in Class
    PROVE  Listed(c) = OfClass(Z, F, c)
<1>1. heap \in HeapType /\ Tiles(added, S, Z) /\ Lists(heap, Z, F, R) /\ F \subseteq S
  BY HeldTags
<1>2. PICK C : C = OfClass(Z, F, c)
  OBVIOUS
<1>3. List(heap, C, R, heap.head[c]) /\ R \in [1..Top -> Nat]
  <2>1. R \in [1..Top -> Nat]
    BY <1>1 DEF Lists
  <2> QED  BY <1>1, <1>2, <2>1, ListOfClass
<1>4. C \subseteq 1..Top - 2
  <2>1. ASSUME NEW b \in C PROVE b \in 1..Top - 2
    <3>1. b \in S
      BY <1>1, <1>2 DEF OfClass
    <3>2. b \in Nat /\ b >= 3 /\ b + 2 \in 1..Top /\ Top \in Nat
      BY <1>1, <3>1, TileWords
    <3> QED  BY <3>2
  <2> QED  BY <2>1
<1>5. PICK at : Lined(at, heap, c) /\ Listed(c) = InList(at)
  BY <1>1, ListIs
<1>6. InList(at) = C
  <2>1. Lined(at, heap, c)
    BY <1>5
  <2> QED  BY <1>3, <1>4, <2>1, ListVisits
<1> QED  BY <1>2, <1>5, <1>6

\* tlsf_check finds nothing, whatever the state.
LEMMA ListsHold == TlsfInv => ListsAccurate
<1>1. SUFFICES ASSUME TlsfInv PROVE ListsAccurate
  OBVIOUS
<1>2. PICK S, Z, F, R : Holds(heap, added, block, filled, refused, S, Z, F, R)
  BY <1>1 DEF TlsfInv
<1>3. Tiles(added, S, Z) /\ Lists(heap, Z, F, R) /\ F \subseteq S /\ Sized(heap, added, S, Z)
  BY <1>2, HeldTags
<1>4. heap.fl = {f \in 0..FlMax : heap.sl[f] # {}}
  BY <1>3 DEF Lists
<1>5. ASSUME NEW c \in Class
      PROVE  /\ c[2] \in heap.sl[c[1]] <=> Listed(c) # {}
             /\ Listed(c) = {b \in Blocks : block_is_free(heap, b) /\ mapping_insert(block_size(heap, b)) = c}
             /\ \A b \in Listed(c) :
                  /\ block_size(heap, b) >= MinSize
                  /\ IF heap.head[c] = b THEN heap.mem[b + 3] = Null
                     ELSE heap.mem[b + 3] \in Listed(c) /\ heap.mem[heap.mem[b + 3] + 2] = b
  <2>1. PICK C, x : C = OfClass(Z, F, c) /\ x = heap.head[c]
    OBVIOUS
  <2>2. Listed(c) = C
    BY <1>2, <2>1, HeldList
  <2>3. c[2] \in heap.sl[c[1]] <=> x # Null
    BY <1>3, <2>1 DEF Lists
  <2>4. x # Null => x \in C /\ heap.mem[x + 3] = Null
    BY <1>3, <2>1 DEF Lists, OfClass
  <2>5. C # {} => x # Null
    <3>1. SUFFICES ASSUME NEW b \in C PROVE x # Null
      OBVIOUS
    <3>2. b \in F /\ c = ClassOf(Z, b) /\ S \in SUBSET (1..Top) /\ F \in SUBSET S
      BY <1>3, <2>1 DEF OfClass, Tiles
    <3> QED  BY <1>3, <2>1, <3>2, ListHead
  <2>6. \A b \in S : block_size(heap, b) = Z[b] /\ (block_is_free(heap, b) <=> b \in F)
    BY <1>2, HeldTags DEF Sized, Nodes
  <2>7. C = {b \in Blocks : block_is_free(heap, b) /\ mapping_insert(block_size(heap, b)) = c}
    <3>1. Blocks = S
      BY <1>2, BlocksAre
    <3> QED  BY <1>3, <2>1, <2>6, <3>1 DEF OfClass, ClassOf
  <2>8. ASSUME NEW b \in C
        PROVE  /\ block_size(heap, b) >= MinSize
               /\ IF x = b THEN heap.mem[b + 3] = Null
                  ELSE heap.mem[b + 3] \in C /\ heap.mem[heap.mem[b + 3] + 2] = b
    <3>1. b \in S
      BY <1>3, <2>1 DEF OfClass
    <3>2. block_size(heap, b) >= MinSize
      BY <1>3, <2>6, <3>1 DEF Tiles
    <3>3. CASE x = b
      BY <2>4, <2>5, <3>2, <3>3
    <3>4. CASE x # b
      <4>1. List(heap, C, R, x)
        BY <1>3, <2>1, ListOfClass
      <4>2. heap.mem[b + 3] \in C /\ heap.mem[heap.mem[b + 3] + 2] = b
        BY <3>4, <4>1 DEF List
      <4> QED  BY <3>2, <3>4, <4>2
    <3> QED  BY <3>3, <3>4
  <2> QED  BY <2>1, <2>2, <2>3, <2>4, <2>5, <2>7, <2>8
<1> QED  BY <1>4, <1>5 DEF ListsAccurate

\* A free block is in the list of its class, and in no other, and the bits say
\* which lists have blocks, so that search_suitable_class finds what there is.
THEOREM ListsAreAccurate == Spec => []ListsAccurate
  BY TlsfInvariant, ListsHold, PTL
===============================================================================
