----------------------------- MODULE RtMemProofs -----------------------------
(***************************************************************************)
(* Proofs about RtMem for any number of blocks, any sizes and any bounds.  *)
(***************************************************************************)
EXTENDS RtMem, FiniteSetTheorems, TLAPS

(***************************************************************************)
(* Sums over a finite set.  The fold that LiveBytes is defined by takes    *)
(* one element after the other, in an order of its own; what follows does  *)
(* not depend on the order.                                                *)
(***************************************************************************)

\* What holds of a set when it holds of its proper subsets holds of every subset
\* of a finite set.
LEMMA FiniteSubsets ==
    ASSUME NEW S, IsFiniteSet(S), NEW T \in SUBSET (SUBSET S),
           \A s \in SUBSET S : (\A t \in SUBSET s : t # s => t \in T) => s \in T
    PROVE  T = SUBSET S
<1> DEFINE R == StrictSubsetOrdering(S)
           Bad == (SUBSET S) \ T
<1>1. SUBSET S = FiniteSubsetsOf(S)
  BY FS_Subset DEF FiniteSubsetsOf
<1>2. IsWellFoundedOn(R, SUBSET S)
  BY <1>1, FS_StrictSubsetOrderingWellFounded
<1>3. SUFFICES ASSUME Bad # {} PROVE FALSE
  OBVIOUS
<1>4. PICK s \in Bad : \A t \in Bad : ~(<<t, s>> \in R)
  <2> HIDE DEF R, Bad
  <2>1. Bad \subseteq SUBSET S
    BY DEF Bad
  <2> QED  BY <1>2, <1>3, <2>1, WFMin
<1>5. ASSUME NEW t \in SUBSET s, t # s PROVE t \in T
  <2>1. <<t, s>> \in R
    BY <1>5 DEF StrictSubsetOrdering
  <2> QED  BY <1>4, <2>1
<1> QED  BY <1>4, <1>5

\* One element of a set that is not empty.
Some(s) == CHOOSE x \in s : TRUE

\* The functions that sum f over the subsets of S.
Sums(f, S) == {g \in [SUBSET S -> Int] :
                 \A s \in SUBSET S : g[s] = IF s = {} THEN 0 ELSE f[Some(s)] + g[s \ {Some(s)}]}

\* The sum of all values of f.
Total(f) == FoldFunction(+, 0, f)

\* There is such a function: for the sets of at most n elements it extends to the
\* sets of one element more.
LEMMA SumsExist ==
    ASSUME NEW S, IsFiniteSet(S), NEW f \in [S -> Int]
    PROVE  Sums(f, S) # {}
<1> DEFINE Small(s) == {t \in SUBSET S : Cardinality(t) <= Cardinality(s)}
           Sum(g, t) == IF t = {} THEN 0 ELSE f[Some(t)] + g[t \ {Some(t)}]
           T == {s \in SUBSET S : \E g \in [Small(s) -> Int] : \A t \in Small(s) : g[t] = Sum(g, t)}
<1>1. \A t \in SUBSET S : IsFiniteSet(t) /\ Cardinality(t) \in Nat /\ (Cardinality(t) = 0 <=> t = {})
  BY FS_Subset, FS_CardinalityType, FS_EmptySet
<1>2. \A t \in SUBSET S : t # {} =>
         Some(t) \in t /\ t \ {Some(t)} \in SUBSET S /\ Cardinality(t \ {Some(t)}) = Cardinality(t) - 1
  <2>1. TAKE t \in SUBSET S
  <2>2. HAVE t # {}
  <2>3. Some(t) \in t
    BY <2>2 DEF Some
  <2> QED  BY <1>1, <2>3, FS_RemoveElement
<1>3. ASSUME NEW s \in SUBSET S, \A t \in SUBSET s : t # s => t \in T
      PROVE  s \in T
  <2>1. CASE s = {}
    <3> DEFINE g == [t \in Small(s) |-> 0]
    <3>1. \A t \in Small(s) : t = {}
      BY <1>1, <2>1
    <3>2. \A t \in Small(s) : g[t] = Sum(g, t)
      BY <3>1
    <3>3. g \in [Small(s) -> Int]
      OBVIOUS
    <3> HIDE DEF g, Small
    <3> QED  BY <3>2, <3>3
  <2>2. CASE s # {}
    <3> DEFINE r == s \ {Some(s)}
    <3>1. r \in SUBSET s /\ r # s /\ Cardinality(r) = Cardinality(s) - 1
      BY <1>2, <2>2
    <3>2. PICK h \in [Small(r) -> Int] : \A t \in Small(r) : h[t] = Sum(h, t)
      BY <1>3, <3>1
    <3> HIDE DEF r
    <3>3. ASSUME NEW t \in Small(s), t # {}
          PROVE  /\ f[Some(t)] \in Int /\ t \ {Some(t)} \in Small(r) /\ t \ {Some(t)} \in Small(s)
                 /\ t \in SUBSET S
      <4>1. Some(t) \in S /\ t \ {Some(t)} \in SUBSET S
            /\ Cardinality(t \ {Some(t)}) = Cardinality(t) - 1
        BY <1>2, <3>3
      <4>2. /\ Cardinality(t) \in Nat /\ Cardinality(s) \in Nat /\ Cardinality(t) <= Cardinality(s)
            /\ t \in SUBSET S
        BY <1>1
      <4>3. /\ Cardinality(t \ {Some(t)}) <= Cardinality(r)
            /\ Cardinality(t \ {Some(t)}) <= Cardinality(s)
        BY <3>1, <4>1, <4>2
      <4> QED  BY <4>1, <4>2, <4>3
    <3> DEFINE g == [t \in Small(s) |-> Sum(h, t)]
    <3>4. \A t \in Small(s) : Sum(h, t) \in Int
      <4>1. TAKE t \in Small(s)
      <4>2. CASE t = {}
        BY <4>2
      <4>3. CASE t # {}
        <5>1. f[Some(t)] \in Int /\ h[t \ {Some(t)}] \in Int
          BY <3>2, <3>3, <4>3
        <5> QED  BY <4>3, <5>1
      <4> QED  BY <4>2, <4>3
    <3>5. g \in [Small(s) -> Int]
      <4> HIDE DEF Small, Sum
      <4> QED  BY <3>4
    <3>6. ASSUME NEW t \in Small(s) PROVE g[t] = Sum(g, t)
      <4>1. g[t] = Sum(h, t)
        OBVIOUS
      <4>2. CASE t # {}
        <5> DEFINE u == t \ {Some(t)}
        <5>1. u \in Small(r) /\ u \in Small(s)
          BY <3>3, <4>2
        <5>2. g[u] = h[u]
          <6> HIDE DEF u, Small
          <6>1. g[u] = Sum(h, u)
            BY <5>1
          <6>2. h[u] = Sum(h, u)
            BY <3>2, <5>1
          <6> QED  BY <6>1, <6>2
        <5> HIDE DEF g, Small
        <5> QED  BY <4>1, <4>2, <5>2
      <4>3. CASE t = {}
        BY <4>1, <4>3
      <4> QED  BY <4>2, <4>3
    <3> HIDE DEF g, Small, Sum
    <3> QED  BY <3>5, <3>6
  <2> QED  BY <2>1, <2>2
<1>4. T = SUBSET S
  <2>1. T \in SUBSET (SUBSET S)
    OBVIOUS
  <2> HIDE DEF T
  <2> QED  BY <1>3, <2>1, FiniteSubsets
<1>5. PICK g \in [Small(S) -> Int] : \A t \in Small(S) : g[t] = Sum(g, t)
  <2>1. S \in T
    BY <1>4
  <2> QED  BY <2>1
<1>6. Small(S) = SUBSET S
  BY FS_Subset
<1> HIDE DEF Small
<1> QED  BY <1>5, <1>6 DEF Sums

\* The fold of the community modules is the value of such a function.
LEMMA FoldSums ==
    ASSUME NEW S, IsFiniteSet(S), NEW f \in [S -> Int]
    PROVE  \E g \in Sums(f, S) : Total(f) = g[S]
<1> DEFINE Sum(g, s) == IF s = {} THEN 0 ELSE f[Some(s)] + g[s \ {Some(s)}]
           iter == CHOOSE g : g = [s \in SUBSET S |-> Sum(g, s)]
<1>1. PICK g \in Sums(f, S) : TRUE
  BY SumsExist
<1>2. \E h : h = [s \in SUBSET S |-> Sum(h, s)]
  <2>1. g = [s \in SUBSET S |-> Sum(g, s)]
    BY DEF Sums
  <2> QED  BY <2>1
<1>3. iter = [s \in SUBSET S |-> Sum(iter, s)]
  <2> HIDE DEF Sum
  <2> QED  BY <1>2
<1>4. DOMAIN f = S
  OBVIOUS
<1>5. Total(f) = iter[S]
  BY <1>4 DEF Total, FoldFunction, FoldFunctionOnSet, MapThenFoldSet, Some
<1> DEFINE T == {s \in SUBSET S : iter[s] = g[s]}
<1> HIDE DEF iter
<1>6. ASSUME NEW s \in SUBSET S, \A t \in SUBSET s : t # s => t \in T
      PROVE  s \in T
  <2>1. iter[s] = Sum(iter, s) /\ g[s] = Sum(g, s)
    BY <1>3 DEF Sums
  <2>2. s # {} => iter[s \ {Some(s)}] = g[s \ {Some(s)}]
    <3>1. SUFFICES ASSUME s # {} PROVE iter[s \ {Some(s)}] = g[s \ {Some(s)}]
      OBVIOUS
    <3>2. Some(s) \in s
      BY <3>1 DEF Some
    <3> QED  BY <1>6, <3>2
  <2> QED  BY <2>1, <2>2
<1>7. T = SUBSET S
  <2>1. T \in SUBSET (SUBSET S)
    OBVIOUS
  <2> HIDE DEF T
  <2> QED  BY <1>6, <2>1, FiniteSubsets
<1>8. iter[S] = g[S]
  <2>1. S \in T
    BY <1>7
  <2> QED  BY <2>1
<1> QED  BY <1>5, <1>8

\* When one summand changes, the sums change by as much.
LEMMA SumsChange ==
    ASSUME NEW S, IsFiniteSet(S), NEW f \in [S -> Int], NEW b \in S, NEW n \in Int,
           NEW k \in [S -> Int], \A x \in S : k[x] = IF x = b THEN n ELSE f[x],
           NEW g \in Sums(f, S), NEW h \in Sums(k, S)
    PROVE  \A s \in SUBSET S : h[s] = g[s] + IF b \in s THEN n - f[b] ELSE 0
<1> DEFINE c(s) == IF b \in s THEN n - f[b] ELSE 0
           T == {s \in SUBSET S : h[s] = g[s] + c(s)}
<1>1. ASSUME NEW s \in SUBSET S, \A t \in SUBSET s : t # s => t \in T
      PROVE  h[s] = g[s] + c(s)
  <2>1. CASE s = {}
    <3>1. h[s] = 0 /\ g[s] = 0
      BY <2>1 DEF Sums
    <3>2. c(s) = 0
      BY <2>1
    <3> HIDE DEF c
    <3> QED  BY <3>1, <3>2
  <2>2. CASE s # {}
    <3> DEFINE x == Some(s)
               r == s \ {x}
    <3>1. x \in s
      BY <2>2 DEF Some
    <3>2. h[s] = k[x] + h[r] /\ g[s] = f[x] + g[r] /\ g[r] \in Int
      BY <2>2, <3>1 DEF Sums
    <3>3. h[r] = g[r] + c(r)
      BY <1>1, <3>1
    <3>4. k[x] = IF x = b THEN n ELSE f[x]
      BY <3>1
    <3>5. f[x] \in Int /\ f[b] \in Int
      BY <3>1
    <3> HIDE DEF x
    <3>6. CASE x = b
      <4>1. c(r) = 0 /\ c(s) = n - f[b]
        BY <3>1, <3>6
      <4> QED  BY <3>2, <3>3, <3>4, <3>5, <3>6, <4>1
    <3>7. CASE x # b
      <4>1. c(r) = c(s) /\ c(s) \in Int
        BY <3>5, <3>7
      <4> HIDE DEF c, r
      <4> QED  BY <3>2, <3>3, <3>4, <3>5, <3>7, <4>1
    <3> QED  BY <3>6, <3>7
  <2> QED  BY <2>1, <2>2
<1>2. T = SUBSET S
  <2>1. T \in SUBSET (SUBSET S)
    OBVIOUS
  <2>2. \A s \in SUBSET S : (\A t \in SUBSET s : t # s => t \in T) => s \in T
    BY <1>1
  <2> HIDE DEF T
  <2> QED  BY <2>1, <2>2, FiniteSubsets
<1> QED  BY <1>2

\* A sum changes by as much as its one summand that changes.
LEMMA SumOfChanged ==
    ASSUME NEW S, IsFiniteSet(S), NEW f \in [S -> Int], NEW k \in [S -> Int],
           NEW b \in S, \A x \in S : x # b => k[x] = f[x]
    PROVE  Total(f) \in Int /\ Total(k) = (Total(f) - f[b]) + k[b]
<1>1. PICK g \in Sums(f, S) : Total(f) = g[S]
  BY FoldSums
<1>2. PICK h \in Sums(k, S) : Total(k) = h[S]
  BY FoldSums
<1>3. f[b] \in Int /\ k[b] \in Int /\ \A x \in S : k[x] = IF x = b THEN k[b] ELSE f[x]
  OBVIOUS
<1>4. \A s \in SUBSET S : h[s] = g[s] + IF b \in s THEN k[b] - f[b] ELSE 0
  BY <1>3, SumsChange
<1>5. h[S] = g[S] + (k[b] - f[b])
  BY <1>4
<1>6. g[S] \in Int
  BY DEF Sums
<1> QED  BY <1>1, <1>2, <1>3, <1>5, <1>6

\* The sum of zeros.
LEMMA SumOfZeros ==
    ASSUME NEW S, IsFiniteSet(S), NEW f \in [S -> Int], \A x \in S : f[x] = 0
    PROVE  Total(f) = 0
<1>1. PICK g \in Sums(f, S) : Total(f) = g[S]
  BY FoldSums
<1> DEFINE T == {s \in SUBSET S : g[s] = 0}
<1>2. ASSUME NEW s \in SUBSET S, \A t \in SUBSET s : t # s => t \in T
      PROVE  s \in T
  <2>1. CASE s = {}
    BY <2>1 DEF Sums
  <2>2. CASE s # {}
    <3>1. Some(s) \in s
      BY <2>2 DEF Some
    <3>2. g[s \ {Some(s)}] = 0 /\ f[Some(s)] = 0
      BY <1>2, <3>1
    <3> QED  BY <2>2, <3>1, <3>2 DEF Sums
  <2> QED  BY <2>1, <2>2
<1>3. T = SUBSET S
  <2>1. T \in SUBSET (SUBSET S)
    OBVIOUS
  <2> HIDE DEF T
  <2> QED  BY <1>2, <2>1, FiniteSubsets
<1> QED  BY <1>1, <1>3

-----------------------------------------------------------------------------
(* The requests for memory. *)

USE SizesAssumption, RingAssumption, LimitAssumption
    DEF SizesAssumption, RingAssumption, LimitAssumption

\* No request is under way at the start.
LEMMA InitRequest == Init => RequestInv
  <1> SUFFICES ASSUME Init PROVE RequestInv
    OBVIOUS
  <1>1. ring = << >> /\ ring \in Seq(BOOLEAN) /\ size \in [Block -> Nat]
    BY DEF Init
  <1>2. TypeOK
    <2>1. used \in Int /\ sum \in Nat /\ pool \in Nat /\ lost \in Nat /\ fails \in Nat
          /\ flag \in {0, 1}
      BY DEF Init
    <2>2. async \in BOOLEAN
      BY DEF Init
    <2> QED
      BY <1>1, <2>1, <2>2 DEF TypeOK
  <1> QED
    BY <1>2 DEF Init, RequestInv, OneRequestUnderWay

\* The common end of alloc and realloc raises the flag and the signal together.
LEMMA AccountRequest ==
    ASSUME RequestInv, NEW u \in Int, Account(u), ring' = ring
    PROVE  /\ OneRequestUnderWay' /\ used' \in Int /\ flag' \in {0, 1} /\ async' \in BOOLEAN
  <1>1. CASE NeedsMore(u)
    <2>1. flag = 0 /\ ~async /\ ring = << >>
      BY <1>1 DEF NeedsMore, RequestInv, OneRequestUnderWay
    <2>2. flag' = 1 /\ async' = TRUE /\ used' = u /\ ring' = << >>
      BY <1>1, <2>1 DEF Account
    <2> QED
      BY <2>2 DEF OneRequestUnderWay
  <1>2. CASE ~NeedsMore(u)
    BY <1>2 DEF RequestInv, TypeOK, OneRequestUnderWay, Account
  <1> QED
    BY <1>1, <1>2

\* Every step keeps flag, signal and ring in step.
LEMMA NextRequest == RequestInv /\ [Next]_vars => RequestInv'
  <1> SUFFICES ASSUME RequestInv, [Next]_vars PROVE RequestInv'
    OBVIOUS
  <1>t. TypeOK
    BY DEF RequestInv
  <1>1. ASSUME NEW b \in Block, NEW n \in BlockSizes, Alloc(b, n) PROVE RequestInv'
    <2>1. used + n \in Int /\ n \in Nat
      BY <1>t DEF TypeOK
    <2> QED
      BY <1>1, <1>t, <2>1, AccountRequest DEF Alloc, RequestInv, TypeOK
  <1>2. ASSUME NEW b \in Block, NEW n \in BlockSizes, Realloc(b, n) PROVE RequestInv'
    <2>1. (used - size[b]) + n \in Int /\ n \in Nat
      BY <1>t DEF TypeOK
    <2> QED
      BY <1>2, <1>t, <2>1, AccountRequest DEF Realloc, RequestInv, TypeOK
  <1>3. CASE AllocFail
    BY <1>3, <1>t, AccountRequest DEF AllocFail, RequestInv, TypeOK
  <1>4. ASSUME NEW b \in Block, ReallocFail(b) PROVE RequestInv'
    <2>1. used - size[b] \in Int
      BY <1>t DEF TypeOK
    <2> QED
      BY <1>4, <1>t, <2>1, AccountRequest DEF ReallocFail, RequestInv, TypeOK
  <1>5. ASSUME NEW b \in Block, Free(b) PROVE RequestInv'
    BY <1>5, <1>t DEF Free, RequestInv, TypeOK, OneRequestUnderWay
  <1>6. CASE AddMemory
    <2>1. flag = 1 /\ ~async /\ Len(ring) = 1
      BY <1>6 DEF AddMemory, RequestInv, TypeOK, OneRequestUnderWay
    <2>2. ring' = << >>
      <3>1. ring \in Seq(BOOLEAN) /\ ring # << >> /\ ring' = Tail(ring)
        BY <1>6, <1>t DEF AddMemory, TypeOK
      <3>2. Len(ring') = 0 /\ ring' \in Seq(BOOLEAN)
        BY <2>1, <3>1
      <3> QED
        BY <3>2
    <2>3. pool' \in Nat /\ sum' \in Nat
      <3>1. PICK c \in Nat : c = IF Head(ring) THEN AreaSize ELSE 0
        OBVIOUS
      <3>2. pool' = pool + c /\ sum' = sum + AreaSize
        BY <1>6, <3>1, Zenon DEF AddMemory
      <3> QED
        BY <1>t, <3>2 DEF TypeOK
    <2> QED
      <3>1. ring' \in Seq(BOOLEAN)
        BY <2>2
      <3>2. flag' = 0 /\ UNCHANGED <<size, used, async, lost, fails>>
        BY <1>6 DEF AddMemory
      <3>3. TypeOK'
        BY <1>t, <2>3, <3>1, <3>2 DEF TypeOK
      <3> QED
        BY <2>1, <2>2, <3>2, <3>3 DEF RequestInv, OneRequestUnderWay
  <1>7. ASSUME NEW mapped \in Outcomes, RequestMemory(mapped) PROVE RequestInv'
    <2>1. flag = 1 /\ async /\ ring = << >>
      BY <1>7 DEF RequestMemory, RequestInv, TypeOK, OneRequestUnderWay
    <2>2. mapped \in BOOLEAN
      BY DEF Outcomes
    <2>3. ring' = << mapped >>
      BY <1>7, <2>1, <2>2 DEF RequestMemory
    <2>4. ring' \in Seq(BOOLEAN) /\ Len(ring') = 1
      BY <2>2, <2>3
    <2>5. /\ async' = FALSE /\ flag' = 1
          /\ UNCHANGED <<size, used, sum, pool, lost, fails>>
      BY <1>7, <2>1 DEF RequestMemory
    <2>6. TypeOK'
      BY <1>t, <2>4, <2>5 DEF TypeOK
    <2> QED
      BY <2>4, <2>5, <2>6 DEF RequestInv, OneRequestUnderWay
  <1>8. CASE UNCHANGED vars
    BY <1>8, <1>t DEF vars, RequestInv, TypeOK, OneRequestUnderWay
  <1> QED
    BY <1>1, <1>2, <1>3, <1>4, <1>5, <1>6, <1>7, <1>8 DEF Next, Request

\* The types of the variables and the state of the request, in every state.
THEOREM RtMemInvariant == Spec => []RequestInv
  <1> QED
    BY InitRequest, NextRequest, PTL DEF Spec

\* The flag, the signal and the ring carry at most one request between the
\* real-time and the main thread, for every size and number of blocks and even
\* when mmap or realloc fails.
THEOREM RtMemOneRequest == Spec => []OneRequestUnderWay
  <1>1. RequestInv => OneRequestUnderWay
    BY DEF RequestInv
  <1> QED
    BY InitRequest, NextRequest, <1>1, PTL DEF Spec

-----------------------------------------------------------------------------
(* What used counts. *)

\* The live bytes are the sum of the sizes, before a step and after it.
LEMMA LiveBytesSum == LiveBytes = Total(size) /\ LiveBytes' = Total(size')
  BY DEF LiveBytes, Total, FoldFunction, FoldFunctionOnSet, MapThenFoldSet

\* The live bytes are a sum over finitely many blocks: they change by as much as
\* the size of the one block that changes.
LEMMA LiveBytesChange ==
    ASSUME TypeOK, NEW b \in Block, NEW n \in Nat, size' = [size EXCEPT ![b] = n]
    PROVE  LiveBytes \in Int /\ LiveBytes' = (LiveBytes - size[b]) + n
  <1>1. IsFiniteSet(Block) /\ size \in [Block -> Int]
    BY BlockAssumption DEF BlockAssumption, TypeOK
  <1>2. /\ size' \in [Block -> Int] /\ size'[b] = n
        /\ \A x \in Block : x # b => size'[x] = size[x]
    BY <1>1
  <1>3. Total(size) \in Int /\ Total(size') = (Total(size) - size[b]) + size'[b]
    <2>1. \A f, k \in [Block -> Int] :
             (\A x \in Block : x # b => k[x] = f[x]) =>
                Total(f) \in Int /\ Total(k) = (Total(f) - f[b]) + k[b]
      <3>1. TAKE f, k \in [Block -> Int]
      <3>2. HAVE \A x \in Block : x # b => k[x] = f[x]
      <3> QED
        BY <1>1, <3>2, SumOfChanged
    <2> QED
      BY <1>1, <1>2, <2>1
  <1> QED
    BY <1>2, <1>3, LiveBytesSum

\* Nothing is live and nothing counted at the start.
LEMMA InitAccounts == Init => UsedAccounts
  <1> SUFFICES ASSUME Init PROVE UsedAccounts
    OBVIOUS
  <1>1. IsFiniteSet(Block) /\ size \in [Block -> Int] /\ \A b \in Block : size[b] = 0
    BY BlockAssumption DEF BlockAssumption, Init
  <1>2. Total(size) = 0
    BY <1>1, SumOfZeros
  <1>3. LiveBytes = 0
    BY <1>2, LiveBytesSum
  <1> QED
    BY <1>3 DEF Init, UsedAccounts

\* What a step adds to the live bytes it adds to used, or it takes it from used
\* and adds it to lost.
LEMMA NextAccounts == RequestInv /\ UsedAccounts /\ [Next]_vars => UsedAccounts'
  <1> SUFFICES ASSUME RequestInv, UsedAccounts, [Next]_vars PROVE UsedAccounts'
    OBVIOUS
  <1>1. TypeOK /\ used \in Int /\ lost \in Nat /\ \A b \in Block : size[b] \in Nat
    BY DEF RequestInv, TypeOK
  <1>2. used + lost = LiveBytes
    BY DEF UsedAccounts
  <1>3. BlockSizes \subseteq Nat
    OBVIOUS
  <1>4. ASSUME NEW b \in Block, NEW n \in BlockSizes, Alloc(b, n) PROVE UsedAccounts'
    <2>1. LiveBytes \in Int /\ LiveBytes' = (LiveBytes - size[b]) + n
      BY <1>1, <1>3, <1>4, LiveBytesChange DEF Alloc
    <2>2. size[b] = 0 /\ used' = used + n /\ lost' = lost
      BY <1>4 DEF Alloc, Account
    <2> QED
      BY <1>1, <1>2, <1>3, <2>1, <2>2 DEF UsedAccounts
  <1>5. ASSUME NEW b \in Block, NEW n \in BlockSizes, Realloc(b, n) PROVE UsedAccounts'
    <2>1. LiveBytes \in Int /\ LiveBytes' = (LiveBytes - size[b]) + n
      BY <1>1, <1>3, <1>5, LiveBytesChange DEF Realloc
    <2>2. used' = (used - size[b]) + n /\ lost' = lost /\ size[b] \in Nat
      BY <1>1, <1>5 DEF Realloc, Account
    <2> QED
      BY <1>1, <1>2, <1>3, <2>1, <2>2 DEF UsedAccounts
  <1>6. ASSUME NEW b \in Block, ReallocFail(b) PROVE UsedAccounts'
    <2>1. used' = used - size[b] /\ lost' = lost + size[b] /\ size' = size /\ size[b] \in Nat
      BY <1>1, <1>6 DEF ReallocFail, Account
    <2>2. LiveBytes' = LiveBytes
      BY <2>1, LiveBytesSum
    <2> QED
      BY <1>1, <1>2, <2>1, <2>2 DEF UsedAccounts
  <1>7. ASSUME NEW b \in Block, Free(b) PROVE UsedAccounts'
    <2>1. LiveBytes \in Int /\ LiveBytes' = (LiveBytes - size[b]) + 0
      BY <1>1, <1>7, LiveBytesChange DEF Free
    <2>2. used' = used - size[b] /\ lost' = lost /\ size[b] \in Nat
      BY <1>1, <1>7 DEF Free
    <2> QED
      BY <1>1, <1>2, <2>1, <2>2 DEF UsedAccounts
  <1>8. ASSUME size' = size, used' = used, lost' = lost PROVE UsedAccounts'
    <2>1. LiveBytes' = LiveBytes
      BY <1>8, LiveBytesSum
    <2> QED
      BY <1>2, <1>8, <2>1 DEF UsedAccounts
  <1>9. CASE AllocFail
    <2>1. size' = size /\ used' = used /\ lost' = lost
      BY <1>9 DEF AllocFail, Account
    <2> QED
      BY <1>8, <2>1
  <1>10. CASE AddMemory \/ Request \/ UNCHANGED vars
    <2>1. size' = size /\ used' = used /\ lost' = lost
      BY <1>10 DEF AddMemory, Request, RequestMemory, vars
    <2> QED
      BY <1>8, <2>1
  <1> QED
    BY <1>4, <1>5, <1>6, <1>7, <1>9, <1>10 DEF Next

\* The counter of the memory in use is off by the bytes of the blocks whose
\* tjost_realloc failed, and by nothing else, in every state: a run without a
\* failure counts every live byte once, however the blocks are moved and resized.
THEOREM RtMemAccounts == Spec => []UsedAccounts
  <1> QED
    BY InitRequest, NextRequest, InitAccounts, NextAccounts, PTL DEF Spec
=============================================================================
