---------------------------- MODULE UplinkProofs -----------------------------
(***************************************************************************)
(* Proofs about Uplink for any modules, ports, connections and pipes.      *)
(***************************************************************************)
EXTENDS Uplink, FiniteSetTheorems, SequenceTheorems, NaturalsInduction, TLAPS

-----------------------------------------------------------------------------
(* Induction over sets: what the numbers or the subsets of a finite set have *)
(* in common.                                                                *)

\* What holds of zero and of the number after each is true of all.
LEMMA AllNaturals ==
    ASSUME NEW T \in SUBSET Nat, 0 \in T, \A n \in T : n + 1 \in T
    PROVE  T = Nat
<1> DEFINE R == OpToRel(<, Nat)
           Bad == Nat \ T
<1>1. SUFFICES ASSUME Bad # {} PROVE FALSE
  OBVIOUS
<1>2. PICK k \in Bad : \A j \in Bad : ~(<<j, k>> \in R)
  <2>1. Bad \subseteq Nat
    OBVIOUS
  <2> HIDE DEF Bad, R
  <2> QED  BY <1>1, <2>1, NatLessThanWellFounded, WFMin DEF R
<1>3. k \in Nat /\ k # 0 /\ k \notin T
  BY <1>2
<1>4. k - 1 \in Nat /\ (k - 1) + 1 = k
  BY <1>3
<1>5. <<k - 1, k>> \in R
  BY <1>3, <1>4 DEF OpToRel
<1>6. k - 1 \in T
  BY <1>2, <1>4, <1>5
<1> QED  BY <1>3, <1>4, <1>6

\* What holds of a set when it holds of its proper subsets holds of every subset
\* of a finite set.
LEMMA FiniteSubsets ==
    ASSUME NEW S, IsFiniteSet(S), NEW T \in SUBSET (SUBSET S),
           \A s \in SUBSET S : (\A t \in SUBSET s : t # s => t \in T) => s \in T
    PROVE  T = SUBSET S
<1> DEFINE R == StrictSubsetOrdering(S)
           Bad == (SUBSET S) \ T
<1>1. SUBSET S = FiniteSubsetsOf(S)
  BY FS_Subset DEF FiniteSubsetsOf
<1>2. IsWellFoundedOn(R, SUBSET S)
  BY <1>1, FS_StrictSubsetOrderingWellFounded
<1>3. SUFFICES ASSUME Bad # {} PROVE FALSE
  OBVIOUS
<1>4. PICK s \in Bad : \A t \in Bad : ~(<<t, s>> \in R)
  <2> HIDE DEF R, Bad
  <2>1. Bad \subseteq SUBSET S
    BY DEF Bad
  <2> QED  BY <1>2, <1>3, <2>1, WFMin
<1>5. ASSUME NEW t \in SUBSET s, t # s PROVE t \in T
  <2>1. <<t, s>> \in R
    BY <1>5 DEF StrictSubsetOrdering
  <2> QED  BY <1>4, <2>1
<1> QED  BY <1>4, <1>5

\* The largest element of a set of places in a sequence.
LEMMA Largest ==
    ASSUME NEW n \in Nat, NEW s \in SUBSET (1 .. n), s # {}
    PROVE  Max(s) \in s /\ \A x \in s : Max(s) >= x
<1> DEFINE T == {t \in SUBSET (1 .. n) : t = {} \/ \E x \in t : \A y \in t : x >= y}
<1>1. ASSUME NEW t \in SUBSET (1 .. n), \A u \in SUBSET t : u # t => u \in T
      PROVE  t \in T
  <2>1. SUFFICES ASSUME NEW a \in t PROVE \E x \in t : \A y \in t : x >= y
    OBVIOUS
  <2>2. t \ {a} \in T
    BY <1>1
  <2>3. CASE t \ {a} = {}
    <3>1. \A y \in t : y = a /\ a >= a
      BY <2>3
    <3> QED  BY <3>1
  <2>4. CASE t \ {a} # {}
    <3>1. PICK b \in t \ {a} : \A y \in t \ {a} : b >= y
      BY <2>2, <2>4
    <3>2. \A y \in t : y \in Int
      OBVIOUS
    <3>3. CASE a >= b
      <4>1. \A y \in t : a >= y
        BY <3>1, <3>2, <3>3
      <4> QED  BY <4>1
    <3>4. CASE b >= a
      <4>1. \A y \in t : b >= y
        BY <3>1, <3>2, <3>4
      <4> QED  BY <4>1
    <3> QED  BY <3>1, <3>2, <3>3, <3>4
  <2> QED  BY <2>3, <2>4
<1>2. T = SUBSET (1 .. n)
  <2>1. T \in SUBSET (SUBSET (1 .. n))
    OBVIOUS
  <2>2. IsFiniteSet(1 .. n)
    BY FS_Interval
  <2> HIDE DEF T
  <2> QED  BY <1>1, <2>1, <2>2, FiniteSubsets
<1>3. \E x \in s : \A y \in s : x >= y
  BY <1>2
<1> QED  BY <1>3 DEF Max

-----------------------------------------------------------------------------
(* What a script makes of an event. *)

Picture == [ports : SUBSET Ports, wires : SUBSET Wires, known : SUBSET (Ports \cup {"ports"})]

\* The notifications and the answers.
PortNote == [to : {Broadcast}, path : {"port"}, what : Ports, on : BOOLEAN]
WireNote == [to : {Broadcast}, path : {"connect"}, what : Wires, on : BOOLEAN]
Notice == PortNote \cup WireNote
PortsAnswer == [to : Uplinks, path : {"ports"}, what : SUBSET Ports]
WiresAnswer == {e \in [to : Uplinks, path : {"connections"}, port : Ports, what : SUBSET Wires] :
                   \A w \in e.what : e.port \in {w[1], w[2]}}
NoAnswer == [to : Uplinks, path : {"none"}]
Reply == PortsAnswer \cup WiresAnswer \cup NoAnswer
Event == Notice \cup Reply

\* A port comes or goes.
LEMMA LearnPort ==
    ASSUME NEW pic \in Picture, NEW e \in PortNote
    PROVE  /\ Learn(pic, e) \in Picture
           /\ Learn(pic, e).ports = IF e.on THEN pic.ports \cup {e.what} ELSE pic.ports \ {e.what}
           /\ Learn(pic, e).wires = pic.wires /\ Learn(pic, e).known = pic.known
<1>1. e.path = "port" /\ e.what \in Ports /\ e.on \in BOOLEAN
  BY DEF PortNote
<1>2. Learn(pic, e) = [pic EXCEPT !.ports = IF e.on THEN @ \cup {e.what} ELSE @ \ {e.what}]
  BY <1>1 DEF Learn
<1> QED  BY <1>1, <1>2 DEF Picture

\* A connection comes or goes.
LEMMA LearnWire ==
    ASSUME NEW pic \in Picture, NEW e \in WireNote
    PROVE  /\ Learn(pic, e) \in Picture
           /\ Learn(pic, e).wires = IF e.on THEN pic.wires \cup {e.what} ELSE pic.wires \ {e.what}
           /\ Learn(pic, e).ports = pic.ports /\ Learn(pic, e).known = pic.known
<1>1. e.path = "connect" /\ e.what \in Wires /\ e.on \in BOOLEAN
  BY DEF WireNote
<1>2. Learn(pic, e) = [pic EXCEPT !.wires = IF e.on THEN @ \cup {e.what} ELSE @ \ {e.what}]
  BY <1>1 DEF Learn
<1> QED  BY <1>1, <1>2 DEF Picture

\* The list of all ports.
LEMMA LearnPorts ==
    ASSUME NEW pic \in Picture, NEW e \in PortsAnswer
    PROVE  /\ Learn(pic, e) \in Picture
           /\ Learn(pic, e).ports = e.what /\ Learn(pic, e).wires = pic.wires
           /\ Learn(pic, e).known = pic.known \cup {"ports"}
<1>1. e.path = "ports" /\ e.what \subseteq Ports
  BY DEF PortsAnswer
<1>2. Learn(pic, e) = [pic EXCEPT !.ports = e.what, !.known = @ \cup {"ports"}]
  BY <1>1 DEF Learn
<1>3. pic.known \cup {"ports"} \subseteq Ports \cup {"ports"}
  BY DEF Picture
<1> QED  BY <1>1, <1>2, <1>3 DEF Picture

\* The connections of one port.
LEMMA LearnWires ==
    ASSUME NEW pic \in Picture, NEW e \in WiresAnswer
    PROVE  /\ Learn(pic, e) \in Picture
           /\ Learn(pic, e).wires = (pic.wires \ Touching(pic.wires, e.port)) \cup e.what
           /\ Learn(pic, e).ports = pic.ports
           /\ Learn(pic, e).known = pic.known \cup {e.port}
<1>1. e.path = "connections" /\ e.what \subseteq Wires /\ e.port \in Ports
  BY DEF WiresAnswer
<1>2. Learn(pic, e) = [pic EXCEPT !.wires = (@ \ Touching(@, e.port)) \cup e.what,
                                  !.known = @ \cup {e.port}]
  BY <1>1 DEF Learn
<1>3. Touching(pic.wires, e.port) \subseteq pic.wires
  BY DEF Touching
<1> HIDE DEF Touching
<1>4. pic.wires \subseteq Wires /\ pic.ports \subseteq Ports
      /\ pic.known \subseteq Ports \cup {"ports"}
  BY DEF Picture
<1>5. (pic.wires \ Touching(pic.wires, e.port)) \cup e.what \subseteq Wires
  BY <1>1, <1>4
<1>6. pic.known \cup {e.port} \subseteq Ports \cup {"ports"}
  BY <1>1, <1>4
<1>7. /\ Learn(pic, e).wires = (pic.wires \ Touching(pic.wires, e.port)) \cup e.what
      /\ Learn(pic, e).ports = pic.ports
      /\ Learn(pic, e).known = pic.known \cup {e.port}
  BY <1>2 DEF Picture
<1>8. Learn(pic, e) \in Picture
  BY <1>2, <1>4, <1>5, <1>6 DEF Picture
<1> QED  BY <1>7, <1>8

\* An answer that did not fit.
LEMMA LearnNone ==
    ASSUME NEW pic, NEW e \in NoAnswer
    PROVE  Learn(pic, e) = pic /\ \A m : Hears(m, pic, e) = pic
<1>1. e.path = "none"
  BY DEF NoAnswer
<1>2. Learn(pic, e) = pic
  BY <1>1 DEF Learn
<1> QED  BY <1>2 DEF Hears

\* What a script knows is a picture again.
LEMMA HearsType ==
    ASSUME NEW m, NEW pic \in Picture, NEW e \in Event
    PROVE  Hears(m, pic, e) \in Picture
BY LearnPort, LearnWire, LearnPorts, LearnWires, LearnNone DEF Hears, Event, Reply, Notice

-----------------------------------------------------------------------------
(* What a script makes of one event after the other. *)

Follow(m, pic, s) == FoldLeft(LAMBDA p, e : Hears(m, p, e), pic, s)

\* The fold over the events at some places, the last place last.
Step(m, pic, s, g, t) == IF t = {} THEN pic ELSE Hears(m, g[t \ {Max(t)}], s[Max(t)])

\* The function that the fold is defined by exists: for the sets of at most n
\* places it extends to the sets of one place more.
LEMMA FoldExists ==
    ASSUME NEW m, NEW pic \in Picture, NEW s \in Seq(Event)
    PROVE  \E g \in [SUBSET (1 .. Len(s)) -> Picture] :
              \A t \in SUBSET (1 .. Len(s)) : g[t] = Step(m, pic, s, g, t)
<1> DEFINE S == 1 .. Len(s)
           Small(u) == {t \in SUBSET S : Cardinality(t) <= Cardinality(u)}
           T == {u \in SUBSET S : \E g \in [Small(u) -> Picture] :
                                     \A t \in Small(u) : g[t] = Step(m, pic, s, g, t)}
<1>0. Len(s) \in Nat /\ \A i \in S : s[i] \in Event
  OBVIOUS
<1>f. IsFiniteSet(S)
  BY <1>0, FS_Interval
<1>1. \A t \in SUBSET S :
         IsFiniteSet(t) /\ Cardinality(t) \in Nat /\ (Cardinality(t) = 0 <=> t = {})
  BY <1>f, FS_Subset, FS_CardinalityType, FS_EmptySet
<1>2. \A t \in SUBSET S : t # {} =>
         Max(t) \in t /\ t \ {Max(t)} \in SUBSET S /\ Cardinality(t \ {Max(t)}) = Cardinality(t) - 1
  <2>1. TAKE t \in SUBSET S
  <2>2. HAVE t # {}
  <2>3. Max(t) \in t
    BY <1>0, <2>2, Largest
  <2>4. Cardinality(t \ {Max(t)}) = Cardinality(t) - 1
    BY <1>1, <2>3, FS_RemoveElement
  <2> QED  BY <2>3, <2>4
<1> HIDE DEF S
<1>3. ASSUME NEW u \in SUBSET S, \A t \in SUBSET u : t # u => t \in T
      PROVE  u \in T
  <2>1. CASE u = {}
    <3> DEFINE g == [t \in Small(u) |-> pic]
    <3>1. \A t \in Small(u) : t = {}
      BY <1>1, <2>1
    <3>2. \A t \in Small(u) : g[t] = Step(m, pic, s, g, t)
      BY <3>1 DEF Step
    <3>3. g \in [Small(u) -> Picture]
      OBVIOUS
    <3> HIDE DEF g, Small
    <3> QED  BY <3>2, <3>3
  <2>2. CASE u # {}
    <3> DEFINE r == u \ {Max(u)}
    <3>1. r \in SUBSET u /\ r # u /\ Cardinality(r) = Cardinality(u) - 1
      BY <1>2, <2>2
    <3>2. PICK h \in [Small(r) -> Picture] : \A t \in Small(r) : h[t] = Step(m, pic, s, h, t)
      BY <1>3, <3>1
    <3> HIDE DEF r
    <3>3. ASSUME NEW t \in Small(u), t # {}
          PROVE  /\ s[Max(t)] \in Event /\ t \ {Max(t)} \in Small(r) /\ t \ {Max(t)} \in Small(u)
                 /\ t \in SUBSET S
      <4>1. Max(t) \in S /\ t \ {Max(t)} \in SUBSET S
            /\ Cardinality(t \ {Max(t)}) = Cardinality(t) - 1
        BY <1>2, <3>3
      <4>2. /\ Cardinality(t) \in Nat /\ Cardinality(u) \in Nat /\ Cardinality(t) <= Cardinality(u)
            /\ t \in SUBSET S
        BY <1>1
      <4>3. /\ Cardinality(t \ {Max(t)}) <= Cardinality(r)
            /\ Cardinality(t \ {Max(t)}) <= Cardinality(u)
        BY <3>1, <4>1, <4>2
      <4> QED  BY <1>0, <4>1, <4>2, <4>3
    <3> DEFINE g == [t \in Small(u) |-> Step(m, pic, s, h, t)]
    <3>4. \A t \in Small(u) : Step(m, pic, s, h, t) \in Picture
      <4>1. TAKE t \in Small(u)
      <4>2. CASE t = {}
        BY <4>2 DEF Step
      <4>3. CASE t # {}
        <5>1. s[Max(t)] \in Event /\ h[t \ {Max(t)}] \in Picture
          BY <3>2, <3>3, <4>3
        <5> QED  BY <4>3, <5>1, HearsType DEF Step
      <4> QED  BY <4>2, <4>3
    <3>5. g \in [Small(u) -> Picture]
      <4> HIDE DEF Small
      <4> QED  BY <3>4
    <3>6. ASSUME NEW t \in Small(u) PROVE g[t] = Step(m, pic, s, g, t)
      <4>1. g[t] = Step(m, pic, s, h, t)
        OBVIOUS
      <4>2. CASE t # {}
        <5> DEFINE v == t \ {Max(t)}
        <5>1. v \in Small(r) /\ v \in Small(u)
          BY <3>3, <4>2
        <5>2. g[v] = h[v]
          <6> HIDE DEF v, Small
          <6>1. g[v] = Step(m, pic, s, h, v)
            BY <5>1
          <6>2. h[v] = Step(m, pic, s, h, v)
            BY <3>2, <5>1
          <6> QED  BY <6>1, <6>2
        <5> HIDE DEF g, Small
        <5> QED  BY <4>1, <4>2, <5>2 DEF Step
      <4>3. CASE t = {}
        BY <4>1, <4>3 DEF Step
      <4> QED  BY <4>2, <4>3
    <3> HIDE DEF g, Small
    <3> QED  BY <3>5, <3>6
  <2> QED  BY <2>1, <2>2
<1>4. T = SUBSET S
  <2>1. T \in SUBSET (SUBSET S)
    OBVIOUS
  <2> HIDE DEF T
  <2> QED  BY <1>f, <1>3, <2>1, FiniteSubsets
<1>5. PICK g \in [Small(S) -> Picture] : \A t \in Small(S) : g[t] = Step(m, pic, s, g, t)
  <2>1. S \in T
    BY <1>4
  <2> QED  BY <2>1
<1>6. Small(S) = SUBSET S
  BY <1>f, FS_Subset
<1> HIDE DEF Small
<1> QED  BY <1>5, <1>6 DEF S

\* Events are followed one after the other: after the first i of them a script
\* has the picture g[i].
LEMMA Following ==
    ASSUME NEW m, NEW pic \in Picture, NEW s \in Seq(Event)
    PROVE  \E g \in [0 .. Len(s) -> Picture] :
              /\ g[0] = pic /\ \A i \in 1 .. Len(s) : g[i] = Hears(m, g[i - 1], s[i])
              /\ Follow(m, pic, s) = g[Len(s)]
<1> DEFINE S == 1 .. Len(s)
           iter == CHOOSE g : g = [t \in SUBSET S |-> Step(m, pic, s, g, t)]
           g == [i \in 0 .. Len(s) |-> iter[1 .. i]]
<1>0. Len(s) \in Nat /\ DOMAIN s = S
  OBVIOUS
<1>1. PICK h \in [SUBSET S -> Picture] : \A t \in SUBSET S : h[t] = Step(m, pic, s, h, t)
  BY FoldExists
<1>2. h = [t \in SUBSET S |-> Step(m, pic, s, h, t)]
  <2> HIDE DEF S
  <2> QED  BY <1>1
<1>3. iter = [t \in SUBSET S |-> Step(m, pic, s, iter, t)]
  <2> HIDE DEF S
  <2>1. \E k : k = [t \in SUBSET S |-> Step(m, pic, s, k, t)]
    BY <1>2
  <2> QED  BY <2>1
<1>4. Follow(m, pic, s) = iter[S]
  <2> HIDE DEF S
  <2> QED  BY <1>0 DEF Follow, FoldLeft, MapThenFoldSet, Step
<1> HIDE DEF iter
<1>5. \A t \in SUBSET S : iter[t] = h[t]
  <2> DEFINE T == {t \in SUBSET S : iter[t] = h[t]}
  <2>1. ASSUME NEW u \in SUBSET S, \A t \in SUBSET u : t # u => t \in T
        PROVE  u \in T
    <3>1. iter[u] = Step(m, pic, s, iter, u) /\ h[u] = Step(m, pic, s, h, u)
      BY <1>1, <1>3
    <3>2. u # {} => iter[u \ {Max(u)}] = h[u \ {Max(u)}]
      <4>1. SUFFICES ASSUME u # {} PROVE iter[u \ {Max(u)}] = h[u \ {Max(u)}]
        OBVIOUS
      <4>2. Max(u) \in u
        BY <1>0, <4>1, Largest
      <4> QED  BY <2>1, <4>2
    <3> QED  BY <3>1, <3>2 DEF Step
  <2>2. T = SUBSET S
    <3>1. T \in SUBSET (SUBSET S)
      OBVIOUS
    <3>2. IsFiniteSet(S)
      BY <1>0, FS_Interval
    <3> HIDE DEF T, S
    <3> QED  BY <2>1, <3>1, <3>2, FiniteSubsets
  <2> QED  BY <2>2
<1>6. \A i \in 0 .. Len(s) : 1 .. i \in SUBSET S
  BY <1>0
<1>7. g \in [0 .. Len(s) -> Picture]
  BY <1>1, <1>5, <1>6
<1>8. g[0] = pic
  <2>1. 1 .. 0 = {} /\ 0 \in 0 .. Len(s)
    BY <1>0
  <2>2. iter[{}] = pic
    BY <1>3 DEF Step
  <2> QED  BY <2>1, <2>2
<1>9. ASSUME NEW i \in 1 .. Len(s) PROVE g[i] = Hears(m, g[i - 1], s[i])
  <2>1. /\ i \in 0 .. Len(s) /\ i - 1 \in 0 .. Len(s)
        /\ 1 .. i # {} /\ 1 .. i \in SUBSET S
    <3>1. i \in 0 .. Len(s) /\ i - 1 \in 0 .. Len(s) /\ i \in 1 .. i
      BY <1>0
    <3> QED  BY <1>6, <3>1
  <2>2. Max(1 .. i) = i
    <3>1. Max(1 .. i) \in 1 .. i /\ \A x \in 1 .. i : Max(1 .. i) >= x
      BY <1>0, <2>1, Largest
    <3>2. i \in 1 .. i
      OBVIOUS
    <3>3. Max(1 .. i) >= i /\ Max(1 .. i) <= i /\ Max(1 .. i) \in Int
      BY <3>1, <3>2
    <3> QED  BY <3>3
  <2>3. (1 .. i) \ {i} = 1 .. i - 1
    OBVIOUS
  <2>4. iter[1 .. i] = Step(m, pic, s, iter, 1 .. i)
    BY <1>3, <2>1
  <2>5. iter[1 .. i] = Hears(m, iter[1 .. i - 1], s[i])
    BY <2>1, <2>2, <2>3, <2>4 DEF Step
  <2> QED  BY <2>1, <2>5
<1>10. Follow(m, pic, s) = g[Len(s)]
  BY <1>0, <1>4
<1> HIDE DEF g
<1> QED  BY <1>7, <1>8, <1>9, <1>10

\* No event, no change.
LEMMA FollowNone ==
    ASSUME NEW m, NEW pic \in Picture
    PROVE  Follow(m, pic, << >>) = pic
<1>1. ASSUME NEW t \in Seq(Event), Len(t) = 0 PROVE Follow(m, pic, t) = pic
  <2>1. \E g \in [0 .. Len(t) -> Picture] :
           /\ g[0] = pic /\ \A i \in 1 .. Len(t) : g[i] = Hears(m, g[i - 1], t[i])
           /\ Follow(m, pic, t) = g[Len(t)]
    BY Following
  <2> QED  BY <1>1, <2>1
<1>2. << >> \in Seq(Event) /\ Len(<< >>) = 0
  OBVIOUS
<1> QED  BY <1>1, <1>2

\* The events lead from picture to picture.
LEMMA FollowType ==
    ASSUME NEW m, NEW pic \in Picture, NEW s \in Seq(Event)
    PROVE  Follow(m, pic, s) \in Picture
<1>1. Len(s) \in 0 .. Len(s)
  OBVIOUS
<1> QED  BY <1>1, Following

\* One event more.
LEMMA FollowLast ==
    ASSUME NEW m, NEW pic \in Picture, NEW s \in Seq(Event), NEW e \in Event
    PROVE  Follow(m, pic, s \o <<e>>) = Hears(m, Follow(m, pic, s), e)
<1> DEFINE n == Len(s)
           r == s \o <<e>>
<1>1. /\ n \in Nat /\ r \in Seq(Event) /\ Len(r) = n + 1 /\ r[n + 1] = e
      /\ \A i \in 1 .. n : r[i] = s[i]
  <2>1. <<e>> \in Seq(Event) /\ Len(<<e>>) = 1 /\ <<e>>[1] = e /\ n \in Nat
    OBVIOUS
  <2>2. /\ r \in Seq(Event) /\ Len(r) = n + 1
        /\ \A i \in 1 .. n + 1 : r[i] = IF i <= n THEN s[i] ELSE <<e>>[i - n]
    BY <2>1, ConcatProperties
  <2>3. r[n + 1] = e /\ \A i \in 1 .. n : r[i] = s[i]
    <3> HIDE DEF n, r
    <3> QED  BY <2>1, <2>2
  <2> QED  BY <2>1, <2>2, <2>3
<1> HIDE DEF r
<1>2. PICK g \in [0 .. n -> Picture] :
         /\ g[0] = pic /\ \A i \in 1 .. n : g[i] = Hears(m, g[i - 1], s[i])
         /\ Follow(m, pic, s) = g[n]
  BY Following
<1>3. PICK h \in [0 .. n + 1 -> Picture] :
         /\ h[0] = pic /\ \A i \in 1 .. n + 1 : h[i] = Hears(m, h[i - 1], r[i])
         /\ Follow(m, pic, r) = h[n + 1]
  BY <1>1, Following
<1> DEFINE T == {i \in Nat : i <= n => h[i] = g[i]}
<1> HIDE DEF n
<1>4. ASSUME NEW i \in T PROVE i + 1 \in T
  <2>1. SUFFICES ASSUME i + 1 <= n PROVE h[i + 1] = g[i + 1]
    OBVIOUS
  <2>2. i + 1 \in 1 .. n /\ i + 1 \in 1 .. n + 1 /\ (i + 1) - 1 = i /\ i <= n
    BY <1>1, <2>1
  <2>3. h[i] = g[i]
    BY <2>2
  <2> QED  BY <1>1, <1>2, <1>3, <2>2, <2>3
<1>5. T = Nat
  <2>1. T \in SUBSET Nat /\ 0 \in T
    BY <1>2, <1>3
  <2> HIDE DEF T
  <2> QED  BY <1>4, <2>1, AllNaturals
<1>6. h[n] = g[n]
  BY <1>1, <1>5
<1>7. n + 1 \in 1 .. n + 1 /\ (n + 1) - 1 = n
  BY <1>1
<1>8. Follow(m, pic, r) = Hears(m, g[n], e)
  BY <1>1, <1>3, <1>6, <1>7
<1> QED  BY <1>2, <1>8 DEF r

\* One event.
LEMMA FollowOne ==
    ASSUME NEW m, NEW pic \in Picture, NEW e \in Event
    PROVE  Follow(m, pic, <<e>>) = Hears(m, pic, e)
<1>1. << >> \in Seq(Event) /\ << >> \o <<e>> = <<e>>
  OBVIOUS
<1>2. Follow(m, pic, << >> \o <<e>>) = Hears(m, Follow(m, pic, << >>), e)
  BY <1>1, FollowLast
<1> QED  BY <1>1, <1>2, FollowNone

\* A sequence that is not empty is what is before its last event, and that.
LEMMA BeforeLast ==
    ASSUME NEW X, NEW n \in Nat, NEW t \in Seq(X), Len(t) = n + 1
    PROVE  /\ SubSeq(t, 1, n) \in Seq(X) /\ Len(SubSeq(t, 1, n)) = n /\ t[n + 1] \in X
           /\ t = SubSeq(t, 1, n) \o <<t[n + 1]>>
<1>1. t[n + 1] \in X /\ \A i \in 1 .. n : t[i] \in X
  OBVIOUS
<1>2. SubSeq(t, 1, n) \in Seq(X) /\ Len(SubSeq(t, 1, n)) = n
  BY <1>1, SubSeqProperties
<1>3. SubSeq(t, 1, n + 1) = SubSeq(t, 1, (n + 1) - 1) \o <<t[n + 1]>>
  <2>1. 1 \in 1 .. Len(t) /\ n + 1 \in 1 .. Len(t)
    OBVIOUS
  <2> QED  BY <2>1, SubSeqRecursiveSecond
<1>4. SubSeq(t, 1, n + 1) = t
  BY SubSeqFull
<1> QED  BY <1>1, <1>2, <1>3, <1>4

\* How sequences of events are grouped does not matter.
LEMMA Regroup ==
    ASSUME NEW s \in Seq(Event), NEW t \in Seq(Event), NEW u \in Seq(Event)
    PROVE  (s \o t) \o u = s \o (t \o u)
BY ConcatAssociative

\* Events after others.
LEMMA FollowConcat ==
    ASSUME NEW m, NEW pic \in Picture, NEW s \in Seq(Event), NEW t \in Seq(Event)
    PROVE  Follow(m, pic, s \o t) = Follow(m, Follow(m, pic, s), t)
<1> DEFINE p == Follow(m, pic, s)
           Splits(u) == Follow(m, pic, s \o u) = Follow(m, p, u)
           T == {n \in Nat : \A u \in Seq(Event) : Len(u) = n => Splits(u)}
<1>1. p \in Picture
  BY FollowType
<1>2. 0 \in T
  <2>1. ASSUME NEW u \in Seq(Event), Len(u) = 0 PROVE Splits(u)
    <3>1. u = << >> /\ s \o << >> = s
      BY <2>1
    <3> HIDE DEF p
    <3> QED  BY <1>1, <3>1, FollowNone DEF p
  <2> HIDE DEF Splits
  <2> QED  BY <2>1
<1>3. ASSUME NEW n \in T PROVE n + 1 \in T
  <2>1. ASSUME NEW u \in Seq(Event), Len(u) = n + 1 PROVE Splits(u)
    <3> DEFINE v == SubSeq(u, 1, n)
               e == u[n + 1]
    <3>1. v \in Seq(Event) /\ e \in Event /\ Len(v) = n /\ u = v \o <<e>>
      <4>1. n \in Nat
        OBVIOUS
      <4> HIDE DEF T, Splits
      <4> QED  BY <2>1, <4>1, BeforeLast
    <3> HIDE DEF v, e
    <3>2. Follow(m, pic, s \o v) = Follow(m, p, v)
      BY <3>1
    <3>3. s \o u = (s \o v) \o <<e>> /\ s \o v \in Seq(Event)
      <4>1. <<e>> \in Seq(Event)
        BY <3>1
      <4>2. (s \o v) \o <<e>> = s \o (v \o <<e>>)
        BY <3>1, <4>1, Regroup
      <4>3. s \o v \in Seq(Event)
        BY <3>1, ConcatProperties
      <4>4. u = v \o <<e>>
        BY <3>1
      <4> HIDE DEF p, Splits, T
      <4> QED  BY <4>2, <4>3, <4>4
    <3>4. Follow(m, pic, s \o u) = Hears(m, Follow(m, pic, s \o v), e)
      <4>1. e \in Event
        BY <3>1
      <4> HIDE DEF p, Splits, T
      <4>2. Follow(m, pic, (s \o v) \o <<e>>) = Hears(m, Follow(m, pic, s \o v), e)
        BY <3>3, <4>1, FollowLast
      <4> QED  BY <3>3, <4>2
    <3> HIDE DEF p
    <3>5. Follow(m, p, u) = Hears(m, Follow(m, p, v), e)
      BY <1>1, <3>1, FollowLast
    <3> QED  BY <3>2, <3>4, <3>5
  <2> HIDE DEF Splits
  <2> QED  BY <2>1
<1>4. T = Nat
  <2>1. T \in SUBSET Nat
    OBVIOUS
  <2> HIDE DEF T
  <2> QED  BY <1>2, <1>3, <2>1, AllNaturals
<1>5. Len(t) \in Nat
  OBVIOUS
<1>6. Splits(t)
  <2> HIDE DEF Splits
  <2> QED  BY <1>4, <1>5
<1> QED  BY <1>6

-----------------------------------------------------------------------------
(* What notifications make of a picture. *)

\* A notification reaches every script.
LEMMA NoticeHeard ==
    ASSUME NEW m, NEW pic, NEW e \in Notice
    PROVE  Hears(m, pic, e) = Learn(pic, e)
BY DEF Hears, Notice, PortNote, WireNote

\* About a connection a notification makes the same of two pictures that agree on
\* it, and about a port likewise; it tells nothing about what was asked for.
LEMMA NoticeOnItem ==
    ASSUME NEW m, NEW e \in Notice, NEW a \in Picture, NEW b \in Picture
    PROVE  /\ Hears(m, a, e).known = a.known
           /\ \A w : (w \in a.wires <=> w \in b.wires) =>
                        (w \in Hears(m, a, e).wires <=> w \in Hears(m, b, e).wires)
           /\ \A p : (p \in a.ports <=> p \in b.ports) =>
                        (p \in Hears(m, a, e).ports <=> p \in Hears(m, b, e).ports)
<1>1. Hears(m, a, e) = Learn(a, e) /\ Hears(m, b, e) = Learn(b, e)
  BY NoticeHeard
<1>2. CASE e \in PortNote
  <2>1. /\ Learn(a, e).known = a.known /\ Learn(a, e).wires = a.wires /\ Learn(b, e).wires = b.wires
        /\ Learn(a, e).ports = IF e.on THEN a.ports \cup {e.what} ELSE a.ports \ {e.what}
        /\ Learn(b, e).ports = IF e.on THEN b.ports \cup {e.what} ELSE b.ports \ {e.what}
    BY <1>2, LearnPort
  <2>2. ASSUME NEW p, p \in a.ports <=> p \in b.ports
        PROVE  p \in Learn(a, e).ports <=> p \in Learn(b, e).ports
    BY <2>1, <2>2
  <2> QED  BY <1>1, <2>1, <2>2
<1>3. CASE e \in WireNote
  <2>1. /\ Learn(a, e).known = a.known /\ Learn(a, e).ports = a.ports /\ Learn(b, e).ports = b.ports
        /\ Learn(a, e).wires = IF e.on THEN a.wires \cup {e.what} ELSE a.wires \ {e.what}
        /\ Learn(b, e).wires = IF e.on THEN b.wires \cup {e.what} ELSE b.wires \ {e.what}
    BY <1>3, LearnWire
  <2>2. ASSUME NEW w, w \in a.wires <=> w \in b.wires
        PROVE  w \in Learn(a, e).wires <=> w \in Learn(b, e).wires
    BY <2>1, <2>2
  <2> QED  BY <1>1, <2>1, <2>2
<1> QED  BY <1>2, <1>3 DEF Notice

\* The same for any number of notifications.
LEMMA NoticesOnItem ==
    ASSUME NEW m, NEW t \in Seq(Notice), NEW a \in Picture, NEW b \in Picture
    PROVE  /\ Follow(m, a, t).known = a.known
           /\ \A w : (w \in a.wires <=> w \in b.wires) =>
                        (w \in Follow(m, a, t).wires <=> w \in Follow(m, b, t).wires)
           /\ \A p : (p \in a.ports <=> p \in b.ports) =>
                        (p \in Follow(m, a, t).ports <=> p \in Follow(m, b, t).ports)
<1> DEFINE Same(u) ==
               /\ Follow(m, a, u).known = a.known
               /\ \A w : (w \in a.wires <=> w \in b.wires) =>
                            (w \in Follow(m, a, u).wires <=> w \in Follow(m, b, u).wires)
               /\ \A p : (p \in a.ports <=> p \in b.ports) =>
                            (p \in Follow(m, a, u).ports <=> p \in Follow(m, b, u).ports)
           T == {n \in Nat : \A u \in Seq(Notice) : Len(u) = n => Same(u)}
<1>1. Seq(Notice) \subseteq Seq(Event) /\ Notice \subseteq Event
  BY SeqMonotonic DEF Event
<1>2. 0 \in T
  <2>1. ASSUME NEW u \in Seq(Notice), Len(u) = 0 PROVE Same(u)
    <3>1. u = << >>
      BY <2>1
    <3>2. Follow(m, a, u) = a /\ Follow(m, b, u) = b
      BY <3>1, FollowNone
    <3> QED  BY <3>2
  <2> HIDE DEF Same
  <2> QED  BY <2>1
<1>3. ASSUME NEW n \in T PROVE n + 1 \in T
  <2>1. ASSUME NEW u \in Seq(Notice), Len(u) = n + 1 PROVE Same(u)
    <3>1. n \in Nat /\ \A v \in Seq(Notice) : Len(v) = n => Same(v)
      OBVIOUS
    <3> DEFINE v == SubSeq(u, 1, n)
               e == u[n + 1]
    <3>2. v \in Seq(Notice) /\ e \in Notice /\ Len(v) = n /\ u = v \o <<e>>
      <4> HIDE DEF T, Same
      <4> QED  BY <2>1, <3>1, BeforeLast
    <3> HIDE DEF v, e
    <3>3. Same(v) /\ v \in Seq(Event) /\ e \in Event
      BY <1>1, <3>1, <3>2
    <3>4. Follow(m, a, v) \in Picture /\ Follow(m, b, v) \in Picture
      BY <3>3, FollowType
    <3>5. /\ Follow(m, a, u) = Hears(m, Follow(m, a, v), e)
          /\ Follow(m, b, u) = Hears(m, Follow(m, b, v), e)
      BY <3>2, <3>3, FollowLast
    <3> DEFINE c == Follow(m, a, v)
               d == Follow(m, b, v)
    <3>6. /\ c.known = a.known
          /\ \A w : (w \in a.wires <=> w \in b.wires) => (w \in c.wires <=> w \in d.wires)
          /\ \A p : (p \in a.ports <=> p \in b.ports) => (p \in c.ports <=> p \in d.ports)
      BY <3>3
    <3> HIDE DEF c, d
    <3>7. /\ Hears(m, c, e).known = c.known
          /\ \A w : (w \in c.wires <=> w \in d.wires) =>
                       (w \in Hears(m, c, e).wires <=> w \in Hears(m, d, e).wires)
          /\ \A p : (p \in c.ports <=> p \in d.ports) =>
                       (p \in Hears(m, c, e).ports <=> p \in Hears(m, d, e).ports)
      <4>1. c \in Picture /\ d \in Picture
        BY <3>4 DEF c, d
      <4> QED  BY <3>2, <4>1, NoticeOnItem
    <3>8. Follow(m, a, u) = Hears(m, c, e) /\ Follow(m, b, u) = Hears(m, d, e)
      BY <3>5 DEF c, d
    <3> QED  BY <3>6, <3>7, <3>8
  <2> HIDE DEF Same
  <2> QED  BY <2>1
<1>4. T = Nat
  <2>1. T \in SUBSET Nat
    OBVIOUS
  <2> HIDE DEF T
  <2> QED  BY <1>2, <1>3, <2>1, AllNaturals
<1>5. Len(t) \in Nat
  OBVIOUS
<1>6. Same(t)
  <2> HIDE DEF Same
  <2> QED  BY <1>4, <1>5
<1> QED  BY <1>6

\* Whether a port or a connection is there, according to the graph g.
Holds(g, e) == IF e.path = "port" THEN e.what \in g.ports ELSE e.what \in g.wires

\* The last notification about a port or a connection tells what is so.
Settled(g, t) ==
    \A i \in 1 .. Len(t) :
        (\A j \in i + 1 .. Len(t) : t[j].path # t[i].path \/ t[j].what # t[i].what)
            => (t[i].on <=> Holds(g, t[i]))

\* A picture agrees with the graph on a port or on a connection.
Right(g, pic, k, x) == IF k = "port" THEN x \in pic.ports <=> x \in g.ports
                                  ELSE x \in pic.wires <=> x \in g.wires

\* A notification leaves a picture what it is about every other item.
LEMMA NoticeLeaves ==
    ASSUME NEW g, NEW m, NEW pic \in Picture, NEW e \in Notice, NEW k \in {"port", "connect"},
           NEW x, e.path # k \/ e.what # x
    PROVE  Right(g, Hears(m, pic, e), k, x) <=> Right(g, pic, k, x)
<1>1. Hears(m, pic, e) = Learn(pic, e)
  BY NoticeHeard
<1>2. CASE e \in PortNote
  <2>1. /\ Learn(pic, e).wires = pic.wires
        /\ Learn(pic, e).ports = IF e.on THEN pic.ports \cup {e.what} ELSE pic.ports \ {e.what}
    BY <1>2, LearnPort
  <2>2. e.path = "port"
    BY <1>2 DEF PortNote
  <2>3. CASE k = "port"
    <3>1. x \in Learn(pic, e).ports <=> x \in pic.ports
      BY <2>1, <2>2, <2>3
    <3> QED  BY <1>1, <2>3, <3>1 DEF Right
  <2>4. CASE k = "connect"
    BY <1>1, <2>1, <2>4 DEF Right
  <2> QED  BY <2>3, <2>4
<1>3. CASE e \in WireNote
  <2>1. /\ Learn(pic, e).ports = pic.ports
        /\ Learn(pic, e).wires = IF e.on THEN pic.wires \cup {e.what} ELSE pic.wires \ {e.what}
    BY <1>3, LearnWire
  <2>2. e.path = "connect"
    BY <1>3 DEF WireNote
  <2>3. CASE k = "connect"
    <3>1. x \in Learn(pic, e).wires <=> x \in pic.wires
      BY <2>1, <2>2, <2>3
    <3> QED  BY <1>1, <2>3, <3>1 DEF Right
  <2>4. CASE k = "port"
    BY <1>1, <2>1, <2>4 DEF Right
  <2> QED  BY <2>3, <2>4
<1> QED  BY <1>2, <1>3 DEF Notice

\* A notification that tells what is so sets its item right.
LEMMA NoticeRight ==
    ASSUME NEW g, NEW m, NEW pic \in Picture, NEW e \in Notice, e.on <=> Holds(g, e)
    PROVE  Right(g, Hears(m, pic, e), e.path, e.what)
<1>1. Hears(m, pic, e) = Learn(pic, e)
  BY NoticeHeard
<1>2. CASE e \in PortNote
  <2>1. Learn(pic, e).ports = IF e.on THEN pic.ports \cup {e.what} ELSE pic.ports \ {e.what}
    BY <1>2, LearnPort
  <2>2. e.path = "port" /\ e.on \in BOOLEAN
    BY <1>2 DEF PortNote
  <2>3. e.what \in Learn(pic, e).ports <=> e.on
    BY <2>1, <2>2
  <2> QED  BY <1>1, <2>2, <2>3 DEF Right, Holds
<1>3. CASE e \in WireNote
  <2>1. Learn(pic, e).wires = IF e.on THEN pic.wires \cup {e.what} ELSE pic.wires \ {e.what}
    BY <1>3, LearnWire
  <2>2. e.path = "connect" /\ e.on \in BOOLEAN
    BY <1>3 DEF WireNote
  <2>3. e.what \in Learn(pic, e).wires <=> e.on
    BY <2>1, <2>2
  <2> QED  BY <1>1, <2>2, <2>3 DEF Right, Holds
<1> QED  BY <1>2, <1>3 DEF Notice

\* What is behind the first of some settled notifications is settled; the first
\* tells what is so if no later one is about the same item.
LEMMA SettledTail ==
    ASSUME NEW g, NEW t \in Seq(Notice), t # << >>, Settled(g, t)
    PROVE  /\ Settled(g, Tail(t))
           /\ (\A j \in 1 .. Len(Tail(t)) :
                  Tail(t)[j].path # t[1].path \/ Tail(t)[j].what # t[1].what)
                => (t[1].on <=> Holds(g, t[1]))
<1> DEFINE r == Tail(t)
<1>1. /\ Len(t) \in Nat \ {0} /\ Len(r) = Len(t) - 1 /\ \A i \in 1 .. Len(r) : r[i] = t[i + 1]
  BY HeadTailProperties, LenProperties
<1> HIDE DEF r
<1>2. ASSUME NEW i \in 1 .. Len(r),
             \A j \in i + 1 .. Len(r) : r[j].path # r[i].path \/ r[j].what # r[i].what
      PROVE  r[i].on <=> Holds(g, r[i])
  <2>1. i + 1 \in 1 .. Len(t) /\ r[i] = t[i + 1]
    BY <1>1
  <2>2. ASSUME NEW j \in (i + 1) + 1 .. Len(t)
        PROVE  t[j].path # t[i + 1].path \/ t[j].what # t[i + 1].what
    <3>1. j - 1 \in i + 1 .. Len(r) /\ j - 1 \in 1 .. Len(r) /\ (j - 1) + 1 = j
      BY <1>1
    <3>2. r[j - 1] = t[j]
      BY <1>1, <3>1
    <3> QED  BY <1>2, <2>1, <3>1, <3>2
  <2> QED  BY <2>1, <2>2 DEF Settled
<1>3. ASSUME \A j \in 1 .. Len(r) : r[j].path # t[1].path \/ r[j].what # t[1].what
      PROVE  t[1].on <=> Holds(g, t[1])
  <2>1. 1 \in 1 .. Len(t)
    BY <1>1
  <2>2. ASSUME NEW j \in 1 + 1 .. Len(t) PROVE t[j].path # t[1].path \/ t[j].what # t[1].what
    <3>1. j - 1 \in 1 .. Len(r) /\ (j - 1) + 1 = j
      BY <1>1
    <3>2. r[j - 1] = t[j]
      BY <1>1, <3>1
    <3> QED  BY <1>3, <3>1, <3>2
  <2> QED  BY <2>1, <2>2 DEF Settled
<1>4. Settled(g, r)
  BY <1>2 DEF Settled
<1> QED  BY <1>3, <1>4 DEF r

\* A sequence that is not empty is its head and what is behind it.
LEMMA HeadAndTail ==
    ASSUME NEW X, NEW t \in Seq(X), t # << >>
    PROVE  /\ t = <<t[1]>> \o Tail(t) /\ t[1] \in X /\ Tail(t) \in Seq(X)
           /\ Len(Tail(t)) = Len(t) - 1 /\ Head(t) = t[1] /\ Len(t) \in Nat \ {0}
           /\ \A i \in 1 .. Len(Tail(t)) : Tail(t)[i] = t[i + 1]
<1>1. /\ Len(t) \in Nat \ {0} /\ Len(Tail(t)) = Len(t) - 1 /\ Tail(t) \in Seq(X) /\ t[1] \in X
      /\ \A i \in 1 .. Len(Tail(t)) : Tail(t)[i] = t[i + 1]
  BY HeadTailProperties, LenProperties
<1>2. SubSeq(t, 1, Len(t)) = <<t[1]>> \o SubSeq(t, 1 + 1, Len(t))
  <2>1. 1 \in 1 .. Len(t) /\ Len(t) \in 1 .. Len(t)
    BY <1>1
  <2> QED  BY <2>1, SubSeqRecursiveFirst
<1>3. SubSeq(t, 1, Len(t)) = t /\ Tail(t) = SubSeq(t, 2, Len(t))
  BY SubSeqFull, TailIsSubSeq
<1>4. t = <<t[1]>> \o Tail(t)
  BY <1>2, <1>3
<1> QED  BY <1>1, <1>4

\* Settled notifications leave a picture right where it was right before, though
\* they may be older than what it knows.
LEMMA SettledLeads ==
    ASSUME NEW g, NEW m, NEW t \in Seq(Notice), NEW pic \in Picture,
           NEW k \in {"port", "connect"}, NEW x
    PROVE  Settled(g, t) /\ Right(g, pic, k, x) => Right(g, Follow(m, pic, t), k, x)
<1>0. ASSUME NEW q \in Picture, NEW e \in Notice, e.path # k \/ e.what # x
      PROVE  Right(g, Hears(m, q, e), k, x) <=> Right(g, q, k, x)
  BY <1>0, NoticeLeaves
<1> DEFINE About(e) == e.path = k /\ e.what = x
           Leads(u) == \A q \in Picture :
                          Right(g, q, k, x) \/ (\E i \in 1 .. Len(u) : About(u[i]))
                             => Right(g, Follow(m, q, u), k, x)
           T == {n \in Nat : \A u \in Seq(Notice) : Len(u) = n /\ Settled(g, u) => Leads(u)}
<1>1. Seq(Notice) \subseteq Seq(Event) /\ Notice \subseteq Event
  BY SeqMonotonic DEF Event
<1>2. 0 \in T
  <2>1. ASSUME NEW u \in Seq(Notice), Len(u) = 0 PROVE Leads(u)
    <3>1. u = << >> /\ 1 .. Len(u) = {}
      BY <2>1
    <3> QED  BY <3>1, FollowNone
  <2> HIDE DEF Leads
  <2> QED  BY <2>1
<1>3. ASSUME NEW n \in T PROVE n + 1 \in T
  <2>1. ASSUME NEW u \in Seq(Notice), Len(u) = n + 1, Settled(g, u) PROVE Leads(u)
    <3> DEFINE h == u[1]
               r == Tail(u)
    <3>1. n \in Nat /\ \A v \in Seq(Notice) : Len(v) = n /\ Settled(g, v) => Leads(v)
      OBVIOUS
    <3>2. /\ u = <<h>> \o r /\ h \in Notice /\ r \in Seq(Notice) /\ Len(r) = n
          /\ \A i \in 1 .. Len(r) : r[i] = u[i + 1]
      <4>1. u # << >>
        BY <2>1, <3>1
      <4> HIDE DEF T, Leads
      <4> QED  BY <2>1, <3>1, <4>1, HeadAndTail
    <3>3. /\ Settled(g, r)
          /\ (\A j \in 1 .. Len(r) : r[j].path # h.path \/ r[j].what # h.what)
                => (h.on <=> Holds(g, h))
      <4>1. u # << >>
        BY <2>1, <3>1
      <4> HIDE DEF T, Leads
      <4> QED  BY <2>1, <4>1, SettledTail
    <3> HIDE DEF T
    <3>4. Leads(r)
      <4> HIDE DEF Leads
      <4> QED  BY <3>1, <3>2, <3>3
    <3> HIDE DEF h, r
    <3>5. SUFFICES ASSUME NEW q \in Picture,
                          Right(g, q, k, x) \/ (\E i \in 1 .. Len(u) : About(u[i]))
                   PROVE  Right(g, Follow(m, q, u), k, x)
      OBVIOUS
    <3>6. h \in Event /\ r \in Seq(Event) /\ <<h>> \in Seq(Event)
      BY <1>1, <3>2
    <3>7. Follow(m, q, u) = Follow(m, Hears(m, q, h), r) /\ Hears(m, q, h) \in Picture
      <4>1. Follow(m, q, <<h>> \o r) = Follow(m, Follow(m, q, <<h>>), r)
        BY <3>6, FollowConcat
      <4>2. Follow(m, q, <<h>>) = Hears(m, q, h)
        BY <3>6, FollowOne
      <4> QED  BY <3>2, <3>6, <4>1, <4>2, HearsType
    <3>8. CASE \E i \in 1 .. Len(r) : About(r[i])
      BY <3>4, <3>7, <3>8
    <3>9. CASE (~ \E i \in 1 .. Len(r) : About(r[i])) /\ About(h)
      <4>1. h.on <=> Holds(g, h)
        BY <3>3, <3>9
      <4>2. h \in Notice /\ h.path = k /\ h.what = x
        BY <3>2, <3>9
      <4>3. Right(g, Hears(m, q, h), h.path, h.what)
        BY <4>1, <4>2, NoticeRight
      <4> QED  BY <3>4, <3>7, <4>2, <4>3
    <3>10. CASE (~ \E i \in 1 .. Len(r) : About(r[i])) /\ ~About(h)
      <4>1. Right(g, q, k, x)
        <5>1. SUFFICES ASSUME NEW i \in 1 .. Len(u), About(u[i]) PROVE FALSE
          BY <3>5
        <5>2. i = 1 \/ (i - 1 \in 1 .. Len(r) /\ (i - 1) + 1 = i)
          BY <2>1, <3>1, <3>2
        <5> QED  BY <3>2, <3>10, <5>1, <5>2 DEF h
      <4>2. Right(g, Hears(m, q, h), k, x)
        <5>1. h.path # k \/ h.what # x
          BY <3>10
        <5> HIDE DEF Leads, About
        <5>2. h \in Notice
          BY <3>2
        <5> QED  BY <1>0, <4>1, <5>1, <5>2
      <4> QED  BY <3>4, <3>7, <4>2
    <3> QED  BY <3>8, <3>9, <3>10
  <2> HIDE DEF Leads
  <2> QED  BY <2>1
<1>4. T = Nat
  <2>1. T \in SUBSET Nat
    OBVIOUS
  <2> HIDE DEF T
  <2> QED  BY <1>2, <1>3, <2>1, AllNaturals
<1>5. Settled(g, t) => Leads(t)
  <2>1. Len(t) \in Nat
    OBVIOUS
  <2> HIDE DEF Leads
  <2> QED  BY <1>4, <2>1
<1> QED  BY <1>5

-----------------------------------------------------------------------------
(* The invariant. *)

Graph == [ports : SUBSET Ports, wires : SUBSET Wires]

\* What notifications are about.
Items == ({"port"} \X Ports) \cup ({"connect"} \X Wires)

\* Until the writers meet, the pipe and what scripts know are sound.
TypeInv ==
    /\ graph \in Graph /\ notes \in Seq(Notice)
    /\ tx \in Seq([from : Uplinks, ask : Questions])
    /\ noting = << >> \/ \E e \in Notice : noting = <<e>>
    /\ replying = << >> \/ \E e \in Reply : replying = <<e>>
    /\ writing \in BOOLEAN /\ (writing => replying # << >>)
    /\ met \in BOOLEAN /\ missed \in BOOLEAN
    /\ overtaken \in [Uplinks -> SUBSET Items]
    /\ ~met => /\ rx \in Seq(Event) /\ view \in [Uplinks -> Picture]
               /\ ~writing \/ noting = << >>

\* What is on its way to the scripts, and what they will know when it is there.
Way == rx \o replying \o noting \o notes
End(m) == Follow(m, view[m], Way)

\* A picture agrees with the graph g as far as it was asked for, except for the
\* items in O.
Agrees(g, pic, O) ==
    /\ "ports" \in pic.known =>
          \A x \in Ports : <<"port", x>> \notin O => Right(g, pic, "port", x)
    /\ \A p \in Ports : p \in pic.known =>
          \A w \in Wires : p \in {w[1], w[2]} /\ <<"connect", w>> \notin O =>
                              Right(g, pic, "connect", w)

\* The notifications that are under way end with what is so, and the events that
\* are under way bring every script there, except for what was overtaken.
NotesInv == Settled(graph, noting \o notes)
ViewInv == ~met /\ ~missed => \A m \in Uplinks : Agrees(graph, End(m), overtaken[m])
UplinkInv == TypeInv /\ NotesInv /\ ViewInv

-----------------------------------------------------------------------------
(* What a change of the graph and its notification do. *)

\* Whether an item is in a graph.
There(g, k, x) == IF k = "port" THEN x \in g.ports ELSE x \in g.wires

\* The graph h is g with the change that e reports.
Changes(g, h, e) ==
    /\ e.on <=> There(h, e.path, e.what)
    /\ \A k \in {"port", "connect"} : \A x :
          k # e.path \/ x # e.what => (There(g, k, x) <=> There(h, k, x))

\* With its notification behind them, settled notifications are settled again.
LEMMA SettledAppend ==
    ASSUME NEW g, NEW h, NEW t \in Seq(Notice), NEW e \in Notice
    PROVE  Settled(g, t) /\ Changes(g, h, e) => Settled(h, Append(t, e))
<1> DEFINE r == Append(t, e)
<1>1. /\ Len(t) \in Nat /\ Len(r) = Len(t) + 1 /\ r[Len(t) + 1] = e
      /\ \A i \in 1 .. Len(t) : r[i] = t[i] /\ t[i] \in Notice
  OBVIOUS
<1>2. \A d \in Notice : d.path \in {"port", "connect"} /\ \A f : Holds(f, d) <=> There(f, d.path, d.what)
  BY DEF Notice, PortNote, WireNote, Holds, There
<1> HIDE DEF r
<1>3. SUFFICES ASSUME Settled(g, t), Changes(g, h, e), NEW i \in 1 .. Len(r),
                      \A j \in i + 1 .. Len(r) : r[j].path # r[i].path \/ r[j].what # r[i].what
               PROVE  r[i].on <=> Holds(h, r[i])
  BY DEF Settled, r
<1>4. CASE i = Len(t) + 1
  BY <1>1, <1>2, <1>3, <1>4 DEF Changes
<1>5. CASE i \in 1 .. Len(t)
  <2>1. r[i] = t[i] /\ t[i] \in Notice
    BY <1>1, <1>5
  <2>2. \A j \in i + 1 .. Len(t) : t[j].path # t[i].path \/ t[j].what # t[i].what
    <3>1. TAKE j \in i + 1 .. Len(t)
    <3>2. j \in i + 1 .. Len(r) /\ j \in 1 .. Len(t)
      BY <1>1, <1>5
    <3>3. r[j] = t[j]
      BY <1>1, <3>2
    <3> QED  BY <1>3, <2>1, <3>2, <3>3
  <2>3. t[i].on <=> Holds(g, t[i])
    BY <1>3, <1>5, <2>2 DEF Settled
  <2>4. e.path # t[i].path \/ e.what # t[i].what
    <3>1. Len(t) + 1 \in i + 1 .. Len(r)
      BY <1>1, <1>5
    <3> QED  BY <1>1, <1>3, <2>1, <3>1
  <2>5. Holds(g, t[i]) <=> Holds(h, t[i])
    BY <1>2, <1>3, <2>1, <2>4 DEF Changes
  <2> QED  BY <2>1, <2>3, <2>5
<1> QED  BY <1>1, <1>3, <1>4, <1>5

\* Hearing of the change, a script that agreed with the graph agrees with it again,
\* also on what has changed.
LEMMA AgreesAfter ==
    ASSUME NEW g, NEW h, NEW m, NEW pic \in Picture, NEW e \in Notice, NEW O, NEW P,
           \A i : i \in O => i \in P \/ i = <<e.path, e.what>>
    PROVE  Changes(g, h, e) /\ Agrees(g, pic, O) => Agrees(h, Hears(m, pic, e), P)
<1> DEFINE q == Hears(m, pic, e)
<1>1. q.known = pic.known
  BY NoticeOnItem
<1>2. ASSUME NEW k \in {"port", "connect"}, NEW x, Changes(g, h, e),
             <<k, x>> \notin O => Right(g, pic, k, x), <<k, x>> \notin P
      PROVE  Right(h, q, k, x)
  <2>1. CASE e.path = k /\ e.what = x
    <3>1. e.on <=> Holds(h, e)
      BY <1>2 DEF Changes, Holds, There
    <3>2. Right(h, q, e.path, e.what)
      BY <3>1, NoticeRight
    <3> QED  BY <2>1, <3>2
  <2>2. CASE e.path # k \/ e.what # x
    <3>1. Right(h, q, k, x) <=> Right(h, pic, k, x)
      BY <2>2, NoticeLeaves
    <3>2. There(g, k, x) <=> There(h, k, x)
      BY <1>2, <2>2 DEF Changes
    <3>3. Right(g, pic, k, x) <=> Right(h, pic, k, x)
      BY <3>2 DEF Right, There
    <3>4. <<k, x>> # <<e.path, e.what>>
      BY <2>2
    <3>5. <<k, x>> \notin O
      BY <1>2, <3>4
    <3> QED  BY <1>2, <3>1, <3>3, <3>5
  <2> QED  BY <2>1, <2>2
<1> HIDE DEF q
<1>3. SUFFICES ASSUME Changes(g, h, e), Agrees(g, pic, O) PROVE Agrees(h, q, P)
  BY DEF q
<1>4. ASSUME "ports" \in q.known, NEW x \in Ports, <<"port", x>> \notin P
      PROVE  Right(h, q, "port", x)
  <2>1. <<"port", x>> \notin O => Right(g, pic, "port", x)
    BY <1>1, <1>3, <1>4 DEF Agrees
  <2> QED  BY <1>2, <1>3, <1>4, <2>1
<1>5. ASSUME NEW p \in Ports, p \in q.known, NEW w \in Wires, p \in {w[1], w[2]},
             <<"connect", w>> \notin P
      PROVE  Right(h, q, "connect", w)
  <2>1. <<"connect", w>> \notin O => Right(g, pic, "connect", w)
    BY <1>1, <1>3, <1>5 DEF Agrees
  <2> QED  BY <1>2, <1>3, <1>5, <2>1
<1> QED  BY <1>4, <1>5 DEF Agrees

-----------------------------------------------------------------------------
(* What an answer does, though notifications that are older follow it. *)

\* A list of all ports.
LEMMA PortsHeard ==
    ASSUME NEW g \in Graph, NEW m, NEW t \in Seq(Notice), NEW pic \in Picture,
           NEW r \in PortsAnswer, r.what = g.ports, r.to \in {m, Broadcast}, NEW O, NEW P,
           \A i : i \in O => i \in P \/ Lists(r, i)
    PROVE  Settled(g, t) /\ Agrees(g, Follow(m, pic, t), O) =>
              Agrees(g, Follow(m, Hears(m, pic, r), t), P)
<1> DEFINE q == Hears(m, pic, r)
           a == Follow(m, pic, t)
           b == Follow(m, q, t)
<1>1. q \in Picture
  BY HearsType DEF Event, Reply
<1>2. q.ports = g.ports /\ q.wires = pic.wires /\ q.known = pic.known \cup {"ports"}
  BY LearnPorts DEF Hears
<1>3. a.known = pic.known /\ b.known = q.known
  <2> HIDE DEF q
  <2> QED  BY <1>1, NoticesOnItem
<1>4. \A w : w \in a.wires <=> w \in b.wires
  <2> HIDE DEF q
  <2> QED  BY <1>1, <1>2, NoticesOnItem
<1>5. ASSUME NEW x \in Ports, Settled(g, t) PROVE Right(g, b, "port", x)
  <2>1. Right(g, q, "port", x)
    BY <1>2 DEF Right
  <2> HIDE DEF q
  <2> QED  BY <1>1, <1>5, <2>1, SettledLeads
<1>6. \A w : <<"connect", w>> \in O => <<"connect", w>> \in P
  <2>1. r.path = "ports"
    BY DEF PortsAnswer
  <2>2. \A w : ~Lists(r, <<"connect", w>>)
    BY <2>1 DEF Lists
  <2> QED  BY <2>2
<1> HIDE DEF q, a, b
<1>7. ASSUME NEW p \in Ports, p \in b.known, NEW w \in Wires, p \in {w[1], w[2]}, Agrees(g, a, O),
             <<"connect", w>> \notin P
      PROVE  Right(g, b, "connect", w)
  <2>1. p # "ports"
    BY UplinkAssumption DEF UplinkAssumption
  <2>2. p \in a.known
    BY <1>2, <1>3, <1>7, <2>1
  <2>3. Right(g, a, "connect", w)
    BY <1>6, <1>7, <2>2 DEF Agrees
  <2> QED  BY <1>4, <2>3 DEF Right
<1>8. Settled(g, t) /\ Agrees(g, a, O) => Agrees(g, b, P)
  BY <1>5, <1>7 DEF Agrees
<1> QED  BY <1>8 DEF q, a, b

\* The connections of a port.
LEMMA WiresHeard ==
    ASSUME NEW g \in Graph, NEW m, NEW t \in Seq(Notice), NEW pic \in Picture,
           NEW r \in WiresAnswer, r.what = Touching(g.wires, r.port), r.to \in {m, Broadcast},
           NEW O, NEW P, \A i : i \in O => i \in P \/ Lists(r, i)
    PROVE  Settled(g, t) /\ Agrees(g, Follow(m, pic, t), O) =>
              Agrees(g, Follow(m, Hears(m, pic, r), t), P)
<1> DEFINE q == Hears(m, pic, r)
           a == Follow(m, pic, t)
           b == Follow(m, q, t)
<1>1. q \in Picture
  BY HearsType DEF Event, Reply
<1>2. /\ q.wires = (pic.wires \ Touching(pic.wires, r.port)) \cup Touching(g.wires, r.port)
      /\ q.ports = pic.ports /\ q.known = pic.known \cup {r.port}
  BY LearnWires DEF Hears
<1>3. a.known = pic.known /\ b.known = q.known
  <2> HIDE DEF q
  <2> QED  BY <1>1, NoticesOnItem
<1>4. \A x : x \in a.ports <=> x \in b.ports
  <2> HIDE DEF q
  <2> QED  BY <1>1, <1>2, NoticesOnItem
<1>5. \A w : (w \in pic.wires <=> w \in q.wires) => (w \in a.wires <=> w \in b.wires)
  <2> HIDE DEF q
  <2> QED  BY <1>1, NoticesOnItem
<1>6. ASSUME NEW w, r.port \in {w[1], w[2]}, Settled(g, t) PROVE Right(g, b, "connect", w)
  <2>1. Right(g, q, "connect", w)
    <3>1. w \in q.wires <=> w \in g.wires
      BY <1>2, <1>6 DEF Touching
    <3> QED  BY <3>1 DEF Right
  <2> HIDE DEF q
  <2> QED  BY <1>1, <1>6, <2>1, SettledLeads
<1>7. r.port \in Ports /\ r.path = "connections"
  BY DEF WiresAnswer
<1>8. /\ \A x : <<"port", x>> \in O => <<"port", x>> \in P
      /\ \A w : <<"connect", w>> \in O /\ r.port \notin {w[1], w[2]} => <<"connect", w>> \in P
  <2>1. \A x : ~Lists(r, <<"port", x>>)
    BY <1>7 DEF Lists
  <2>2. \A w : r.port \notin {w[1], w[2]} => ~Lists(r, <<"connect", w>>)
    BY <1>7 DEF Lists
  <2> QED  BY <2>1, <2>2
<1> HIDE DEF q, a, b
<1>9. ASSUME "ports" \in b.known, NEW x \in Ports, <<"port", x>> \notin P, Agrees(g, a, O)
      PROVE  Right(g, b, "port", x)
  <2>1. "ports" # r.port
    BY <1>7, UplinkAssumption DEF UplinkAssumption
  <2>2. "ports" \in a.known
    BY <1>2, <1>3, <1>9, <2>1
  <2>3. Right(g, a, "port", x)
    BY <1>8, <1>9, <2>2 DEF Agrees
  <2> QED  BY <1>4, <2>3 DEF Right
<1>10. ASSUME NEW p \in Ports, p \in b.known, NEW w \in Wires, p \in {w[1], w[2]},
              <<"connect", w>> \notin P, Agrees(g, a, O), Settled(g, t)
       PROVE  Right(g, b, "connect", w)
  <2>1. CASE r.port \in {w[1], w[2]}
    BY <1>6, <1>10, <2>1
  <2>2. CASE r.port \notin {w[1], w[2]}
    <3>1. w \in pic.wires <=> w \in q.wires
      BY <1>2, <2>2 DEF Touching
    <3>2. w \in a.wires <=> w \in b.wires
      BY <1>5, <3>1
    <3>3. p \in a.known
      BY <1>2, <1>3, <1>10, <2>2
    <3>4. Right(g, a, "connect", w)
      BY <1>8, <1>10, <2>2, <3>3 DEF Agrees
    <3> QED  BY <3>2, <3>4 DEF Right
  <2> QED  BY <2>1, <2>2
<1>11. Settled(g, t) /\ Agrees(g, a, O) => Agrees(g, b, P)
  BY <1>9, <1>10 DEF Agrees
<1> QED  BY <1>11 DEF q, a, b

-----------------------------------------------------------------------------
(* What becomes of an answer that a notification has overtaken. *)

\* Two pictures are the same but for the items in O.
Alike(a, b, O) ==
    /\ a.known = b.known
    /\ \A x : <<"port", x>> \notin O => (x \in a.ports <=> x \in b.ports)
    /\ \A w : <<"connect", w>> \notin O => (w \in a.wires <=> w \in b.wires)

\* An answer and a notification come to the same in either order, but for what
\* the notification is about if the answer tells otherwise.
LEMMA OtherOrder ==
    ASSUME NEW m, NEW pic \in Picture, NEW r \in Reply, NEW e \in Notice, NEW O,
           r.to \in {m, Broadcast} /\ Contradicts(r, e) => <<e.path, e.what>> \in O
    PROVE  Alike(Hears(m, Hears(m, pic, r), e), Hears(m, Hears(m, pic, e), r), O)
<1> DEFINE a == Hears(m, Hears(m, pic, r), e)
           b == Hears(m, Hears(m, pic, e), r)
<1>0. /\ Hears(m, pic, r) \in Picture /\ Hears(m, pic, e) \in Picture
      /\ \A q : Hears(m, q, e) = Learn(q, e)
  BY HearsType, NoticeHeard DEF Event
<1>1. CASE r.to \notin {m, Broadcast} \/ r \in NoAnswer
  <2>1. \A q : Hears(m, q, r) = q
    BY <1>1, LearnNone DEF Hears
  <2>2. a = b
    BY <2>1
  <2> QED  BY <2>2 DEF Alike
<1>2. CASE r.to \in {m, Broadcast} /\ r \in PortsAnswer
  <2>1. r.path = "ports" /\ \A q : Hears(m, q, r) = Learn(q, r)
    BY <1>2 DEF Hears, PortsAnswer
  <2> DEFINE c == Learn(pic, r)
             d == Learn(pic, e)
  <2>2. a = Learn(c, e) /\ b = Learn(d, r) /\ c \in Picture /\ d \in Picture
    BY <1>0, <2>1
  <2>3. c.ports = r.what /\ c.wires = pic.wires /\ c.known = pic.known \cup {"ports"}
    BY <1>2, LearnPorts
  <2> HIDE DEF d
  <2>4. b.ports = r.what /\ b.wires = d.wires /\ b.known = d.known \cup {"ports"}
    BY <1>2, <2>2, LearnPorts
  <2> HIDE DEF c
  <2>5. CASE e \in PortNote
    <3>1. d.wires = pic.wires /\ d.known = pic.known
      BY <2>5, LearnPort DEF d
    <3> HIDE DEF a, b
    <3>2. /\ a.ports = IF e.on THEN c.ports \cup {e.what} ELSE c.ports \ {e.what}
          /\ a.wires = c.wires /\ a.known = c.known
      <4>1. c \in Picture /\ a = Learn(c, e)
        BY <2>2
      <4>2. /\ Learn(c, e).ports = IF e.on THEN c.ports \cup {e.what} ELSE c.ports \ {e.what}
            /\ Learn(c, e).wires = c.wires /\ Learn(c, e).known = c.known
        BY <4>1, <2>5, LearnPort
      <4> QED  BY <4>1, <4>2
    <3>3. e.path = "port" /\ e.on \in BOOLEAN
      BY <2>5 DEF PortNote
    <3>4. ASSUME NEW x, <<"port", x>> \notin O PROVE x \in a.ports <=> x \in b.ports
      <4>1. CASE x # e.what
        BY <2>3, <2>4, <3>2, <4>1
      <4>2. CASE x = e.what
        <5>1. ~Contradicts(r, e)
          BY <1>2, <3>3, <3>4, <4>2
        <5>2. Lists(r, Item(e))
          BY <2>1, <3>3 DEF Lists, Item
        <5>3. (e.what \in r.what) = e.on
          BY <5>1, <5>2 DEF Contradicts
        <5>4. x \in r.what <=> e.on
          BY <3>3, <4>2, <5>3
        <5>5. x \in a.ports <=> e.on
          BY <3>2, <3>3, <4>2
        <5> QED  BY <2>4, <5>4, <5>5
      <4> QED  BY <4>1, <4>2
    <3>5. a.known = b.known /\ a.wires = b.wires
      BY <2>3, <2>4, <3>1, <3>2
    <3>6. Alike(a, b, O)
      BY <3>4, <3>5 DEF Alike
    <3> QED  BY <3>6 DEF a, b
  <2>6. CASE e \in WireNote
    <3>1. /\ d.wires = IF e.on THEN pic.wires \cup {e.what} ELSE pic.wires \ {e.what}
          /\ d.known = pic.known
      BY <2>6, LearnWire DEF d
    <3> HIDE DEF a, b
    <3>2. /\ a.wires = IF e.on THEN c.wires \cup {e.what} ELSE c.wires \ {e.what}
          /\ a.ports = c.ports /\ a.known = c.known
      <4>1. c \in Picture /\ a = Learn(c, e)
        BY <2>2
      <4>2. /\ Learn(c, e).wires = IF e.on THEN c.wires \cup {e.what} ELSE c.wires \ {e.what}
            /\ Learn(c, e).ports = c.ports /\ Learn(c, e).known = c.known
        BY <4>1, <2>6, LearnWire
      <4> QED  BY <4>1, <4>2
    <3>3. a.known = b.known /\ a.wires = b.wires /\ a.ports = b.ports
      BY <2>3, <2>4, <3>1, <3>2
    <3>4. Alike(a, b, O)
      BY <3>3 DEF Alike
    <3> QED  BY <3>4 DEF a, b
  <2> QED  BY <2>5, <2>6 DEF Notice
<1>3. CASE r.to \in {m, Broadcast} /\ r \in WiresAnswer
  <2>1. /\ r.path = "connections" /\ \A q : Hears(m, q, r) = Learn(q, r)
        /\ \A w \in r.what : r.port \in {w[1], w[2]}
    BY <1>3 DEF Hears, WiresAnswer
  <2> DEFINE c == Learn(pic, r)
             d == Learn(pic, e)
  <2>2. a = Learn(c, e) /\ b = Learn(d, r) /\ c \in Picture /\ d \in Picture
    BY <1>0, <2>1
  <2>3. /\ c.wires = (pic.wires \ Touching(pic.wires, r.port)) \cup r.what
        /\ c.ports = pic.ports /\ c.known = pic.known \cup {r.port}
    BY <1>3, LearnWires
  <2> HIDE DEF d
  <2>4. /\ b.wires = (d.wires \ Touching(d.wires, r.port)) \cup r.what
        /\ b.ports = d.ports /\ b.known = d.known \cup {r.port}
    BY <1>3, <2>2, LearnWires
  <2> HIDE DEF c
  <2>5. CASE e \in PortNote
    <3>1. /\ d.ports = IF e.on THEN pic.ports \cup {e.what} ELSE pic.ports \ {e.what}
          /\ d.known = pic.known /\ d.wires = pic.wires
      BY <2>5, LearnPort DEF d
    <3> HIDE DEF a, b
    <3>2. /\ a.ports = IF e.on THEN c.ports \cup {e.what} ELSE c.ports \ {e.what}
          /\ a.wires = c.wires /\ a.known = c.known
      <4>1. c \in Picture /\ a = Learn(c, e)
        BY <2>2
      <4>2. /\ Learn(c, e).ports = IF e.on THEN c.ports \cup {e.what} ELSE c.ports \ {e.what}
            /\ Learn(c, e).wires = c.wires /\ Learn(c, e).known = c.known
        BY <4>1, <2>5, LearnPort
      <4> QED  BY <4>1, <4>2
    <3>3. a.known = b.known /\ a.wires = b.wires /\ a.ports = b.ports
      BY <2>3, <2>4, <3>1, <3>2
    <3>4. Alike(a, b, O)
      BY <3>3 DEF Alike
    <3> QED  BY <3>4 DEF a, b
  <2>6. CASE e \in WireNote
    <3>1. /\ d.wires = IF e.on THEN pic.wires \cup {e.what} ELSE pic.wires \ {e.what}
          /\ d.known = pic.known /\ d.ports = pic.ports
      BY <2>6, LearnWire DEF d
    <3> HIDE DEF a, b
    <3>2. /\ a.wires = IF e.on THEN c.wires \cup {e.what} ELSE c.wires \ {e.what}
          /\ a.ports = c.ports /\ a.known = c.known
      <4>1. c \in Picture /\ a = Learn(c, e)
        BY <2>2
      <4>2. /\ Learn(c, e).wires = IF e.on THEN c.wires \cup {e.what} ELSE c.wires \ {e.what}
            /\ Learn(c, e).ports = c.ports /\ Learn(c, e).known = c.known
        BY <4>1, <2>6, LearnWire
      <4> QED  BY <4>1, <4>2
    <3>3. e.path = "connect" /\ e.on \in BOOLEAN
      BY <2>6 DEF WireNote
    <3>4. ASSUME NEW w, <<"connect", w>> \notin O PROVE w \in a.wires <=> w \in b.wires
      <4>1. /\ w \in c.wires <=> (w \in pic.wires /\ r.port \notin {w[1], w[2]}) \/ w \in r.what
            /\ w \in b.wires <=> (w \in d.wires /\ r.port \notin {w[1], w[2]}) \/ w \in r.what
        BY <2>3, <2>4 DEF Touching
      <4>2. CASE w # e.what
        <5>1. (w \in d.wires <=> w \in pic.wires) /\ (w \in a.wires <=> w \in c.wires)
          BY <3>1, <3>2, <4>2
        <5> QED  BY <4>1, <5>1
      <4>3. CASE w = e.what
        <5>1. (w \in a.wires <=> e.on) /\ (w \in d.wires <=> e.on)
          BY <3>1, <3>2, <3>3, <4>3
        <5>2. CASE r.port \notin {w[1], w[2]}
          <6>1. w \notin r.what
            BY <2>1, <5>2
          <6> QED  BY <4>1, <5>1, <5>2, <6>1
        <5>3. CASE r.port \in {w[1], w[2]}
          <6>1. ~Contradicts(r, e)
            BY <1>3, <3>3, <3>4, <4>3
          <6>2. Lists(r, Item(e))
            BY <2>1, <3>3, <4>3, <5>3 DEF Lists, Item
          <6>3. (e.what \in r.what) = e.on
            BY <6>1, <6>2 DEF Contradicts
          <6>4. w \in r.what <=> e.on
            BY <3>3, <4>3, <6>3
          <6> QED  BY <4>1, <5>1, <5>3, <6>4
        <5> QED  BY <5>2, <5>3
      <4> QED  BY <4>2, <4>3
    <3>5. a.known = b.known /\ a.ports = b.ports
      BY <2>3, <2>4, <3>1, <3>2
    <3>6. Alike(a, b, O)
      BY <3>4, <3>5 DEF Alike
    <3> QED  BY <3>6 DEF a, b
  <2> QED  BY <2>5, <2>6 DEF Notice
<1> QED  BY <1>1, <1>2, <1>3 DEF Reply

\* The notifications behind the two make no difference, so that a script agrees
\* with the graph as before but for what was overtaken.
LEMMA Overtaking ==
    ASSUME NEW g, NEW m, NEW pic \in Picture, NEW r \in Reply, NEW e \in Notice,
           NEW t \in Seq(Notice), NEW O, NEW P, O \subseteq P,
           r.to \in {m, Broadcast} /\ Contradicts(r, e) => <<e.path, e.what>> \in P
    PROVE  Agrees(g, Follow(m, Hears(m, Hears(m, pic, r), e), t), O) =>
              Agrees(g, Follow(m, Hears(m, Hears(m, pic, e), r), t), P)
<1> DEFINE a == Hears(m, Hears(m, pic, r), e)
           b == Hears(m, Hears(m, pic, e), r)
<1>1. a \in Picture /\ b \in Picture
  BY HearsType DEF Event
<1>2. Alike(a, b, P)
  BY OtherOrder
<1> HIDE DEF a, b
<1> DEFINE c == Follow(m, a, t)
           d == Follow(m, b, t)
<1>3. /\ c.known = a.known /\ d.known = b.known
      /\ \A x : (x \in a.ports <=> x \in b.ports) => (x \in c.ports <=> x \in d.ports)
      /\ \A w : (w \in a.wires <=> w \in b.wires) => (w \in c.wires <=> w \in d.wires)
  BY <1>1, NoticesOnItem
<1> HIDE DEF c, d
<1>4. Alike(c, d, P)
  BY <1>2, <1>3 DEF Alike
<1>5. SUFFICES ASSUME Agrees(g, c, O) PROVE Agrees(g, d, P)
  BY DEF a, b, c, d
<1>6. ASSUME "ports" \in d.known, NEW x \in Ports, <<"port", x>> \notin P
      PROVE  Right(g, d, "port", x)
  <2>1. Right(g, c, "port", x)
    BY <1>4, <1>5, <1>6 DEF Agrees, Alike
  <2> QED  BY <1>4, <1>6, <2>1 DEF Right, Alike
<1>7. ASSUME NEW p \in Ports, p \in d.known, NEW w \in Wires, p \in {w[1], w[2]},
             <<"connect", w>> \notin P
      PROVE  Right(g, d, "connect", w)
  <2>1. Right(g, c, "connect", w)
    BY <1>4, <1>5, <1>7 DEF Agrees, Alike
  <2> QED  BY <1>4, <1>7, <2>1 DEF Right, Alike
<1> QED  BY <1>6, <1>7 DEF Agrees

-----------------------------------------------------------------------------
(* The events that are under way. *)

\* Notifications and answers are events.
LEMMA NoticesAreEvents ==
    Notice \subseteq Event /\ Seq(Notice) \subseteq Seq(Event)
BY SeqMonotonic DEF Event

\* What holds one element at most is a sequence.
LEMMA AtMostOne ==
    ASSUME NEW X, NEW s, s = << >> \/ \E e \in X : s = <<e>>
    PROVE  s \in Seq(X)
<1>1. CASE s = << >>
  BY <1>1
<1>2. CASE s # << >>
  <2>1. PICK e \in X : s = <<e>>
    BY <1>2
  <2> QED  BY <2>1
<1> QED  BY <1>1, <1>2

\* The parts of what is under way, and what it brings.
LEMMA WayTypes ==
    ASSUME TypeInv
    PROVE  /\ noting \in Seq(Notice) /\ notes \in Seq(Notice) /\ noting \o notes \in Seq(Notice)
           /\ replying \in Seq(Reply) /\ replying \in Seq(Event)
           /\ noting \in Seq(Event) /\ notes \in Seq(Event)
           /\ ~met => Way \in Seq(Event) /\ \A m \in Uplinks : End(m) \in Picture
<1>1. notes \in Seq(Notice) /\ noting \in Seq(Notice)
  BY AtMostOne DEF TypeInv
<1>2. noting \o notes \in Seq(Notice)
  <2>1. \A a, b \in Seq(Notice) : a \o b \in Seq(Notice)
    BY ConcatProperties
  <2> QED  BY <1>1, <2>1
<1>3. replying \in Seq(Reply)
  BY AtMostOne DEF TypeInv
<1>4. replying \in Seq(Event) /\ noting \in Seq(Event) /\ notes \in Seq(Event)
  <2>1. Reply \subseteq Event
    BY DEF Event
  <2>2. replying \in Seq(Event)
    BY <1>3, <2>1, SeqMonotonic
  <2> QED  BY <1>1, <2>2, NoticesAreEvents
<1>5. ASSUME ~met PROVE Way \in Seq(Event) /\ \A m \in Uplinks : End(m) \in Picture
  <2>1. rx \in Seq(Event) /\ \A m \in Uplinks : view[m] \in Picture
    BY <1>5 DEF TypeInv
  <2>2. \A a, b \in Seq(Event) : a \o b \in Seq(Event)
    BY ConcatProperties
  <2>3. Way \in Seq(Event)
    BY <1>4, <2>1, <2>2 DEF Way
  <2>4. ASSUME NEW m \in Uplinks PROVE Follow(m, view[m], Way) \in Picture
    BY <2>1, <2>3, FollowType
  <2> QED  BY <2>3, <2>4 DEF End
<1> QED  BY <1>1, <1>2, <1>3, <1>4, <1>5

\* Whether the first of the notifications is still among the others or already in
\* the buffer, the events follow one another as before.
LEMMA Passing ==
    ASSUME NEW r \in Seq(Event), NEW n \in Seq(Event), NEW h \in Event
    PROVE  (r \o << >>) \o (<<h>> \o n) = (r \o <<h>>) \o n
<1>1. <<h>> \in Seq(Event) /\ << >> \in Seq(Event) /\ r \o << >> = r
  BY ConcatEmptySeq
<1>2. (r \o <<h>>) \o n = r \o (<<h>> \o n)
  BY <1>1, Regroup
<1> QED  BY <1>1, <1>2

\* What is behind the events in the pipe, in one piece.
LEMMA WayBehind ==
    ASSUME TypeInv, ~met
    PROVE  /\ (replying \o noting) \o notes \in Seq(Event)
           /\ Way = rx \o ((replying \o noting) \o notes)
           /\ \A m \in Uplinks :
                 End(m) = Follow(m, Follow(m, view[m], rx), (replying \o noting) \o notes)
<1>1. /\ rx \in Seq(Event) /\ replying \in Seq(Event) /\ noting \in Seq(Event)
      /\ notes \in Seq(Event) /\ \A m \in Uplinks : view[m] \in Picture
  BY WayTypes DEF TypeInv
<1>2. \A a, b \in Seq(Event) : a \o b \in Seq(Event)
  BY ConcatProperties
<1> DEFINE rest == (replying \o noting) \o notes
<1>3. replying \o noting \in Seq(Event) /\ rest \in Seq(Event)
  BY <1>1, <1>2
<1>4. Way = rx \o rest
  <2>1. (rx \o replying) \o noting = rx \o (replying \o noting)
    BY <1>1, Regroup
  <2>2. (rx \o (replying \o noting)) \o notes = rx \o rest
    <3> DEFINE c == replying \o noting
    <3>1. c \in Seq(Event) /\ rx \in Seq(Event) /\ notes \in Seq(Event)
      BY <1>1, <1>3
    <3> HIDE DEF c
    <3>2. (rx \o c) \o notes = rx \o (c \o notes)
      BY <3>1, Regroup
    <3> QED  BY <3>2 DEF c
  <2>3. Way = ((rx \o replying) \o noting) \o notes
    BY DEF Way
  <2> HIDE DEF rest
  <2> QED  BY <2>1, <2>2, <2>3
<1> HIDE DEF rest
<1>5. ASSUME NEW m \in Uplinks PROVE End(m) = Follow(m, Follow(m, view[m], rx), rest)
  BY <1>1, <1>3, <1>4, FollowConcat DEF End
<1> QED  BY <1>3, <1>4, <1>5 DEF rest

-----------------------------------------------------------------------------
(* The steps. *)

\* The graph changes, and JACK has a notification of it to give.
Reported == \E e \in Notice : /\ Announce(e) /\ graph' \in Graph
                              /\ Changes(graph, graph', e)

\* A connection that is made or broken is reported.
LEMMA RewiredReported ==
    ASSUME TypeInv, NEW w \in Wires, NEW on \in BOOLEAN, Rewired(w, on)
    PROVE  UNCHANGED <<graph, notes, overtaken>> \/ Reported
<1> DEFINE new == IF on THEN graph.wires \cup {w} ELSE graph.wires \ {w}
           e == Note("connect", w, on)
<1>1. SUFFICES ASSUME graph' = [graph EXCEPT !.wires = new], Announce(e)
               PROVE  Reported
  BY DEF Rewired
<1>2. e \in Notice /\ e.path = "connect" /\ e.what = w /\ e.on = on
  BY DEF Note, Notice, WireNote
<1>3. graph \in Graph
  BY DEF TypeInv
<1>4. graph' \in Graph /\ graph'.wires = new /\ graph'.ports = graph.ports
  BY <1>1, <1>3 DEF Graph
<1>5. w \in new <=> on
  OBVIOUS
<1>6. \A x : x # w => (x \in graph.wires <=> x \in new)
  OBVIOUS
<1> HIDE DEF e, new
<1>7. Changes(graph, graph', e)
  <2>1. e.on <=> There(graph', e.path, e.what)
    BY <1>2, <1>4, <1>5 DEF There
  <2>2. ASSUME NEW k \in {"port", "connect"}, NEW x, k # e.path \/ x # e.what
        PROVE  There(graph, k, x) <=> There(graph', k, x)
    <3>1. CASE k = "port"
      BY <1>4, <3>1 DEF There
    <3>2. CASE k = "connect"
      BY <1>2, <1>4, <1>6, <2>2, <3>2 DEF There
    <3> QED  BY <3>1, <3>2
  <2> QED  BY <2>1, <2>2 DEF Changes
<1> QED  BY <1>1, <1>2, <1>4, <1>7 DEF Reported

\* A port that comes or goes is reported.
LEMMA PortReported ==
    ASSUME TypeInv, NEW p \in Ports, PortChanges(p)
    PROVE  Reported
<1> DEFINE new == SymDiff(graph.ports, {p})
           e == Note("port", p, p \notin graph.ports)
<1>1. graph' = [graph EXCEPT !.ports = new] /\ Announce(e)
  <2>1. graph \in Graph
    BY DEF TypeInv
  <2> QED  BY <2>1 DEF PortChanges, Graph
<1>2. e \in Notice /\ e.path = "port" /\ e.what = p /\ (e.on <=> p \notin graph.ports)
  BY DEF Note, Notice, PortNote
<1>3. graph \in Graph
  BY DEF TypeInv
<1>4. new \in SUBSET Ports /\ (p \in new <=> p \notin graph.ports)
      /\ \A x : x # p => (x \in graph.ports <=> x \in new)
  BY <1>3 DEF SymDiff, Graph
<1> HIDE DEF e, new
<1>5. graph' \in Graph /\ graph'.ports = new /\ graph'.wires = graph.wires
  BY <1>1, <1>3, <1>4 DEF Graph
<1>6. Changes(graph, graph', e)
  <2>1. e.on <=> There(graph', e.path, e.what)
    BY <1>2, <1>4, <1>5 DEF There
  <2>2. ASSUME NEW k \in {"port", "connect"}, NEW x, k # e.path \/ x # e.what
        PROVE  There(graph, k, x) <=> There(graph', k, x)
    <3>1. CASE k = "connect"
      BY <1>5, <3>1 DEF There
    <3>2. CASE k = "port"
      BY <1>2, <1>4, <1>5, <2>2, <3>2 DEF There
    <3> QED  BY <3>1, <3>2
  <2> QED  BY <2>1, <2>2 DEF Changes
<1> QED  BY <1>1, <1>2, <1>5, <1>6 DEF Reported

\* The questions that are left, and one more.
LEMMA Questioned ==
    ASSUME TypeInv
    PROVE  /\ \A m \in Uplinks, q \in Questions :
                 Append(tx, [from |-> m, ask |-> q]) \in Seq([from : Uplinks, ask : Questions])
           /\ tx # << >> => /\ Tail(tx) \in Seq([from : Uplinks, ask : Questions])
                            /\ Head(tx).from \in Uplinks /\ Head(tx).ask \in Questions
<1> DEFINE A == [from : Uplinks, ask : Questions]
<1>1. tx \in Seq(A)
  BY DEF TypeInv
<1>2. \A a \in A : a.from \in Uplinks /\ a.ask \in Questions
  OBVIOUS
<1>3. \A m \in Uplinks, q \in Questions : [from |-> m, ask |-> q] \in A
  OBVIOUS
<1> HIDE DEF A
<1>4. \A a \in A : Append(tx, a) \in Seq(A)
  BY <1>1
<1>5. tx # << >> => Tail(tx) \in Seq(A) /\ Head(tx) \in A
  BY <1>1
<1> QED  BY <1>2, <1>3, <1>4, <1>5 DEF A

\* What brings the scripts where they were brought before keeps the invariant.
LEMMA SameEnd ==
    ASSUME UplinkInv, TypeInv', UNCHANGED <<graph, overtaken>>, noting' \o notes' = noting \o notes,
           ~met' /\ ~missed' => ~met /\ ~missed /\ \A m \in Uplinks : End(m)' = End(m)
    PROVE  UplinkInv'
<1>1. NotesInv'
  BY DEF UplinkInv, NotesInv
<1>2. ASSUME ~met', ~missed', NEW m \in Uplinks PROVE Agrees(graph', End(m)', overtaken'[m])
  <2>1. End(m)' = End(m) /\ ~met /\ ~missed /\ overtaken' = overtaken /\ graph' = graph
    BY <1>2
  <2>2. Agrees(graph, End(m), overtaken[m])
    BY <2>1 DEF UplinkInv, ViewInv
  <2> QED  BY <2>1, <2>2
<1>3. ViewInv'
  BY <1>2 DEF ViewInv
<1> QED  BY <1>1, <1>3 DEF UplinkInv

\* What leaves the events under way and the graph as they are keeps the invariant.
LEMMA SameWay ==
    ASSUME UplinkInv, TypeInv', UNCHANGED <<graph, view, overtaken>>,
           noting' \o notes' = noting \o notes,
           ~met' /\ ~missed' => ~met /\ ~missed /\ Way' = Way
    PROVE  UplinkInv'
<1>1. ASSUME ~met', ~missed' PROVE ~met /\ ~missed /\ \A m \in Uplinks : End(m)' = End(m)
  BY <1>1 DEF End
<1> QED  BY <1>1, SameEnd

\* The graph changes, and the notification is one more event under way.
LEMMA ReportedKeeps ==
    ASSUME UplinkInv, Reported, UNCHANGED <<rx, replying, writing, noting, view, met, missed>>,
           tx' \in Seq([from : Uplinks, ask : Questions])
    PROVE  UplinkInv'
<1>1. PICK e \in Notice : /\ notes' = Append(notes, e) /\ graph' \in Graph
                          /\ Changes(graph, graph', e)
                          /\ overtaken' = [m \in Uplinks |-> overtaken[m] \ {<<e.path, e.what>>}]
  BY DEF Reported, Announce, Item
<1>t. TypeInv /\ NotesInv /\ ViewInv
  BY DEF UplinkInv
<1>2. TypeInv'
  <2>1. notes' \in Seq(Notice)
    BY <1>1, <1>t DEF TypeInv
  <2>2. overtaken' \in [Uplinks -> SUBSET Items]
    BY <1>1, <1>t DEF TypeInv
  <2> QED  BY <1>1, <1>t, <2>1, <2>2 DEF TypeInv
<1>3. noting \in Seq(Notice) /\ notes \in Seq(Notice) /\ noting \o notes \in Seq(Notice)
  BY <1>t, WayTypes
<1>4. NotesInv'
  <2>1. Settled(graph', Append(noting \o notes, e))
    BY <1>1, <1>3, <1>t, SettledAppend DEF NotesInv
  <2>2. noting \o Append(notes, e) = Append(noting \o notes, e)
    BY <1>3
  <2> QED  BY <1>1, <2>1, <2>2 DEF NotesInv
<1>5. ASSUME ~met', ~missed', NEW m \in Uplinks PROVE Agrees(graph', End(m)', overtaken'[m])
  <2>1. ~met /\ ~missed
    BY <1>5
  <2>2. Way \in Seq(Event) /\ End(m) \in Picture /\ view[m] \in Picture /\ e \in Event
    BY <1>t, <2>1, WayTypes, NoticesAreEvents DEF TypeInv
  <2>3. Way' = Way \o <<e>>
    <3> DEFINE r == (rx \o replying) \o noting
    <3>1. r \in Seq(Event) /\ notes \in Seq(Event) /\ <<e>> \in Seq(Event)
      <4>1. rx \in Seq(Event) /\ replying \in Seq(Event) /\ noting \in Seq(Event)
        BY <1>t, <2>1, WayTypes DEF TypeInv
      <4>2. \A a, b \in Seq(Event) : a \o b \in Seq(Event)
        BY ConcatProperties
      <4> QED  BY <1>t, <2>2, <4>1, <4>2, WayTypes
    <3>2. Way' = r \o notes'
      BY DEF Way
    <3>3. notes' = notes \o <<e>>
      BY <1>1, <3>1
    <3>4. Way = r \o notes
      BY DEF Way
    <3> HIDE DEF r
    <3>5. (r \o notes) \o <<e>> = r \o (notes \o <<e>>)
      BY <3>1, Regroup
    <3> QED  BY <3>2, <3>3, <3>4, <3>5
  <2>4. End(m)' = Hears(m, End(m), e)
    <3>1. Follow(m, view[m], Way \o <<e>>) = Hears(m, Follow(m, view[m], Way), e)
      BY <2>2, FollowLast
    <3> QED  BY <2>3, <3>1 DEF End
  <2>5. Agrees(graph, End(m), overtaken[m])
    BY <1>t, <2>1 DEF ViewInv
  <2>6. \A i : i \in overtaken[m] => i \in overtaken'[m] \/ i = <<e.path, e.what>>
    BY <1>1
  <2>7. Agrees(graph', Hears(m, End(m), e), overtaken'[m])
    BY <1>1, <2>2, <2>5, <2>6, AgreesAfter
  <2> QED  BY <2>4, <2>7
<1>6. ViewInv'
  BY <1>5 DEF ViewInv
<1> QED  BY <1>2, <1>4, <1>6 DEF UplinkInv

\* The initial state.
LEMMA InitUplink == Init => UplinkInv
<1> SUFFICES ASSUME Init PROVE UplinkInv
  OBVIOUS
<1>1. TypeInv
  <2>1. graph \in Graph
    <3>1. Ports \in SUBSET Ports
      OBVIOUS
    <3> QED  BY <3>1 DEF Init, Graph
  <2>2. view \in [Uplinks -> Picture]
    BY DEF Init, Picture
  <2>3. notes \in Seq(Notice) /\ tx \in Seq([from : Uplinks, ask : Questions])
    BY DEF Init
  <2>4. rx \in Seq(Event)
    BY DEF Init
  <2>5. /\ noting = << >> /\ replying = << >> /\ writing = FALSE /\ met \in BOOLEAN
        /\ missed \in BOOLEAN /\ overtaken \in [Uplinks -> SUBSET Items]
    BY DEF Init
  <2> QED  BY <2>1, <2>2, <2>3, <2>4, <2>5 DEF TypeInv
<1>2. NotesInv
  BY DEF Init, NotesInv, Settled
<1>3. ASSUME NEW m \in Uplinks PROVE Agrees(graph, End(m), overtaken[m])
  <2>1. Way = << >>
    BY DEF Init, Way
  <2>2. view[m] \in Picture /\ view[m].known = {}
    BY <1>1 DEF Init, TypeInv
  <2>3. End(m) = view[m]
    BY <2>1, <2>2, FollowNone DEF End
  <2> QED  BY <2>2, <2>3 DEF Agrees
<1> QED  BY <1>1, <1>2, <1>3 DEF UplinkInv, ViewInv

\* Process thread: a script asks.
LEMMA AskKeeps ==
    ASSUME UplinkInv, NEW m \in Uplinks, NEW q \in Questions, Ask(m, q)
    PROVE  UplinkInv'
<1>1. TypeInv
  BY DEF UplinkInv
<1>2. tx' \in Seq([from : Uplinks, ask : Questions])
  <2>1. tx' = tx \/ tx' = Append(tx, [from |-> m, ask |-> q])
    BY DEF Ask
  <2> QED  BY <1>1, <2>1, Questioned DEF TypeInv
<1>3. UNCHANGED <<graph, notes, rx, replying, writing, noting, view, met, missed, overtaken>>
  BY DEF Ask
<1>4. TypeInv'
  BY <1>1, <1>2, <1>3 DEF TypeInv
<1>5. Way' = Way
  BY <1>3 DEF Way
<1> QED  BY <1>3, <1>4, <1>5, SameWay

\* JACK: a port comes or goes.
LEMMA PortChangesKeeps ==
    ASSUME UplinkInv, NEW p \in Ports, PortChanges(p)
    PROVE  UplinkInv'
<1>1. TypeInv
  BY DEF UplinkInv
<1>2. UNCHANGED <<tx, rx, replying, writing, noting, view, met, missed>>
  BY DEF PortChanges
<1>3. Reported
  BY <1>1, PortReported
<1>4. tx' \in Seq([from : Uplinks, ask : Questions])
  BY <1>1, <1>2 DEF TypeInv
<1> QED  BY <1>2, <1>3, <1>4, ReportedKeeps

\* A connection is made or broken, by another client or on behalf of a script.
LEMMA RewiredKeeps ==
    ASSUME UplinkInv, NEW w \in Wires, NEW on \in BOOLEAN, Rewired(w, on),
           tx' \in Seq([from : Uplinks, ask : Questions]),
           UNCHANGED <<rx, replying, writing, noting, view, met, missed>>
    PROVE  UplinkInv'
<1>1. TypeInv
  BY DEF UplinkInv
<1>2. CASE Reported
  BY <1>2, ReportedKeeps
<1>3. CASE UNCHANGED <<graph, notes, overtaken>>
  <2>1. TypeInv'
    BY <1>1, <1>3 DEF TypeInv
  <2>2. Way' = Way
    BY <1>3 DEF Way
  <2> QED  BY <1>3, <2>1, <2>2, SameWay
<1> QED  BY <1>1, <1>2, <1>3, RewiredReported

\* JACK: another client makes or breaks a connection.
LEMMA WireChangesKeeps ==
    ASSUME UplinkInv, NEW w \in Wires, NEW on \in BOOLEAN, WireChanges(w, on)
    PROVE  UplinkInv'
<1>1. /\ Rewired(w, on) /\ UNCHANGED <<tx, rx, replying, writing, noting, view, met, missed>>
  BY DEF WireChanges
<1>2. tx' \in Seq([from : Uplinks, ask : Questions])
  BY <1>1 DEF UplinkInv, TypeInv
<1> QED  BY <1>1, <1>2, RewiredKeeps

\* Main loop: a script has a connection made or broken.
LEMMA DispatchKeeps ==
    ASSUME UplinkInv, Connect \/ Disconnect
    PROVE  UplinkInv'
<1>1. PICK path \in {"connect", "disconnect"}, on \in BOOLEAN : Dispatch(path, on)
  BY DEF Connect, Disconnect
<1>2. /\ tx # << >> /\ Head(tx).ask.path = path /\ Rewired(Head(tx).ask.wire, on)
      /\ tx' = Tail(tx) /\ UNCHANGED <<rx, replying, writing, noting, view, met, missed>>
  BY <1>1 DEF Dispatch
<1>3. TypeInv
  BY DEF UplinkInv
<1>4. Head(tx).ask \in Questions /\ tx' \in Seq([from : Uplinks, ask : Questions])
  BY <1>2, <1>3, Questioned
<1>5. Head(tx).ask.wire \in Wires
  BY <1>1, <1>2, <1>4 DEF Questions
<1> QED  BY <1>2, <1>4, <1>5, RewiredKeeps

\* Main loop: the messages are printed.
LEMMA PrintKeeps ==
    ASSUME UplinkInv, PrintMessages
    PROVE  UplinkInv'
<1>1. UNCHANGED <<graph, notes, tx, rx, replying, writing, noting, view, met, missed, overtaken>>
  BY DEF PrintMessages
<1>2. TypeInv'
  BY <1>1 DEF UplinkInv, TypeInv
<1>3. Way' = Way
  BY <1>1 DEF Way
<1> QED  BY <1>1, <1>2, <1>3, SameWay

\* Main loop: a question is taken and answered.  Notifications that are older than
\* the answer are still to come, but nothing is told that it does not know better.
LEMMA LookKeeps ==
    ASSUME UplinkInv, NEW path, NEW q \in PortsAnswer \cup WiresAnswer, Look(path, q),
           \/ q \in PortsAnswer /\ q.what = graph.ports
           \/ q \in WiresAnswer /\ q.what = Touching(graph.wires, q.port)
    PROVE  UplinkInv'
<1> DEFINE r == Answer(q)
<1>1. /\ tx # << >> /\ replying = << >> /\ replying' = <<r>> /\ tx' = Tail(tx)
      /\ overtaken' = [overtaken EXCEPT ![q.to] = {i \in @ : ~Lists(r, i)}]
      /\ UNCHANGED <<graph, notes, rx, writing, noting, view, met, missed>>
  BY DEF Look
<1>2. q.to \in Uplinks /\ (r = q \/ r = [to |-> q.to, path |-> "none"])
  BY DEF Answer, PortsAnswer, WiresAnswer
<1> HIDE DEF r
<1>3. r.to = q.to /\ (r = q \/ r \in NoAnswer) /\ r \in Reply
  BY <1>2 DEF NoAnswer, Reply
<1>t. TypeInv /\ NotesInv /\ ViewInv
  BY DEF UplinkInv
<1>4. TypeInv'
  <2>1. tx' \in Seq([from : Uplinks, ask : Questions])
    BY <1>1, <1>t, Questioned
  <2>2. \E e \in Reply : replying' = <<e>>
    BY <1>1, <1>3
  <2>3. overtaken' \in [Uplinks -> SUBSET Items]
    BY <1>1, <1>t DEF TypeInv
  <2>4. replying' # << >>
    BY <1>1
  <2> QED  BY <1>1, <1>t, <2>1, <2>2, <2>3, <2>4 DEF TypeInv
<1>5. NotesInv'
  BY <1>1, <1>t DEF NotesInv
<1>6. ASSUME ~met', ~missed', NEW m \in Uplinks PROVE Agrees(graph', End(m)', overtaken'[m])
  <2> DEFINE pic == Follow(m, view[m], rx)
             t == noting \o notes
  <2>1. /\ ~met /\ ~missed /\ graph \in Graph /\ rx \in Seq(Event) /\ view[m] \in Picture
        /\ r \in Event /\ overtaken \in [Uplinks -> SUBSET Items]
    BY <1>1, <1>3, <1>6, <1>t DEF TypeInv, Event
  <2>2. /\ t \in Seq(Notice) /\ t \in Seq(Event) /\ noting \in Seq(Event) /\ notes \in Seq(Event)
    BY <1>t, WayTypes, NoticesAreEvents
  <2>3. pic \in Picture
    BY <2>1, FollowType
  <2>4. Settled(graph, t)
    BY <1>t DEF NotesInv
  <2>5. End(m) = Follow(m, pic, t)
    <3>1. rx \o << >> = rx
      BY <2>1
    <3>2. Way = rx \o t
      BY <1>1, <2>1, <2>2, <3>1, Regroup DEF Way
    <3>3. Follow(m, view[m], rx \o t) = Follow(m, Follow(m, view[m], rx), t)
      BY <2>1, <2>2, FollowConcat
    <3> QED  BY <3>2, <3>3 DEF End
  <2>6. End(m)' = Follow(m, Hears(m, pic, r), t)
    <3> DEFINE s == rx \o <<r>>
    <3>1. <<r>> \in Seq(Event) /\ s \in Seq(Event)
      BY <2>1
    <3>2. Follow(m, view[m], s) = Hears(m, pic, r)
      BY <2>1, FollowLast
    <3>3. Way' = (s \o noting) \o notes
      BY <1>1 DEF Way
    <3> HIDE DEF s
    <3>4. (s \o noting) \o notes = s \o t
      BY <2>2, <3>1, Regroup
    <3>5. Follow(m, view[m], s \o t) = Follow(m, Follow(m, view[m], s), t)
      <4>1. view[m] \in Picture /\ s \in Seq(Event) /\ t \in Seq(Event)
        BY <2>1, <2>2, <3>1
      <4> HIDE DEF t
      <4> QED  BY <4>1, FollowConcat
    <3>6. End(m)' = Follow(m, view[m], Way')
      BY <1>1 DEF End
    <3> QED  BY <3>2, <3>3, <3>4, <3>5, <3>6
  <2>7. Agrees(graph, Follow(m, pic, t), overtaken[m])
    BY <1>t, <2>1, <2>5 DEF ViewInv
  <2>8. /\ \A i : i \in overtaken[m] => i \in overtaken'[m] \/ Lists(r, i)
        /\ m # r.to => overtaken'[m] = overtaken[m]
        /\ (\A i : ~Lists(r, i)) => overtaken'[m] = overtaken[m]
    BY <1>1, <1>2, <1>3, <2>1
  <2> HIDE DEF pic, t
  <2>9. Agrees(graph, Follow(m, Hears(m, pic, r), t), overtaken'[m])
    <3>1. CASE r \in NoAnswer
      <4>1. r.path = "none"
        BY <3>1 DEF NoAnswer
      <4>2. \A i : ~Lists(r, i)
        BY <4>1 DEF Lists
      <4>3. Hears(m, pic, r) = pic
        BY <3>1, LearnNone
      <4> QED  BY <2>7, <2>8, <4>2, <4>3
    <3>2. CASE r = q /\ r.to \notin {m, Broadcast}
      <4>1. Hears(m, pic, r) = pic
        BY <3>2 DEF Hears
      <4> QED  BY <2>7, <2>8, <3>2, <4>1
    <3>3. CASE r = q /\ r.to \in {m, Broadcast} /\ q \in PortsAnswer /\ q.what = graph.ports
      BY <2>1, <2>2, <2>3, <2>4, <2>7, <2>8, <3>3, PortsHeard
    <3>4. CASE /\ r = q /\ r.to \in {m, Broadcast} /\ q \in WiresAnswer
               /\ q.what = Touching(graph.wires, q.port)
      BY <2>1, <2>2, <2>3, <2>4, <2>7, <2>8, <3>4, WiresHeard
    <3> QED  BY <1>3, <3>1, <3>2, <3>3, <3>4
  <2> QED  BY <1>1, <2>6, <2>9
<1>7. ViewInv'
  BY <1>6 DEF ViewInv
<1> QED  BY <1>4, <1>5, <1>7 DEF UplinkInv

\* The list of all ports.
LEMMA PortsReplyKeeps ==
    ASSUME UplinkInv, PortsReply
    PROVE  UplinkInv'
<1> DEFINE r == [to |-> Head(tx).from, path |-> "ports", what |-> graph.ports]
<1>1. TypeInv /\ tx # << >>
  BY DEF UplinkInv, PortsReply, Look
<1>2. Head(tx).from \in Uplinks /\ graph.ports \subseteq Ports
  BY <1>1, Questioned DEF TypeInv, Graph
<1>3. r \in PortsAnswer /\ r.what = graph.ports
  BY <1>2 DEF PortsAnswer
<1>4. Look("ports", r)
  BY DEF PortsReply
<1> HIDE DEF r
<1> QED  BY <1>3, <1>4, LookKeeps

\* The connections of a port.
LEMMA ConnectionsReplyKeeps ==
    ASSUME UplinkInv, ConnectionsReply
    PROVE  UplinkInv'
<1> DEFINE r == [to |-> Head(tx).from, path |-> "connections", port |-> Head(tx).ask.port,
                 what |-> Touching(graph.wires, Head(tx).ask.port)]
<1>1. TypeInv /\ tx # << >> /\ Head(tx).ask.path = "connections"
  BY DEF UplinkInv, ConnectionsReply, Look
<1>2. Head(tx).from \in Uplinks /\ Head(tx).ask \in Questions
  BY <1>1, Questioned
<1>3. Head(tx).ask.port \in Ports
  BY <1>1, <1>2 DEF Questions
<1>4. /\ Touching(graph.wires, Head(tx).ask.port) \in SUBSET Wires
      /\ \A w \in Touching(graph.wires, Head(tx).ask.port) : Head(tx).ask.port \in {w[1], w[2]}
  BY <1>1 DEF Touching, TypeInv, Graph
<1>5. r \in WiresAnswer /\ r.what = Touching(graph.wires, r.port)
  <2> HIDE DEF Touching
  <2> QED  BY <1>2, <1>3, <1>4 DEF WiresAnswer
<1>6. Look("connections", r)
  BY DEF ConnectionsReply
<1> HIDE DEF r
<1> QED  BY <1>5, <1>6, LookKeeps

\* Main loop: the answer is put into the buffer.
LEMMA ReplyBuildKeeps ==
    ASSUME UplinkInv, ReplyBuild
    PROVE  UplinkInv'
<1>1. /\ replying # << >> /\ writing' = TRUE /\ met' = (met \/ noting # << >>)
      /\ UNCHANGED <<graph, notes, tx, rx, replying, noting, view, missed, overtaken>>
  BY DEF ReplyBuild
<1>2. TypeInv'
  <2>1. met' \in BOOLEAN /\ (~met' => ~met /\ noting' = << >>)
    BY <1>1 DEF UplinkInv, TypeInv
  <2> QED  BY <1>1, <2>1 DEF UplinkInv, TypeInv
<1>3. ASSUME ~met', ~missed' PROVE ~met /\ ~missed /\ Way' = Way
  BY <1>1, <1>3 DEF Way, UplinkInv, TypeInv
<1> QED  BY <1>1, <1>2, <1>3, SameWay

\* An answer that is not sent has nothing to tell.
LEMMA NothingTold ==
    ASSUME TypeInv, ~met, NEW r \in NoAnswer, replying = <<r>>, NEW m \in Uplinks
    PROVE  End(m) = Follow(m, view[m], (rx \o noting) \o notes)
<1>1. /\ rx \in Seq(Event) /\ noting \in Seq(Event) /\ notes \in Seq(Event)
      /\ view[m] \in Picture /\ r \in Event
  BY WayTypes DEF TypeInv, Event, Reply
<1> DEFINE t == noting \o notes
           s == rx \o <<r>>
           pic == Follow(m, view[m], rx)
<1>2. t \in Seq(Event) /\ <<r>> \in Seq(Event) /\ s \in Seq(Event)
  <2>1. \A a, b \in Seq(Event) : a \o b \in Seq(Event)
    BY ConcatProperties
  <2>2. <<r>> \in Seq(Event)
    BY <1>1
  <2> QED  BY <1>1, <2>1, <2>2
<1>3. Follow(m, view[m], s) = Hears(m, pic, r)
  BY <1>1, FollowLast
<1>4. Hears(m, pic, r) = pic
  BY LearnNone
<1>5. Way = (s \o noting) \o notes
  BY DEF Way
<1> HIDE DEF s, pic
<1>6. (s \o noting) \o notes = s \o t /\ (rx \o noting) \o notes = rx \o t
  <2>1. (s \o noting) \o notes = s \o (noting \o notes)
    BY <1>1, <1>2, Regroup
  <2>2. (rx \o noting) \o notes = rx \o (noting \o notes)
    BY <1>1, Regroup
  <2> QED  BY <2>1, <2>2
<1> HIDE DEF t
<1>7. /\ Follow(m, view[m], s \o t) = Follow(m, Follow(m, view[m], s), t)
      /\ Follow(m, view[m], rx \o t) = Follow(m, pic, t)
  BY <1>1, <1>2, FollowConcat DEF pic
<1> QED  BY <1>3, <1>4, <1>5, <1>6, <1>7 DEF End

\* Main loop: the answer moves into the pipe, or does not fit.
LEMMA ReplyPushKeeps ==
    ASSUME UplinkInv, ReplyPush
    PROVE  UplinkInv'
<1>1. /\ writing /\ writing' = FALSE /\ replying' = << >>
      /\ IF Head(replying).path = "none" THEN UNCHANGED <<rx, missed>> ELSE RxPush(Head(replying))
      /\ UNCHANGED <<graph, notes, tx, noting, view, met, overtaken>>
  BY DEF ReplyPush
<1>t. TypeInv
  BY DEF UplinkInv
<1>2. PICK r \in Reply : replying = <<r>>
  BY <1>1, <1>t DEF TypeInv
<1>3. r \in Event /\ Head(replying) = r
  BY <1>2 DEF Event
<1>4. \/ r.path = "none" /\ missed' = missed /\ rx' = rx
      \/ missed' = missed /\ (~met => rx' = Append(rx, r))
      \/ missed' = TRUE /\ rx' = rx
  BY <1>1, <1>3 DEF RxPush
<1>5. TypeInv'
  <2>1. ASSUME ~met PROVE rx' \in Seq(Event)
    <3>1. rx \in Seq(Event)
      BY <1>t, <2>1 DEF TypeInv
    <3> QED  BY <1>3, <1>4, <2>1, <3>1
  <2>2. missed' \in BOOLEAN
    BY <1>4, <1>t DEF TypeInv
  <2> QED  BY <1>1, <1>t, <2>1, <2>2 DEF TypeInv
<1>6. ASSUME ~met', ~missed' PROVE ~met /\ ~missed /\ \A m \in Uplinks : End(m)' = End(m)
  <2>1. ~met /\ ~missed /\ rx \in Seq(Event)
    BY <1>1, <1>4, <1>6, <1>t DEF TypeInv
  <2>2. CASE rx' = Append(rx, r)
    <3>1. rx' = rx \o <<r>> /\ rx' \in Seq(Event)
      BY <1>3, <2>1, <2>2
    <3>2. rx' \o << >> = rx \o <<r>>
      BY <3>1, ConcatEmptySeq
    <3>3. Way' = Way
      BY <1>1, <1>2, <3>2 DEF Way
    <3> QED  BY <1>1, <2>1, <3>3 DEF End
  <2>3. CASE r.path = "none" /\ rx' = rx
    <3>1. r \in NoAnswer
      BY <2>3 DEF Reply, PortsAnswer, WiresAnswer
    <3>2. rx' \o << >> = rx
      BY <2>1, <2>3, ConcatEmptySeq
    <3>3. Way' = (rx \o noting) \o notes
      BY <1>1, <3>2 DEF Way
    <3>4. ASSUME NEW m \in Uplinks PROVE End(m)' = End(m)
      <4>1. End(m) = Follow(m, view[m], (rx \o noting) \o notes)
        BY <1>2, <1>t, <2>1, <3>1, NothingTold
      <4> QED  BY <1>1, <3>3, <4>1 DEF End
    <3> QED  BY <2>1, <3>4
  <2> QED  BY <1>4, <1>6, <2>1, <2>2, <2>3
<1> QED  BY <1>1, <1>5, <1>6, SameEnd

\* JACK's thread: the first of the notifications is put together.
LEMMA NoteBuildKeeps ==
    ASSUME UplinkInv, NoteBuild
    PROVE  UplinkInv'
<1>1. /\ notes # << >> /\ noting = << >> /\ noting' = <<Head(notes)>> /\ notes' = Tail(notes)
      /\ met' = (met \/ writing)
      /\ UNCHANGED <<graph, tx, rx, replying, writing, view, missed, overtaken>>
  BY DEF NoteBuild
<1>t. TypeInv
  BY DEF UplinkInv
<1>2. notes \in Seq(Notice)
  BY <1>t DEF TypeInv
<1>3. /\ notes = <<Head(notes)>> \o Tail(notes) /\ Head(notes) \in Notice
      /\ Tail(notes) \in Seq(Notice)
  BY <1>1, <1>2, HeadAndTail
<1> DEFINE h == Head(notes)
           n == Tail(notes)
<1>4. /\ notes = <<h>> \o n /\ h \in Notice /\ n \in Seq(Notice)
      /\ noting' = <<h>> /\ notes' = n
  BY <1>1, <1>3
<1> HIDE DEF h, n
<1>5. TypeInv'
  <2>1. \E e \in Notice : noting' = <<e>>
    BY <1>4
  <2>2. met' \in BOOLEAN /\ (~met' => ~met /\ ~writing')
    BY <1>1, <1>t DEF TypeInv
  <2> QED  BY <1>1, <1>4, <1>t, <2>1, <2>2 DEF TypeInv
<1>6. noting' \o notes' = noting \o notes
  <2>1. << >> \o notes = notes
    BY <1>2, ConcatEmptySeq
  <2> QED  BY <1>1, <1>4, <2>1
<1>7. ASSUME ~met', ~missed' PROVE ~met /\ ~missed /\ Way' = Way
  <2> DEFINE x == rx \o replying
  <2>1. ~met /\ ~missed /\ x \in Seq(Event)
    <3>1. ~met /\ ~missed /\ rx \in Seq(Event) /\ replying \in Seq(Event)
      BY <1>1, <1>7, <1>t, WayTypes DEF TypeInv
    <3> QED  BY <3>1, ConcatProperties
  <2>4. Way = (x \o << >>) \o (<<h>> \o n)
    BY <1>1, <1>4 DEF Way
  <2>5. Way' = (x \o <<h>>) \o n
    BY <1>1, <1>4 DEF Way
  <2> HIDE DEF x
  <2>2. (x \o << >>) \o (<<h>> \o n) = (x \o <<h>>) \o n
    BY <1>4, <2>1, NoticesAreEvents, Passing
  <2> QED  BY <2>1, <2>2, <2>4, <2>5
<1> QED  BY <1>1, <1>5, <1>6, <1>7, SameWay

\* What is behind the first of the notifications under way stays settled.
LEMMA NoteGone ==
    ASSUME UplinkInv, graph' = graph, noting \o notes # << >>,
           noting' \o notes' = Tail(noting \o notes)
    PROVE  NotesInv'
<1>1. noting \o notes \in Seq(Notice) /\ Settled(graph, noting \o notes)
  BY WayTypes DEF UplinkInv, NotesInv
<1>2. Settled(graph, Tail(noting \o notes))
  BY <1>1, SettledTail
<1> QED  BY <1>2 DEF NotesInv

\* JACK's thread: the port is gone, and nothing is told.
LEMMA NoteSkippedKeeps ==
    ASSUME UplinkInv, NoteSkipped
    PROVE  UplinkInv'
<1>1. /\ notes # << >> /\ noting = << >> /\ notes' = Tail(notes) /\ missed' = TRUE
      /\ UNCHANGED <<graph, tx, rx, replying, writing, noting, view, met, overtaken>>
  BY DEF NoteSkipped
<1>t. TypeInv
  BY DEF UplinkInv
<1>2. notes \in Seq(Notice) /\ Tail(notes) \in Seq(Notice)
  BY <1>1, <1>t DEF TypeInv
<1>3. TypeInv'
  BY <1>1, <1>2, <1>t DEF TypeInv
<1>4. noting \o notes = notes /\ noting' \o notes' = Tail(notes)
  BY <1>1, <1>2, ConcatEmptySeq
<1>5. NotesInv'
  BY <1>1, <1>4, NoteGone
<1> QED  BY <1>1, <1>3, <1>5 DEF UplinkInv, ViewInv

\* What the events under way come to when the answer and the notification are
\* taken in either order.
LEMMA BothOrders ==
    ASSUME NEW m, NEW pic \in Picture, NEW s \in Seq(Event), NEW x \in Event, NEW y \in Event,
           NEW t \in Seq(Event)
    PROVE  Follow(m, pic, ((s \o <<x>>) \o <<y>>) \o t)
              = Follow(m, Hears(m, Hears(m, Follow(m, pic, s), x), y), t)
<1>1. s \o <<x>> \in Seq(Event) /\ (s \o <<x>>) \o <<y>> \in Seq(Event)
  <2>1. \A a, b \in Seq(Event) : a \o b \in Seq(Event)
    BY ConcatProperties
  <2>2. <<x>> \in Seq(Event) /\ <<y>> \in Seq(Event)
    OBVIOUS
  <2> QED  BY <2>1, <2>2
<1>2. Follow(m, pic, s \o <<x>>) = Hears(m, Follow(m, pic, s), x)
  BY FollowLast
<1> DEFINE a == s \o <<x>>
<1>3. a \in Seq(Event) /\ a \o <<y>> \in Seq(Event)
  BY <1>1
<1> HIDE DEF a
<1>4. Follow(m, pic, a \o <<y>>) = Hears(m, Follow(m, pic, a), y)
  BY <1>3, FollowLast
<1>5. Follow(m, pic, (a \o <<y>>) \o t) = Follow(m, Follow(m, pic, a \o <<y>>), t)
  BY <1>3, FollowConcat
<1> QED  BY <1>2, <1>4, <1>5 DEF a

\* JACK's thread: the notification moves into the pipe, or does not fit.  It may
\* pass an answer that was listed before.
LEMMA NotePushKeeps ==
    ASSUME UplinkInv, NotePush
    PROVE  UplinkInv'
<1>1. /\ noting # << >> /\ noting' = << >> /\ RxPush(Head(noting))
      /\ overtaken' = [m \in Uplinks |->
             IF Late(m, Head(noting)) THEN overtaken[m] \cup {Item(Head(noting))} ELSE overtaken[m]]
      /\ UNCHANGED <<graph, notes, tx, replying, writing, view, met>>
  BY DEF NotePush
<1>t. TypeInv
  BY DEF UplinkInv
<1>2. PICK e \in Notice : noting = <<e>>
  BY <1>1, <1>t DEF TypeInv
<1>3. e \in Event /\ Head(noting) = e
  BY <1>2, NoticesAreEvents
<1>4. \/ missed' = missed /\ (~met => rx' = Append(rx, e))
      \/ missed' = TRUE /\ rx' = rx
  BY <1>1, <1>3 DEF RxPush
<1>5. TypeInv'
  <2>1. ASSUME ~met PROVE rx' \in Seq(Event)
    <3>1. rx \in Seq(Event)
      BY <1>t, <2>1 DEF TypeInv
    <3> QED  BY <1>3, <1>4, <2>1, <3>1
  <2>2. missed' \in BOOLEAN
    BY <1>4, <1>t DEF TypeInv
  <2>3. Item(e) \in Items
    BY DEF Item, Items, Notice, PortNote, WireNote
  <2>4. overtaken' \in [Uplinks -> SUBSET Items]
    <3>1. \A m \in Uplinks : overtaken[m] \in SUBSET Items
      BY <1>t DEF TypeInv
    <3>2. \A m \in Uplinks : overtaken[m] \cup {Item(e)} \in SUBSET Items
      BY <2>3, <3>1
    <3> QED  BY <1>1, <1>3, <3>1, <3>2
  <2> QED  BY <1>1, <1>t, <2>1, <2>2, <2>4 DEF TypeInv
<1>6. noting \o notes # << >> /\ noting' \o notes' = Tail(noting \o notes)
  <2>1. notes \in Seq(Notice)
    BY <1>t DEF TypeInv
  <2>2. <<e>> \o notes # << >> /\ Tail(<<e>> \o notes) = notes
    BY <2>1
  <2>3. << >> \o notes = notes
    BY <2>1, ConcatEmptySeq
  <2> QED  BY <1>1, <1>2, <2>2, <2>3
<1>7. NotesInv'
  BY <1>1, <1>6, NoteGone
<1>8. ASSUME ~met', ~missed', NEW m \in Uplinks PROVE Agrees(graph', End(m)', overtaken'[m])
  <2>1. /\ ~met /\ ~missed /\ rx' = Append(rx, e) /\ rx \in Seq(Event)
        /\ view' = view /\ view[m] \in Picture /\ notes \in Seq(Notice) /\ notes \in Seq(Event)
    BY <1>1, <1>4, <1>8, <1>t, NoticesAreEvents DEF TypeInv
  <2>2. rx' = rx \o <<e>> /\ rx' \in Seq(Event)
    BY <1>3, <2>1
  <2>3. Agrees(graph, End(m), overtaken[m])
    BY <1>t, <2>1 DEF UplinkInv, ViewInv
  <2>4. /\ overtaken[m] \subseteq overtaken'[m]
        /\ Late(m, e) => <<e.path, e.what>> \in overtaken'[m]
    BY <1>1, <1>3 DEF Item
  <2>5. CASE replying = << >>
    <3>1. rx' \o << >> = rx' /\ rx \o << >> = rx
      BY <2>1, <2>2, ConcatEmptySeq
    <3>2. Way = (rx \o <<e>>) \o notes
      BY <1>2, <2>5, <3>1 DEF Way
    <3>3. Way' = rx' \o notes
      BY <1>1, <2>5, <3>1 DEF Way
    <3>4. End(m)' = End(m)
      BY <2>1, <2>2, <3>2, <3>3 DEF End
    <3>5. ~Late(m, e)
      BY <2>5 DEF Late
    <3>6. overtaken'[m] = overtaken[m]
      BY <1>1, <1>3, <3>5
    <3> QED  BY <1>1, <2>3, <3>4, <3>6
  <2>6. CASE replying # << >>
    <3>1. PICK r \in Reply : replying = <<r>>
      BY <1>t, <2>6 DEF TypeInv
    <3>2. r \in Event /\ r.to \in Uplinks
      BY DEF Event, Reply, PortsAnswer, WiresAnswer, NoAnswer
    <3> DEFINE pic == Follow(m, view[m], rx)
    <3>3. pic \in Picture
      BY <2>1, FollowType
    <3>4. End(m) = Follow(m, Hears(m, Hears(m, pic, r), e), notes)
      <4>1. Way = ((rx \o <<r>>) \o <<e>>) \o notes
        BY <1>2, <3>1 DEF Way
      <4> QED  BY <1>3, <2>1, <3>2, <4>1, BothOrders DEF End
    <3>5. End(m)' = Follow(m, Hears(m, Hears(m, pic, e), r), notes)
      <4>1. ((rx \o <<e>>) \o <<r>>) \o << >> = (rx \o <<e>>) \o <<r>>
        <5>1. (rx \o <<e>>) \o <<r>> \in Seq(Event)
          BY <2>2, <3>2
        <5> QED  BY <5>1, ConcatEmptySeq
      <4>2. Way' = ((rx \o <<e>>) \o <<r>>) \o notes
        BY <1>1, <2>2, <3>1, <4>1 DEF Way
      <4>3. Follow(m, view[m], ((rx \o <<e>>) \o <<r>>) \o notes)
               = Follow(m, Hears(m, Hears(m, pic, e), r), notes)
        BY <1>3, <2>1, <3>2, BothOrders
      <4> QED  BY <2>1, <4>2, <4>3 DEF End
    <3> HIDE DEF pic
    <3>6. r.to \in {m, Broadcast} /\ Contradicts(r, e) => <<e.path, e.what>> \in overtaken'[m]
      <4>1. r.to # Broadcast
        BY <3>2, UplinkAssumption DEF UplinkAssumption
      <4>2. SUFFICES ASSUME r.to = m, Contradicts(r, e) PROVE Late(m, e)
        BY <2>4, <4>1
      <4>3. 1 \in DOMAIN replying /\ replying[1] = r
        BY <3>1
      <4> QED  BY <4>2, <4>3 DEF Late
    <3>7. Agrees(graph, Follow(m, Hears(m, Hears(m, pic, e), r), notes), overtaken'[m])
      BY <2>1, <2>3, <2>4, <3>3, <3>4, <3>6, Overtaking
    <3> QED  BY <1>1, <3>5, <3>7
  <2> QED  BY <2>5, <2>6
<1>9. ViewInv'
  BY <1>8 DEF ViewInv
<1> QED  BY <1>5, <1>7, <1>9 DEF UplinkInv

\* Process thread: the scripts hear all that is in the pipe.
LEMMA RxDrainKeeps ==
    ASSUME UplinkInv, RxDrain
    PROVE  UplinkInv'
<1>1. /\ rx' = << >> /\ view' = [m \in Uplinks |-> Told(m, rx)]
      /\ UNCHANGED <<graph, notes, tx, replying, writing, noting, met, missed, overtaken>>
  BY DEF RxDrain
<1>t. TypeInv
  BY DEF UplinkInv
<1>2. \A m \in Uplinks : Told(m, rx) = Follow(m, view[m], rx)
  BY DEF Told, Follow
<1>3. TypeInv'
  <2>1. ASSUME ~met PROVE view' \in [Uplinks -> Picture]
    <3>1. ASSUME NEW m \in Uplinks PROVE Told(m, rx) \in Picture
      <4>1. rx \in Seq(Event) /\ view[m] \in Picture
        BY <1>t, <2>1 DEF TypeInv
      <4> QED  BY <1>2, <4>1, FollowType
    <3> QED  BY <1>1, <3>1
  <2>2. rx' \in Seq(Event)
    BY <1>1
  <2> QED  BY <1>1, <1>t, <2>1, <2>2 DEF TypeInv
<1>4. NotesInv'
  BY <1>1 DEF UplinkInv, NotesInv
<1>5. ASSUME ~met', ~missed', NEW m \in Uplinks PROVE Agrees(graph', End(m)', overtaken'[m])
  <2> DEFINE rest == (replying \o noting) \o notes
  <2>1. ~met /\ ~missed /\ rest \in Seq(Event)
        /\ End(m) = Follow(m, Follow(m, view[m], rx), rest)
    BY <1>1, <1>5, <1>t, WayBehind
  <2>2. Way' = rest
    <3>1. << >> \o replying = replying
      <4>1. replying \in Seq(Event)
        BY <1>t, WayTypes
      <4> QED  BY <4>1, ConcatEmptySeq
    <3> QED  BY <1>1, <3>1 DEF Way
  <2> HIDE DEF rest
  <2>3. view'[m] = Follow(m, view[m], rx)
    BY <1>1, <1>2
  <2>4. End(m)' = End(m)
    BY <2>1, <2>2, <2>3 DEF End
  <2>5. Agrees(graph, End(m), overtaken[m])
    BY <2>1 DEF UplinkInv, ViewInv
  <2> QED  BY <1>1, <2>4, <2>5
<1>6. ViewInv'
  BY <1>5 DEF ViewInv
<1> QED  BY <1>3, <1>4, <1>6 DEF UplinkInv

\* Every step keeps the invariant.
LEMMA NextUplink == UplinkInv /\ [Next]_vars => UplinkInv'
<1> SUFFICES ASSUME UplinkInv, [Next]_vars PROVE UplinkInv'
  OBVIOUS
<1>1. ASSUME NEW m \in Uplinks, NEW q \in Questions, Ask(m, q) PROVE UplinkInv'
  BY <1>1, AskKeeps
<1>2. ASSUME NEW p \in Ports, PortChanges(p) PROVE UplinkInv'
  BY <1>2, PortChangesKeeps
<1>3. ASSUME NEW w \in Wires, NEW on \in BOOLEAN, WireChanges(w, on) PROVE UplinkInv'
  BY <1>3, WireChangesKeeps
<1>4. ASSUME MainLoop PROVE UplinkInv'
  BY <1>4, DispatchKeeps, PortsReplyKeeps, ConnectionsReplyKeeps, ReplyBuildKeeps, ReplyPushKeeps
     DEF MainLoop
<1>5. ASSUME Notify PROVE UplinkInv'
  BY <1>5, NoteBuildKeeps, NoteSkippedKeeps, NotePushKeeps DEF Notify
<1>6. ASSUME RxDrain PROVE UplinkInv'
  BY <1>6, RxDrainKeeps
<1>7. ASSUME PrintMessages PROVE UplinkInv'
  BY <1>7, PrintKeeps
<1>8. ASSUME UNCHANGED vars PROVE UplinkInv'
  <2>1. UNCHANGED <<graph, notes, tx, rx, replying, writing, noting, view, met, missed, overtaken>>
    BY <1>8 DEF vars
  <2>2. TypeInv'
    BY <2>1 DEF UplinkInv, TypeInv
  <2>3. Way' = Way
    BY <2>1 DEF Way
  <2> QED  BY <2>1, <2>2, <2>3, SameWay
<1> QED  BY <1>1, <1>2, <1>3, <1>4, <1>5, <1>6, <1>7, <1>8 DEF Next

\* The invariant says what the property says.
LEMMA InvIsView == UplinkInv => ViewFollowsGraph
<1> SUFFICES ASSUME UplinkInv, ~met, ~missed, NEW m \in Uplinks
             PROVE  LET end == Told(m, rx \o replying \o noting \o notes)
                    IN /\ "ports" \in end.known =>
                             \A p \in Ports : <<"port", p>> \notin overtaken[m] =>
                                                 (p \in end.ports <=> p \in graph.ports)
                       /\ \A p \in Ports : p \in end.known =>
                             \A w \in Touching(Wires, p) : <<"connect", w>> \notin overtaken[m] =>
                                                 (w \in end.wires <=> w \in graph.wires)
  BY DEF ViewFollowsGraph
<1> DEFINE end == Told(m, rx \o replying \o noting \o notes)
<1>1. end = End(m)
  BY DEF Told, End, Way, Follow
<1>2. Agrees(graph, end, overtaken[m])
  BY <1>1 DEF UplinkInv, ViewInv
<1> HIDE DEF end
<1>3. ASSUME "ports" \in end.known, NEW p \in Ports, <<"port", p>> \notin overtaken[m]
      PROVE  p \in end.ports <=> p \in graph.ports
  BY <1>2, <1>3 DEF Agrees, Right
<1>4. ASSUME NEW p \in Ports, p \in end.known, NEW w \in Touching(Wires, p),
             <<"connect", w>> \notin overtaken[m]
      PROVE  w \in end.wires <=> w \in graph.wires
  <2>1. w \in Wires /\ p \in {w[1], w[2]}
    BY <1>4 DEF Touching
  <2> QED  BY <1>2, <1>4, <2>1 DEF Agrees, Right
<1> QED  BY <1>3, <1>4 DEF end

\* Unless the two writers of the buffer met or something could not be reported,
\* the events under way bring every script to JACK's graph as far as it has asked
\* for it, but for what changed between the listing and the push of an answer and
\* was notified in between, for any number of modules, ports and connections.
THEOREM ScriptsFollowGraph == Spec => []ViewFollowsGraph
<1>1. Spec => []UplinkInv
  BY InitUplink, NextUplink, PTL DEF Spec
<1> QED  BY <1>1, InvIsView, PTL

=============================================================================
