----------------------------- MODULE HostProofs -----------------------------
(* Theorems about the host, for every value of the constants: the process    *)
(* cycle (Host) and what comes before and after it (Lifecycle).              *)
EXTENDS Host, Lifecycle, FiniteSetTheorems, SequenceTheorems, WellFoundedInduction, TLAPS


-----------------------------------------------------------------------------
(* Queues. *)

\* A set of numbers up to n has a largest one.
LEMMA Largest ==
    ASSUME NEW n \in Nat, NEW S \in SUBSET (0..n), S # {}
    PROVE  Max(S) \in S /\ \A x \in S : Max(S) >= x
<1> DEFINE T == {n - x : x \in S}
           Less == OpToRel(<, Nat)
<1>0. PICK s \in S : TRUE
  OBVIOUS
<1>1. T \subseteq Nat /\ T # {}
  <2>1. \A x \in S : n - x \in Nat
    OBVIOUS
  <2>2. n - s \in T
    BY <1>0
  <2> QED  BY <2>1, <2>2
<1>2. \E x \in T : \A y \in T : ~(<<y, x>> \in Less)
  <2> HIDE DEF T
  <2> QED  BY <1>1, NatLessThanWellFounded, WFMin
<1>3. PICK t \in T : \A y \in T : ~(<<y, t>> \in Less)
  BY <1>2
<1>4. \A y \in T : t <= y
  <2> HIDE DEF T
  <2>1. TAKE y \in T
  <2>2. y \in Nat /\ t \in Nat
    BY <1>1
  <2>3. ASSUME y < t PROVE FALSE
    <3>1. <<y, t>> \in Less
      BY <2>2, <2>3 DEF OpToRel
    <3> QED  BY <1>3, <3>1
  <2> QED  BY <2>2, <2>3
<1>5. PICK m \in S : t = n - m
  BY <1>3
<1>6. \A x \in S : m >= x
  BY <1>4, <1>5
<1>7. \E x \in S : \A y \in S : x >= y
  BY <1>6
<1> QED  BY <1>7 DEF Max

\* An event as it waits in a queue.
Queued == [id : Nat, src : Source, time : Nat]

Ascending(q) == \A i, j \in 1..Len(q) : i < j => q[i].time <= q[j].time

\* Inserting moves what is behind by one.
LEMMA Inserting ==
    ASSUME NEW X, NEW q \in Seq(X), NEW e \in X, NEW p \in 0..Len(q)
    PROVE  LET r == InsertAt(q, p + 1, e)
           IN /\ r \in Seq(X) /\ Len(r) = Len(q) + 1
              /\ \A i \in 1..Len(r) :
                    r[i] = IF i <= p THEN q[i] ELSE IF i = p + 1 THEN e ELSE q[i - 1]
<1> DEFINE r == InsertAt(q, p + 1, e)
           a == SubSeq(q, 1, p)
           b == SubSeq(q, p + 1, Len(q))
<1>1. a \in Seq(X) /\ Len(a) = p /\ \A i \in 1..p : a[i] = q[i]
  BY SubSeqProperties
<1>2. b \in Seq(X) /\ Len(b) = Len(q) - p /\ \A i \in 1..Len(q) - p : b[i] = q[p + i]
  BY SubSeqProperties
<1>3. <<e>> \in Seq(X) /\ Len(<<e>>) = 1 /\ <<e>>[1] = e
  OBVIOUS
<1> DEFINE c == a \o <<e>>
<1>4. r = c \o b
  <2>1. (p + 1) - 1 = p
    OBVIOUS
  <2> QED  BY <2>1, Zenon DEF InsertAt
<1> HIDE DEF a, b, r
<1>5. /\ c \in Seq(X) /\ Len(c) = p + 1
      /\ \A i \in 1..p + 1 : c[i] = IF i <= p THEN a[i] ELSE <<e>>[i - p]
  BY <1>1, <1>3, ConcatProperties
<1> HIDE DEF c
<1>6. /\ r \in Seq(X) /\ Len(r) = Len(q) + 1
      /\ \A i \in 1..Len(q) + 1 : r[i] = IF i <= p + 1 THEN c[i] ELSE b[i - (p + 1)]
  BY <1>2, <1>4, <1>5, ConcatProperties
<1>7. ASSUME NEW i \in 1..Len(q) + 1
      PROVE  r[i] = IF i <= p THEN q[i] ELSE IF i = p + 1 THEN e ELSE q[i - 1]
  <2>1. CASE i <= p
    <3>1. i \in 1..p /\ i \in 1..p + 1 /\ i <= p + 1
      BY <2>1
    <3>2. r[i] = c[i]
      BY <1>6, <3>1
    <3>3. c[i] = a[i]
      BY <1>5, <2>1, <3>1
    <3>4. a[i] = q[i]
      BY <1>1, <3>1
    <3> QED  BY <2>1, <3>2, <3>3, <3>4
  <2>2. CASE i = p + 1
    <3>1. r[i] = c[i] /\ c[i] = <<e>>[i - p] /\ i - p = 1
      BY <1>5, <1>6, <2>2
    <3> QED  BY <1>3, <2>2, <3>1
  <2>3. CASE i > p + 1
    <3>1. r[i] = b[i - (p + 1)]
      BY <1>6, <2>3
    <3>2. i - (p + 1) \in 1..Len(q) - p /\ p + (i - (p + 1)) = i - 1
      BY <2>3
    <3>3. b[i - (p + 1)] = q[p + (i - (p + 1))]
      BY <1>2, <3>2
    <3> QED  BY <2>3, <3>1, <3>2, <3>3
  <2> QED  BY <2>1, <2>2, <2>3
<1> QED  BY <1>6, <1>7 DEF r

\* Where an event is put, what is before it is as early and all that is behind it
\* is later.
LEMMA PlaceOfInserting ==
    ASSUME NEW q \in Seq(Queued), NEW ev \in Queued
    PROVE  \E p \in 0..Len(q) : /\ SortedInsert(q, ev) = InsertAt(q, p + 1, ev)
                                /\ p > 0 => q[p].time <= ev.time
                                /\ \A i \in p + 1..Len(q) : ev.time < q[i].time
<1> DEFINE S == {0} \cup {i \in 1..Len(q) : Before(q[i], ev)}
           p == Max(S)
<1>1. p \in S /\ \A x \in S : p >= x
  <2>1. Len(q) \in Nat /\ S \in SUBSET (0..Len(q)) /\ S # {}
    OBVIOUS
  <2> HIDE DEF S
  <2> QED  BY <2>1, Largest
<1>2. p \in 0..Len(q)
  BY <1>1
<1>3. SortedInsert(q, ev) = InsertAt(q, p + 1, ev)
  BY DEF SortedInsert
<1>4. p > 0 => q[p].time <= ev.time
  BY <1>1, <1>2 DEF Before
<1>5. ASSUME NEW i \in p + 1..Len(q) PROVE ev.time < q[i].time
  <2>1. i \in 1..Len(q) /\ ~(p >= i)
    BY <1>2
  <2>2. ~(q[i].time <= ev.time)
    BY <1>1, <2>1 DEF Before
  <2>3. q[i] \in Queued
    BY <2>1
  <2> QED  BY <2>2, <2>3 DEF Queued
<1> HIDE DEF p
<1> QED  BY <1>2, <1>3, <1>4, <1>5

\* Inserting an event gives a queue of events.
LEMMA InsertingIsTyped ==
    ASSUME NEW q \in Seq(Queued), NEW ev \in Queued
    PROVE  SortedInsert(q, ev) \in Seq(Queued)
<1>1. PICK p \in 0..Len(q) : SortedInsert(q, ev) = InsertAt(q, p + 1, ev)
  BY PlaceOfInserting
<1>2. LET r == InsertAt(q, p + 1, ev) IN r \in Seq(Queued)
  BY Inserting
<1> QED  BY <1>1, <1>2

\* The queue with the event in it, element by element.
LEMMA SortedInserted ==
    ASSUME NEW q \in Seq(Queued), NEW ev \in Queued
    PROVE  \E p \in 0..Len(q) : LET r == SortedInsert(q, ev) IN
              /\ r \in Seq(Queued) /\ Len(r) = Len(q) + 1
              /\ \A i \in 1..Len(r) :
                    r[i] = IF i <= p THEN q[i] ELSE IF i = p + 1 THEN ev ELSE q[i - 1]
              /\ p > 0 => q[p].time <= ev.time
              /\ \A i \in p + 1..Len(q) : ev.time < q[i].time
<1>1. PICK p \in 0..Len(q) : /\ SortedInsert(q, ev) = InsertAt(q, p + 1, ev)
                             /\ p > 0 => q[p].time <= ev.time
                             /\ \A i \in p + 1..Len(q) : ev.time < q[i].time
  BY PlaceOfInserting
<1>2. LET t == InsertAt(q, p + 1, ev)
      IN /\ t \in Seq(Queued) /\ Len(t) = Len(q) + 1
         /\ \A i \in 1..Len(t) : t[i] = IF i <= p THEN q[i] ELSE IF i = p + 1 THEN ev ELSE q[i - 1]
  BY Inserting
<1> QED  BY <1>1, <1>2

\* An ascending queue stays so.
LEMMA SortedInserting ==
    ASSUME NEW q \in Seq(Queued), NEW ev \in Queued, Ascending(q)
    PROVE  Ascending(SortedInsert(q, ev))
<1> DEFINE r == SortedInsert(q, ev)
<1>1. PICK p \in 0..Len(q) :
             /\ r \in Seq(Queued) /\ Len(r) = Len(q) + 1
             /\ \A i \in 1..Len(r) : r[i] = IF i <= p THEN q[i] ELSE IF i = p + 1 THEN ev ELSE q[i - 1]
             /\ p > 0 => q[p].time <= ev.time
             /\ \A i \in p + 1..Len(q) : ev.time < q[i].time
  BY SortedInserted
<1> HIDE DEF r
<1>2. p \in 0..Len(q) /\ Len(q) \in Nat
  OBVIOUS
<1>4. \A i \in 1..Len(q) : q[i].time \in Nat
  <2>1. \A i \in 1..Len(q) : q[i] \in Queued
    OBVIOUS
  <2> QED  BY <2>1 DEF Queued
<1>5. ev.time \in Nat
  BY DEF Queued
<1>6. \A i \in 1..p : q[i].time <= ev.time
  <2>1. TAKE i \in 1..p
  <2>2. q[p].time <= ev.time
    BY <1>1, <1>2
  <2>3. q[i].time <= q[p].time
    BY <1>2, <1>4 DEF Ascending
  <2> QED  BY <1>2, <1>4, <1>5, <2>2, <2>3
<1>7. \A i \in p + 1..Len(q) : ev.time <= q[i].time
  BY <1>1, <1>2, <1>4, <1>5
<1>8. /\ r \in Seq(Queued) /\ Len(r) = Len(q) + 1
      /\ \A i \in 1..Len(r) : r[i] = IF i <= p THEN q[i] ELSE IF i = p + 1 THEN ev ELSE q[i - 1]
  BY <1>1
<1>9. ASSUME NEW i \in 1..Len(r), NEW j \in 1..Len(r), i < j
      PROVE  r[i].time <= r[j].time
  <2>1. CASE j <= p
    <3>1. r[i] = q[i] /\ r[j] = q[j] /\ i \in 1..Len(q) /\ j \in 1..Len(q)
      BY <1>2, <1>8, <1>9, <2>1
    <3> QED  BY <1>9, <3>1 DEF Ascending
  <2>2. CASE j = p + 1
    <3>1. r[j] = ev /\ i \in 1..p /\ r[i] = q[i]
      BY <1>2, <1>8, <1>9, <2>2
    <3> QED  BY <1>6, <3>1
  <2>3. CASE j > p + 1 /\ i <= p
    <3>1. r[i] = q[i] /\ r[j] = q[j - 1] /\ i \in 1..Len(q) /\ j - 1 \in 1..Len(q) /\ i < j - 1
      BY <1>2, <1>8, <1>9, <2>3
    <3> QED  BY <3>1 DEF Ascending
  <2>4. CASE j > p + 1 /\ i = p + 1
    <3>1. r[i] = ev /\ r[j] = q[j - 1] /\ j - 1 \in p + 1..Len(q)
      BY <1>2, <1>8, <1>9, <2>4
    <3> QED  BY <1>7, <3>1
  <2>5. CASE j > p + 1 /\ i > p + 1
    <3>1. r[i] = q[i - 1] /\ r[j] = q[j - 1] /\ i - 1 \in 1..Len(q) /\ j - 1 \in 1..Len(q) /\ i - 1 < j - 1
      BY <1>2, <1>8, <1>9, <2>5
    <3> QED  BY <3>1 DEF Ascending
  <2> QED  BY <1>2, <2>1, <2>2, <2>3, <2>4, <2>5
<1> QED  BY <1>9 DEF Ascending, r

-----------------------------------------------------------------------------
(* Frame times. *)

\* Wrapping around makes a time no later.
LEMMA Wrapping ==
    ASSUME NEW t \in Nat, TimeMod \in Nat \ {0}
    PROVE  Wrap(t) \in Nat /\ Wrap(t) <= t
<1>1. t % TimeMod \in 0..TimeMod - 1
  OBVIOUS
<1>2. t < TimeMod => t % TimeMod = t
  OBVIOUS
<1> QED  BY <1>1, <1>2 DEF Wrap

\* A frame time that has wrapped around is a natural number, whatever it was before.
LEMMA Wrapped ==
    ASSUME NEW t \in Int, TimeMod \in Nat \ {0}
    PROVE  Wrap(t) \in Nat
<1>1. t % TimeMod \in 0..TimeMod - 1
  OBVIOUS
<1> QED  BY <1>1 DEF Wrap

\* Moving late events to the start of the period keeps their order, and what is
\* due ends up in the period.
LEMMA Clamping ==
    ASSUME last \in Nat, NEW t \in Nat
    PROVE  Clamp(t) \in Nat /\ Clamp(t) >= last
  BY DEF Clamp

\* Of two events the earlier one is not moved behind the later one.
LEMMA ClampingKeepsOrder ==
    ASSUME last \in Nat, NEW t \in Nat, NEW u \in Nat, t <= u
    PROVE  Clamp(t) <= Clamp(u)
  BY DEF Clamp

\* The frame of an event that is due lies in the period.
LEMMA ClampingIntoPeriod ==
    ASSUME TimeAssumption, last \in Nat, NEW t \in Nat, t < Wrap(last + Period)
    PROVE  Clamp(t) - last \in 0..(Period - 1)
<1>1. TimeMod \in Nat \ {0} /\ Period \in Nat \ {0}
  BY DEF TimeAssumption
<1>2. Wrap(last + Period) \in Nat /\ Wrap(last + Period) <= last + Period
  <2>1. last + Period \in Nat
    BY <1>1
  <2> QED  BY <1>1, <2>1, Wrapping
<1> QED  BY <1>1, <1>2 DEF Clamp

-----------------------------------------------------------------------------
(* The invariant. *)

Entry == [id : Nat, src : Source, frame : 0..(Period - 1), cycle : Nat]

HostTypeInv ==
    /\ last \in Nat /\ cycle \in Nat
    /\ phase \in {"in", "main", "fan", "out"}
    /\ queue \in Seq(Queued)
    /\ mqueue \in [Output -> Seq(Queued)]
    /\ pend \in Seq(Source)
    /\ turn \in Seq(Output)
    /\ created \in Seq([src : Source \cup {"lua"}, time : Nat])
    /\ written \in [Port -> Seq(Entry)]
    /\ dropped \in [Port -> Seq(Queued)]
    /\ txcount \in Nat /\ txwait \in Nat

\* The event that is being handed out is the head of the host queue.
FanInv == phase = "fan" => queue # << >>

\* The queues of the modules are sorted.
QueuesInv == \A m \in Output : Ascending(mqueue[m])

\* What a port has written in this cycle is not behind what waits in its queue,
\* and before the outputs' turn nothing is written in it.
PortInv(m) ==
    /\ \A i \in 1..Len(written[m]) :
          written[m][i].cycle <= cycle /\ (phase # "out" => written[m][i].cycle < cycle)
    /\ \A i \in 1..Len(written[m]), j \in 1..Len(mqueue[m]) :
          written[m][i].cycle = cycle => written[m][i].frame + last <= Clamp(mqueue[m][j].time)
    /\ \A i \in 2..Len(written[m]) :
          written[m][i].cycle = written[m][i - 1].cycle
             => written[m][i - 1].frame <= written[m][i].frame
PortsInv == \A m \in Port : PortInv(m)

\* The counter of a cycle counts what waits in the uplink's pipe.
UplinkInv == /\ phase # "out" => txcount = 0 /\ txwait = 0
             /\ txwait <= txcount

HostInv == HostTypeInv /\ FanInv /\ QueuesInv /\ PortsInv /\ UplinkInv

\* The first cycle begins with empty queues.
LEMMA HostInit == ASSUME ModulesAssumption, TimeAssumption, Init PROVE HostInv
<1>1. HostTypeInv
  <2>1. last \in Nat
    BY DEF Init, TimeAssumption, Time
  <2> QED  BY <2>1 DEF Init, HostTypeInv
<1>2. FanInv /\ UplinkInv
  BY DEF Init, FanInv, UplinkInv
<1>3. QueuesInv
  BY DEF Init, QueuesInv, Ascending
<1>4. PortsInv
  BY DEF Init, PortsInv, PortInv
<1> QED  BY <1>1, <1>2, <1>3, <1>4 DEF HostInv

\* Before the outputs' turn any queues will do.
LEMMA PortsBeforeTurn ==
    ASSUME HostInv, phase # "out", UNCHANGED <<cycle, written>>
    PROVE  PortsInv'
<1>1. SUFFICES ASSUME NEW m \in Port PROVE PortInv(m)'
  BY DEF PortsInv
<1>2. PortInv(m)
  BY DEF HostInv, PortsInv
<1>3. written[m] \in Seq(Entry) /\ cycle \in Nat
  BY DEF HostInv, HostTypeInv
<1>4. \A i \in 1..Len(written[m]) : written[m][i].cycle \in Nat /\ written[m][i].cycle < cycle
  <2>1. \A i \in 1..Len(written[m]) : written[m][i] \in Entry
    BY <1>3
  <2> QED  BY <1>2, <2>1 DEF PortInv, Entry
<1>5. \A i \in 1..Len(written[m]) : written[m][i].cycle <= cycle /\ written[m][i].cycle # cycle
  BY <1>3, <1>4
<1>6. cycle' = cycle /\ written' = written
  OBVIOUS
<1> QED  BY <1>2, <1>4, <1>5, <1>6 DEF PortInv

\* A queue loses its head.
LEMMA TakingTheHead ==
    ASSUME HostInv, NEW m0 \in Output, mqueue[m0] # << >>,
           mqueue' = [mqueue EXCEPT ![m0] = Tail(@)]
    PROVE  /\ mqueue' \in [Output -> Seq(Queued)] /\ QueuesInv'
           /\ \A m \in Output : \A j \in 1..Len(mqueue'[m]) :
                 \E k \in 1..Len(mqueue[m]) : mqueue'[m][j] = mqueue[m][k]
<1>1. mqueue \in [Output -> Seq(Queued)] /\ QueuesInv
  BY DEF HostInv, HostTypeInv
<1>2. mqueue[m0] \in Seq(Queued)
  BY <1>1
<1>3. /\ Tail(mqueue[m0]) \in Seq(Queued) /\ Len(Tail(mqueue[m0])) = Len(mqueue[m0]) - 1
      /\ \A i \in 1..Len(Tail(mqueue[m0])) : Tail(mqueue[m0])[i] = mqueue[m0][i + 1]
  BY <1>2, HeadTailProperties
<1>4. mqueue' \in [Output -> Seq(Queued)]
  BY <1>1, <1>3
<1>5. ASSUME NEW m \in Output
      PROVE  /\ Ascending(mqueue'[m])
             /\ \A j \in 1..Len(mqueue'[m]) : \E k \in 1..Len(mqueue[m]) : mqueue'[m][j] = mqueue[m][k]
  <2>1. CASE m = m0
    <3>1. mqueue'[m] = Tail(mqueue[m0])
      BY <1>1, <2>1
    <3>2. Ascending(mqueue[m0])
      BY <1>1 DEF QueuesInv
    <3>3. Len(mqueue[m0]) \in Nat
      BY <1>2
    <3> DEFINE q == mqueue[m0]
               r == mqueue'[m]
    <3>4. Len(r) = Len(q) - 1 /\ \A i \in 1..Len(r) : r[i] = q[i + 1]
      BY <1>3, <3>1
    <3> HIDE DEF q, r
    <3>5. Ascending(r)
      BY <3>2, <3>3, <3>4 DEF Ascending, q
    <3>6. \A j \in 1..Len(r) : j + 1 \in 1..Len(q)
      BY <3>3, <3>4 DEF q
    <3> QED  BY <2>1, <3>4, <3>5, <3>6 DEF q, r
  <2>2. CASE m # m0
    <3>1. mqueue'[m] = mqueue[m]
      BY <1>1, <2>2
    <3> QED  BY <1>1, <3>1 DEF QueuesInv
  <2> QED  BY <2>1, <2>2
<1> QED  BY <1>4, <1>5 DEF QueuesInv

\* What a port has written stays in front of what is left in its queue.
LEMMA PortsAfterTaking ==
    ASSUME HostInv, NEW m0 \in Output, mqueue[m0] # << >>,
           mqueue' = [mqueue EXCEPT ![m0] = Tail(@)],
           UNCHANGED <<last, cycle, phase, written>>
    PROVE  PortsInv'
<1>1. SUFFICES ASSUME NEW m \in Port PROVE PortInv(m)'
  BY DEF PortsInv
<1>2. PortInv(m)
  BY DEF HostInv, PortsInv
<1>3. m \in Output
  BY DEF Output
<1>4. \A j \in 1..Len(mqueue'[m]) : \E k \in 1..Len(mqueue[m]) : mqueue'[m][j] = mqueue[m][k]
  BY <1>3, TakingTheHead
<1>5. ASSUME NEW i \in 1..Len(written[m]), NEW j \in 1..Len(mqueue'[m]), written[m][i].cycle = cycle
      PROVE  written[m][i].frame + last <= Clamp(mqueue'[m][j].time)
  BY <1>2, <1>4, <1>5 DEF PortInv
<1>6. \A t : Clamp(t)' = Clamp(t)
  BY DEF Clamp
<1> QED  BY <1>2, <1>5, <1>6 DEF PortInv

-----------------------------------------------------------------------------
(* The actions of the inputs and of the loop over the host queue. *)

\* An event arrives with a frame time and from a module.
LEMMA ArrivalIsTyped ==
    ASSUME TimeAssumption, HostInv,
           NEW src \in PortIn \cup PipeIn \cup Uplink \cup {Broadcast}, NEW time \in ArrivalTimes(src)
    PROVE  time \in Nat /\ src \in Source
<1> USE DEF HostInv
<1>1. TimeMod \in Nat \ {0} /\ Period \in Nat \ {0} /\ PipeTimes \subseteq Nat
  BY DEF TimeAssumption, Time
<1>2. \A i \in 0..(Period - 1) : Wrap(last + i) \in Nat
  <2>1. \A i \in 0..(Period - 1) : last + i \in Int
    BY <1>1 DEF HostTypeInv
  <2> QED  BY <1>1, <2>1, Wrapped
<1>3. ArrivalTimes(src) \subseteq Nat
  <2>1. CASE src \in PortIn
    BY <1>2, <2>1 DEF ArrivalTimes
  <2>2. CASE src \notin PortIn
    BY <1>1, <2>2 DEF ArrivalTimes
  <2> QED  BY <2>1, <2>2
<1>4. src \in Source
  BY DEF Source
<1> QED  BY <1>3, <1>4

\* An input puts an event into the host queue, which no port looks at.
LEMMA ArrivingKeepsInv ==
    ASSUME TimeAssumption, HostInv,
           NEW src \in PortIn \cup PipeIn \cup Uplink \cup {Broadcast}, NEW time \in ArrivalTimes(src),
           Arrive(src, time)
    PROVE  HostInv'
<1> USE DEF HostInv
<1>1. time \in Nat /\ src \in Source
  BY ArrivalIsTyped
<1>2. HostTypeInv'
  <2>1. Event(Len(created) + 1, src, time) \in Queued
    BY <1>1 DEF Event, Queued, HostTypeInv
  <2>2. queue' \in Seq(Queued)
    BY <2>1, InsertingIsTyped DEF Arrive, HostTypeInv
  <2>3. created' \in Seq([src : Source \cup {"lua"}, time : Nat])
    BY <1>1 DEF Arrive, HostTypeInv
  <2> QED  BY <2>2, <2>3 DEF Arrive, HostTypeInv
<1>3. PortsInv'
  BY PortsBeforeTurn DEF Arrive
<1> QED  BY <1>2, <1>3 DEF Arrive, FanInv, QueuesInv, UplinkInv

\* The head of the host queue is moved to the start of the period if it is late.
LEMMA TakingKeepsInv ==
    ASSUME ModulesAssumption, HostInv, TakeEvent
    PROVE  HostInv'
<1> USE DEF HostInv
<1>1. queue \in Seq(Queued) /\ queue # << >>
  BY DEF HostTypeInv, TakeEvent
<1>2. 1 \in 1..Len(queue) /\ queue[1] \in Queued /\ Head(queue) = queue[1]
  BY <1>1
<1>3. queue' \in Seq(Queued) /\ queue' # << >>
  <2> DEFINE e == [queue[1] EXCEPT !.time = Clamp(queue[1].time)]
  <2>1. e \in Queued
    BY <1>2, Clamping DEF HostTypeInv, Queued
  <2>2. queue' = [queue EXCEPT ![1] = e]
    BY DEF TakeEvent
  <2> HIDE DEF e
  <2>3. queue' \in Seq(Queued) /\ Len(queue') = Len(queue)
    BY <1>1, <1>2, <2>1, <2>2, ExceptSeq
  <2> QED  BY <1>1, <2>3
<1>4. pend' \in Seq(Source)
  <2>1. Head(queue).src \in Source
    BY <1>2 DEF Queued
  <2>2. Uplinks \in Seq(Source)
    BY DEF ModulesAssumption, Source
  <2> QED  BY <2>1, <2>2 DEF TakeEvent, SourcesOf
<1>5. HostTypeInv'
  BY <1>3, <1>4 DEF HostTypeInv, TakeEvent
<1>6. PortsInv'
  BY PortsBeforeTurn DEF TakeEvent
<1> QED  BY <1>3, <1>5, <1>6 DEF TakeEvent, FanInv, QueuesInv, UplinkInv

\* A callback asks for a frame time.
LEMMA CallIsTyped ==
    ASSUME TimeAssumption, HostInv, phase = "fan", NEW call \in Calls
    PROVE  Head(queue) \in Queued /\ call.time \in Nat
<1> DEFINE e == Head(queue)
<1>1. e \in Queued
  BY DEF HostInv, HostTypeInv, FanInv
<1>2. TimeMod \in Nat \ {0} /\ LuaDelays \subseteq Int /\ e.time \in Nat
  BY <1>1 DEF TimeAssumption, Queued
<1>3. \A d \in LuaDelays : Wrap(e.time + d) \in Nat
  <2>1. \A d \in LuaDelays : e.time + d \in Int
    BY <1>2
  <2> QED  BY <1>2, <2>1, Wrapped
<1>4. call.time \in {0} \cup {Wrap(e.time + d) : d \in LuaDelays}
  BY DEF Calls
<1> QED  BY <1>1, <1>3, <1>4

\* Children and a callback insert into queues of modules, before the outputs' turn.
LEMMA FanningOutKeepsInv ==
    ASSUME TimeAssumption, HostInv, phase = "fan", NEW call \in Calls, FanOut(call)
    PROVE  HostInv'
<1> USE DEF HostInv
<1> DEFINE s == Head(pend)
           e == Head(queue)
           ev == Event(Len(created) + 1, s, call.time)
           to == ToChildren(s)
<1>1. e \in Queued /\ s \in Source
  BY DEF HostTypeInv, FanInv, FanOut
<1>2. call.time \in Nat
  BY CallIsTyped
<1>3. ev \in Queued
  BY <1>1, <1>2 DEF Event, Queued, HostTypeInv
<1>4. mqueue \in [Output -> Seq(Queued)] /\ \A m \in Output : Ascending(mqueue[m])
  BY DEF HostTypeInv, QueuesInv
<1>5. to \in [Output -> Seq(Queued)] /\ \A m \in Output : Ascending(to[m])
  <2>1. \A m \in Output : to[m] = IF m \in Children[s] THEN SortedInsert(mqueue[m], e) ELSE mqueue[m]
    BY DEF ToChildren
  <2>2. \A m \in Output : SortedInsert(mqueue[m], e) \in Seq(Queued) /\ Ascending(SortedInsert(mqueue[m], e))
    BY <1>1, <1>4, InsertingIsTyped, SortedInserting
  <2>3. \A m \in Output : to[m] \in Seq(Queued) /\ Ascending(to[m])
    BY <1>4, <2>1, <2>2
  <2> QED  BY <2>3 DEF ToChildren
<1> HIDE DEF s, e, ev, to
<1>6. \A m \in Output : SortedInsert(to[m], ev) \in Seq(Queued) /\ Ascending(SortedInsert(to[m], ev))
  BY <1>3, <1>5, InsertingIsTyped, SortedInserting
<1>7. /\ mqueue' \in [Output -> Seq(Queued)] /\ \A m \in Output : Ascending(mqueue'[m])
      /\ created' \in Seq([src : Source \cup {"lua"}, time : Nat])
  <2>1. CASE mqueue' = to /\ UNCHANGED created
    BY <1>5, <2>1 DEF HostTypeInv
  <2>2. CASE /\ call.to \in Output /\ mqueue' = [to EXCEPT ![call.to] = SortedInsert(@, ev)]
             /\ created' = Append(created, [src |-> "lua", time |-> call.time])
    <3>1. mqueue' \in [Output -> Seq(Queued)]
      BY <1>5, <1>6, <2>2
    <3>2. \A m \in Output : mqueue'[m] = IF m = call.to THEN SortedInsert(to[m], ev) ELSE to[m]
      BY <1>5, <2>2
    <3>3. \A m \in Output : Ascending(mqueue'[m])
      BY <1>5, <1>6, <3>2
    <3>4. created' \in Seq([src : Source \cup {"lua"}, time : Nat])
      BY <1>2, <2>2 DEF HostTypeInv
    <3> QED  BY <3>1, <3>3, <3>4
  <2> QED  BY <2>1, <2>2 DEF FanOut, s, ev, to
<1>8. pend' \in Seq(Source)
  BY DEF FanOut, HostTypeInv
<1>9. HostTypeInv'
  BY <1>7, <1>8 DEF FanOut, HostTypeInv
<1>10. PortsInv'
  BY PortsBeforeTurn DEF FanOut
<1> QED  BY <1>7, <1>9, <1>10 DEF FanOut, FanInv, QueuesInv, UplinkInv

\* The steps between two events and between two phases.
LEMMA TurningKeepsInv ==
    ASSUME ModulesAssumption, HostInv, InputsDone \/ DropEvent \/ QueueDone
    PROVE  HostInv'
<1> USE DEF HostInv
<1>1. queue' \in Seq(Queued)
  <2>1. CASE DropEvent
    <3>1. queue \in Seq(Queued) /\ queue # << >> /\ queue' = Tail(queue)
      BY <2>1 DEF HostTypeInv, FanInv, DropEvent
    <3> QED  BY <3>1, HeadTailProperties
  <2>2. CASE InputsDone \/ QueueDone
    BY <2>2 DEF HostTypeInv, InputsDone, QueueDone
  <2> QED  BY <2>1, <2>2
<1>2. HostTypeInv'
  <2>1. turn' \in Seq(Output)
    <3>1. Outputs \in Seq(Output) /\ Uplinks \in Seq(Output)
      BY DEF ModulesAssumption, Output
    <3>2. Outputs \o Uplinks \in Seq(Output)
      BY <3>1, ConcatProperties
    <3> QED  BY <3>2 DEF HostTypeInv, InputsDone, DropEvent, QueueDone
  <2> QED  BY <1>1, <2>1 DEF HostTypeInv, InputsDone, DropEvent, QueueDone
<1>3. PortsInv'
  BY PortsBeforeTurn DEF InputsDone, DropEvent, QueueDone
<1>4. FanInv' /\ QueuesInv' /\ UplinkInv'
  BY DEF FanInv, QueuesInv, UplinkInv, InputsDone, DropEvent, QueueDone
<1> QED  BY <1>2, <1>3, <1>4

-----------------------------------------------------------------------------
(* The actions of the outputs. *)

\* A port writes, or drops, the head of its queue, and what is behind it is no earlier.
LEMMA WritingKeepsInv ==
    ASSUME TimeAssumption, HostInv, NEW m0 \in Port, WritePort(m0)
    PROVE  HostInv'
<1> USE DEF HostInv
<1> DEFINE q == mqueue[m0]
           w == written[m0]
           f == Clamp(q[1].time) - last
           entry == [id |-> q[1].id, src |-> q[1].src, frame |-> f, cycle |-> cycle]
<1>0. m0 \in Output
  BY DEF Output
<1>1. q \in Seq(Queued) /\ w \in Seq(Entry) /\ q # << >> /\ 1 \in 1..Len(q) /\ Head(q) = q[1]
  BY <1>0 DEF HostTypeInv, WritePort, Emitting
<1>2. q[1] \in Queued
  BY <1>1
<1>3. mqueue' = [mqueue EXCEPT ![m0] = Tail(@)]
  BY DEF WritePort
<1>4. mqueue' \in [Output -> Seq(Queued)] /\ QueuesInv'
  BY <1>0, <1>1, <1>3, TakingTheHead
<1>5. f \in 0..(Period - 1) /\ f + last = Clamp(q[1].time)
  <2>1. q[1].time \in Nat /\ last \in Nat
    BY <1>2 DEF Queued, HostTypeInv
  <2>2. q[1].time < Wrap(last + Period)
    BY <1>1 DEF WritePort, Emitting, Due
  <2>3. f \in 0..(Period - 1)
    BY <2>1, <2>2, ClampingIntoPeriod
  <2>4. Clamp(q[1].time) \in Nat
    BY <2>1, Clamping
  <2> QED  BY <2>1, <2>3, <2>4
<1>6. \/ written' = [written EXCEPT ![m0] = Append(@, entry)]
      \/ written' = written
  BY <1>1 DEF WritePort
<1>7. entry \in Entry
  <2>1. cycle \in Nat /\ q[1].id \in Nat /\ q[1].src \in Source
    BY <1>2 DEF HostTypeInv, Queued
  <2> HIDE DEF f
  <2> QED  BY <1>5, <2>1 DEF Entry
<1> HIDE DEF entry, f
<1>8. written' \in [Port -> Seq(Entry)]
  <2>1. Append(w, entry) \in Seq(Entry)
    BY <1>1, <1>7
  <2> QED  BY <1>6, <2>1 DEF HostTypeInv
<1>9. HostTypeInv'
  <2>1. Append(dropped[m0], q[1]) \in Seq(Queued)
    BY <1>2 DEF HostTypeInv
  <2>2. \/ dropped' = [dropped EXCEPT ![m0] = Append(@, q[1])]
        \/ dropped' = dropped
    BY <1>1 DEF WritePort
  <2>3. dropped' \in [Port -> Seq(Queued)]
    BY <2>1, <2>2 DEF HostTypeInv
  <2> QED  BY <1>4, <1>8, <2>3 DEF HostTypeInv, WritePort
<1>10. phase = "out" /\ UNCHANGED <<last, cycle, phase>>
  BY DEF WritePort, Emitting
<1>11. PortsInv'
  <2>1. CASE written' = written
    BY <1>0, <1>1, <1>3, <1>10, <2>1, PortsAfterTaking
  <2>2. CASE written' = [written EXCEPT ![m0] = Append(@, entry)]
    <3>1. SUFFICES ASSUME NEW m \in Port PROVE PortInv(m)'
      BY DEF PortsInv
    <3>2. PortInv(m) /\ m \in Output
      BY DEF PortsInv, Output
    <3>3. \A t : Clamp(t)' = Clamp(t)
      BY <1>10 DEF Clamp
    <3>4. CASE m # m0
      <4>1. written'[m] = written[m] /\ mqueue'[m] = mqueue[m]
        BY <1>3, <2>2, <3>2, <3>4 DEF HostTypeInv
      <4> QED  BY <1>10, <3>2, <3>3, <4>1 DEF PortInv
    <3>5. CASE m = m0
      <4> DEFINE v == written'[m]
                 r == mqueue'[m]
      <4>1. v = Append(w, entry)
        BY <2>2, <3>5 DEF HostTypeInv
      <4>2. /\ Len(v) = Len(w) + 1 /\ Len(w) \in Nat
            /\ v[Len(w) + 1] = entry
            /\ \A i \in 1..Len(w) : v[i] = w[i] /\ v[i] \in Entry
        BY <1>1, <4>1
      <4>3. \A j \in 1..Len(r) : \E k \in 1..Len(q) : r[j] = q[k]
        BY <1>0, <1>1, <1>3, <3>5, TakingTheHead
      <4>4. \A k \in 1..Len(q) : /\ q[k].time \in Nat
                                 /\ Clamp(q[1].time) <= Clamp(q[k].time)
        <5>1. \A k \in 1..Len(q) : q[k].time \in Nat
          <6>1. \A k \in 1..Len(q) : q[k] \in Queued
            BY <1>1
          <6> QED  BY <6>1 DEF Queued
        <5>2. \A k \in 1..Len(q) : q[1].time <= q[k].time
          <6>1. Ascending(q)
            BY <1>0 DEF QueuesInv
          <6> HIDE DEF q
          <6>2. \A k \in 1..Len(q) : k = 1 \/ 1 < k
            OBVIOUS
          <6> QED  BY <1>1, <5>1, <6>1, <6>2 DEF Ascending
        <5> HIDE DEF q
        <5>3. last \in Nat
          BY DEF HostTypeInv
        <5> QED  BY <1>1, <5>1, <5>2, <5>3, ClampingKeepsOrder
      <4>5. entry.frame = f /\ entry.cycle = cycle
        BY DEF entry
      <4>6. /\ \A i \in 1..Len(w) : w[i].cycle <= cycle
            /\ \A i \in 1..Len(w), j \in 1..Len(q) :
                  w[i].cycle = cycle => w[i].frame + last <= Clamp(q[j].time)
            /\ \A i \in 2..Len(w) : w[i].cycle = w[i - 1].cycle => w[i - 1].frame <= w[i].frame
        BY <3>2, <3>5 DEF PortInv
      <4>7. \A i \in 1..Len(w) : w[i].cycle = cycle => w[i].frame <= f
        <5>1. TAKE i \in 1..Len(w)
        <5>2. HAVE w[i].cycle = cycle
        <5>3. w[i].frame + last <= f + last
          BY <1>1, <1>5, <4>6, <5>2
        <5>4. w[i].frame \in Int /\ f \in Int /\ last \in Int
          <6>1. w[i] \in Entry
            BY <1>1
          <6>2. w[i].frame \in Int
            BY <6>1 DEF Entry
          <6>3. last \in Int
            BY DEF HostTypeInv
          <6>4. f \in Int
            BY <1>5
          <6> QED  BY <6>2, <6>3, <6>4
        <5> QED  BY <5>3, <5>4
      <4> HIDE DEF v, r, q, w
      <4>8. \A i \in 1..Len(v) : v[i].cycle <= cycle
        <5>1. cycle <= cycle
          BY DEF HostTypeInv
        <5> QED  BY <4>2, <4>5, <4>6, <5>1
      <4>9. ASSUME NEW i \in 1..Len(v), NEW j \in 1..Len(r), v[i].cycle = cycle
            PROVE  v[i].frame + last <= Clamp(r[j].time)
        <5>1. PICK k \in 1..Len(q) : r[j] = q[k]
          BY <4>3
        <5>2. CASE i \in 1..Len(w)
          BY <4>2, <4>6, <4>9, <5>1, <5>2
        <5>3. CASE i = Len(w) + 1
          BY <1>5, <4>2, <4>4, <4>5, <5>1, <5>3
        <5> QED  BY <4>2, <5>2, <5>3
      <4>10. ASSUME NEW i \in 2..Len(v), v[i].cycle = v[i - 1].cycle
             PROVE  v[i - 1].frame <= v[i].frame
        <5>1. CASE i \in 2..Len(w)
          <6>1. i \in 1..Len(w) /\ i - 1 \in 1..Len(w)
            BY <4>2, <5>1
          <6> QED  BY <4>2, <4>6, <4>10, <5>1, <6>1
        <5>2. CASE i = Len(w) + 1
          <6>1. i - 1 \in 1..Len(w)
            BY <4>2, <5>2
          <6>2. v[i] = entry /\ v[i - 1] = w[i - 1]
            BY <4>2, <5>2, <6>1
          <6> QED  BY <4>5, <4>7, <4>10, <6>1, <6>2
        <5> QED  BY <4>2, <5>1, <5>2
      <4> QED  BY <1>10, <3>3, <4>8, <4>9, <4>10 DEF PortInv, v, r
    <3> QED  BY <3>4, <3>5
  <2> QED  BY <1>6, <2>1, <2>2
<1>12. FanInv' /\ UplinkInv'
  BY DEF WritePort, FanInv, UplinkInv
<1> QED  BY <1>4, <1>9, <1>11, <1>12

\* What loopback schedules is an event of its own.
LEMMA LoopedIsTyped ==
    ASSUME TimeAssumption, HostInv, NEW m0 \in Loopback, LoopBack(m0)
    PROVE  LET e == Head(mqueue[m0])
           IN  Event(e.id, m0, Wrap(LoopTime(e.time) + Period)) \in Queued
<1> USE DEF HostInv
<1> DEFINE e == Head(mqueue[m0])
           t == Wrap(LoopTime(e.time) + Period)
<1>1. e \in Queued /\ m0 \in Source
  <2>1. m0 \in Output /\ m0 \in Source /\ mqueue[m0] # << >>
    BY DEF LoopBack, Emitting, Output, Source
  <2> QED  BY <2>1 DEF HostTypeInv
<1>2. TimeMod \in Nat \ {0} /\ Period \in Nat /\ last \in Nat /\ e.time \in Nat /\ e.id \in Nat
  BY <1>1 DEF TimeAssumption, HostTypeInv, Queued
<1> HIDE DEF e
<1>3. Wrap(last + Period) \in Nat
  BY <1>2, Wrapped
<1>4. LoopTime(e.time) + Period \in Int
  BY <1>2, <1>3 DEF LoopTime
<1>5. t \in Nat
  BY <1>2, <1>4, Wrapped
<1> HIDE DEF t
<1>6. Event(e.id, m0, t) \in Queued
  BY <1>1, <1>2, <1>5 DEF Event, Queued
<1> QED  BY <1>6 DEF e, t

\* Loopback takes the head of its queue and inserts into the host queue.
LEMMA LoopingKeepsInv ==
    ASSUME TimeAssumption, HostInv, NEW m0 \in Loopback, LoopBack(m0)
    PROVE  HostInv'
<1> USE DEF HostInv
<1>1. /\ m0 \in Output /\ m0 \in Source /\ mqueue[m0] # << >>
      /\ mqueue' = [mqueue EXCEPT ![m0] = Tail(@)]
      /\ UNCHANGED <<last, cycle, phase, written>>
  BY DEF LoopBack, Emitting, Output, Source
<1>2. mqueue' \in [Output -> Seq(Queued)] /\ QueuesInv'
  BY <1>1, TakingTheHead
<1>3. PortsInv'
  BY <1>1, PortsAfterTaking
<1>4. queue' \in Seq(Queued)
  BY LoopedIsTyped, InsertingIsTyped DEF LoopBack, HostTypeInv
<1>5. HostTypeInv'
  BY <1>1, <1>2, <1>4 DEF LoopBack, HostTypeInv
<1>6. FanInv' /\ UplinkInv'
  BY DEF LoopBack, Emitting, FanInv, UplinkInv
<1> QED  BY <1>2, <1>3, <1>5, <1>6

\* The uplink takes the head of its queue and counts what its pipe accepts.
LEMMA PushingKeepsInv ==
    ASSUME HostInv, NEW m0 \in Uplink, NEW accepted \in BOOLEAN, PushUplink(m0, accepted)
    PROVE  HostInv'
<1> USE DEF HostInv
<1>1. /\ m0 \in Output /\ mqueue[m0] # << >> /\ phase = "out"
      /\ mqueue' = [mqueue EXCEPT ![m0] = Tail(@)]
      /\ UNCHANGED <<last, cycle, phase, written>>
  BY DEF PushUplink, Emitting, Output
<1>2. mqueue' \in [Output -> Seq(Queued)] /\ QueuesInv'
  BY <1>1, TakingTheHead
<1>3. PortsInv'
  BY <1>1, PortsAfterTaking
<1>4. txcount' \in Nat /\ txwait' \in Nat /\ txwait' <= txcount'
  BY DEF PushUplink, HostTypeInv, UplinkInv
<1>5. HostTypeInv'
  BY <1>1, <1>2, <1>4 DEF PushUplink, HostTypeInv
<1>6. FanInv' /\ UplinkInv'
  BY <1>1, <1>4 DEF PushUplink, FanInv, UplinkInv
<1> QED  BY <1>2, <1>3, <1>5, <1>6

\* Line 391: what was counted is flushed, and only that can be in the pipe.
LEMMA CyclingKeepsInv ==
    ASSUME TimeAssumption, HostInv, CycleDone
    PROVE  HostInv'
<1> USE DEF HostInv
<1>1. last' \in Nat
  <2>1. TimeMod \in Nat \ {0} /\ last + Period \in Int
    BY DEF TimeAssumption, HostTypeInv
  <2> QED  BY <2>1, Wrapped DEF CycleDone
<1>2. txwait' = 0 /\ txcount' = 0
  BY DEF CycleDone, FlushNeeded, HostTypeInv, UplinkInv
<1>3. HostTypeInv'
  BY <1>1, <1>2 DEF CycleDone, HostTypeInv
<1>4. PortsInv'
  <2>1. SUFFICES ASSUME NEW m \in Port PROVE PortInv(m)'
    BY DEF PortsInv
  <2>2. PortInv(m) /\ written[m] \in Seq(Entry) /\ cycle \in Nat
    BY DEF PortsInv, HostTypeInv
  <2>3. \A i \in 1..Len(written[m]) : written[m][i].cycle \in Nat
    <3>1. \A i \in 1..Len(written[m]) : written[m][i] \in Entry
      BY <2>2
    <3> QED  BY <3>1 DEF Entry
  <2>4. cycle' = cycle + 1 /\ written' = written
    BY DEF CycleDone
  <2>5. \A i \in 1..Len(written[m]) : written[m][i].cycle < cycle + 1
    BY <2>2, <2>3 DEF PortInv
  <2>6. \A i \in 1..Len(written[m]) : written[m][i].cycle <= cycle + 1 /\ written[m][i].cycle # cycle + 1
    BY <2>2, <2>3, <2>5
  <2> QED  BY <2>2, <2>4, <2>5, <2>6 DEF PortInv
<1>5. FanInv' /\ QueuesInv' /\ UplinkInv'
  BY <1>2 DEF CycleDone, FanInv, QueuesInv, UplinkInv
<1> QED  BY <1>3, <1>4, <1>5

\* A step that changes whose turn it is, or nothing, keeps the invariant.
LEMMA PassingKeepsInv ==
    ASSUME HostInv, turn' \in Seq(Output),
           UNCHANGED <<last, cycle, phase, queue, mqueue, pend, created, written, dropped, txcount, txwait>>
    PROVE  HostInv'
<1>1. \A t : Clamp(t)' = Clamp(t)
  BY DEF Clamp
<1>2. PortsInv'
  BY <1>1 DEF HostInv, PortsInv, PortInv
<1> QED  BY <1>2 DEF HostInv, HostTypeInv, FanInv, QueuesInv, UplinkInv

-----------------------------------------------------------------------------
(* The theorems. *)

\* The inductive invariant of the cycle, whatever modules there are and whatever
\* time stamps they use, in the period in which the frame time wraps around too.
THEOREM HostInvariant == Spec => []HostInv
<1> USE ModulesAssumption, TimeAssumption
<1>1. Init => HostInv
  BY HostInit
<1>2. HostInv /\ [Next]_vars => HostInv'
  <2>1. SUFFICES ASSUME HostInv, [Next]_vars PROVE HostInv'
    OBVIOUS
  <2>2. ASSUME NEW src \in PortIn \cup PipeIn \cup Uplink \cup {Broadcast},
               NEW time \in ArrivalTimes(src), Arrive(src, time)
        PROVE  HostInv'
    BY <2>1, <2>2, ArrivingKeepsInv
  <2>3. CASE TakeEvent
    BY <2>1, <2>3, TakingKeepsInv
  <2>4. ASSUME phase = "fan", NEW call \in Calls, FanOut(call) PROVE HostInv'
    BY <2>1, <2>4, FanningOutKeepsInv
  <2>5. CASE InputsDone \/ DropEvent \/ QueueDone
    BY <2>1, <2>5, TurningKeepsInv
  <2>6. ASSUME NEW m \in Port, WritePort(m) PROVE HostInv'
    BY <2>1, <2>6, WritingKeepsInv
  <2>7. ASSUME NEW m \in Loopback, LoopBack(m) PROVE HostInv'
    BY <2>1, <2>7, LoopingKeepsInv
  <2>8. ASSUME NEW m \in Uplink, NEW accepted \in BOOLEAN, PushUplink(m, accepted) PROVE HostInv'
    BY <2>1, <2>8, PushingKeepsInv
  <2>9. CASE OutputDone
    <3>1. turn \in Seq(Output) /\ turn # << >> /\ turn' = Tail(turn)
      BY <2>1, <2>9 DEF OutputDone, HostInv, HostTypeInv
    <3>2. turn' \in Seq(Output)
      BY <3>1, HeadTailProperties
    <3> QED  BY <2>1, <2>9, <3>2, PassingKeepsInv DEF OutputDone
  <2>10. CASE CycleDone
    BY <2>1, <2>10, CyclingKeepsInv
  <2>11. CASE UNCHANGED vars
    BY <2>1, <2>11, PassingKeepsInv DEF vars, HostInv, HostTypeInv
  <2> QED  BY <2>1, <2>2, <2>3, <2>4, <2>5, <2>6, <2>7, <2>8, <2>9, <2>10, <2>11 DEF Next
<1> QED  BY <1>1, <1>2, PTL DEF Spec

\* Every port gets its events in the order of their frames and within the period,
\* however late, immediate and callback-made events mix (tjost.c:339-345 and
\* mod_osc_out.c:38-60).
THEOREM PortsInOrder == Spec => []PortBufferInOrder
<1>1. HostInv => PortBufferInOrder
  <2>1. SUFFICES ASSUME HostInv, NEW m \in Port, NEW i \in 1..Len(written[m])
                 PROVE  /\ written[m][i].frame \in 0..(Period - 1)
                        /\ i > 1 /\ written[m][i].cycle = written[m][i - 1].cycle
                             => written[m][i - 1].frame <= written[m][i].frame
    BY DEF PortBufferInOrder
  <2>2. written[m] \in Seq(Entry) /\ PortInv(m)
    BY <2>1 DEF HostInv, HostTypeInv, PortsInv
  <2>3. written[m][i].frame \in 0..(Period - 1)
    <3>1. written[m][i] \in Entry
      BY <2>2
    <3> QED  BY <3>1 DEF Entry
  <2>4. i > 1 => i \in 2..Len(written[m])
    OBVIOUS
  <2> QED  BY <2>2, <2>3, <2>4 DEF PortInv
<1> QED  BY <1>1, HostInvariant, PTL

\* Whatever is in the uplink's pipe when a cycle ends has been flushed
\* (tjost.c:391).
THEOREM UplinkIsFlushed == Spec => []UplinkFlushed
<1>1. HostInv => UplinkFlushed
  BY DEF HostInv, UplinkInv, UplinkFlushed
<1> QED  BY <1>1, HostInvariant, PTL

-----------------------------------------------------------------------------
(* Nothing that is due is left. *)

\* No event of a queue is earlier than a time.
AllFrom(q, t) == \A i \in 1..Len(q) : q[i].time >= t

\* The host queue is sorted but for the head that is being handed out.  From the
\* outputs' turn on it holds nothing of this period, and what has had its turn
\* has nothing left that is due.
DueInv ==
    /\ phase # "fan" => Ascending(queue)
    /\ phase = "fan" => Ascending(Tail(queue))
    /\ phase = "out" => \A m \in Output :
           m \in ToSet(turn) \/ AllFrom(mqueue[m], Wrap(last + Period))
    /\ phase = "out" /\ last + 2 * Period < TimeMod => AllFrom(queue, last + Period)

\* The elements of a queue without its head.
LEMMA WithoutHead ==
    ASSUME NEW X, NEW q \in Seq(X), q # << >>
    PROVE  /\ Head(q) = q[1] /\ 1 \in 1..Len(q) /\ q[1] \in X
           /\ Tail(q) \in Seq(X) /\ Len(Tail(q)) = Len(q) - 1
           /\ \A i \in 1..Len(Tail(q)) : i + 1 \in 2..Len(q) /\ Tail(q)[i] = q[i + 1]
<1>1. Len(q) \in Nat /\ Len(q) > 0
  OBVIOUS
<1>2. /\ Tail(q) \in Seq(X) /\ Len(Tail(q)) = Len(q) - 1
      /\ \A i \in 1..Len(Tail(q)) : Tail(q)[i] = q[i + 1]
  BY HeadTailProperties
<1>3. \A i \in 1..Len(q) - 1 : i + 1 \in 2..Len(q)
  BY <1>1
<1> QED  BY <1>1, <1>2, <1>3

\* What a sequence consists of.
LEMMA MembersOf ==
    ASSUME NEW X, NEW q \in Seq(X), NEW x
    PROVE  x \in ToSet(q) <=> \E i \in 1..Len(q) : x = q[i]
<1>1. DOMAIN q = 1..Len(q)
  OBVIOUS
<1> QED  BY <1>1 DEF ToSet

\* An ascending queue without its head is ascending.
LEMMA TailAscending ==
    ASSUME NEW q \in Seq(Queued), q # << >>, Ascending(q)
    PROVE  Ascending(Tail(q))
<1> DEFINE r == Tail(q)
<1>1. Len(q) \in Nat /\ Len(r) = Len(q) - 1
  BY WithoutHead
<1>2. \A i \in 1..Len(r) : i + 1 \in 1..Len(q) /\ r[i] = q[i + 1]
  BY WithoutHead
<1> HIDE DEF r
<1>3. ASSUME NEW i \in 1..Len(r), NEW j \in 1..Len(r), i < j PROVE r[i].time <= r[j].time
  <2>1. i + 1 \in 1..Len(q) /\ j + 1 \in 1..Len(q) /\ i + 1 < j + 1
    BY <1>1, <1>2, <1>3
  <2>2. q[i + 1].time <= q[j + 1].time
    BY <2>1 DEF Ascending
  <2> QED  BY <1>2, <2>2
<1> QED  BY <1>3 DEF Ascending, r

\* A sorted queue is as late as its head.
LEMMA FromTheHead ==
    ASSUME NEW q \in Seq(Queued), Ascending(q), NEW t \in Int, q # << >> => ~(Head(q).time < t)
    PROVE  AllFrom(q, t)
<1>1. SUFFICES ASSUME NEW i \in 1..Len(q) PROVE q[i].time >= t
  BY DEF AllFrom
<1>2. q # << >> /\ Head(q) = q[1] /\ 1 \in 1..Len(q)
  OBVIOUS
<1>3. q[1].time \in Nat /\ q[i].time \in Nat
  <2>1. q[1] \in Queued /\ q[i] \in Queued
    BY <1>2
  <2> QED  BY <2>1 DEF Queued
<1>4. q[1].time <= q[i].time
  <2>1. i = 1 \/ 1 < i
    OBVIOUS
  <2> QED  BY <1>2, <1>3, <2>1 DEF Ascending
<1>5. ~(q[1].time < t)
  BY <1>2
<1> QED  BY <1>3, <1>4, <1>5

\* An event that is late enough can join.
LEMMA FromInserting ==
    ASSUME NEW q \in Seq(Queued), NEW ev \in Queued, NEW t, AllFrom(q, t), ev.time >= t
    PROVE  AllFrom(SortedInsert(q, ev), t)
<1> DEFINE r == SortedInsert(q, ev)
<1>1. PICK p \in 0..Len(q) :
             /\ r \in Seq(Queued) /\ Len(r) = Len(q) + 1
             /\ \A i \in 1..Len(r) : r[i] = IF i <= p THEN q[i] ELSE IF i = p + 1 THEN ev ELSE q[i - 1]
             /\ p > 0 => q[p].time <= ev.time
             /\ \A i \in p + 1..Len(q) : ev.time < q[i].time
  BY SortedInserted
<1> HIDE DEF r
<1>2. ASSUME NEW i \in 1..Len(r) PROVE r[i].time >= t
  <2>1. Len(q) \in Nat /\ p \in 0..Len(q)
    OBVIOUS
  <2>2. CASE i <= p
    <3>1. r[i] = q[i] /\ i \in 1..Len(q)
      BY <1>1, <2>1, <2>2
    <3> QED  BY <3>1 DEF AllFrom
  <2>3. CASE i = p + 1
    <3>1. r[i] = ev
      BY <1>1, <2>1, <2>3
    <3> QED  BY <3>1
  <2>4. CASE i > p + 1
    <3>1. r[i] = q[i - 1] /\ i - 1 \in 1..Len(q)
      BY <1>1, <2>1, <2>4
    <3> QED  BY <3>1 DEF AllFrom
  <2> QED  BY <2>1, <2>2, <2>3, <2>4
<1> QED  BY <1>2 DEF AllFrom, r

\* Taking the head of a module's queue leaves nothing earlier in any.
LEMMA FromTaking ==
    ASSUME HostInv, NEW m0 \in Output, mqueue[m0] # << >>,
           mqueue' = [mqueue EXCEPT ![m0] = Tail(@)],
           NEW m \in Output, NEW t, AllFrom(mqueue[m], t)
    PROVE  AllFrom(mqueue'[m], t)
<1>1. \A j \in 1..Len(mqueue'[m]) : \E k \in 1..Len(mqueue[m]) : mqueue'[m][j] = mqueue[m][k]
  BY TakingTheHead
<1>2. \A k \in 1..Len(mqueue[m]) : mqueue[m][k].time >= t
  BY DEF AllFrom
<1>3. \A j \in 1..Len(mqueue'[m]) : mqueue'[m][j].time >= t
  BY <1>1, <1>2
<1> QED  BY <1>3 DEF AllFrom

\* Events that arrive are sorted in; the head is moved to the start of the period,
\* handed out and taken away, and the queue behind it stays sorted.
LEMMA QueueStepsKeepDue ==
    ASSUME HostInv, DueInv, HostTypeInv',
           \/ \E src \in Source, time \in Nat : Arrive(src, time)
           \/ InputsDone \/ TakeEvent \/ DropEvent \/ CycleDone
           \/ \E call \in Calls : FanOut(call)
    PROVE  DueInv'
<1>0. queue \in Seq(Queued) /\ queue' \in Seq(Queued)
  BY DEF HostInv, HostTypeInv
<1>1. ASSUME NEW src \in Source, NEW time \in Nat, Arrive(src, time)
      PROVE  DueInv'
  <2>1. Event(Len(created) + 1, src, time) \in Queued
    <3>1. Len(created) + 1 \in Nat
      BY DEF HostInv, HostTypeInv
    <3> QED  BY <3>1 DEF Event, Queued
  <2>2. Ascending(queue) /\ phase = "in" /\ phase' = "in"
    BY <1>1 DEF DueInv, Arrive
  <2>3. Ascending(queue')
    BY <1>0, <1>1, <2>1, <2>2, SortedInserting DEF Arrive
  <2> QED  BY <2>2, <2>3 DEF DueInv
<1>2. CASE InputsDone \/ CycleDone
  BY <1>2 DEF DueInv, InputsDone, CycleDone
<1>3. CASE TakeEvent
  <2>1. queue # << >> /\ Ascending(queue) /\ phase' = "fan"
    BY <1>3 DEF TakeEvent, DueInv
  <2>2. Len(queue') = Len(queue) /\ \A i \in 2..Len(queue) : queue'[i] = queue[i]
    BY <1>0, <1>3 DEF TakeEvent
  <2>3. queue' # << >>
    BY <1>0, <2>1, <2>2
  <2> DEFINE a == Tail(queue)
             b == Tail(queue')
  <2>4. Ascending(a)
    BY <1>0, <2>1, TailAscending
  <2>5. Len(a) = Len(queue) - 1 /\ \A i \in 1..Len(a) : i + 1 \in 2..Len(queue) /\ a[i] = queue[i + 1]
    BY <1>0, <2>1, WithoutHead
  <2>6. Len(b) = Len(queue') - 1 /\ \A i \in 1..Len(b) : i + 1 \in 2..Len(queue') /\ b[i] = queue'[i + 1]
    BY <1>0, <2>3, WithoutHead
  <2> HIDE DEF a, b
  <2>7. Len(a) = Len(b) /\ \A i \in 1..Len(a) : a[i] = b[i]
    BY <2>2, <2>5, <2>6
  <2>8. Ascending(b)
    BY <2>4, <2>7 DEF Ascending
  <2> QED  BY <2>1, <2>8 DEF DueInv, b
<1>4. CASE DropEvent
  <2>1. phase = "fan" /\ phase' = "main" /\ queue' = Tail(queue)
    BY <1>4 DEF DropEvent
  <2> QED  BY <2>1 DEF DueInv
<1>5. ASSUME NEW call \in Calls, FanOut(call) PROVE DueInv'
  <2>1. phase = "fan" /\ phase' = "fan" /\ queue' = queue
    BY <1>5 DEF FanOut
  <2> QED  BY <2>1 DEF DueInv
<1> QED  BY <1>1, <1>2, <1>3, <1>4, <1>5

\* When the loop over the host queue ends, what is left there is of a later
\* period, and every module is still to have its turn.
LEMMA QueueDoneKeepsDue ==
    ASSUME ModulesAssumption, TimeAssumption, HostInv, DueInv, QueueDone
    PROVE  DueInv'
<1>1. /\ phase = "main" /\ phase' = "out" /\ turn' = Outputs \o Uplinks
      /\ UNCHANGED <<last, queue, mqueue>> /\ ~(queue # << >> /\ Due(Head(queue)))
  BY DEF QueueDone
<1>2. queue \in Seq(Queued) /\ Ascending(queue)
  BY <1>1 DEF HostInv, HostTypeInv, DueInv
<1>3. ASSUME NEW m \in Output PROVE m \in ToSet(turn')
  <2>1. Outputs \in Seq(Output) /\ Uplinks \in Seq(Output)
    BY DEF ModulesAssumption, Output
  <2>2. /\ Len(Outputs \o Uplinks) = Len(Outputs) + Len(Uplinks)
        /\ \A i \in 1..Len(Outputs) + Len(Uplinks) :
              (Outputs \o Uplinks)[i] = IF i <= Len(Outputs) THEN Outputs[i] ELSE Uplinks[i - Len(Outputs)]
        /\ Outputs \o Uplinks \in Seq(Output)
    BY <2>1, ConcatProperties
  <2> DEFINE t == Outputs \o Uplinks
  <2>3. Len(Outputs) \in Nat /\ Len(Uplinks) \in Nat
    BY <2>1
  <2>4. CASE m \in ToSet(Outputs)
    <3>1. PICK i \in 1..Len(Outputs) : m = Outputs[i]
      BY <2>1, <2>4, MembersOf
    <3>2. i \in 1..Len(t) /\ t[i] = m
      BY <2>2, <2>3, <3>1
    <3> HIDE DEF t
    <3>3. t \in Seq(Output) /\ turn' = t
      BY <1>1, <2>2 DEF t
    <3> QED  BY <3>2, <3>3, MembersOf
  <2>5. CASE m \in ToSet(Uplinks)
    <3>1. PICK i \in 1..Len(Uplinks) : m = Uplinks[i]
      BY <2>1, <2>5, MembersOf
    <3> DEFINE k == i + Len(Outputs)
    <3>2. k \in 1..Len(t) /\ ~(k <= Len(Outputs)) /\ k - Len(Outputs) = i
      BY <2>2, <2>3
    <3>3. t[k] = m
      BY <2>2, <3>1, <3>2
    <3>4. t \in Seq(Output) /\ turn' = t
      BY <1>1, <2>2
    <3> HIDE DEF t, k
    <3> QED  BY <3>2, <3>3, <3>4, MembersOf
  <2> QED  BY <2>4, <2>5 DEF ModulesAssumption, Output
<1>4. ASSUME last + 2 * Period < TimeMod PROVE AllFrom(queue, last + Period)
  <2>1. last \in Nat /\ Period \in Nat \ {0} /\ TimeMod \in Nat
    BY DEF HostInv, HostTypeInv, TimeAssumption
  <2>2. Wrap(last + Period) = last + Period
    BY <1>4, <2>1 DEF Wrap
  <2>3. last + Period \in Int
    BY <2>1
  <2>4. queue # << >> => ~(Head(queue).time < last + Period)
    BY <1>1, <2>2 DEF Due
  <2> QED  BY <1>2, <2>3, <2>4, FromTheHead
<1> QED  BY <1>1, <1>2, <1>3, <1>4 DEF DueInv

\* A module that has its turn loses the head of its queue.
LEMMA EmittingKeepsDue ==
    ASSUME HostInv, DueInv, NEW m0 \in Output, Emitting(m0),
           mqueue' = [mqueue EXCEPT ![m0] = Tail(@)],
           UNCHANGED <<last, phase, queue, turn>>
    PROVE  DueInv'
<1>1. phase = "out" /\ mqueue[m0] # << >>
  BY DEF Emitting
<1>2. ASSUME NEW m \in Output PROVE m \in ToSet(turn) \/ AllFrom(mqueue'[m], Wrap(last + Period))
  <2>1. m \in ToSet(turn) \/ AllFrom(mqueue[m], Wrap(last + Period))
    BY <1>1 DEF DueInv
  <2> QED  BY <1>1, <2>1, FromTaking
<1>3. Ascending(queue) /\ (last + 2 * Period < TimeMod => AllFrom(queue, last + Period))
  BY <1>1 DEF DueInv
<1>4. phase' = "out" /\ last' = last /\ queue' = queue /\ turn' = turn
  BY <1>1
<1> QED  BY <1>2, <1>3, <1>4 DEF DueInv, Wrap

\* Loopback puts an event off to a later period.
LEMMA LoopingKeepsDue ==
    ASSUME TimeAssumption, HostInv, DueInv, NEW m0 \in Loopback, LoopBack(m0)
    PROVE  DueInv'
<1> DEFINE e == Head(mqueue[m0])
           t == Wrap(LoopTime(e.time) + Period)
           ev == Event(e.id, m0, t)
<1>1. /\ m0 \in Output /\ m0 \in Source /\ mqueue[m0] # << >> /\ Due(e)
      /\ mqueue' = [mqueue EXCEPT ![m0] = Tail(@)] /\ phase = "out"
      /\ queue' = SortedInsert(queue, ev)
      /\ UNCHANGED <<last, phase, turn>>
  BY DEF LoopBack, Emitting, Output, Source
<1>2. mqueue[m0] \in Seq(Queued) /\ queue \in Seq(Queued)
  BY <1>1 DEF HostInv, HostTypeInv
<1>3. e \in Queued
  BY <1>1, <1>2
<1>4. e.id \in Nat /\ e.time \in Nat /\ last \in Nat /\ Period \in Nat \ {0} /\ TimeMod \in Nat \ {0}
  BY <1>3 DEF Queued, HostInv, HostTypeInv, TimeAssumption
<1>5. e.time < Wrap(last + Period)
  BY <1>1 DEF Due
<1> HIDE DEF e
<1>6. LoopTime(e.time) + Period \in Nat
  <2>1. Wrap(last + Period) \in Nat
    BY <1>4, Wrapped
  <2> QED  BY <1>4, <2>1 DEF LoopTime
<1>7. t \in Nat
  BY <1>4, <1>6, Wrapped
<1>8. last + 2 * Period < TimeMod => t >= last + Period
  <2> SUFFICES ASSUME last + 2 * Period < TimeMod PROVE t >= last + Period
    OBVIOUS
  <2>1. Wrap(last + Period) = last + Period
    BY <1>4 DEF Wrap
  <2>2. LoopTime(e.time) \in last..last + Period
    BY <1>4, <1>5, <2>1 DEF LoopTime
  <2>3. LoopTime(e.time) + Period \in last + Period..last + 2 * Period
    BY <1>4, <2>2
  <2>4. t = LoopTime(e.time) + Period
    <3>1. LoopTime(e.time) + Period < TimeMod
      BY <1>4, <2>3
    <3> QED  BY <1>4, <1>6, <3>1 DEF Wrap
  <2> QED  BY <1>4, <2>3, <2>4
<1> HIDE DEF t
<1>9. ev \in Queued /\ ev.time = t
  BY <1>1, <1>4, <1>7 DEF Event, Queued
<1> HIDE DEF ev
<1>10. Ascending(queue')
  <2>1. Ascending(queue)
    BY <1>1 DEF DueInv
  <2> QED  BY <1>1, <1>2, <1>9, <2>1, SortedInserting
<1>11. last + 2 * Period < TimeMod => AllFrom(queue', last + Period)
  <2> SUFFICES ASSUME last + 2 * Period < TimeMod PROVE AllFrom(queue', last + Period)
    OBVIOUS
  <2>1. AllFrom(queue, last + Period)
    BY <1>1 DEF DueInv
  <2>2. ev.time >= last + Period
    BY <1>8, <1>9
  <2> QED  BY <1>1, <1>2, <1>9, <2>1, <2>2, FromInserting
<1>12. ASSUME NEW m \in Output PROVE m \in ToSet(turn) \/ AllFrom(mqueue'[m], Wrap(last + Period))
  <2>1. m \in ToSet(turn) \/ AllFrom(mqueue[m], Wrap(last + Period))
    BY <1>1 DEF DueInv
  <2> QED  BY <1>1, <2>1, FromTaking
<1>13. phase' = "out" /\ last' = last /\ turn' = turn
  BY <1>1
<1> QED  BY <1>10, <1>11, <1>12, <1>13 DEF DueInv, Wrap

\* A module's turn ends when nothing in its queue is due.
LEMMA OutputDoneKeepsDue ==
    ASSUME TimeAssumption, HostInv, DueInv, OutputDone
    PROVE  DueInv'
<1> DEFINE m0 == Head(turn)
<1>1. /\ phase = "out" /\ turn # << >> /\ turn' = Tail(turn) /\ turn \in Seq(Output)
      /\ ~Emitting(m0) /\ UNCHANGED <<last, phase, queue, mqueue>>
  BY DEF OutputDone, HostInv, HostTypeInv
<1>2. m0 \in Output
  BY <1>1, WithoutHead
<1>3. mqueue[m0] \in Seq(Queued) /\ Ascending(mqueue[m0])
  BY <1>2 DEF HostInv, HostTypeInv, QueuesInv
<1>4. mqueue[m0] # << >> => ~(Head(mqueue[m0]).time < Wrap(last + Period))
  BY <1>1 DEF Emitting, Due
<1>5. Wrap(last + Period) \in Int
  <2>1. last + Period \in Int /\ TimeMod \in Nat \ {0}
    BY DEF HostInv, HostTypeInv, TimeAssumption
  <2> QED  BY <2>1, Wrapped
<1>6. AllFrom(mqueue[m0], Wrap(last + Period))
  BY <1>3, <1>4, <1>5, FromTheHead
<1>7. ASSUME NEW m \in ToSet(turn), m # m0 PROVE m \in ToSet(turn')
  <2>1. PICK i \in 1..Len(turn) : m = turn[i]
    BY <1>1, MembersOf
  <2>2. /\ Head(turn) = turn[1] /\ Len(Tail(turn)) = Len(turn) - 1
        /\ \A j \in 1..Len(Tail(turn)) : Tail(turn)[j] = turn[j + 1]
        /\ Tail(turn) \in Seq(Output)
    BY <1>1, WithoutHead
  <2>3. i # 1 /\ Len(turn) \in Nat
    BY <1>1, <1>7, <2>1, <2>2
  <2>4. i - 1 \in 1..Len(Tail(turn)) /\ (i - 1) + 1 = i
    BY <2>2, <2>3
  <2>5. Tail(turn)[i - 1] = m
    BY <2>1, <2>2, <2>4
  <2> DEFINE r == Tail(turn)
  <2>6. r \in Seq(Output) /\ i - 1 \in 1..Len(r) /\ m = r[i - 1] /\ turn' = r
    BY <1>1, <2>2, <2>4, <2>5
  <2> HIDE DEF r
  <2> QED  BY <2>6, MembersOf
<1>8. ASSUME NEW m \in Output PROVE m \in ToSet(turn') \/ AllFrom(mqueue[m], Wrap(last + Period))
  <2>1. m \in ToSet(turn) \/ AllFrom(mqueue[m], Wrap(last + Period))
    BY <1>1 DEF DueInv
  <2> QED  BY <1>6, <1>7, <2>1
<1>9. Ascending(queue) /\ (last + 2 * Period < TimeMod => AllFrom(queue, last + Period))
  BY <1>1 DEF DueInv
<1>10. phase' = "out" /\ last' = last /\ queue' = queue /\ mqueue' = mqueue
  BY <1>1
<1> QED  BY <1>8, <1>9, <1>10 DEF DueInv, Wrap

\* What is due in a cycle is executed in it, also what a loopback puts off, what a
\* callback schedules and what arrives late (tjost.c:335-388): nothing of it is
\* left in any queue when the cycle ends, but for the last cycles before the frame
\* time wraps around.
THEOREM NothingDueIsLeft == Spec => []NothingDueLeft
<1> USE ModulesAssumption, TimeAssumption
<1>1. Init => DueInv
  BY DEF Init, DueInv, Ascending
<1>2. HostInv /\ HostInv' /\ DueInv /\ [Next]_vars => DueInv'
  <2>1. SUFFICES ASSUME HostInv, HostInv', DueInv, [Next]_vars PROVE DueInv'
    OBVIOUS
  <2>2. ASSUME NEW src \in PortIn \cup PipeIn \cup Uplink \cup {Broadcast},
               NEW time \in ArrivalTimes(src), Arrive(src, time)
        PROVE  DueInv'
    <3>1. time \in Nat /\ src \in Source
      BY <2>1, ArrivalIsTyped
    <3> QED  BY <2>1, <2>2, <3>1, QueueStepsKeepDue DEF HostInv
  <2>3. CASE InputsDone \/ TakeEvent \/ DropEvent \/ CycleDone
    BY <2>1, <2>3, QueueStepsKeepDue DEF HostInv
  <2>4. ASSUME phase = "fan", NEW call \in Calls, FanOut(call) PROVE DueInv'
    BY <2>1, <2>4, QueueStepsKeepDue DEF HostInv
  <2>5. CASE QueueDone
    BY <2>1, <2>5, QueueDoneKeepsDue
  <2>6. ASSUME NEW m \in Port, WritePort(m) PROVE DueInv'
    <3>1. m \in Output
      BY DEF Output
    <3> QED  BY <2>1, <2>6, <3>1, EmittingKeepsDue DEF WritePort
  <2>7. ASSUME NEW m \in Loopback, LoopBack(m) PROVE DueInv'
    BY <2>1, <2>7, LoopingKeepsDue
  <2>8. ASSUME NEW m \in Uplink, NEW accepted \in BOOLEAN, PushUplink(m, accepted) PROVE DueInv'
    <3>1. m \in Output
      BY DEF Output
    <3> QED  BY <2>1, <2>8, <3>1, EmittingKeepsDue DEF PushUplink
  <2>9. CASE OutputDone
    BY <2>1, <2>9, OutputDoneKeepsDue
  <2>10. CASE UNCHANGED vars
    BY <2>1, <2>10 DEF vars, DueInv, Wrap
  <2> QED  BY <2>1, <2>2, <2>3, <2>4, <2>5, <2>6, <2>7, <2>8, <2>9, <2>10 DEF Next
<1>3. HostInv /\ DueInv => NothingDueLeft
  <2>1. SUFFICES ASSUME HostInv, DueInv, phase = "out", turn = << >>, last + 2 * Period < TimeMod
                 PROVE  /\ \A i \in 1..Len(queue) : queue[i].time >= last + Period
                        /\ \A m \in Output : \A i \in 1..Len(mqueue[m]) : mqueue[m][i].time >= last + Period
    BY DEF NothingDueLeft
  <2>2. last \in Nat /\ Period \in Nat \ {0} /\ TimeMod \in Nat
    BY <2>1 DEF HostInv, HostTypeInv, TimeAssumption
  <2>3. Wrap(last + Period) = last + Period
    BY <2>1, <2>2 DEF Wrap
  <2>4. ToSet(turn) = {}
    BY <2>1 DEF ToSet
  <2> QED  BY <2>1, <2>3, <2>4 DEF DueInv, AllFrom
<1> QED  BY <1>1, <1>2, <1>3, HostInvariant, PTL DEF Spec

-----------------------------------------------------------------------------
(* Counting events. *)

\* One if an entry is an event from a source, else none.
One(e, s, id) == IF e.id = id /\ e.src = s THEN 1 ELSE 0

\* Where a sequence holds an event.
Places(s, id, q) == {i \in 1..Len(q) : q[i].id = id /\ q[i].src = s}

\* A sequence holds an event a number of times.
LEMMA CountingPlaces ==
    ASSUME NEW q, Len(q) \in Nat, NEW s, NEW id
    PROVE  /\ IsFiniteSet(Places(s, id, q)) /\ In(s, id, q) = Cardinality(Places(s, id, q))
           /\ In(s, id, q) \in Nat
           /\ In(s, id, q) = 0 <=> \A i \in 1..Len(q) : ~(q[i].id = id /\ q[i].src = s)
<1>1. IsFiniteSet(1..Len(q))
  BY FS_Interval
<1>2. IsFiniteSet(Places(s, id, q))
  BY <1>1, FS_Subset DEF Places
<1>3. In(s, id, q) = Cardinality(Places(s, id, q))
  BY DEF In, Places
<1>4. Cardinality(Places(s, id, q)) \in Nat
  BY <1>2, FS_CardinalityType
<1>5. Cardinality(Places(s, id, q)) = 0 <=> Places(s, id, q) = {}
  BY <1>2, FS_EmptySet
<1>6. Places(s, id, q) = {} <=> \A i \in 1..Len(q) : ~(q[i].id = id /\ q[i].src = s)
  BY DEF Places
<1> QED  BY <1>2, <1>3, <1>4, <1>5, <1>6

\* A sequence has one entry more than another, behind its place p.
OneMore(q, r, p, e) ==
    /\ Len(q) \in Nat /\ p \in 0..Len(q) /\ Len(r) = Len(q) + 1
    /\ \A i \in 1..Len(r) : r[i] = IF i <= p THEN q[i] ELSE IF i = p + 1 THEN e ELSE q[i - 1]

\* A sequence with one entry more, anywhere, holds an event once more if the
\* entry is that event.
LEMMA Counting ==
    ASSUME NEW q, NEW r, NEW p, NEW e, OneMore(q, r, p, e), NEW s, NEW id
    PROVE  In(s, id, r) = In(s, id, q) + One(e, s, id)
<1> USE DEF OneMore
<1> DEFINE A == Places(s, id, q)
           B == Places(s, id, r) \ {p + 1}
           f == [i \in A |-> IF i <= p THEN i ELSE i + 1]
<1>1. \A i \in A : i \in 1..Len(q) /\ q[i].id = id /\ q[i].src = s
  BY DEF Places
<1>2. \A i \in A : f[i] \in B
  <2>1. TAKE i \in A
  <2>2. CASE i <= p
    <3>1. f[i] = i /\ i \in 1..Len(r) /\ r[i] = q[i] /\ i # p + 1
      BY <1>1, <2>2
    <3> QED  BY <1>1, <3>1 DEF Places
  <2>3. CASE ~(i <= p)
    <3>1. /\ f[i] = i + 1 /\ i + 1 \in 1..Len(r) /\ ~(i + 1 <= p) /\ i + 1 # p + 1
          /\ (i + 1) - 1 = i
      BY <1>1, <2>3
    <3>2. r[i + 1] = q[i]
      BY <3>1
    <3> QED  BY <1>1, <3>1, <3>2 DEF Places
  <2> QED  BY <2>2, <2>3
<1>3. \A i, j \in A : f[i] = f[j] => i = j
  BY <1>1
<1>4. \A k \in B : \E i \in A : f[i] = k
  <2>1. TAKE k \in B
  <2>2. k \in 1..Len(r) /\ k # p + 1 /\ r[k].id = id /\ r[k].src = s
    BY DEF Places
  <2>3. CASE k <= p
    <3>1. r[k] = q[k] /\ k \in 1..Len(q)
      BY <2>2, <2>3
    <3>2. k \in A
      BY <2>2, <3>1 DEF Places
    <3> QED  BY <2>3, <3>2
  <2>4. CASE ~(k <= p)
    <3>1. r[k] = q[k - 1] /\ k - 1 \in 1..Len(q) /\ ~(k - 1 <= p) /\ (k - 1) + 1 = k
      BY <2>2, <2>4
    <3>2. k - 1 \in A
      BY <2>2, <3>1 DEF Places
    <3> QED  BY <3>1, <3>2
  <2> QED  BY <2>3, <2>4
<1>5. f \in Bijection(A, B)
  <2>1. f \in [A -> B]
    BY <1>2
  <2> HIDE DEF f, A, B
  <2> QED  BY <1>3, <1>4, <2>1 DEF Bijection, Injection, Surjection, IsInjective
<1>6. IsFiniteSet(A) /\ IsFiniteSet(Places(s, id, r)) /\ Cardinality(A) \in Nat
  BY CountingPlaces
<1>7. IsFiniteSet(B) /\ Cardinality(B) = Cardinality(A)
  <2>1. ExistsBijection(A, B)
    BY <1>5 DEF ExistsBijection
  <2> QED  BY <1>6, <2>1, FS_Bijection
<1>8. Places(s, id, r) = IF e.id = id /\ e.src = s THEN B \cup {p + 1} ELSE B
  <2>1. p + 1 \in 1..Len(r) /\ r[p + 1] = e
    OBVIOUS
  <2>2. p + 1 \in Places(s, id, r) <=> e.id = id /\ e.src = s
    BY <2>1 DEF Places
  <2> QED  BY <2>2
<1>9. Cardinality(B \cup {p + 1}) = Cardinality(B) + 1
  <2>1. p + 1 \notin B
    OBVIOUS
  <2> HIDE DEF B
  <2> QED  BY <1>7, <2>1, FS_AddElement
<1>10. In(s, id, q) = Cardinality(A) /\ In(s, id, r) = Cardinality(Places(s, id, r))
  BY CountingPlaces
<1> HIDE DEF A, B
<1> QED  BY <1>6, <1>7, <1>8, <1>9, <1>10 DEF One

\* An event that is sorted in is there once more.
LEMMA CountingInserted ==
    ASSUME NEW q \in Seq(Queued), NEW ev \in Queued, NEW s, NEW id
    PROVE  In(s, id, SortedInsert(q, ev)) = In(s, id, q) + One(ev, s, id)
<1> DEFINE r == SortedInsert(q, ev)
<1>1. PICK p \in 0..Len(q) :
             /\ r \in Seq(Queued) /\ Len(r) = Len(q) + 1
             /\ \A i \in 1..Len(r) : r[i] = IF i <= p THEN q[i] ELSE IF i = p + 1 THEN ev ELSE q[i - 1]
             /\ p > 0 => q[p].time <= ev.time
             /\ \A i \in p + 1..Len(q) : ev.time < q[i].time
  BY SortedInserted
<1>2. Len(q) \in Nat
  OBVIOUS
<1> HIDE DEF r
<1>3. OneMore(q, r, p, ev)
  BY <1>1, <1>2 DEF OneMore
<1>4. In(s, id, r) = In(s, id, q) + One(ev, s, id)
  BY <1>3, Counting
<1> QED  BY <1>4 DEF r

\* An event at the head is there once less when the head is taken.
LEMMA CountingTail ==
    ASSUME NEW X, NEW q \in Seq(X), q # << >>, NEW s, NEW id
    PROVE  /\ In(s, id, q) = In(s, id, Tail(q)) + One(Head(q), s, id)
           /\ In(s, id, Tail(q)) \in Nat
<1> DEFINE t == Tail(q)
           e == Head(q)
<1>1. /\ Len(t) = Len(q) - 1 /\ Len(q) \in Nat /\ Len(t) \in Nat /\ e = q[1]
      /\ \A i \in 1..Len(t) : i + 1 \in 2..Len(q) /\ t[i] = q[i + 1]
  BY WithoutHead
<1> HIDE DEF t, e
<1>2. \A i \in 1..Len(q) : q[i] = IF i <= 0 THEN t[i] ELSE IF i = 0 + 1 THEN e ELSE t[i - 1]
  <2>1. TAKE i \in 1..Len(q)
  <2>2. CASE i = 1
    BY <1>1, <2>2
  <2>3. CASE i # 1
    <3>1. i - 1 \in 1..Len(t) /\ (i - 1) + 1 = i /\ ~(i <= 0)
      BY <1>1, <2>3
    <3>2. t[i - 1] = q[i]
      BY <1>1, <3>1
    <3> QED  BY <2>3, <3>1, <3>2
  <2> QED  BY <2>2, <2>3
<1>3. OneMore(t, q, 0, e)
  <2>1. 0 \in 0..Len(t) /\ Len(q) = Len(t) + 1
    BY <1>1
  <2> QED  BY <1>1, <1>2, <2>1 DEF OneMore
<1>4. In(s, id, q) = In(s, id, t) + One(e, s, id)
  BY <1>3, Counting
<1>5. In(s, id, t) \in Nat
  BY <1>1, CountingPlaces
<1> QED  BY <1>4, <1>5 DEF t, e

\* An event that is appended is there once more.
LEMMA CountingAppended ==
    ASSUME NEW X, NEW q \in Seq(X), NEW e \in X, NEW s, NEW id
    PROVE  In(s, id, Append(q, e)) = In(s, id, q) + One(e, s, id)
<1> DEFINE r == Append(q, e)
<1>1. /\ Len(q) \in Nat /\ Len(r) = Len(q) + 1
      /\ \A i \in 1..Len(r) : r[i] = IF i <= Len(q) THEN q[i] ELSE e
  BY AppendProperties
<1> HIDE DEF r
<1>2. \A i \in 1..Len(r) :
         r[i] = IF i <= Len(q) THEN q[i] ELSE IF i = Len(q) + 1 THEN e ELSE q[i - 1]
  BY <1>1
<1>3. OneMore(q, r, Len(q), e)
  <2>1. Len(q) \in 0..Len(q)
    BY <1>1
  <2> QED  BY <1>1, <1>2, <2>1 DEF OneMore
<1>4. In(s, id, r) = In(s, id, q) + One(e, s, id)
  BY <1>3, Counting
<1> QED  BY <1>4 DEF r

-----------------------------------------------------------------------------
(* Events and those who made them. *)

\* The entries of a queue are among the first n events.
IdsIn(q, n) == \A i \in 1..Len(q) : q[i].id \in 1..n

\* Every entry stands for an event that was made.
IdsInv ==
    /\ IdsIn(queue, Len(created)) /\ \A m \in Output : IdsIn(mqueue[m], Len(created))
    /\ \A m \in Port : IdsIn(written[m], Len(created)) /\ IdsIn(dropped[m], Len(created))

\* What is in a queue with an event sorted in.
LEMMA EntriesOfInserted ==
    ASSUME NEW q \in Seq(Queued), NEW ev \in Queued
    PROVE  \A i \in 1..Len(SortedInsert(q, ev)) :
              \/ SortedInsert(q, ev)[i] = ev
              \/ \E k \in 1..Len(q) : SortedInsert(q, ev)[i] = q[k]
<1> DEFINE r == SortedInsert(q, ev)
<1>1. PICK p \in 0..Len(q) :
             /\ r \in Seq(Queued) /\ Len(r) = Len(q) + 1
             /\ \A i \in 1..Len(r) : r[i] = IF i <= p THEN q[i] ELSE IF i = p + 1 THEN ev ELSE q[i - 1]
             /\ p > 0 => q[p].time <= ev.time
             /\ \A i \in p + 1..Len(q) : ev.time < q[i].time
  BY SortedInserted
<1> HIDE DEF r
<1>2. ASSUME NEW i \in 1..Len(r) PROVE r[i] = ev \/ \E k \in 1..Len(q) : r[i] = q[k]
  <2>1. Len(q) \in Nat /\ p \in 0..Len(q)
    OBVIOUS
  <2>2. CASE i <= p
    <3>1. r[i] = q[i] /\ i \in 1..Len(q)
      BY <1>1, <2>1, <2>2
    <3> QED  BY <3>1
  <2>3. CASE i = p + 1
    BY <1>1, <2>1, <2>3
  <2>4. CASE i > p + 1
    <3>1. r[i] = q[i - 1] /\ i - 1 \in 1..Len(q)
      BY <1>1, <2>1, <2>4
    <3> QED  BY <3>1
  <2> QED  BY <2>1, <2>2, <2>3, <2>4
<1> QED  BY <1>2 DEF r

\* One more of the first events joins those in a queue.
LEMMA IdsOfInserted ==
    ASSUME NEW q \in Seq(Queued), NEW ev \in Queued, NEW n, IdsIn(q, n), ev.id \in 1..n
    PROVE  IdsIn(SortedInsert(q, ev), n)
<1> DEFINE r == SortedInsert(q, ev)
<1>1. \A i \in 1..Len(r) : r[i] = ev \/ \E k \in 1..Len(q) : r[i] = q[k]
  BY EntriesOfInserted
<1> HIDE DEF r
<1>2. \A i \in 1..Len(r) : r[i].id \in 1..n
  BY <1>1 DEF IdsIn
<1> QED  BY <1>2 DEF IdsIn, r

\* Taking the head away leaves the others.
LEMMA IdsOfTail ==
    ASSUME NEW X, NEW q \in Seq(X), q # << >>, NEW n, IdsIn(q, n)
    PROVE  IdsIn(Tail(q), n) /\ Head(q).id \in 1..n
<1> DEFINE r == Tail(q)
<1>1. /\ Head(q) = q[1] /\ 1 \in 1..Len(q) /\ Len(q) \in Nat
      /\ \A i \in 1..Len(r) : i + 1 \in 2..Len(q) /\ r[i] = q[i + 1]
  BY WithoutHead
<1> HIDE DEF r
<1>2. \A i \in 1..Len(r) : i + 1 \in 1..Len(q)
  BY <1>1
<1> QED  BY <1>1, <1>2 DEF IdsIn, r

\* One more entry at the end.
LEMMA IdsOfAppended ==
    ASSUME NEW X, NEW q \in Seq(X), NEW e \in X, NEW n, IdsIn(q, n), e.id \in 1..n
    PROVE  IdsIn(Append(q, e), n)
<1> DEFINE r == Append(q, e)
<1>1. /\ Len(q) \in Nat /\ Len(r) = Len(q) + 1
      /\ \A i \in 1..Len(r) : r[i] = IF i <= Len(q) THEN q[i] ELSE e
  BY AppendProperties
<1> HIDE DEF r
<1>2. \A i \in 1..Len(r) : i <= Len(q) => i \in 1..Len(q)
  BY <1>1
<1> QED  BY <1>1, <1>2 DEF IdsIn, r

\* More events may be made.
LEMMA IdsGrow ==
    ASSUME NEW q, NEW n \in Nat, IdsIn(q, n)
    PROVE  IdsIn(q, n + 1)
<1>1. \A k \in 1..n : k \in 1..n + 1
  OBVIOUS
<1> QED  BY <1>1 DEF IdsIn

\* A step makes no event or one, and the others stay what they were.
LEMMA CreatedGrows ==
    ASSUME HostInv, NEW x, x \in [src : Source \cup {"lua"}, time : Nat],
           created' = Append(created, x)
    PROVE  /\ Len(created) \in Nat /\ Len(created') = Len(created) + 1
           /\ \A id \in 1..Len(created) : created'[id] = created[id]
           /\ created'[Len(created) + 1] = x
BY AppendProperties DEF HostInv, HostTypeInv

\* Every event was made for some frame time.
LEMMA CreatedTimes ==
    ASSUME HostInv
    PROVE  \A id \in 1..Len(created) : created[id].time \in Nat
<1> DEFINE X == [src : Source \cup {"lua"}, time : Nat]
<1>1. created \in Seq(X)
  BY DEF HostInv, HostTypeInv
<1>2. \A x \in X : x.time \in Nat
  OBVIOUS
<1> HIDE DEF X
<1>3. \A id \in 1..Len(created) : created[id] \in X
  BY <1>1
<1> QED  BY <1>2, <1>3

\* A module's queue with the event at hand, if the module is a child of the source
\* at hand.
Fanned(m) == IF m \in Children[Head(pend)] THEN SortedInsert(mqueue[m], Head(queue)) ELSE mqueue[m]

\* What an event that is handed out does to the queue of a module.
LEMMA FanningOutAt ==
    ASSUME TimeAssumption, HostInv, phase = "fan", NEW call \in Calls, FanOut(call), NEW m \in Output
    PROVE  /\ Head(queue) \in Queued /\ mqueue[m] \in Seq(Queued) /\ Fanned(m) \in Seq(Queued)
           /\ \/ mqueue'[m] = Fanned(m)
              \/ \E ev \in Queued : /\ ev.id = Len(created) + 1 /\ ev.src = Head(pend)
                                    /\ Head(pend) \in HasLua
                                    /\ created' = Append(created, [src |-> "lua", time |-> ev.time])
                                    /\ mqueue'[m] = SortedInsert(Fanned(m), ev)
<1> USE DEF HostInv
<1> DEFINE s == Head(pend)
           e == Head(queue)
           ev == Event(Len(created) + 1, s, call.time)
<1>1. e \in Queued /\ s \in Source
  BY DEF HostTypeInv, FanInv, FanOut
<1>2. call.time \in Nat
  BY CallIsTyped
<1>3. ev \in Queued /\ ev.id = Len(created) + 1 /\ ev.src = s /\ ev.time = call.time
  BY <1>1, <1>2 DEF Event, Queued, HostTypeInv
<1>4. mqueue[m] \in Seq(Queued) /\ Fanned(m) \in Seq(Queued)
  <2>1. mqueue[m] \in Seq(Queued)
    BY DEF HostTypeInv
  <2> QED  BY <1>1, <2>1, InsertingIsTyped DEF Fanned
<1>5. ToChildren(s)[m] = Fanned(m) /\ ToChildren(s) = [k \in Output |-> ToChildren(s)[k]]
  BY DEF ToChildren, Fanned
<1>6. CASE mqueue' = ToChildren(s) /\ UNCHANGED created
  BY <1>1, <1>4, <1>5, <1>6
<1>7. CASE /\ call.to \in Output /\ s \in HasLua
           /\ mqueue' = [ToChildren(s) EXCEPT ![call.to] = SortedInsert(@, ev)]
           /\ created' = Append(created, [src |-> "lua", time |-> call.time])
  <2> HIDE DEF s, ev
  <2>1. mqueue'[m] = IF m = call.to THEN SortedInsert(Fanned(m), ev) ELSE Fanned(m)
    BY <1>5, <1>7
  <2> QED  BY <1>1, <1>2, <1>3, <1>4, <1>7, <2>1 DEF s
<1> QED  BY <1>6, <1>7 DEF FanOut

\* A module that has its turn passes the head of its queue on.
LEMMA EmittingTakesHead ==
    ASSUME HostInv, NEW m0 \in Output, Emitting(m0),
           mqueue' = [mqueue EXCEPT ![m0] = Tail(@)]
    PROVE  /\ phase = "out" /\ mqueue[m0] \in Seq(Queued) /\ mqueue[m0] # << >>
           /\ Head(mqueue[m0]) = mqueue[m0][1] /\ 1 \in 1..Len(mqueue[m0])
           /\ Head(mqueue[m0]) \in Queued
           /\ mqueue'[m0] = Tail(mqueue[m0])
           /\ \A m \in Output \ {m0} : mqueue'[m] = mqueue[m]
<1>1. mqueue \in [Output -> Seq(Queued)] /\ mqueue[m0] # << >> /\ phase = "out"
  BY DEF HostInv, HostTypeInv, Emitting
<1>2. mqueue[m0] \in Seq(Queued)
  BY <1>1
<1>3. /\ Head(mqueue[m0]) = mqueue[m0][1] /\ 1 \in 1..Len(mqueue[m0])
      /\ Head(mqueue[m0]) \in Queued
  BY <1>1, <1>2, WithoutHead
<1> QED  BY <1>1, <1>2, <1>3

\* Every step keeps entries to events that were made.
LEMMA StepsKeepIds ==
    ASSUME ModulesAssumption, TimeAssumption, HostInv, IdsInv, [Next]_vars
    PROVE  IdsInv'
<1> USE DEF HostInv
<1> DEFINE n == Len(created)
<1>1. n \in Nat
  BY DEF HostTypeInv
<1> HIDE DEF n
<1>2. /\ IdsIn(queue, n) /\ \A m \in Output : IdsIn(mqueue[m], n)
      /\ \A m \in Port : IdsIn(written[m], n) /\ IdsIn(dropped[m], n)
  BY DEF IdsInv, n
<1>3. /\ queue \in Seq(Queued) /\ \A m \in Output : mqueue[m] \in Seq(Queued)
      /\ \A m \in Port : written[m] \in Seq(Entry) /\ dropped[m] \in Seq(Queued)
  BY DEF HostTypeInv
<1>4. ASSUME NEW src \in PortIn \cup PipeIn \cup Uplink \cup {Broadcast},
             NEW time \in ArrivalTimes(src), Arrive(src, time)
      PROVE  IdsInv'
  <2> DEFINE ev == Event(n + 1, src, time)
  <2>1. time \in Nat /\ src \in Source
    BY ArrivalIsTyped
  <2>2. ev \in Queued /\ ev.id = n + 1
    BY <1>1, <2>1 DEF Event, Queued
  <2>3. queue' = SortedInsert(queue, ev) /\ UNCHANGED <<mqueue, written, dropped>>
    BY <1>4 DEF Arrive, n
  <2>4. Len(created') = n + 1
    BY <1>4, <2>1, CreatedGrows DEF Arrive, n
  <2> HIDE DEF ev
  <2>5. IdsIn(queue', n + 1)
    <3>1. IdsIn(queue, n + 1) /\ ev.id \in 1..n + 1
      BY <1>1, <1>2, <2>2, IdsGrow
    <3> QED  BY <1>3, <2>2, <2>3, <3>1, IdsOfInserted
  <2>6. /\ \A m \in Output : IdsIn(mqueue[m], n + 1)
        /\ \A m \in Port : IdsIn(written[m], n + 1) /\ IdsIn(dropped[m], n + 1)
    BY <1>1, <1>2, IdsGrow
  <2> QED  BY <2>3, <2>4, <2>5, <2>6 DEF IdsInv
<1>5. CASE TakeEvent
  <2>1. /\ Len(queue') = Len(queue) /\ \A i \in 1..Len(queue) : queue'[i].id = queue[i].id
        /\ UNCHANGED <<created, mqueue, written, dropped>>
    BY <1>3, <1>5 DEF TakeEvent
  <2>2. IdsIn(queue', n)
    BY <1>2, <2>1 DEF IdsIn
  <2> QED  BY <1>2, <2>1, <2>2 DEF IdsInv, n
<1>6. ASSUME phase = "fan", NEW call \in Calls, FanOut(call) PROVE IdsInv'
  <2>1. UNCHANGED <<queue, written, dropped>> /\ queue # << >>
    BY <1>6 DEF FanOut, FanInv
  <2>2. Head(queue).id \in 1..n
    BY <1>2, <1>3, <2>1, IdsOfTail
  <2>3. ASSUME NEW m \in Output PROVE IdsIn(Fanned(m), n) /\ Head(queue) \in Queued
    <3>1. Head(queue) \in Queued
      BY <1>6, FanningOutAt
    <3>2. IdsIn(SortedInsert(mqueue[m], Head(queue)), n)
      BY <1>2, <1>3, <2>2, <3>1, IdsOfInserted
    <3> QED  BY <1>2, <3>1, <3>2 DEF Fanned
  <2>4. CASE Len(created') = n
    <3>1. ASSUME NEW m \in Output PROVE mqueue'[m] = Fanned(m)
      <4>1. CASE mqueue'[m] = Fanned(m)
        BY <4>1
      <4>2. ASSUME NEW ev \in Queued,
                   created' = Append(created, [src |-> "lua", time |-> ev.time])
            PROVE  FALSE
        <5>1. [src |-> "lua", time |-> ev.time] \in [src : Source \cup {"lua"}, time : Nat]
          BY DEF Queued
        <5>2. Len(created') = n + 1
          BY <4>2, <5>1, CreatedGrows DEF n
        <5> QED  BY <1>1, <2>4, <5>2
      <4> QED  BY <1>6, <4>1, <4>2, FanningOutAt
    <3> QED  BY <1>2, <2>1, <2>3, <2>4, <3>1 DEF IdsInv
  <2>5. CASE Len(created') = n + 1
    <3>1. ASSUME NEW m \in Output PROVE IdsIn(mqueue'[m], n + 1)
      <4>1. IdsIn(Fanned(m), n + 1)
        BY <1>1, <2>3, IdsGrow
      <4>2. ASSUME NEW ev \in Queued, ev.id = n + 1
            PROVE  IdsIn(SortedInsert(Fanned(m), ev), n + 1)
        <5>1. ev.id \in 1..n + 1 /\ Fanned(m) \in Seq(Queued)
          BY <1>1, <1>6, <4>2, FanningOutAt
        <5> QED  BY <4>1, <5>1, IdsOfInserted
      <4> QED  BY <1>6, <4>1, <4>2, FanningOutAt DEF n
    <3>2. /\ IdsIn(queue, n + 1)
          /\ \A m \in Port : IdsIn(written[m], n + 1) /\ IdsIn(dropped[m], n + 1)
      BY <1>1, <1>2, IdsGrow
    <3> QED  BY <2>1, <2>5, <3>1, <3>2 DEF IdsInv
  <2>6. Len(created') = n \/ Len(created') = n + 1
    <3>1. ASSUME NEW t \in Nat, created' = Append(created, [src |-> "lua", time |-> t])
          PROVE  Len(created') = n + 1
      <4>1. [src |-> "lua", time |-> t] \in [src : Source \cup {"lua"}, time : Nat]
        OBVIOUS
      <4> QED  BY <3>1, <4>1, CreatedGrows DEF n
    <3>2. created' = created \/ \E t \in Nat : created' = Append(created, [src |-> "lua", time |-> t])
      <4>1. call.time \in Nat
        BY <1>6, CallIsTyped
      <4> QED  BY <1>6, <4>1 DEF FanOut
    <3> QED  BY <3>1, <3>2 DEF n
  <2> QED  BY <2>4, <2>5, <2>6
<1>7. CASE InputsDone \/ QueueDone \/ OutputDone \/ CycleDone \/ UNCHANGED vars
  BY <1>7 DEF IdsInv, InputsDone, QueueDone, OutputDone, CycleDone, vars
<1>8. CASE DropEvent
  <2>1. queue # << >> /\ queue' = Tail(queue) /\ UNCHANGED <<created, mqueue, written, dropped>>
    BY <1>8 DEF DropEvent, FanInv
  <2>2. IdsIn(queue', n)
    BY <1>2, <1>3, <2>1, IdsOfTail
  <2> QED  BY <1>2, <2>1, <2>2 DEF IdsInv, n
<1>9. ASSUME NEW m0 \in Output, Emitting(m0), mqueue' = [mqueue EXCEPT ![m0] = Tail(@)]
      PROVE  Head(mqueue[m0]).id \in 1..n /\ \A m \in Output : IdsIn(mqueue'[m], n)
  <2>1. IdsIn(Tail(mqueue[m0]), n) /\ Head(mqueue[m0]).id \in 1..n
    BY <1>2, <1>9, EmittingTakesHead, IdsOfTail
  <2> QED  BY <1>2, <1>9, <2>1, EmittingTakesHead
<1>10. ASSUME NEW m0 \in Port, WritePort(m0) PROVE IdsInv'
  <2> DEFINE e == Head(mqueue[m0])
             w == [id |-> e.id, src |-> e.src, frame |-> Clamp(e.time) - last, cycle |-> cycle]
  <2>1. m0 \in Output /\ Emitting(m0) /\ mqueue' = [mqueue EXCEPT ![m0] = Tail(@)]
        /\ UNCHANGED <<queue, created>>
    BY <1>10 DEF WritePort, Output
  <2>2. e.id \in 1..n /\ \A m \in Output : IdsIn(mqueue'[m], n)
    BY <1>9, <2>1
  <2>3. e \in Queued
    BY <2>1, EmittingTakesHead
  <2>4. \/ written' = [written EXCEPT ![m0] = Append(@, w)] /\ dropped' = dropped
        \/ dropped' = [dropped EXCEPT ![m0] = Append(@, e)] /\ written' = written
    BY <1>10 DEF WritePort
  <2>5. w.id = e.id
    OBVIOUS
  <2> HIDE DEF e, w
  <2>6. \A m \in Port : IdsIn(dropped'[m], n)
    <3>1. IdsIn(Append(dropped[m0], e), n)
      BY <1>2, <1>3, <2>2, <2>3, IdsOfAppended
    <3> QED  BY <1>2, <2>4, <3>1 DEF HostTypeInv
  <2>7. \A m \in Port : IdsIn(written'[m], n)
    <3>1. ASSUME NEW X, written[m0] \in Seq(X), w \in X PROVE IdsIn(Append(written[m0], w), n)
      BY <1>2, <2>2, <2>5, <3>1, IdsOfAppended
    <3>2. written[m0] \in Seq(Entry \cup {w})
      BY <1>3
    <3>3. IdsIn(Append(written[m0], w), n)
      BY <3>1, <3>2
    <3> QED  BY <1>2, <2>4, <3>3 DEF HostTypeInv
  <2> QED  BY <1>2, <2>1, <2>2, <2>6, <2>7 DEF IdsInv, n
<1>11. ASSUME NEW m0 \in Loopback, LoopBack(m0) PROVE IdsInv'
  <2> DEFINE e == Head(mqueue[m0])
             ev == Event(e.id, m0, Wrap(LoopTime(e.time) + Period))
  <2>1. m0 \in Output /\ Emitting(m0) /\ mqueue' = [mqueue EXCEPT ![m0] = Tail(@)]
        /\ queue' = SortedInsert(queue, ev) /\ UNCHANGED <<created, written, dropped>>
    BY <1>11 DEF LoopBack, Output
  <2>2. e.id \in 1..n /\ \A m \in Output : IdsIn(mqueue'[m], n)
    BY <1>9, <2>1
  <2>3. ev \in Queued /\ ev.id = e.id
    BY <1>11, LoopedIsTyped DEF Event
  <2> HIDE DEF e, ev
  <2>4. IdsIn(queue', n)
    BY <1>2, <1>3, <2>1, <2>2, <2>3, IdsOfInserted
  <2> QED  BY <1>2, <2>1, <2>2, <2>4 DEF IdsInv, n
<1>12. ASSUME NEW m0 \in Uplink, NEW accepted \in BOOLEAN, PushUplink(m0, accepted) PROVE IdsInv'
  <2>1. m0 \in Output /\ Emitting(m0) /\ mqueue' = [mqueue EXCEPT ![m0] = Tail(@)]
        /\ UNCHANGED <<queue, created, written, dropped>>
    BY <1>12 DEF PushUplink, Output
  <2>2. \A m \in Output : IdsIn(mqueue'[m], n)
    BY <1>9, <2>1
  <2> QED  BY <1>2, <2>1, <2>2 DEF IdsInv, n
<1> QED  BY <1>4, <1>5, <1>6, <1>7, <1>8, <1>10, <1>11, <1>12 DEF Next

-----------------------------------------------------------------------------
(* An input's event is nowhere lost and nowhere doubled. *)

\* The event at hand has reached all that are to get it.
HandedOut(id) == phase = "fan" /\ Head(queue).id = id /\ pend = << >>

\* How often an event is in a port's queue, in its output and among its overflows.
At(s, id, m) == In(s, id, mqueue[m]) + In(s, id, written[m]) + In(s, id, dropped[m])

\* An event of an input waits in the host queue at most once.  While it does there
\* is no copy of it, and no child port has it until it is handed out.
Once(s, id) ==
    /\ In(s, id, queue) \in {0, 1}
    /\ \A i \in 1..Len(queue) : queue[i].id = id /\ queue[i].src # s => In(s, id, queue) = 0
    /\ \A m \in Output : \A i \in 1..Len(mqueue[m]) :
          mqueue[m][i].id = id => In(s, id, queue) = 0 \/ HandedOut(id)
    /\ \A m \in Port \cap Children[s] :
          At(s, id, m) = IF In(s, id, queue) = 1 /\ ~HandedOut(id) THEN 0 ELSE 1
OnceInv == \A id \in 1..Len(created) :
    created[id].src \in PortIn \cup PipeIn => Once(created[id].src, id)

\* But for a broadcast, the event at hand goes to the children of its source only.
PendInv == phase = "fan" =>
    Head(queue).src = Broadcast \/ pend = << >> \/ pend = <<Head(queue).src>>

\* An input is no output module and no broadcast.
LEMMA InputsApart ==
    ASSUME ModulesAssumption, NEW s \in PortIn \cup PipeIn
    PROVE  s \notin Loopback /\ s \notin Uplink /\ s # Broadcast /\ s # "lua"
BY DEF ModulesAssumption

\* An event that is still to be made is nowhere.
LEMMA NoneYet ==
    ASSUME NEW q, Len(q) \in Nat, NEW n \in Nat, IdsIn(q, n), NEW s
    PROVE  In(s, n + 1, q) = 0 /\ \A i \in 1..Len(q) : q[i].id # n + 1
<1>1. \A i \in 1..Len(q) : q[i].id # n + 1
  BY DEF IdsIn
<1> QED  BY <1>1, CountingPlaces

\* Who is in a queue does not depend on the times.
LEMMA CountingSame ==
    ASSUME NEW q, NEW r, Len(r) = Len(q),
           \A i \in 1..Len(q) : r[i].id = q[i].id /\ r[i].src = q[i].src,
           NEW s, NEW id
    PROVE  In(s, id, r) = In(s, id, q)
<1>1. {i \in 1..Len(r) : r[i].id = id /\ r[i].src = s} = {i \in 1..Len(q) : q[i].id = id /\ q[i].src = s}
  OBVIOUS
<1> QED  BY <1>1 DEF In

\* The queues are sequences, and events are in them a number of times.
LEMMA CountsInQueues ==
    ASSUME HostInv, NEW s, NEW id
    PROVE  /\ queue \in Seq(Queued) /\ Len(queue) \in Nat /\ In(s, id, queue) \in Nat
           /\ \A m \in Output : mqueue[m] \in Seq(Queued) /\ In(s, id, mqueue[m]) \in Nat
           /\ \A m \in Port : /\ m \in Output /\ mqueue[m] \in Seq(Queued)
                              /\ written[m] \in Seq(Entry) /\ dropped[m] \in Seq(Queued)
                              /\ In(s, id, mqueue[m]) \in Nat /\ In(s, id, written[m]) \in Nat
                              /\ In(s, id, dropped[m]) \in Nat
<1>1. /\ queue \in Seq(Queued) /\ \A m \in Output : mqueue[m] \in Seq(Queued)
      /\ \A m \in Port : m \in Output /\ written[m] \in Seq(Entry) /\ dropped[m] \in Seq(Queued)
  BY DEF HostInv, HostTypeInv, Output
<1>2. ASSUME NEW X, NEW q \in Seq(X) PROVE Len(q) \in Nat /\ In(s, id, q) \in Nat
  BY CountingPlaces
<1> QED  BY <1>1, <1>2

\* An event that arrives is in the host queue and nowhere else.
LEMMA ArrivingOnce ==
    ASSUME ModulesAssumption, TimeAssumption, HostInv, IdsInv, OnceInv,
           NEW src \in PortIn \cup PipeIn \cup Uplink \cup {Broadcast}, NEW time \in ArrivalTimes(src),
           Arrive(src, time)
    PROVE  OnceInv'
<1> DEFINE n == Len(created)
           ev == Event(n + 1, src, time)
<1>1. time \in Nat /\ src \in Source
  BY ArrivalIsTyped
<1>2. n \in Nat
  BY DEF HostInv, HostTypeInv
<1>3. ev \in Queued /\ ev.id = n + 1 /\ ev.src = src
  BY <1>1, <1>2 DEF Event, Queued
<1>4. /\ queue' = SortedInsert(queue, ev) /\ phase = "in" /\ phase' = "in"
      /\ UNCHANGED <<mqueue, written, dropped>>
  BY DEF Arrive
<1>5. /\ Len(created') = n + 1 /\ \A id \in 1..n : created'[id] = created[id]
      /\ created'[n + 1].src = src
  BY <1>1, CreatedGrows DEF Arrive
<1>6. /\ IdsIn(queue, n) /\ \A m \in Output : IdsIn(mqueue[m], n)
      /\ \A m \in Port : IdsIn(written[m], n) /\ IdsIn(dropped[m], n)
  BY DEF IdsInv
<1>7. queue \in Seq(Queued)
  BY CountsInQueues
<1> HIDE DEF n, ev
<1>8. \A i \in 1..Len(queue') : queue'[i] = ev \/ \E k \in 1..Len(queue) : queue'[i] = queue[k]
  BY <1>3, <1>4, <1>7, EntriesOfInserted
<1>9. SUFFICES ASSUME NEW id \in 1..Len(created'), NEW s \in PortIn \cup PipeIn, created'[id].src = s
               PROVE  Once(s, id)'
  BY DEF OnceInv
<1>10. In(s, id, queue') = In(s, id, queue) + One(ev, s, id) /\ In(s, id, queue) \in Nat
  BY <1>3, <1>4, <1>7, CountingInserted, CountsInQueues
<1>11. CASE id = n + 1
  <2>1. s = src
    BY <1>5, <1>9, <1>11
  <2>2. In(s, id, queue') = 1
    <3>1. In(s, id, queue) = 0
      BY <1>2, <1>6, <1>11, NoneYet, CountsInQueues
    <3>2. One(ev, s, id) = 1
      BY <1>3, <1>11, <2>1 DEF One
    <3> QED  BY <1>10, <3>1, <3>2
  <2>3. \A i \in 1..Len(queue') : queue'[i].id = id => queue'[i].src = s
    <3>1. \A k \in 1..Len(queue) : queue[k].id # id
      BY <1>2, <1>6, <1>11, NoneYet, CountsInQueues
    <3> QED  BY <1>3, <1>8, <2>1, <3>1
  <2>4. \A m \in Output : \A i \in 1..Len(mqueue[m]) : mqueue[m][i].id # id
    <3>1. TAKE m \in Output
    <3>2. Len(mqueue[m]) \in Nat /\ IdsIn(mqueue[m], n)
      BY <1>6, CountsInQueues
    <3> QED  BY <1>2, <1>11, <3>2, NoneYet
  <2>5. \A m \in Port : At(s, id, m)' = 0
    <3>1. TAKE m \in Port
    <3>2. /\ Len(mqueue[m]) \in Nat /\ Len(written[m]) \in Nat /\ Len(dropped[m]) \in Nat
          /\ IdsIn(mqueue[m], n) /\ IdsIn(written[m], n) /\ IdsIn(dropped[m], n)
      <4>1. /\ mqueue[m] \in Seq(Queued) /\ written[m] \in Seq(Entry)
            /\ dropped[m] \in Seq(Queued) /\ m \in Output
        BY CountsInQueues
      <4>2. Len(mqueue[m]) \in Nat /\ Len(written[m]) \in Nat /\ Len(dropped[m]) \in Nat
        BY <4>1
      <4>3. IdsIn(mqueue[m], n) /\ IdsIn(written[m], n) /\ IdsIn(dropped[m], n)
        BY <1>6, <4>1
      <4> QED  BY <4>2, <4>3
    <3>3. In(s, id, mqueue[m]) = 0 /\ In(s, id, written[m]) = 0 /\ In(s, id, dropped[m]) = 0
      BY <1>2, <1>11, <3>2, NoneYet
    <3> QED  BY <1>4, <3>3 DEF At
  <2> QED  BY <1>4, <2>2, <2>3, <2>4, <2>5 DEF Once, HandedOut
<1>12. CASE id \in 1..n
  <2>1. Once(s, id)
    BY <1>5, <1>9, <1>12 DEF OnceInv, n
  <2>2. id # n + 1
    BY <1>2, <1>12
  <2>3. In(s, id, queue') = In(s, id, queue)
    BY <1>3, <1>10, <2>2 DEF One
  <2>4. \A i \in 1..Len(queue') : queue'[i].id = id => \E k \in 1..Len(queue) : queue'[i] = queue[k]
    BY <1>3, <1>8, <2>2
  <2>5. \A m \in Port : At(s, id, m)' = At(s, id, m)
    BY <1>4 DEF At
  <2> QED  BY <1>4, <2>1, <2>3, <2>4, <2>5 DEF Once, HandedOut
<1> QED  BY <1>2, <1>5, <1>9, <1>11, <1>12

\* The event that is taken is still to be handed out.
LEMMA TakingOnce ==
    ASSUME ModulesAssumption, HostInv, OnceInv, TakeEvent
    PROVE  OnceInv' /\ PendInv'
<1>1. /\ queue # << >> /\ phase = "main" /\ phase' = "fan" /\ pend' = SourcesOf(Head(queue).src)
      /\ UNCHANGED <<created, mqueue, written, dropped>> /\ queue \in Seq(Queued)
      /\ queue' = [queue EXCEPT ![1].time = Clamp(@)]
  BY DEF TakeEvent, HostInv, HostTypeInv
<1>2. 1 \in 1..Len(queue) /\ Head(queue) = queue[1]
  BY <1>1
<1>3. /\ Len(queue') = Len(queue)
      /\ \A i \in 1..Len(queue) : queue'[i].id = queue[i].id /\ queue'[i].src = queue[i].src
  BY <1>1
<1>4. Head(queue') = queue'[1]
  BY <1>1
<1>5. Head(queue').id = Head(queue).id /\ Head(queue').src = Head(queue).src
  BY <1>2, <1>3, <1>4
<1>6. PendInv'
  BY <1>1, <1>5 DEF PendInv, SourcesOf
<1>7. ASSUME NEW id \in 1..Len(created), NEW s \in PortIn \cup PipeIn, created[id].src = s
      PROVE  Once(s, id)'
  <2>1. Once(s, id) /\ s # Broadcast
    BY <1>7, InputsApart DEF OnceInv
  <2>2. In(s, id, queue') = In(s, id, queue)
    BY <1>3, CountingSame
  <2>3. ~HandedOut(id)
    BY <1>1 DEF HandedOut
  <2>4. In(s, id, queue) = 1 => ~HandedOut(id)'
    <3>1. SUFFICES ASSUME In(s, id, queue) = 1, Head(queue).id = id, pend' = << >> PROVE FALSE
      BY <1>5 DEF HandedOut
    <3>2. Head(queue).src = s
      BY <1>2, <2>1, <3>1 DEF Once
    <3>3. pend' = <<s>>
      BY <1>1, <2>1, <3>2 DEF SourcesOf
    <3> QED  BY <3>1, <3>3
  <2>5. \A m \in Port : At(s, id, m)' = At(s, id, m)
    BY <1>1 DEF At
  <2> QED  BY <1>1, <1>3, <2>1, <2>2, <2>3, <2>4, <2>5 DEF Once
<1>8. OnceInv'
  BY <1>1, <1>7 DEF OnceInv
<1> QED  BY <1>6, <1>8

\* The source's children get the event at hand, once each.
LEMMA FanningOutOnce ==
    ASSUME ModulesAssumption, TimeAssumption, HostInv, IdsInv, OnceInv, PendInv, phase = "fan",
           NEW call \in Calls, FanOut(call)
    PROVE  OnceInv' /\ PendInv'
<1> DEFINE n == Len(created)
           h == Head(queue)
<1>1. /\ queue # << >> /\ phase' = "fan" /\ pend # << >> /\ pend' = Tail(pend)
      /\ UNCHANGED <<queue, written, dropped>> /\ queue \in Seq(Queued) /\ n \in Nat
      /\ pend \in Seq(Source)
  BY DEF FanOut, HostInv, HostTypeInv, FanInv
<1>2. h \in Queued /\ h = queue[1] /\ 1 \in 1..Len(queue) /\ h.id \in 1..n
  <2>1. IdsIn(queue, n)
    BY DEF IdsInv
  <2> QED  BY <1>1, <2>1, WithoutHead, IdsOfTail
<1>3. h.src = Broadcast \/ pend = <<h.src>>
  BY <1>1 DEF PendInv
<1>4. PendInv'
  BY <1>1, <1>3 DEF PendInv
<1>5. \/ created' = created
      \/ \E t \in Nat : created' = Append(created, [src |-> "lua", time |-> t])
  <2>1. call.time \in Nat
    BY CallIsTyped
  <2> QED  BY <2>1 DEF FanOut
<1> HIDE DEF h, n
<1>6. ASSUME NEW id \in 1..Len(created'), NEW s \in PortIn \cup PipeIn, created'[id].src = s
      PROVE  id \in 1..n /\ created[id].src = s
  <2>1. CASE created' = created
    BY <1>6, <2>1 DEF n
  <2>2. ASSUME NEW t \in Nat, created' = Append(created, [src |-> "lua", time |-> t])
        PROVE  id \in 1..n /\ created[id].src = s
    <3>1. [src |-> "lua", time |-> t] \in [src : Source \cup {"lua"}, time : Nat]
      OBVIOUS
    <3>2. /\ Len(created') = n + 1 /\ \A k \in 1..n : created'[k] = created[k]
          /\ created'[n + 1].src = "lua"
      BY <2>2, <3>1, CreatedGrows DEF n
    <3>3. id # n + 1
      BY <1>6, <3>2, InputsApart
    <3> QED  BY <1>1, <1>6, <3>2, <3>3
  <2> QED  BY <1>5, <2>1, <2>2
<1>7. SUFFICES ASSUME NEW id \in 1..n, NEW s \in PortIn \cup PipeIn, created[id].src = s
               PROVE  Once(s, id)'
  BY <1>4, <1>6 DEF OnceInv
<1>8. Once(s, id)
  BY <1>7 DEF OnceInv, n
<1>9. ~HandedOut(id) /\ (HandedOut(id)' <=> h.id = id /\ pend' = << >>)
  BY <1>1 DEF HandedOut, h
<1>10. ASSUME NEW m \in Output
       PROVE  /\ In(s, id, mqueue'[m]) =
                    In(s, id, mqueue[m]) + IF m \in Children[Head(pend)] THEN One(h, s, id) ELSE 0
              /\ In(s, id, mqueue[m]) \in Nat
              /\ \A i \in 1..Len(mqueue'[m]) : mqueue'[m][i].id = id =>
                    h.id = id \/ \E k \in 1..Len(mqueue[m]) : mqueue[m][k].id = id
  <2>1. h \in Queued /\ mqueue[m] \in Seq(Queued) /\ Fanned(m) \in Seq(Queued)
        /\ In(s, id, mqueue[m]) \in Nat
    BY <1>2, FanningOutAt, CountsInQueues
  <2>2. In(s, id, Fanned(m)) =
           In(s, id, mqueue[m]) + IF m \in Children[Head(pend)] THEN One(h, s, id) ELSE 0
    <3>1. CASE m \in Children[Head(pend)]
      BY <2>1, <3>1, CountingInserted DEF Fanned, h
    <3>2. CASE m \notin Children[Head(pend)]
      BY <2>1, <3>2 DEF Fanned
    <3> QED  BY <3>1, <3>2
  <2>3. \A i \in 1..Len(Fanned(m)) : Fanned(m)[i].id = id =>
           h.id = id \/ \E k \in 1..Len(mqueue[m]) : mqueue[m][k].id = id
    <3>1. CASE m \in Children[Head(pend)]
      <4>1. \A i \in 1..Len(Fanned(m)) :
               Fanned(m)[i] = h \/ \E k \in 1..Len(mqueue[m]) : Fanned(m)[i] = mqueue[m][k]
        <5>1. Fanned(m) = SortedInsert(mqueue[m], h)
          BY <3>1 DEF Fanned, h
        <5>2. h \in Queued /\ mqueue[m] \in Seq(Queued)
          BY <2>1
        <5> HIDE DEF h
        <5>3. \A i \in 1..Len(SortedInsert(mqueue[m], h)) :
                 \/ SortedInsert(mqueue[m], h)[i] = h
                 \/ \E k \in 1..Len(mqueue[m]) : SortedInsert(mqueue[m], h)[i] = mqueue[m][k]
          BY <5>2, EntriesOfInserted
        <5> QED  BY <5>1, <5>3
      <4> QED  BY <4>1
    <3>2. CASE m \notin Children[Head(pend)]
      BY <3>2 DEF Fanned
    <3> QED  BY <3>1, <3>2
  <2>4. CASE mqueue'[m] = Fanned(m)
    BY <2>1, <2>2, <2>3, <2>4
  <2>5. ASSUME NEW ev \in Queued, ev.id = n + 1, mqueue'[m] = SortedInsert(Fanned(m), ev)
        PROVE  /\ In(s, id, mqueue'[m]) = In(s, id, Fanned(m))
               /\ \A i \in 1..Len(mqueue'[m]) : mqueue'[m][i].id = id =>
                     \E k \in 1..Len(Fanned(m)) : Fanned(m)[k].id = id
    <3>1. ev.id # id
      BY <1>1, <2>5
    <3>2. One(ev, s, id) = 0
      BY <3>1 DEF One
    <3>3. In(s, id, mqueue'[m]) = In(s, id, Fanned(m)) + 0
      BY <2>1, <2>5, <3>2, CountingInserted
    <3>4. In(s, id, Fanned(m)) \in Nat
      BY <2>1, CountingPlaces
    <3>5. \A i \in 1..Len(mqueue'[m]) :
             mqueue'[m][i] = ev \/ \E k \in 1..Len(Fanned(m)) : mqueue'[m][i] = Fanned(m)[k]
      BY <2>1, <2>5, EntriesOfInserted
    <3>6. In(s, id, mqueue'[m]) = In(s, id, Fanned(m))
      BY <3>3, <3>4
    <3>7. ASSUME NEW i \in 1..Len(mqueue'[m]), mqueue'[m][i].id = id
          PROVE  \E k \in 1..Len(Fanned(m)) : Fanned(m)[k].id = id
      <4>1. mqueue'[m][i] # ev
        BY <3>1, <3>7
      <4>2. PICK k \in 1..Len(Fanned(m)) : mqueue'[m][i] = Fanned(m)[k]
        BY <3>5, <4>1
      <4> QED  BY <3>7, <4>2
    <3> QED  BY <3>6, <3>7
  <2>6. \/ mqueue'[m] = Fanned(m)
        \/ \E ev \in Queued : ev.id = n + 1 /\ mqueue'[m] = SortedInsert(Fanned(m), ev)
    BY FanningOutAt DEF n
  <2> QED  BY <2>1, <2>2, <2>3, <2>4, <2>5, <2>6
<1>11. \A i \in 1..Len(queue') : queue'[i].id = id /\ queue'[i].src # s => In(s, id, queue)' = 0
  BY <1>1, <1>8 DEF Once
<1>12. CASE h.id = id /\ h.src = s
  <2>1. pend = <<s>> /\ Head(pend) = s /\ pend' = << >>
    BY <1>1, <1>3, <1>12, InputsApart
  <2>2. HandedOut(id)'
    BY <1>9, <1>12, <2>1
  <2>3. In(s, id, queue) = 1
    <3>1. In(s, id, queue) # 0
      BY <1>1, <1>2, <1>12, CountingPlaces
    <3> QED  BY <1>8, <3>1 DEF Once
  <2>4. ASSUME NEW m \in Port \cap Children[s] PROVE At(s, id, m)' = 1
    <3>1. At(s, id, m) = 0 /\ m \in Output
      BY <1>8, <1>9, <2>3 DEF Once, Output
    <3>2. In(s, id, mqueue'[m]) = In(s, id, mqueue[m]) + 1
      BY <1>10, <1>12, <2>1, <3>1 DEF One
    <3>3. /\ In(s, id, mqueue[m]) \in Nat /\ In(s, id, written[m]) \in Nat
          /\ In(s, id, dropped[m]) \in Nat
      BY CountsInQueues
    <3> QED  BY <1>1, <3>1, <3>2, <3>3 DEF At
  <2> QED  BY <1>1, <1>8, <1>11, <2>2, <2>4 DEF Once
<1>13. CASE ~(h.id = id /\ h.src = s)
  <2>1. One(h, s, id) = 0
    BY <1>13 DEF One
  <2>2. h.id = id => In(s, id, queue) = 0
    BY <1>2, <1>8, <1>13 DEF Once
  <2>3. \A m \in Output : \A i \in 1..Len(mqueue'[m]) :
           mqueue'[m][i].id = id => In(s, id, queue) = 0
    BY <1>8, <1>9, <1>10, <2>2 DEF Once
  <2>4. ASSUME NEW m \in Port \cap Children[s] PROVE At(s, id, m)' = At(s, id, m)
    <3>1. m \in Output
      BY DEF Output
    <3>2. In(s, id, mqueue'[m]) = In(s, id, mqueue[m])
      BY <1>10, <2>1, <3>1
    <3> QED  BY <1>1, <3>2 DEF At
  <2>5. In(s, id, queue) = 1 => ~HandedOut(id)'
    BY <1>9, <2>2
  <2> QED  BY <1>1, <1>8, <1>9, <1>11, <2>3, <2>4, <2>5 DEF Once
<1> QED  BY <1>12, <1>13

\* An event leaves the host queue when it has been handed out.
LEMMA DroppingOnce ==
    ASSUME HostInv, OnceInv, DropEvent
    PROVE  OnceInv' /\ PendInv'
<1> DEFINE h == Head(queue)
<1>1. /\ queue # << >> /\ phase = "fan" /\ phase' = "main" /\ pend = << >>
      /\ queue' = Tail(queue) /\ UNCHANGED <<created, mqueue, written, dropped>>
      /\ queue \in Seq(Queued)
  BY DEF DropEvent, HostInv, HostTypeInv, FanInv
<1>2. h = queue[1] /\ 1 \in 1..Len(queue)
  BY <1>1
<1>3. SUFFICES ASSUME NEW id \in 1..Len(created), NEW s \in PortIn \cup PipeIn, created[id].src = s
               PROVE  Once(s, id)'
  BY <1>1 DEF OnceInv, PendInv
<1>4. Once(s, id)
  BY <1>3 DEF OnceInv
<1>5. In(s, id, queue) = In(s, id, queue') + One(h, s, id) /\ In(s, id, queue') \in Nat
  BY <1>1, CountingTail
<1>6. (HandedOut(id) <=> h.id = id) /\ ~HandedOut(id)'
  BY <1>1 DEF HandedOut
<1>7. \A m \in Port : At(s, id, m)' = At(s, id, m)
  BY <1>1 DEF At
<1>8. \A i \in 1..Len(queue') : \E k \in 1..Len(queue) : queue'[i] = queue[k]
  <2>1. \A i \in 1..Len(queue') : i + 1 \in 2..Len(queue) /\ queue'[i] = queue[i + 1]
    BY <1>1, WithoutHead
  <2>2. Len(queue) \in Nat
    BY <1>1
  <2>3. \A i \in 1..Len(queue') : i + 1 \in 1..Len(queue)
    BY <2>1, <2>2
  <2> QED  BY <2>1, <2>3
<1> HIDE DEF h
<1>9. In(s, id, queue) \in {0, 1} /\ One(h, s, id) \in {0, 1}
  BY <1>4 DEF Once, One
<1>10. \A i \in 1..Len(queue') : queue'[i].id = id /\ queue'[i].src # s => In(s, id, queue') = 0
  <2>1. In(s, id, queue) = 0 => In(s, id, queue') = 0
    BY <1>5, <1>9
  <2> QED  BY <1>4, <1>8, <2>1 DEF Once
<1>11. CASE h.id = id /\ h.src = s
  <2>1. One(h, s, id) = 1 /\ HandedOut(id)
    BY <1>6, <1>11 DEF One
  <2>2. In(s, id, queue') = 0
    BY <1>5, <1>9, <2>1
  <2>3. \A m \in Port \cap Children[s] : At(s, id, m) = 1
    BY <1>4, <2>1 DEF Once
  <2> QED  BY <1>7, <1>10, <2>2, <2>3 DEF Once
<1>12. CASE ~(h.id = id /\ h.src = s)
  <2>1. One(h, s, id) = 0
    BY <1>12 DEF One
  <2>2. In(s, id, queue') = In(s, id, queue)
    BY <1>5, <2>1
  <2>3. HandedOut(id) => In(s, id, queue) = 0
    BY <1>2, <1>4, <1>6, <1>12 DEF Once
  <2>4. \A m \in Output : \A i \in 1..Len(mqueue'[m]) :
           mqueue'[m][i].id = id => In(s, id, queue) = 0
    BY <1>1, <1>4, <2>3 DEF Once
  <2>5. \A m \in Port \cap Children[s] : At(s, id, m) = IF In(s, id, queue) = 1 THEN 0 ELSE 1
    BY <1>4, <2>3 DEF Once
  <2> QED  BY <1>4, <1>6, <1>7, <1>10, <2>2, <2>4, <2>5 DEF Once
<1> QED  BY <1>11, <1>12

\* A port keeps, in one place or another, what it takes out of its queue.
LEMMA WritingOnce ==
    ASSUME HostInv, OnceInv, NEW m0 \in Port, WritePort(m0)
    PROVE  OnceInv'
<1> DEFINE e == Head(mqueue[m0])
           w == [id |-> e.id, src |-> e.src, frame |-> Clamp(e.time) - last, cycle |-> cycle]
<1>1. m0 \in Output /\ Emitting(m0) /\ mqueue' = [mqueue EXCEPT ![m0] = Tail(@)]
      /\ UNCHANGED <<phase, queue, pend, created>>
  BY DEF WritePort, Output
<1>2. /\ phase = "out" /\ mqueue[m0] \in Seq(Queued) /\ mqueue[m0] # << >> /\ e \in Queued
      /\ mqueue'[m0] = Tail(mqueue[m0])
      /\ \A m \in Output \ {m0} : mqueue'[m] = mqueue[m]
  BY <1>1, EmittingTakesHead
<1>3. \/ written' = [written EXCEPT ![m0] = Append(@, w)] /\ dropped' = dropped
      \/ dropped' = [dropped EXCEPT ![m0] = Append(@, e)] /\ written' = written
  BY DEF WritePort
<1>4. w.id = e.id /\ w.src = e.src
  OBVIOUS
<1> HIDE DEF e, w
<1>5. SUFFICES ASSUME NEW id \in 1..Len(created), NEW s \in PortIn \cup PipeIn, created[id].src = s
               PROVE  Once(s, id)'
  BY <1>1 DEF OnceInv
<1>6. Once(s, id)
  BY <1>5 DEF OnceInv
<1>7. ASSUME NEW m \in Port PROVE At(s, id, m)' = At(s, id, m)
  <2>1. /\ In(s, id, mqueue[m]) \in Nat /\ In(s, id, written[m]) \in Nat /\ In(s, id, dropped[m]) \in Nat
        /\ written[m0] \in Seq(Entry) /\ dropped[m0] \in Seq(Queued)
    BY CountsInQueues
  <2>2. CASE m # m0
    <3>1. mqueue'[m] = mqueue[m] /\ written'[m] = written[m] /\ dropped'[m] = dropped[m]
      BY <1>2, <1>3, <2>2 DEF Output, HostInv, HostTypeInv
    <3> QED  BY <3>1 DEF At
  <2>3. CASE m = m0
    <3>1. /\ In(s, id, mqueue[m0]) = In(s, id, mqueue'[m0]) + One(e, s, id)
          /\ In(s, id, mqueue'[m0]) \in Nat
      BY <1>2, CountingTail DEF e
    <3>2. One(w, s, id) = One(e, s, id) /\ One(e, s, id) \in Nat
      BY <1>4 DEF One
    <3>3. CASE written' = [written EXCEPT ![m0] = Append(@, w)] /\ dropped' = dropped
      <4>1. written'[m0] = Append(written[m0], w)
        BY <3>3 DEF HostInv, HostTypeInv
      <4>2. written[m0] \in Seq(Entry \cup {w})
        BY <2>1
      <4>3. In(s, id, written'[m0]) = In(s, id, written[m0]) + One(w, s, id)
        BY <4>1, <4>2, CountingAppended
      <4> QED  BY <2>1, <2>3, <3>1, <3>2, <3>3, <4>3 DEF At
    <3>4. CASE dropped' = [dropped EXCEPT ![m0] = Append(@, e)] /\ written' = written
      <4>1. dropped'[m0] = Append(dropped[m0], e)
        BY <3>4 DEF HostInv, HostTypeInv
      <4>2. In(s, id, dropped'[m0]) = In(s, id, dropped[m0]) + One(e, s, id)
        BY <1>2, <2>1, <4>1, CountingAppended
      <4> QED  BY <2>1, <2>3, <3>1, <3>2, <3>4, <4>2 DEF At
    <3> QED  BY <1>3, <3>3, <3>4
  <2> QED  BY <2>2, <2>3
<1>8. \A m \in Output : \A j \in 1..Len(mqueue'[m]) :
         \E k \in 1..Len(mqueue[m]) : mqueue'[m][j] = mqueue[m][k]
  BY <1>1, <1>2, TakingTheHead
<1>9. HandedOut(id)' = HandedOut(id)
  BY <1>1 DEF HandedOut
<1> QED  BY <1>1, <1>6, <1>7, <1>8, <1>9 DEF Once

\* Loopback and the uplinks leave the ports alone, and what loopback schedules is
\* an event of its own.
LEMMA PassingOnOnce ==
    ASSUME ModulesAssumption, TimeAssumption, HostInv, OnceInv,
           \/ \E m \in Loopback : LoopBack(m)
           \/ \E m \in Uplink, accepted \in BOOLEAN : PushUplink(m, accepted)
    PROVE  OnceInv'
<1>1. PICK m0 \in Loopback \cup Uplink :
         /\ Emitting(m0) /\ mqueue' = [mqueue EXCEPT ![m0] = Tail(@)]
         /\ UNCHANGED <<phase, pend, created, written, dropped>>
         /\ \/ queue' = queue
            \/ m0 \in Loopback /\ LoopBack(m0)
  BY DEF LoopBack, PushUplink
<1>2. m0 \in Output /\ m0 \notin Port
  BY DEF Output, ModulesAssumption
<1>3. /\ phase = "out" /\ mqueue[m0] \in Seq(Queued) /\ mqueue[m0] # << >>
      /\ \A m \in Output \ {m0} : mqueue'[m] = mqueue[m]
  BY <1>1, <1>2, EmittingTakesHead
<1>4. SUFFICES ASSUME NEW id \in 1..Len(created), NEW s \in PortIn \cup PipeIn, created[id].src = s
               PROVE  Once(s, id)'
  BY <1>1 DEF OnceInv
<1>5. Once(s, id)
  BY <1>4 DEF OnceInv
<1>6. ASSUME NEW m \in Port PROVE At(s, id, m)' = At(s, id, m)
  <2>1. m # m0 /\ m \in Output
    BY <1>2 DEF Output
  <2> QED  BY <1>1, <1>3, <2>1 DEF At
<1>7. \A m \in Output : \A j \in 1..Len(mqueue'[m]) :
         \E k \in 1..Len(mqueue[m]) : mqueue'[m][j] = mqueue[m][k]
  BY <1>1, <1>2, <1>3, TakingTheHead
<1>8. ~HandedOut(id) /\ ~HandedOut(id)'
  BY <1>1, <1>3 DEF HandedOut
<1>9. CASE queue' = queue
  <2>1. \A m \in Output : \A i \in 1..Len(mqueue'[m]) :
           mqueue'[m][i].id = id => In(s, id, queue) = 0
    <3>1. TAKE m \in Output
    <3>2. \A i \in 1..Len(mqueue[m]) : mqueue[m][i].id = id => In(s, id, queue) = 0
      BY <1>5, <1>8 DEF Once
    <3>3. \A j \in 1..Len(mqueue'[m]) : \E k \in 1..Len(mqueue[m]) : mqueue'[m][j] = mqueue[m][k]
      BY <1>7
    <3> QED  BY <3>2, <3>3
  <2>2. In(s, id, queue') = In(s, id, queue)
    BY <1>9
  <2> QED  BY <1>5, <1>6, <1>8, <1>9, <2>1, <2>2 DEF Once
<1>10. CASE m0 \in Loopback /\ LoopBack(m0)
  <2> DEFINE e == Head(mqueue[m0])
             ev == Event(e.id, m0, Wrap(LoopTime(e.time) + Period))
  <2>1. queue' = SortedInsert(queue, ev) /\ ev.id = e.id /\ ev.src = m0
    BY <1>10 DEF LoopBack, Event
  <2>2. ev \in Queued /\ queue \in Seq(Queued) /\ In(s, id, queue) \in Nat
    BY <1>10, LoopedIsTyped, CountsInQueues
  <2>3. e = mqueue[m0][1] /\ 1 \in 1..Len(mqueue[m0])
    BY <1>3
  <2> HIDE DEF e, ev
  <2>4. m0 # s
    BY <1>10, InputsApart
  <2>5. In(s, id, queue') = In(s, id, queue)
    <3>1. One(ev, s, id) = 0
      BY <2>1, <2>4 DEF One
    <3>2. In(s, id, queue') = In(s, id, queue) + 0
      BY <2>1, <2>2, <3>1, CountingInserted
    <3> QED  BY <2>2, <3>2
  <2>6. \A i \in 1..Len(queue') : queue'[i] = ev \/ \E k \in 1..Len(queue) : queue'[i] = queue[k]
    BY <2>1, <2>2, EntriesOfInserted
  <2>7. ev.id = id => In(s, id, queue) = 0
    BY <1>2, <1>5, <1>8, <2>1, <2>3 DEF Once
  <2>8. \A i \in 1..Len(queue') : queue'[i].id = id /\ queue'[i].src # s => In(s, id, queue) = 0
    BY <1>5, <2>6, <2>7 DEF Once
  <2> QED  BY <1>5, <1>6, <1>7, <1>8, <2>5, <2>8 DEF Once
<1> QED  BY <1>1, <1>9, <1>10

\* The steps between two phases leave every queue as it is.
LEMMA TurningOnce ==
    ASSUME OnceInv, InputsDone \/ QueueDone \/ OutputDone \/ CycleDone \/ UNCHANGED vars
    PROVE  OnceInv'
<1>1. UNCHANGED <<queue, mqueue, pend, created, written, dropped>>
  BY DEF InputsDone, QueueDone, OutputDone, CycleDone, vars
<1>2. phase' = phase \/ (phase # "fan" /\ phase' # "fan")
  BY DEF InputsDone, QueueDone, OutputDone, CycleDone, vars
<1>3. ASSUME NEW id \in 1..Len(created), NEW s, Once(s, id) PROVE Once(s, id)'
  <2>1. HandedOut(id)' = HandedOut(id)
    BY <1>1, <1>2 DEF HandedOut
  <2>2. \A m \in Port : At(s, id, m)' = At(s, id, m)
    BY <1>1 DEF At
  <2> QED  BY <1>1, <1>3, <2>1, <2>2 DEF Once
<1> QED  BY <1>1, <1>3 DEF OnceInv

\* The four parts of the invariant together.
LEMMA StepsKeepOnce ==
    ASSUME ModulesAssumption, TimeAssumption, HostInv, IdsInv, OnceInv, PendInv, [Next]_vars
    PROVE  OnceInv' /\ PendInv'
<1>1. ASSUME NEW src \in PortIn \cup PipeIn \cup Uplink \cup {Broadcast},
             NEW time \in ArrivalTimes(src), Arrive(src, time)
      PROVE  OnceInv' /\ PendInv'
  <2>1. PendInv'
    BY <1>1 DEF Arrive, PendInv
  <2> QED  BY <1>1, <2>1, ArrivingOnce
<1>2. CASE TakeEvent
  BY <1>2, TakingOnce
<1>3. ASSUME phase = "fan", NEW call \in Calls, FanOut(call) PROVE OnceInv' /\ PendInv'
  BY <1>3, FanningOutOnce
<1>4. CASE DropEvent
  BY <1>4, DroppingOnce
<1>5. CASE InputsDone \/ QueueDone \/ OutputDone \/ CycleDone \/ UNCHANGED vars
  <2>1. PendInv'
    BY <1>5 DEF InputsDone, QueueDone, OutputDone, CycleDone, vars, PendInv
  <2> QED  BY <1>5, <2>1, TurningOnce
<1>6. ASSUME NEW m \in Port, WritePort(m) PROVE OnceInv' /\ PendInv'
  <2>1. PendInv'
    BY <1>6 DEF WritePort, Emitting, PendInv
  <2> QED  BY <1>6, <2>1, WritingOnce
<1>7. ASSUME NEW m \in Loopback, LoopBack(m) PROVE OnceInv' /\ PendInv'
  <2>1. PendInv'
    BY <1>7 DEF LoopBack, Emitting, PendInv
  <2> QED  BY <1>7, <2>1, PassingOnOnce
<1>8. ASSUME NEW m \in Uplink, NEW accepted \in BOOLEAN, PushUplink(m, accepted)
      PROVE  OnceInv' /\ PendInv'
  <2>1. PendInv'
    BY <1>8 DEF PushUplink, Emitting, PendInv
  <2> QED  BY <1>8, <2>1, PassingOnOnce
<1> QED  BY <1>1, <1>2, <1>3, <1>4, <1>5, <1>6, <1>7, <1>8 DEF Next

\* Every entry of a queue or an output stands for an event that was made.
THEOREM EntriesAreEvents == Spec => []IdsInv
<1> USE ModulesAssumption, TimeAssumption
<1>1. Init => IdsInv
  BY DEF Init, IdsInv, IdsIn
<1>2. HostInv /\ IdsInv /\ [Next]_vars => IdsInv'
  BY StepsKeepIds
<1> QED  BY <1>1, <1>2, HostInvariant, PTL DEF Spec

\* What an input schedules reaches each of its child ports once: the host queue,
\* the ports' queues and what the ports wrote or had no room for hold an event
\* neither twice nor not at all (tjost.c:99-136 and 335-379).
THEOREM EventsOnce == Spec => []ExactlyOnce
<1> USE ModulesAssumption, TimeAssumption
<1>1. Init => OnceInv /\ PendInv
  BY DEF Init, OnceInv, PendInv
<1>2. HostInv /\ IdsInv /\ OnceInv /\ PendInv /\ [Next]_vars => OnceInv' /\ PendInv'
  BY StepsKeepOnce
<1>3. OnceInv => ExactlyOnce
  BY DEF OnceInv, Once, At, HandedOut, ExactlyOnce
<1> QED  BY <1>1, <1>2, <1>3, HostInvariant, EntriesAreEvents, PTL DEF Spec

-----------------------------------------------------------------------------
(* The events of a source stay in order. *)

\* An event that no callback and no loopback has scheduled anew.
Plain(e) == e.src \notin HasLua \cup Loopback

\* By the events made so far, c, one may be executed before the other.
Follows(c, a, b) ==
    Plain(a) /\ a.src = b.src => a.id <= b.id \/ c[a.id].time < c[b.id].time
InOrder(c, q) == \A i, j \in 1..Len(q) : i < j => Follows(c, q[i], q[j])
AllFollow(c, q, r) == \A i \in 1..Len(q), j \in 1..Len(r) : Follows(c, q[i], r[j])

\* What a port wrote comes before what is in its queue, and that before what is in
\* the host queue.
PathInv ==
    /\ InOrder(created, queue)
    /\ \A m \in Port : /\ InOrder(created, mqueue[m]) /\ InOrder(created, written[m])
                       /\ AllFollow(created, written[m], mqueue[m])
                       /\ AllFollow(created, written[m], queue)
                       /\ AllFollow(created, mqueue[m], queue)

\* An event waits in the host queue with the time it was made for, and with the
\* frame of its execution when it is handed out.
QueueTimes == \A i \in 1..Len(queue) : Plain(queue[i]) =>
    LET t == created[queue[i].id].time IN
    IF phase = "fan" /\ i = 1 THEN queue[i].time = Clamp(t) /\ t < last + Period
                              ELSE queue[i].time = t

\* In a port's queue it has the frame of its execution.
PortTimes == \A m \in Port : \A i \in 1..Len(mqueue[m]) : Plain(mqueue[m][i]) =>
    /\ mqueue[m][i].time < last + Period
    /\ mqueue[m][i].time < last \/ mqueue[m][i].time = Clamp(created[mqueue[m][i].id].time)

OrderInv == PathInv /\ QueueTimes /\ PortTimes

\* The frame time does not wrap around at the end of this period.
Unwrapped == last + Period < TimeMod

\* The entries of a sequence are among those of another.
Within(q, r) == \A i \in 1..Len(q) : \E k \in 1..Len(r) : q[i] = r[k]

\* An event is sorted in behind all that may come before it.
LEMMA OrderOfInserted ==
    ASSUME NEW q \in Seq(Queued), NEW e \in Queued, NEW c, InOrder(c, q),
           \A i \in 1..Len(q) : Follows(c, q[i], e),
           \A i \in 1..Len(q) : e.time < q[i].time => Follows(c, e, q[i])
    PROVE  InOrder(c, SortedInsert(q, e))
<1> DEFINE r == SortedInsert(q, e)
<1>1. PICK p \in 0..Len(q) :
             /\ r \in Seq(Queued) /\ Len(r) = Len(q) + 1
             /\ \A i \in 1..Len(r) : r[i] = IF i <= p THEN q[i] ELSE IF i = p + 1 THEN e ELSE q[i - 1]
             /\ p > 0 => q[p].time <= e.time
             /\ \A i \in p + 1..Len(q) : e.time < q[i].time
  BY SortedInserted
<1> HIDE DEF r
<1>2. p \in 0..Len(q) /\ Len(q) \in Nat
  OBVIOUS
<1>3. ASSUME NEW i \in 1..Len(r), NEW j \in 1..Len(r), i < j
      PROVE  Follows(c, r[i], r[j])
  <2>1. CASE j <= p
    <3>1. r[i] = q[i] /\ r[j] = q[j] /\ i \in 1..Len(q) /\ j \in 1..Len(q)
      BY <1>1, <1>2, <1>3, <2>1
    <3> QED  BY <1>3, <3>1 DEF InOrder
  <2>2. CASE j = p + 1
    <3>1. r[j] = e /\ i \in 1..Len(q) /\ r[i] = q[i]
      BY <1>1, <1>2, <1>3, <2>2
    <3> QED  BY <3>1
  <2>3. CASE j > p + 1 /\ i <= p
    <3>1. r[i] = q[i] /\ r[j] = q[j - 1] /\ i \in 1..Len(q) /\ j - 1 \in 1..Len(q) /\ i < j - 1
      BY <1>1, <1>2, <1>3, <2>3
    <3> QED  BY <3>1 DEF InOrder
  <2>4. CASE j > p + 1 /\ i = p + 1
    <3>1. r[i] = e /\ r[j] = q[j - 1] /\ j - 1 \in p + 1..Len(q) /\ j - 1 \in 1..Len(q)
      BY <1>1, <1>2, <1>3, <2>4
    <3>2. e.time < q[j - 1].time
      BY <1>1, <3>1
    <3> QED  BY <3>1, <3>2
  <2>5. CASE j > p + 1 /\ i > p + 1
    <3>1. r[i] = q[i - 1] /\ r[j] = q[j - 1] /\ i - 1 \in 1..Len(q) /\ j - 1 \in 1..Len(q) /\ i - 1 < j - 1
      BY <1>1, <1>2, <1>3, <2>5
    <3> QED  BY <3>1 DEF InOrder
  <2> QED  BY <1>2, <2>1, <2>2, <2>3, <2>4, <2>5
<1> QED  BY <1>3 DEF InOrder, r

\* What comes before both a queue and an event comes before the two together.
LEMMA FollowingInserted ==
    ASSUME NEW q \in Seq(Queued), NEW e \in Queued, NEW c, NEW r, AllFollow(c, r, q),
           \A i \in 1..Len(r) : Follows(c, r[i], e)
    PROVE  AllFollow(c, r, SortedInsert(q, e))
<1> DEFINE t == SortedInsert(q, e)
<1>1. \A i \in 1..Len(t) : t[i] = e \/ \E k \in 1..Len(q) : t[i] = q[k]
  BY EntriesOfInserted
<1> HIDE DEF t
<1>2. ASSUME NEW i \in 1..Len(r), NEW j \in 1..Len(t) PROVE Follows(c, r[i], t[j])
  BY <1>1 DEF AllFollow
<1> QED  BY <1>2 DEF AllFollow, t

\* What comes after both a queue and an event comes after the two together.
LEMMA InsertedFollowed ==
    ASSUME NEW q \in Seq(Queued), NEW e \in Queued, NEW c, NEW r, AllFollow(c, q, r),
           \A i \in 1..Len(r) : Follows(c, e, r[i])
    PROVE  AllFollow(c, SortedInsert(q, e), r)
<1> DEFINE t == SortedInsert(q, e)
<1>1. \A i \in 1..Len(t) : t[i] = e \/ \E k \in 1..Len(q) : t[i] = q[k]
  BY EntriesOfInserted
<1> HIDE DEF t
<1>2. ASSUME NEW i \in 1..Len(t), NEW j \in 1..Len(r) PROVE Follows(c, t[i], r[j])
  BY <1>1 DEF AllFollow
<1> QED  BY <1>2 DEF AllFollow, t

\* Fewer entries are in order too.
LEMMA FollowsWithin ==
    ASSUME NEW c, NEW q, NEW r, AllFollow(c, q, r), NEW u, NEW v, Within(u, q), Within(v, r)
    PROVE  AllFollow(c, u, v)
<1>1. ASSUME NEW i \in 1..Len(u), NEW j \in 1..Len(v) PROVE Follows(c, u[i], v[j])
  <2>1. PICK k \in 1..Len(q) : u[i] = q[k]
    BY DEF Within
  <2>2. PICK l \in 1..Len(r) : v[j] = r[l]
    BY DEF Within
  <2> QED  BY <2>1, <2>2 DEF AllFollow
<1> QED  BY <1>1 DEF AllFollow

\* The head of a queue comes before the rest of it.
LEMMA OrderOfTail ==
    ASSUME NEW X, NEW q \in Seq(X), q # << >>, NEW c, InOrder(c, q)
    PROVE  /\ InOrder(c, Tail(q)) /\ Within(Tail(q), q)
           /\ \A i \in 1..Len(Tail(q)) : Follows(c, Head(q), Tail(q)[i])
<1> DEFINE r == Tail(q)
           h == Head(q)
<1>1. /\ Len(q) \in Nat /\ Len(r) = Len(q) - 1 /\ h = q[1] /\ 1 \in 1..Len(q)
      /\ \A i \in 1..Len(r) : i + 1 \in 2..Len(q) /\ r[i] = q[i + 1]
  BY WithoutHead
<1> HIDE DEF r, h
<1>2. \A i \in 1..Len(r) : i + 1 \in 1..Len(q) /\ 1 < i + 1
  BY <1>1
<1>3. Within(r, q)
  BY <1>1, <1>2 DEF Within
<1>4. \A i \in 1..Len(r) : Follows(c, h, r[i])
  BY <1>1, <1>2 DEF InOrder
<1>5. ASSUME NEW i \in 1..Len(r), NEW j \in 1..Len(r), i < j PROVE Follows(c, r[i], r[j])
  <2>1. i + 1 < j + 1
    BY <1>1, <1>5
  <2> QED  BY <1>1, <1>2, <2>1 DEF InOrder
<1>6. InOrder(c, r)
  BY <1>5 DEF InOrder
<1> QED  BY <1>3, <1>4, <1>6 DEF r, h

\* More events are made; those in the queues stay in order.
LEMMA OrderGrows ==
    ASSUME NEW n, NEW c, NEW d, \A id \in 1..n : d[id] = c[id],
           NEW q, NEW r, IdsIn(q, n), IdsIn(r, n)
    PROVE  /\ AllFollow(c, q, r) => AllFollow(d, q, r)
           /\ InOrder(c, q) => InOrder(d, q)
<1>1. ASSUME NEW a, NEW b, a.id \in 1..n, b.id \in 1..n, Follows(c, a, b)
      PROVE  Follows(d, a, b)
  BY <1>1 DEF Follows
<1>2. /\ \A i \in 1..Len(q) : q[i].id \in 1..n
      /\ \A i \in 1..Len(r) : r[i].id \in 1..n
  BY DEF IdsIn
<1>3. ASSUME AllFollow(c, q, r) PROVE AllFollow(d, q, r)
  <2>1. ASSUME NEW i \in 1..Len(q), NEW j \in 1..Len(r) PROVE Follows(d, q[i], r[j])
    <3>1. Follows(c, q[i], r[j])
      BY <1>3 DEF AllFollow
    <3> QED  BY <1>1, <1>2, <3>1
  <2> QED  BY <2>1 DEF AllFollow
<1>4. ASSUME InOrder(c, q) PROVE InOrder(d, q)
  <2>1. ASSUME NEW i \in 1..Len(q), NEW j \in 1..Len(q), i < j PROVE Follows(d, q[i], q[j])
    <3>1. Follows(c, q[i], q[j])
      BY <1>4, <2>1 DEF InOrder
    <3> QED  BY <1>1, <1>2, <3>1
  <2> QED  BY <2>1 DEF InOrder
<1> QED  BY <1>3, <1>4

\* The order does not depend on the times in the queues.
LEMMA OrderOfSame ==
    ASSUME NEW q, NEW r, Len(r) = Len(q),
           \A i \in 1..Len(q) : r[i].id = q[i].id /\ r[i].src = q[i].src, NEW c
    PROVE  /\ InOrder(c, q) => InOrder(c, r)
           /\ \A t : AllFollow(c, t, q) => AllFollow(c, t, r)
<1>1. ASSUME NEW i \in 1..Len(q), NEW j \in 1..Len(q), Follows(c, q[i], q[j])
      PROVE  Follows(c, r[i], r[j])
  BY <1>1 DEF Follows, Plain
<1>2. ASSUME NEW a, NEW j \in 1..Len(q), Follows(c, a, q[j])
      PROVE  Follows(c, a, r[j])
  BY <1>2 DEF Follows
<1>3. InOrder(c, q) => InOrder(c, r)
  BY <1>1 DEF InOrder
<1>4. \A t : AllFollow(c, t, q) => AllFollow(c, t, r)
  BY <1>2 DEF AllFollow
<1> QED  BY <1>3, <1>4

\* An event that arrives was made last.
LEMMA ArrivingOrdered ==
    ASSUME TimeAssumption, HostInv, IdsInv, OrderInv,
           NEW src \in PortIn \cup PipeIn \cup Uplink \cup {Broadcast}, NEW time \in ArrivalTimes(src),
           Arrive(src, time)
    PROVE  OrderInv'
<1> DEFINE n == Len(created)
           ev == Event(n + 1, src, time)
           d == created'
<1>1. time \in Nat /\ src \in Source
  BY ArrivalIsTyped
<1>2. n \in Nat
  BY DEF HostInv, HostTypeInv
<1>3. ev \in Queued /\ ev.id = n + 1 /\ ev.src = src /\ ev.time = time
  BY <1>1, <1>2 DEF Event, Queued
<1>4. /\ queue' = SortedInsert(queue, ev) /\ phase = "in" /\ phase' = "in"
      /\ UNCHANGED <<last, mqueue, written>>
  BY DEF Arrive
<1>5. /\ \A id \in 1..n : d[id] = created[id]
      /\ d[n + 1].time = time
  BY <1>1, CreatedGrows DEF Arrive
<1>6. /\ IdsIn(queue, n) /\ queue \in Seq(Queued)
      /\ \A m \in Port : IdsIn(written[m], n) /\ IdsIn(mqueue[m], n)
  BY DEF IdsInv, HostInv, HostTypeInv, Output
<1>7. PathInv /\ QueueTimes /\ PortTimes
  BY DEF OrderInv
<1> HIDE DEF n, ev, d
<1>8. ASSUME NEW q, IdsIn(q, n) PROVE \A i \in 1..Len(q) : Follows(d, q[i], ev)
  <2>1. \A i \in 1..Len(q) : q[i].id <= n + 1
    BY <1>2, <1>8 DEF IdsIn
  <2> QED  BY <1>3, <2>1 DEF Follows
<1>9. \A i \in 1..Len(queue) : Plain(queue[i]) => queue[i].time = d[queue[i].id].time
  BY <1>4, <1>5, <1>6, <1>7 DEF QueueTimes, IdsIn
<1>10. InOrder(d, queue')
  <2>1. InOrder(d, queue)
    BY <1>5, <1>6, <1>7, OrderGrows DEF PathInv
  <2>2. \A i \in 1..Len(queue) : ev.time < queue[i].time => Follows(d, ev, queue[i])
    BY <1>3, <1>5, <1>9 DEF Follows, Plain
  <2> QED  BY <1>3, <1>4, <1>6, <1>8, <2>1, <2>2, OrderOfInserted
<1>11. ASSUME NEW m \in Port
       PROVE  /\ InOrder(d, mqueue[m]) /\ InOrder(d, written[m])
              /\ AllFollow(d, written[m], mqueue[m])
              /\ AllFollow(d, written[m], queue') /\ AllFollow(d, mqueue[m], queue')
  <2>1. /\ InOrder(d, mqueue[m]) /\ InOrder(d, written[m]) /\ AllFollow(d, written[m], mqueue[m])
        /\ AllFollow(d, written[m], queue) /\ AllFollow(d, mqueue[m], queue)
    BY <1>5, <1>6, <1>7, OrderGrows DEF PathInv
  <2>2. AllFollow(d, written[m], queue')
    BY <1>3, <1>4, <1>6, <1>8, <2>1, FollowingInserted
  <2>3. AllFollow(d, mqueue[m], queue')
    BY <1>3, <1>4, <1>6, <1>8, <2>1, FollowingInserted
  <2> QED  BY <2>1, <2>2, <2>3
<1>12. QueueTimes'
  <2>1. \A i \in 1..Len(queue') : queue'[i] = ev \/ \E k \in 1..Len(queue) : queue'[i] = queue[k]
    BY <1>3, <1>4, <1>6, EntriesOfInserted
  <2>2. \A i \in 1..Len(queue') : Plain(queue'[i]) => queue'[i].time = d[queue'[i].id].time
    BY <1>3, <1>5, <1>9, <2>1
  <2> QED  BY <1>4, <2>2 DEF QueueTimes, d, Plain
<1>13. PortTimes'
  <2>1. \A t : Clamp(t)' = Clamp(t)
    BY <1>4 DEF Clamp
  <2> QED  BY <1>4, <1>5, <1>6, <1>7, <2>1 DEF PortTimes, IdsIn, d, Plain
<1> QED  BY <1>4, <1>10, <1>11, <1>12, <1>13 DEF OrderInv, PathInv, d

\* The head of the host queue gets the frame of its execution.
LEMMA TakingOrdered ==
    ASSUME TimeAssumption, HostInv, Unwrapped, OrderInv, TakeEvent
    PROVE  OrderInv'
<1>1. /\ queue # << >> /\ phase = "main" /\ phase' = "fan" /\ queue \in Seq(Queued)
      /\ UNCHANGED <<last, created, mqueue, written>> /\ Due(Head(queue))
      /\ queue' = [queue EXCEPT ![1].time = Clamp(@)]
  BY DEF TakeEvent, HostInv, HostTypeInv
<1>2. 1 \in 1..Len(queue) /\ Head(queue) = queue[1]
  BY <1>1
<1>3. /\ Len(queue') = Len(queue)
      /\ \A i \in 1..Len(queue) : queue'[i].id = queue[i].id /\ queue'[i].src = queue[i].src
      /\ \A i \in 2..Len(queue) : queue'[i] = queue[i]
      /\ queue'[1].time = Clamp(queue[1].time)
  BY <1>1, <1>2
<1>4. PathInv /\ QueueTimes /\ PortTimes
  BY DEF OrderInv
<1>5. \A t : Clamp(t)' = Clamp(t)
  BY <1>1 DEF Clamp
<1>6. PathInv'
  <2>1. InOrder(created, queue')
    BY <1>3, <1>4, OrderOfSame DEF PathInv
  <2>2. \A m \in Port : AllFollow(created, written[m], queue') /\ AllFollow(created, mqueue[m], queue')
    BY <1>3, <1>4, OrderOfSame DEF PathInv
  <2> QED  BY <1>1, <1>4, <2>1, <2>2 DEF PathInv
<1>7. queue[1].time < last + Period
  <2>1. last + Period \in Nat /\ TimeMod \in Nat
    BY DEF HostInv, HostTypeInv, TimeAssumption
  <2>2. Wrap(last + Period) = last + Period
    BY <2>1 DEF Unwrapped, Wrap
  <2> QED  BY <1>1, <1>2, <2>2 DEF Due
<1>8. QueueTimes'
  <2>1. \A i \in 1..Len(queue) : Plain(queue[i]) => queue[i].time = created[queue[i].id].time
    BY <1>1, <1>4 DEF QueueTimes
  <2>2. ASSUME NEW i \in 1..Len(queue), Plain(queue'[i])
        PROVE  LET t == created[queue'[i].id].time
               IN  IF i = 1 THEN queue'[i].time = Clamp(t) /\ t < last + Period
                            ELSE queue'[i].time = t
    <3>1. Plain(queue[i])
      BY <1>3, <2>2 DEF Plain
    <3>2. CASE i = 1
      BY <1>3, <1>7, <2>1, <3>1, <3>2
    <3>3. CASE i # 1
      <4>1. i \in 2..Len(queue)
        BY <3>3
      <4> QED  BY <1>3, <2>1, <3>1, <3>3, <4>1
    <3> QED  BY <3>2, <3>3
  <2> QED  BY <1>1, <1>3, <1>5, <2>2 DEF QueueTimes, Plain
<1>9. PortTimes'
  BY <1>1, <1>4, <1>5 DEF PortTimes, Plain
<1> QED  BY <1>6, <1>8, <1>9 DEF OrderInv

\* The event at hand is sorted in where it belongs among those of its source.
LEMMA FanningOutOrdered ==
    ASSUME TimeAssumption, HostInv, IdsInv, OrderInv, phase = "fan",
           NEW call \in Calls, FanOut(call)
    PROVE  OrderInv'
<1> DEFINE n == Len(created)
           h == Head(queue)
           c == created
           d == created'
<1>1. /\ queue # << >> /\ phase' = "fan" /\ UNCHANGED <<last, queue, written>>
      /\ queue \in Seq(Queued) /\ n \in Nat /\ last \in Nat /\ Period \in Nat \ {0}
  BY DEF FanOut, HostInv, HostTypeInv, FanInv, TimeAssumption
<1>2. h \in Queued /\ h = queue[1] /\ 1 \in 1..Len(queue) /\ h.id \in 1..n
  <2>1. IdsIn(queue, n)
    BY DEF IdsInv
  <2> QED  BY <1>1, <2>1, WithoutHead, IdsOfTail
<1>3. PathInv /\ QueueTimes /\ PortTimes
  BY DEF OrderInv
<1>4. \A id \in 1..n : d[id] = c[id]
  <2>1. call.time \in Nat
    BY CallIsTyped
  <2>2. [src |-> "lua", time |-> call.time] \in [src : Source \cup {"lua"}, time : Nat]
    BY <2>1
  <2>3. d = c \/ d = Append(c, [src |-> "lua", time |-> call.time])
    BY DEF FanOut
  <2> QED  BY <2>2, <2>3, CreatedGrows
<1>5. \A t : Clamp(t)' = Clamp(t)
  BY <1>1 DEF Clamp
<1>6. IdsIn(queue, n) /\ \A m \in Port : IdsIn(written[m], n)
  BY DEF IdsInv
<1>7. \A id \in 1..n : c[id].time \in Nat
  BY CreatedTimes
<1> HIDE DEF n, h, c, d
<1>8. Plain(h) => /\ h.time = Clamp(c[h.id].time) /\ c[h.id].time < last + Period
                  /\ c[h.id].time \in Nat
  <2>1. c[h.id].time \in Nat
    BY <1>2, <1>7
  <2> QED  BY <1>2, <1>3, <2>1 DEF QueueTimes, c
<1>9. ASSUME NEW m \in Port
      PROVE  /\ Fanned(m) \in Seq(Queued) /\ InOrder(c, Fanned(m)) /\ IdsIn(Fanned(m), n)
             /\ AllFollow(c, written[m], Fanned(m)) /\ AllFollow(c, Fanned(m), queue)
             /\ \A i \in 1..Len(Fanned(m)) : Plain(Fanned(m)[i]) =>
                   LET e == Fanned(m)[i] IN
                   e.time < last + Period /\ (e.time < last \/ e.time = Clamp(c[e.id].time))
  <2> DEFINE q == mqueue[m]
             f == Fanned(m)
  <2>1. m \in Output /\ q \in Seq(Queued) /\ f \in Seq(Queued) /\ IdsIn(q, n)
    <3>1. m \in Output
      BY DEF Output
    <3> QED  BY <3>1, FanningOutAt DEF IdsInv, n
  <2>2. /\ InOrder(c, q) /\ AllFollow(c, written[m], q)
        /\ AllFollow(c, written[m], queue) /\ AllFollow(c, q, queue) /\ InOrder(c, queue)
    BY <1>3 DEF PathInv, c
  <2>3. \A i \in 1..Len(q) : Plain(q[i]) =>
           q[i].time < last + Period /\ (q[i].time < last \/ q[i].time = Clamp(c[q[i].id].time))
    BY <1>3 DEF PortTimes, c
  <2>4. CASE m \notin Children[Head(pend)]
    <3>1. f = q
      BY <2>4 DEF Fanned
    <3> HIDE DEF f, q
    <3> QED  BY <2>1, <2>2, <2>3, <3>1 DEF f
  <2>5. CASE m \in Children[Head(pend)]
    <3>1. f = SortedInsert(q, h)
      BY <2>5 DEF Fanned, h
    <3> HIDE DEF f
    <3>2. \A i \in 1..Len(q) : Follows(c, q[i], h)
      BY <1>2, <2>2 DEF AllFollow
    <3>3. \A i \in 1..Len(written[m]) : Follows(c, written[m][i], h)
      BY <1>2, <2>2 DEF AllFollow
    <3>4. \A i \in 1..Len(queue) : Follows(c, h, queue[i])
      <4>1. TAKE i \in 1..Len(queue)
      <4>2. CASE i = 1
        <5>1. queue[i] = h /\ h.id <= h.id
          BY <1>1, <1>2, <4>2
        <5> QED  BY <5>1 DEF Follows
      <4>3. CASE i # 1
        BY <1>2, <2>2, <4>3 DEF InOrder
      <4> QED  BY <4>2, <4>3
    <3>5. ASSUME NEW i \in 1..Len(q), h.time < q[i].time PROVE Follows(c, h, q[i])
      <4>1. SUFFICES ASSUME Plain(h), h.src = q[i].src PROVE c[h.id].time < c[q[i].id].time
        BY DEF Follows
      <4>2. Plain(q[i])
        BY <4>1 DEF Plain
      <4>3. h.time = Clamp(c[h.id].time) /\ c[h.id].time \in Nat
        BY <1>8, <4>1
      <4>4. h.time \in Nat /\ h.time >= last
        BY <1>1, <4>3, Clamping
      <4>5. c[q[i].id].time \in Nat /\ q[i].time \in Nat
        <5>1. q[i].id \in 1..n /\ q[i] \in Queued
          BY <2>1 DEF IdsIn
        <5> QED  BY <1>7, <5>1 DEF Queued
      <4>6. q[i].time = Clamp(c[q[i].id].time)
        <5>1. ~(q[i].time < last)
          BY <1>1, <3>5, <4>4, <4>5
        <5> QED  BY <2>3, <4>2, <5>1
      <4>7. SUFFICES ASSUME c[q[i].id].time <= c[h.id].time PROVE FALSE
        BY <4>3, <4>5
      <4>8. Clamp(c[q[i].id].time) <= Clamp(c[h.id].time)
        BY <1>1, <4>3, <4>5, <4>7, ClampingKeepsOrder
      <4> QED  BY <3>5, <4>3, <4>4, <4>5, <4>6, <4>8
    <3>6. InOrder(c, f)
      BY <1>2, <2>1, <2>2, <3>1, <3>2, <3>5, OrderOfInserted
    <3>7. AllFollow(c, written[m], f)
      BY <1>2, <2>1, <2>2, <3>1, <3>3, FollowingInserted
    <3>8. AllFollow(c, f, queue)
      BY <1>2, <2>1, <2>2, <3>1, <3>4, InsertedFollowed
    <3>9. IdsIn(f, n)
      BY <1>2, <2>1, <3>1, IdsOfInserted
    <3>10. \A i \in 1..Len(f) : f[i] = h \/ \E k \in 1..Len(q) : f[i] = q[k]
      <4>1. h \in Queued /\ q \in Seq(Queued)
        BY <1>2, <2>1
      <4> HIDE DEF q
      <4> QED  BY <3>1, <4>1, EntriesOfInserted
    <3>11. Plain(h) => h.time < last + Period /\ h.time = Clamp(c[h.id].time)
      <4>1. ASSUME NEW t \in Nat, t < last + Period PROVE Clamp(t) < last + Period
        BY <1>1, <4>1 DEF Clamp
      <4> QED  BY <1>8, <4>1
    <3>12. \A i \in 1..Len(f) : Plain(f[i]) =>
              f[i].time < last + Period /\ (f[i].time < last \/ f[i].time = Clamp(c[f[i].id].time))
      BY <2>3, <3>10, <3>11
    <3> QED  BY <2>1, <3>6, <3>7, <3>8, <3>9, <3>12 DEF f
  <2> QED  BY <2>4, <2>5
<1>10. ASSUME NEW m \in Port
      PROVE  /\ InOrder(d, mqueue'[m]) /\ InOrder(d, written[m])
             /\ AllFollow(d, written[m], mqueue'[m])
             /\ AllFollow(d, written[m], queue) /\ AllFollow(d, mqueue'[m], queue)
             /\ \A i \in 1..Len(mqueue'[m]) : Plain(mqueue'[m][i]) =>
                   LET e == mqueue'[m][i] IN
                   e.time < last + Period /\ (e.time < last \/ e.time = Clamp(d[e.id].time))
  <2> DEFINE f == Fanned(m)
             r == mqueue'[m]
  <2>1. /\ f \in Seq(Queued) /\ InOrder(c, f) /\ IdsIn(f, n)
        /\ AllFollow(c, written[m], f) /\ AllFollow(c, f, queue)
        /\ \A i \in 1..Len(f) : Plain(f[i]) =>
              f[i].time < last + Period /\ (f[i].time < last \/ f[i].time = Clamp(c[f[i].id].time))
    BY <1>9
  <2>2. InOrder(c, written[m]) /\ AllFollow(c, written[m], queue)
    BY <1>3 DEF PathInv, c
  <2>3. \/ r = f
        \/ \E ev \in Queued : ~Plain(ev) /\ r = SortedInsert(f, ev)
    <3>1. m \in Output
      BY DEF Output
    <3> QED  BY <3>1, FanningOutAt DEF Plain
  <2> HIDE DEF f, r
  <2>4. /\ InOrder(d, f) /\ InOrder(d, written[m]) /\ AllFollow(d, written[m], f)
        /\ AllFollow(d, written[m], queue) /\ AllFollow(d, f, queue)
    BY <1>4, <1>6, <2>1, <2>2, OrderGrows
  <2>5. \A i \in 1..Len(f) : Plain(f[i]) =>
           f[i].time < last + Period /\ (f[i].time < last \/ f[i].time = Clamp(d[f[i].id].time))
    BY <1>4, <2>1 DEF IdsIn
  <2>6. CASE r = f
    BY <2>4, <2>5, <2>6 DEF r
  <2>7. ASSUME NEW ev \in Queued, ~Plain(ev), r = SortedInsert(f, ev)
        PROVE  /\ InOrder(d, r) /\ AllFollow(d, written[m], r) /\ AllFollow(d, r, queue)
               /\ \A i \in 1..Len(r) : Plain(r[i]) =>
                     r[i].time < last + Period /\ (r[i].time < last \/ r[i].time = Clamp(d[r[i].id].time))
    <3>1. \A a : Follows(d, a, ev) /\ Follows(d, ev, a)
      BY <2>7 DEF Follows, Plain
    <3>2. InOrder(d, r)
      BY <2>1, <2>4, <2>7, <3>1, OrderOfInserted
    <3>3. AllFollow(d, written[m], r)
      BY <2>1, <2>4, <2>7, <3>1, FollowingInserted
    <3>4. AllFollow(d, r, queue)
      BY <2>1, <2>4, <2>7, <3>1, InsertedFollowed
    <3>5. \A i \in 1..Len(r) : r[i] = ev \/ \E k \in 1..Len(f) : r[i] = f[k]
      BY <2>1, <2>7, EntriesOfInserted
    <3> QED  BY <2>5, <2>7, <3>2, <3>3, <3>4, <3>5
  <2> QED  BY <2>3, <2>4, <2>6, <2>7 DEF r
<1>11. InOrder(d, queue)
  BY <1>3, <1>4, <1>6, OrderGrows DEF PathInv, c
<1>12. PathInv'
  BY <1>1, <1>10, <1>11 DEF PathInv, d
<1>13. QueueTimes'
  BY <1>1, <1>3, <1>4, <1>5, <1>6 DEF QueueTimes, IdsIn, Plain, c, d
<1>14. PortTimes'
  BY <1>1, <1>5, <1>10 DEF PortTimes, Plain, d
<1> QED  BY <1>12, <1>13, <1>14 DEF OrderInv

\* An event leaves the host queue.
LEMMA DroppingOrdered ==
    ASSUME HostInv, OrderInv, DropEvent
    PROVE  OrderInv'
<1>1. /\ queue # << >> /\ phase = "fan" /\ phase' = "main" /\ queue' = Tail(queue)
      /\ UNCHANGED <<last, created, mqueue, written>> /\ queue \in Seq(Queued)
  BY DEF DropEvent, HostInv, HostTypeInv, FanInv
<1>2. PathInv /\ QueueTimes /\ PortTimes
  BY DEF OrderInv
<1>3. \A t : Clamp(t)' = Clamp(t)
  BY <1>1 DEF Clamp
<1>4. InOrder(created, queue') /\ Within(queue', queue)
  BY <1>1, <1>2, OrderOfTail DEF PathInv
<1>5. \A q : Within(q, q)
  BY DEF Within
<1>6. \A m \in Port : AllFollow(created, written[m], queue') /\ AllFollow(created, mqueue[m], queue')
  BY <1>2, <1>4, <1>5, FollowsWithin DEF PathInv
<1>7. PathInv'
  BY <1>1, <1>2, <1>4, <1>6 DEF PathInv
<1>8. QueueTimes'
  <2>1. /\ Len(queue) \in Nat
        /\ \A i \in 1..Len(queue') : i + 1 \in 2..Len(queue) /\ queue'[i] = queue[i + 1]
    BY <1>1, WithoutHead
  <2>2. \A i \in 1..Len(queue') : i + 1 \in 1..Len(queue) /\ i + 1 # 1
    BY <2>1
  <2>3. \A i \in 1..Len(queue') : Plain(queue'[i]) => queue'[i].time = created[queue'[i].id].time
    BY <1>2, <2>1, <2>2 DEF QueueTimes
  <2> QED  BY <1>1, <2>3 DEF QueueTimes, Plain
<1>9. PortTimes'
  BY <1>1, <1>2, <1>3 DEF PortTimes, Plain
<1> QED  BY <1>7, <1>8, <1>9 DEF OrderInv

\* The steps between two phases leave every queue as it is.
LEMMA TurningOrdered ==
    ASSUME OrderInv, InputsDone \/ QueueDone \/ OutputDone \/ UNCHANGED vars
    PROVE  OrderInv'
<1>1. UNCHANGED <<last, queue, mqueue, created, written>>
  BY DEF InputsDone, QueueDone, OutputDone, vars
<1>2. phase' = phase \/ (phase # "fan" /\ phase' # "fan")
  BY DEF InputsDone, QueueDone, OutputDone, vars
<1>3. \A t : Clamp(t)' = Clamp(t)
  BY <1>1 DEF Clamp
<1>4. PathInv /\ QueueTimes /\ PortTimes
  BY DEF OrderInv
<1>5. PathInv'
  BY <1>1, <1>4 DEF PathInv
<1>6. QueueTimes'
  BY <1>1, <1>2, <1>3, <1>4 DEF QueueTimes, Plain
<1>7. PortTimes'
  BY <1>1, <1>3, <1>4 DEF PortTimes, Plain
<1> QED  BY <1>5, <1>6, <1>7 DEF OrderInv

\* What was to be executed in a cycle is early in the next one.
LEMMA CyclingOrdered ==
    ASSUME TimeAssumption, HostInv, Unwrapped, OrderInv, CycleDone
    PROVE  OrderInv'
<1>1. /\ phase = "out" /\ phase' = "in" /\ last' = Wrap(last + Period)
      /\ UNCHANGED <<queue, mqueue, created, written>>
  BY DEF CycleDone
<1>2. last \in Nat /\ Period \in Nat \ {0} /\ TimeMod \in Nat
  BY DEF HostInv, HostTypeInv, TimeAssumption
<1>3. last' = last + Period
  BY <1>1, <1>2 DEF Wrap, Unwrapped
<1>4. PathInv /\ QueueTimes /\ PortTimes
  BY DEF OrderInv
<1>5. PathInv'
  BY <1>1, <1>4 DEF PathInv
<1>6. QueueTimes'
  BY <1>1, <1>4 DEF QueueTimes, Plain
<1>7. PortTimes'
  <2>1. ASSUME NEW m \in Port, NEW i \in 1..Len(mqueue[m]), Plain(mqueue[m][i])
        PROVE  mqueue[m][i].time < last' /\ mqueue[m][i].time < last' + Period
    <3>1. mqueue[m][i].time < last + Period
      BY <1>4, <2>1 DEF PortTimes
    <3>2. mqueue[m][i].time \in Nat
      <4>1. mqueue[m] \in Seq(Queued)
        BY DEF HostInv, HostTypeInv, Output
      <4>2. mqueue[m][i] \in Queued
        BY <4>1
      <4> QED  BY <4>2 DEF Queued
    <3> QED  BY <1>2, <1>3, <3>1, <3>2
  <2> QED  BY <1>1, <2>1 DEF PortTimes, Plain
<1> QED  BY <1>5, <1>6, <1>7 DEF OrderInv

\* A port writes the head of its queue behind what it has written.
LEMMA WritingOrdered ==
    ASSUME HostInv, OrderInv, NEW m0 \in Port, WritePort(m0)
    PROVE  OrderInv'
<1> DEFINE e == Head(mqueue[m0])
           w == [id |-> e.id, src |-> e.src, frame |-> Clamp(e.time) - last, cycle |-> cycle]
           c == created
<1>1. m0 \in Output /\ Emitting(m0) /\ mqueue' = [mqueue EXCEPT ![m0] = Tail(@)]
      /\ UNCHANGED <<last, phase, queue, created>>
  BY DEF WritePort, Output
<1>2. /\ mqueue[m0] \in Seq(Queued) /\ mqueue[m0] # << >> /\ e \in Queued
      /\ e = mqueue[m0][1] /\ 1 \in 1..Len(mqueue[m0])
      /\ mqueue'[m0] = Tail(mqueue[m0])
      /\ \A m \in Output \ {m0} : mqueue'[m] = mqueue[m]
  BY <1>1, EmittingTakesHead
<1>3. \/ written' = [written EXCEPT ![m0] = Append(@, w)]
      \/ written' = written
  BY DEF WritePort
<1>4. \A a : (Follows(c, w, a) <=> Follows(c, e, a)) /\ (Follows(c, a, w) <=> Follows(c, a, e))
  BY DEF Follows, Plain
<1>5. PathInv /\ QueueTimes /\ PortTimes
  BY DEF OrderInv
<1>6. \A t : Clamp(t)' = Clamp(t)
  BY <1>1 DEF Clamp
<1> HIDE DEF e, w
<1>7. ASSUME NEW m \in Port
      PROVE  /\ m \in Output /\ InOrder(c, mqueue[m]) /\ InOrder(c, written[m])
             /\ AllFollow(c, written[m], mqueue[m]) /\ AllFollow(c, written[m], queue)
             /\ AllFollow(c, mqueue[m], queue)
  BY <1>5 DEF PathInv, Output
<1>8. \A m \in Port : Within(mqueue'[m], mqueue[m]) /\ InOrder(c, mqueue'[m])
  <2>1. TAKE m \in Port
  <2>2. CASE m # m0
    <3>1. mqueue'[m] = mqueue[m]
      BY <1>2, <1>7, <2>2
    <3> QED  BY <1>7, <3>1 DEF Within
  <2>3. CASE m = m0
    BY <1>2, <1>7, <2>3, OrderOfTail
  <2> QED  BY <2>2, <2>3
<1>9. \A i \in 1..Len(mqueue'[m0]) : Follows(c, e, mqueue'[m0][i])
  BY <1>2, <1>7, OrderOfTail DEF e
<1>10. \A q : Within(q, q)
  BY DEF Within
<1>11. \A m \in Port : AllFollow(c, mqueue'[m], queue) /\ AllFollow(c, written[m], mqueue'[m])
  BY <1>7, <1>8, <1>10, FollowsWithin
<1>12. ASSUME NEW m \in Port
       PROVE  /\ InOrder(c, written'[m]) /\ AllFollow(c, written'[m], mqueue'[m])
              /\ AllFollow(c, written'[m], queue)
  <2>1. CASE written'[m] = written[m]
    BY <1>7, <1>11, <2>1
  <2>2. CASE m = m0 /\ written'[m] = Append(written[m], w)
    <3> DEFINE v == written[m]
               u == written'[m]
    <3>1. v \in Seq(Entry \cup {w})
      BY DEF HostInv, HostTypeInv
    <3>2. /\ Len(v) \in Nat /\ Len(u) = Len(v) + 1
          /\ \A i \in 1..Len(u) : u[i] = IF i <= Len(v) THEN v[i] ELSE w
      BY <2>2, <3>1, AppendProperties
    <3> HIDE DEF u, v
    <3>3. \A i \in 1..Len(u) : u[i] = w \/ (i \in 1..Len(v) /\ u[i] = v[i])
      BY <3>2
    <3>4. \A i \in 1..Len(v) : Follows(c, v[i], w)
      BY <1>2, <1>4, <1>7, <2>2 DEF AllFollow, v
    <3>5. InOrder(c, u)
      <4>1. ASSUME NEW i \in 1..Len(u), NEW j \in 1..Len(u), i < j PROVE Follows(c, u[i], u[j])
        <5>1. i \in 1..Len(v) /\ u[i] = v[i]
          BY <3>2, <4>1
        <5>2. CASE j \in 1..Len(v) /\ u[j] = v[j]
          BY <1>7, <4>1, <5>1, <5>2 DEF InOrder, v
        <5>3. CASE u[j] = w
          BY <3>4, <5>1, <5>3
        <5> QED  BY <3>3, <5>2, <5>3
      <4> QED  BY <4>1 DEF InOrder
    <3>6. AllFollow(c, u, mqueue'[m])
      <4>1. \A i \in 1..Len(mqueue'[m]) : Follows(c, w, mqueue'[m][i])
        BY <1>4, <1>9, <2>2
      <4>2. AllFollow(c, v, mqueue'[m])
        BY <1>11 DEF v
      <4> QED  BY <3>3, <4>1, <4>2 DEF AllFollow
    <3>7. AllFollow(c, u, queue)
      <4>1. \A i \in 1..Len(queue) : Follows(c, w, queue[i])
        BY <1>2, <1>4, <1>7 DEF AllFollow
      <4>2. AllFollow(c, v, queue)
        BY <1>7 DEF v
      <4> QED  BY <3>3, <4>1, <4>2 DEF AllFollow
    <3> QED  BY <3>5, <3>6, <3>7 DEF u
  <2>3. written'[m] = written[m] \/ (m = m0 /\ written'[m] = Append(written[m], w))
    BY <1>3 DEF HostInv, HostTypeInv
  <2> QED  BY <2>1, <2>2, <2>3
<1>13. PathInv'
  BY <1>1, <1>5, <1>8, <1>11, <1>12 DEF PathInv
<1>14. QueueTimes'
  BY <1>1, <1>5, <1>6 DEF QueueTimes, Plain
<1>15. PortTimes'
  BY <1>1, <1>5, <1>6, <1>8 DEF PortTimes, Plain, Within
<1> QED  BY <1>13, <1>14, <1>15 DEF OrderInv

\* What loopback schedules is no plain event, and the ports' queues stay.
LEMMA PassingOnOrdered ==
    ASSUME ModulesAssumption, TimeAssumption, HostInv, OrderInv,
           \/ \E m \in Loopback : LoopBack(m)
           \/ \E m \in Uplink, accepted \in BOOLEAN : PushUplink(m, accepted)
    PROVE  OrderInv'
<1>1. PICK m0 \in Loopback \cup Uplink :
         /\ Emitting(m0) /\ mqueue' = [mqueue EXCEPT ![m0] = Tail(@)]
         /\ UNCHANGED <<last, phase, created, written>>
         /\ \/ queue' = queue
            \/ m0 \in Loopback /\ LoopBack(m0)
  BY DEF LoopBack, PushUplink
<1>2. m0 \in Output /\ m0 \notin Port
  BY DEF Output, ModulesAssumption
<1>3. phase = "out" /\ \A m \in Output \ {m0} : mqueue'[m] = mqueue[m]
  BY <1>1, <1>2, EmittingTakesHead
<1>4. \A m \in Port : mqueue'[m] = mqueue[m]
  <2>1. \A m \in Port : m \in Output \ {m0}
    BY <1>2 DEF Output
  <2> QED  BY <1>3, <2>1
<1>5. PathInv /\ QueueTimes /\ PortTimes
  BY DEF OrderInv
<1>6. \A t : Clamp(t)' = Clamp(t)
  BY <1>1 DEF Clamp
<1>7. PortTimes'
  BY <1>1, <1>4, <1>5, <1>6 DEF PortTimes, Plain
<1>8. CASE queue' = queue
  <2>1. PathInv'
    BY <1>1, <1>4, <1>5, <1>8 DEF PathInv
  <2>2. QueueTimes'
    BY <1>1, <1>5, <1>6, <1>8 DEF QueueTimes, Plain
  <2> QED  BY <1>7, <2>1, <2>2 DEF OrderInv
<1>9. CASE m0 \in Loopback /\ LoopBack(m0)
  <2> DEFINE e == Head(mqueue[m0])
             ev == Event(e.id, m0, Wrap(LoopTime(e.time) + Period))
             c == created
  <2>1. queue' = SortedInsert(queue, ev) /\ ~Plain(ev)
    BY <1>9 DEF LoopBack, Event, Plain
  <2>2. ev \in Queued /\ queue \in Seq(Queued)
    BY <1>9, LoopedIsTyped DEF HostInv, HostTypeInv
  <2> HIDE DEF e, ev, c
  <2>3. \A a : Follows(c, a, ev) /\ Follows(c, ev, a)
    BY <2>1 DEF Follows, Plain
  <2>4. InOrder(c, queue')
    <3>1. InOrder(c, queue)
      BY <1>5 DEF PathInv, c
    <3> QED  BY <2>1, <2>2, <2>3, <3>1, OrderOfInserted
  <2>5. \A m \in Port : AllFollow(c, written[m], queue') /\ AllFollow(c, mqueue[m], queue')
    <3>1. TAKE m \in Port
    <3>2. AllFollow(c, written[m], queue) /\ AllFollow(c, mqueue[m], queue)
      BY <1>5 DEF PathInv, c
    <3>3. AllFollow(c, written[m], queue')
      BY <2>1, <2>2, <2>3, <3>2, FollowingInserted
    <3>4. AllFollow(c, mqueue[m], queue')
      BY <2>1, <2>2, <2>3, <3>2, FollowingInserted
    <3> QED  BY <3>3, <3>4
  <2>6. PathInv'
    BY <1>1, <1>4, <1>5, <2>4, <2>5 DEF PathInv, c
  <2>7. QueueTimes'
    <3>1. \A i \in 1..Len(queue') : queue'[i] = ev \/ \E k \in 1..Len(queue) : queue'[i] = queue[k]
      BY <2>1, <2>2, EntriesOfInserted
    <3>2. \A k \in 1..Len(queue) : Plain(queue[k]) => queue[k].time = created[queue[k].id].time
      BY <1>3, <1>5 DEF QueueTimes
    <3>3. \A i \in 1..Len(queue') : Plain(queue'[i]) => queue'[i].time = created[queue'[i].id].time
      BY <2>1, <3>1, <3>2
    <3> QED  BY <1>1, <1>3, <3>3 DEF QueueTimes, Plain
  <2> QED  BY <1>7, <2>6, <2>7 DEF OrderInv
<1> QED  BY <1>1, <1>8, <1>9

\* Two events of one source reach a port in the order they were made in, unless
\* the later one was meant for an earlier time (tjost.c:87-97 and 335-375), as
\* long as the frame time does not wrap around: an immediate event that is handed
\* out in the period of the wrap would wait in the port's queue for its frame to
\* come again, behind all that are made later.
THEOREM EventsInOrder == Spec /\ []Unwrapped => []SourceOrderKept
<1> USE ModulesAssumption, TimeAssumption
<1>1. Init => OrderInv
  <2>1. SUFFICES ASSUME Init PROVE OrderInv
    OBVIOUS
  <2>2. /\ queue = << >> /\ \A m \in Port : mqueue[m] = << >> /\ written[m] = << >>
    BY <2>1 DEF Init, Output
  <2> QED  BY <2>2 DEF OrderInv, PathInv, QueueTimes, PortTimes, InOrder, AllFollow
<1>2. HostInv /\ IdsInv /\ Unwrapped /\ OrderInv /\ [Next]_vars => OrderInv'
  <2>1. SUFFICES ASSUME HostInv, IdsInv, Unwrapped, OrderInv, [Next]_vars PROVE OrderInv'
    OBVIOUS
  <2>2. ASSUME NEW src \in PortIn \cup PipeIn \cup Uplink \cup {Broadcast},
               NEW time \in ArrivalTimes(src), Arrive(src, time)
        PROVE  OrderInv'
    BY <2>1, <2>2, ArrivingOrdered
  <2>3. CASE TakeEvent
    BY <2>1, <2>3, TakingOrdered
  <2>4. ASSUME phase = "fan", NEW call \in Calls, FanOut(call) PROVE OrderInv'
    BY <2>1, <2>4, FanningOutOrdered
  <2>5. CASE DropEvent
    BY <2>1, <2>5, DroppingOrdered
  <2>6. CASE InputsDone \/ QueueDone \/ OutputDone \/ UNCHANGED vars
    BY <2>1, <2>6, TurningOrdered
  <2>7. CASE CycleDone
    BY <2>1, <2>7, CyclingOrdered
  <2>8. ASSUME NEW m \in Port, WritePort(m) PROVE OrderInv'
    BY <2>1, <2>8, WritingOrdered
  <2>9. ASSUME NEW m \in Loopback, LoopBack(m) PROVE OrderInv'
    BY <2>1, <2>9, PassingOnOrdered
  <2>10. ASSUME NEW m \in Uplink, NEW accepted \in BOOLEAN, PushUplink(m, accepted) PROVE OrderInv'
    BY <2>1, <2>10, PassingOnOrdered
  <2> QED  BY <2>1, <2>2, <2>3, <2>4, <2>5, <2>6, <2>7, <2>8, <2>9, <2>10 DEF Next
<1>3. OrderInv => SourceOrderKept
  <2>1. SUFFICES ASSUME OrderInv, NEW m \in Port,
                        NEW i \in 1..Len(written[m]), NEW j \in 1..Len(written[m]), i < j,
                        written[m][i].src = written[m][j].src,
                        written[m][i].src \notin HasLua \cup Loopback
                 PROVE  \/ written[m][i].id <= written[m][j].id
                        \/ created[written[m][i].id].time < created[written[m][j].id].time
    BY DEF SourceOrderKept
  <2>2. InOrder(created, written[m])
    BY <2>1 DEF OrderInv, PathInv
  <2>3. Follows(created, written[m][i], written[m][j])
    BY <2>1, <2>2 DEF InOrder
  <2> QED  BY <2>1, <2>3 DEF Follows, Plain
<1> QED  BY <1>1, <1>2, <1>3, HostInvariant, EntriesAreEvents, PTL DEF Spec

-----------------------------------------------------------------------------
(***************************************************************************)
(* Lifecycle: whatever steps of the start fail, however many signals come  *)
(* and whatever the session manager does, the host is torn down at most    *)
(* once and _process never runs without what it works with.                *)
(***************************************************************************)

USE StepAssumption DEF StepAssumption

\* The order of _tjost_init: all that _process works with is set up before the
\* last step, which is the activation.
LEMMA StepOrder ==
    /\ Len(Steps) = 19 /\ Steps[19] = "active"
    /\ \A i \in 1..18 : Steps[i] # "active"
    /\ \A x \in UsedByProcess \cup {"quit"} : \E i \in 1..19 : Steps[i] = x
  <1>1. Len(Steps) = 19 /\ Steps[19] = "active"
    BY DEF Steps
  <1>2. \A i \in 1..18 : Steps[i] # "active"
    <2>1. /\ Steps[1] = "tlsf" /\ Steps[2] = "client" /\ Steps[3] = "process"
          /\ Steps[4] = "callbacks" /\ Steps[5] = "pipe_uplink_rx" /\ Steps[6] = "pipe_uplink_tx"
          /\ Steps[7] = "asio" /\ Steps[8] = "rb_msg" /\ Steps[9] = "rb_rtmem" /\ Steps[10] = "arr"
          /\ Steps[11] = "sigint" /\ Steps[12] = "sigterm" /\ Steps[13] = "sigquit"
          /\ Steps[14] = "quit" /\ Steps[15] = "msg" /\ Steps[16] = "rtmem" /\ Steps[17] = "L"
          /\ Steps[18] = "script"
      BY DEF Steps
    <2>2. \A i \in 1..18 : i = 1 \/ i = 2 \/ i = 3 \/ i = 4 \/ i = 5 \/ i = 6 \/ i = 7 \/ i = 8
              \/ i = 9 \/ i = 10 \/ i = 11 \/ i = 12 \/ i = 13 \/ i = 14 \/ i = 15 \/ i = 16 \/ i = 17
              \/ i = 18
      OBVIOUS
    <2> QED
      BY <2>1, <2>2
  <1>3. /\ Steps[1] = "tlsf" /\ Steps[2] = "client" /\ Steps[5] = "pipe_uplink_rx"
        /\ Steps[6] = "pipe_uplink_tx" /\ Steps[7] = "asio" /\ Steps[8] = "rb_msg"
        /\ Steps[9] = "rb_rtmem" /\ Steps[14] = "quit" /\ Steps[15] = "msg" /\ Steps[16] = "rtmem" /\ Steps[17] = "L"
    BY DEF Steps
  <1>4. \A x \in UsedByProcess \cup {"quit"} : \E i \in 1..19 : Steps[i] = x
    BY <1>3 DEF UsedByProcess
  <1> QED
    BY <1>1, <1>2, <1>4

-----------------------------------------------------------------------------
(* The inductive invariant. *)

Starting == pc \in {"nsm", "init", "failed"}

\* How far the start has come, and what it has set up.
StartInv ==
    /\ pc \in {"nsm", "init", "loop", "failed", "stop", "join", "closed", "returned",
             "aborted", "crashed"}
    /\ step \in 1..20
    /\ Starting => step <= 19
    /\ pc = "loop" => step = 20
    /\ Starting \/ pc = "loop" => \A i \in 1..step - 1 : Steps[i] \in open
    /\ "active" \in open => pc = "loop"

\* The teardown is entered from the start or the loop, and when it is over no
\* handle is left whose callback would enter it again.
TornInv ==
    /\ pending \subseteq Signals \cup {"quit"}
    /\ Starting \/ pc = "loop" => deinits = 0
    /\ deinits \in {0, 1}
    /\ pc = "closed" => open \cap (Signals \cup {"quit"}) = {}

\* _process runs from the activation until jack_deactivate has returned.
ProcessInv == processing => pc \in {"loop", "stop"} /\ UsedByProcess \cup {"quit"} \subseteq open

LifecycleInv == StartInv /\ TornInv /\ ProcessInv

\* Before main has done anything the invariant holds.
LEMMA InitLifecycle == LifeInit => LifecycleInv
  <1> SUFFICES ASSUME LifeInit PROVE LifecycleInv
    OBVIOUS
  <1>1. StartInv
    BY DEF LifeInit, StartInv, Starting
  <1>2. TornInv /\ ProcessInv
    BY DEF LifeInit, TornInv, ProcessInv, Starting
  <1> QED
    BY <1>1, <1>2 DEF LifecycleInv

-----------------------------------------------------------------------------

\* A step of _tjost_init, whether it succeeds or fails, keeps the invariant.
LEMMA InitStepKeeps == ASSUME LifecycleInv, InitStep PROVE LifecycleInv'
  <1>1. /\ pc = "init" /\ step \in 1..19 /\ step' = step + 1
        /\ open' = open \cup {Steps[step]}
        /\ pc' = IF step = 19 THEN "loop" ELSE "init"
        /\ UNCHANGED <<pending, processing, deinits>>
    BY StepOrder DEF InitStep, LifecycleInv, StartInv, Starting
  <1>2. \A i \in 1..step' - 1 : Steps[i] \in open'
    <2>1. \A i \in 1..step - 1 : Steps[i] \in open
      BY <1>1 DEF LifecycleInv, StartInv, Starting
    <2>2. \A i \in 1..step' - 1 : i \in 1..step - 1 \/ i = step
      BY <1>1
    <2> QED
      BY <1>1, <2>1, <2>2
  <1>3. "active" \in open' => pc' = "loop"
    <2>1. "active" \notin open
      BY <1>1 DEF LifecycleInv, StartInv
    <2>2. step = 19 \/ step \in 1..18
      BY <1>1
    <2> QED
      BY <1>1, <2>1, <2>2, StepOrder
  <1>4. StartInv'
    BY <1>1, <1>2, <1>3 DEF StartInv, Starting
  <1>5. TornInv'
    BY <1>1 DEF LifecycleInv, TornInv, Starting
  <1>6. ProcessInv'
    BY <1>1 DEF LifecycleInv, ProcessInv
  <1> QED
    BY <1>4, <1>5, <1>6 DEF LifecycleInv

\* A signal of any handle that can enter the teardown.
LEMMA DeinitBeginKeeps == ASSUME LifecycleInv, DeinitBegin PROVE LifecycleInv'
  <1>1. /\ pc' = "stop" /\ open' = open \ {"active"} /\ deinits' = deinits + 1
        /\ UNCHANGED <<step, processing>>
    BY DEF DeinitBegin
  <1>2. pc # "closed"
    <2> SUFFICES ASSUME pc = "closed" PROVE FALSE
      OBVIOUS
    <2>1. PICK h \in pending \cap open : TRUE
      BY DEF DeinitBegin
    <2> QED
      BY <2>1 DEF LifecycleInv, TornInv
  <1>3. pc \in {"loop", "failed"} /\ pending' \subseteq pending
    BY <1>2 DEF DeinitBegin
  <1>4. StartInv'
    BY <1>1 DEF LifecycleInv, StartInv, Starting
  <1>5. TornInv'
    BY <1>1, <1>3 DEF LifecycleInv, TornInv, Starting
  <1>6. ProcessInv'
    BY <1>1 DEF LifecycleInv, ProcessInv, UsedByProcess
  <1> QED
    BY <1>4, <1>5, <1>6 DEF LifecycleInv

\* The end of _tjost_deinit keeps the invariant.
LEMMA DeinitEndKeeps == ASSUME LifecycleInv, DeinitEnd PROVE LifecycleInv'
  <1>1. /\ pc = "join" /\ pc' \in {"returned", "closed", "aborted"} /\ open' \subseteq open
        /\ pc' = "closed" => open' = open \ (UvClosed \cup Torn)
        /\ UNCHANGED <<step, pending, processing, deinits>>
    BY DEF DeinitEnd
  <1>2. StartInv'
    BY <1>1 DEF LifecycleInv, StartInv, Starting
  <1>3. TornInv'
    BY <1>1 DEF LifecycleInv, TornInv, Starting, UvClosed, Signals
  <1>4. ProcessInv'
    BY <1>1 DEF LifecycleInv, ProcessInv
  <1> QED
    BY <1>2, <1>3, <1>4 DEF LifecycleInv

\* The steps that move the main thread and set up or tear down nothing.
LEMMA MoveKeeps ==
    ASSUME LifecycleInv, NsmDone \/ InitFail \/ LuaClose \/ LoopEnds
    PROVE  LifecycleInv'
  <1>1. /\ UNCHANGED <<step, open, pending, processing, deinits>>
        /\ \/ pc = "nsm" /\ pc' = "init"
           \/ pc = "init" /\ pc' = "failed"
           \/ pc = "stop" /\ pc' = "join" /\ ~processing
           \/ pc = "closed" /\ pc' = "returned"
    BY DEF NsmDone, InitFail, LuaClose, LoopEnds
  <1>2. StartInv'
    BY <1>1 DEF LifecycleInv, StartInv, Starting
  <1>3. TornInv'
    BY <1>1 DEF LifecycleInv, TornInv, Starting
  <1>4. ProcessInv'
    BY <1>1 DEF LifecycleInv, ProcessInv
  <1> QED
    BY <1>2, <1>3, <1>4 DEF LifecycleInv

\* JACK's shutdown, which is only seen to before the loop ends.
LEMMA ShutdownKeeps == ASSUME LifecycleInv, JackShutdown PROVE LifecycleInv'
  <1>1. /\ UNCHANGED <<step, open, processing, deinits>>
        /\ pc \in {"init", "failed", "loop", "stop", "join"}
        /\ \/ pending' = pending \cup {"quit"} /\ pc' = pc
           \/ pending' = pending /\ pc' = "crashed" /\ "quit" \notin open
    BY DEF JackShutdown
  <1>2. ASSUME "quit" \notin open PROVE pc # "loop" /\ "active" \notin open /\ ~processing
    <2>1. Steps[14] = "quit"
      BY DEF Steps
    <2>2. pc # "loop"
      <3>1. pc = "loop" => 14 \in 1..step - 1 /\ \A i \in 1..step - 1 : Steps[i] \in open
        BY DEF LifecycleInv, StartInv
      <3> QED
        BY <1>2, <2>1, <3>1
    <2> QED
      BY <1>2, <2>2 DEF LifecycleInv, StartInv, ProcessInv
  <1>3. StartInv'
    BY <1>1, <1>2 DEF LifecycleInv, StartInv, Starting
  <1>4. TornInv'
    BY <1>1 DEF LifecycleInv, TornInv, Starting
  <1>5. ProcessInv'
    BY <1>1, <1>2 DEF LifecycleInv, ProcessInv
  <1> QED
    BY <1>3, <1>4, <1>5 DEF LifecycleInv

\* The steps of the other threads, and those that change nothing.
LEMMA OthersKeep ==
    ASSUME LifecycleInv,
           \/ NsmResolve \/ NsmClientOpen \/ NsmError \/ ProcessBegin \/ ProcessEnd \/ NetThreadEnds
           \/ (\E h \in Handles : Request(h))
           \/ UNCHANGED lifeVars
    PROVE  LifecycleInv'
  <1>1. /\ UNCHANGED <<pc, step, open, deinits>>
        /\ pending' \subseteq pending \cup Signals \cup {"quit"}
        /\ processing' => processing \/ "active" \in open
    BY DEF NsmResolve, NsmClientOpen, NsmError, ProcessBegin, ProcessEnd, NetThreadEnds, Request, lifeVars
  <1>2. StartInv'
    BY <1>1 DEF LifecycleInv, StartInv, Starting
  <1>3. TornInv'
    BY <1>1 DEF LifecycleInv, TornInv, Starting
  <1>4. ProcessInv'
    <2>1. "active" \in open => pc = "loop" /\ \A i \in 1..19 : Steps[i] \in open
      BY DEF LifecycleInv, StartInv
    <2>2. "active" \in open => UsedByProcess \cup {"quit"} \subseteq open
      BY <2>1, StepOrder
    <2> QED
      BY <1>1, <2>1, <2>2 DEF LifecycleInv, ProcessInv
  <1> QED
    BY <1>2, <1>3, <1>4 DEF LifecycleInv

\* Every step of start, shutdown and the threads keeps the invariant.
LEMMA NextKeepsLifecycle == LifecycleInv /\ [LifeNext]_lifeVars => LifecycleInv'
  BY InitStepKeeps, DeinitBeginKeeps, DeinitEndKeeps, MoveKeeps, ShutdownKeeps, OthersKeep
     DEF LifeNext, Main

-----------------------------------------------------------------------------
(* The theorems. *)

\* The start, the teardown and the cycles of JACK are in order in every behaviour.
THEOREM LifecycleInvariant == LifeSpec => []LifecycleInv
  BY InitLifecycle, NextKeepsLifecycle, PTL DEF LifeSpec

\* However many stop requests come, from signals and from JACK's shutdown
\* callback, _tjost_deinit is entered once: _tjost_deinit closes or stops every
\* handle whose callback could enter it again.
THEOREM TornDownOnce == LifeSpec => []DeinitAtMostOnce
  <1>1. LifecycleInv => DeinitAtMostOnce
    BY DEF LifecycleInv, TornInv, DeinitAtMostOnce
  <1> QED
    BY <1>1, LifecycleInvariant, PTL

\* Whichever step of _tjost_init fails, and whenever the host is stopped, a cycle
\* of JACK that runs finds all that _process works with.
THEOREM ProcessIsServed == LifeSpec => []ProcessHasWhatItUses
  <1>1. LifecycleInv => ProcessHasWhatItUses
    BY DEF LifecycleInv, ProcessInv, ProcessHasWhatItUses
  <1> QED
    BY <1>1, LifecycleInvariant, PTL
=============================================================================
