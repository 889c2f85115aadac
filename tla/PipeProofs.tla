----------------------------- MODULE PipeProofs -----------------------------
(***************************************************************************)
(* Proofs about Pipe for every set of events, every size function, every   *)
(* capacity, both modes and any number of events.                          *)
(***************************************************************************)
EXTENDS Pipe, TLAPS

USE SizeAssumption, HeaderAssumption, CapacityAssumption, ModeAssumption
    DEF SizeAssumption, HeaderAssumption, CapacityAssumption, ModeAssumption

\* Payload sizes of accepted events are natural numbers.
LEMMA PayloadNat ==
    ASSUME TypeOK, NEW n \in 1..Len(log)
    PROVE  /\ PayloadOf(n) \in Nat /\ PayloadOf(n) = Size[log[n].ev]
           /\ TotalOf(n) \in Nat /\ TotalOf(n) = Header + Size[log[n].ev]
           /\ log[n].at \in Nat /\ log[n].ev \in Event
  <1>1. log[n] \in Packet
    BY DEF TypeOK
  <1>2. log[n].at \in Nat /\ log[n].ev \in Event
    BY <1>1 DEF Packet
  <1>3. Size[log[n].ev] \in Nat
    BY <1>2
  <1> QED
    BY <1>2, <1>3 DEF PayloadOf, TotalOf

\* The pipe starts in a state of the inductive invariant.
LEMMA InitInv == Init => PipeInv
  <1> SUFFICES ASSUME Init PROVE PipeInv
    OBVIOUS
  <1> USE DEF Init
  <1>1. TypeOK
    <2>1. log \in Seq(Packet) /\ delivered \in Seq(Nat)
      OBVIOUS
    <2> QED
      BY <2>1 DEF TypeOK
  <1>2. Len(log) = 0 /\ Len(delivered) = 0
    OBVIOUS
  <1>3. Layout /\ ReaderAt
    BY <1>2 DEF Layout, ReaderAt, StartOf
  <1> QED
    BY <1>1, <1>2, <1>3 DEF PipeInv, NoShortCopy, InOrderAndIntact, Room

\* A header peeked at the read pointer is that of the next undelivered event.
LEMMA PeekFindsNext ==
    ASSUME PipeInv, pc = "loop", ReadSpace >= Header
    PROVE  /\ Len(delivered) < Len(log)
           /\ HeaderAtReadPtr = {Len(delivered) + 1}
  <1> DEFINE d == Len(delivered)
  <1>1. d \in Nat /\ Len(log) \in Nat /\ d <= Len(log)
    BY DEF PipeInv, TypeOK, InOrderAndIntact
  <1>2. rptr = StartOf(d + 1)
    BY DEF PipeInv, ReaderAt
  <1>3. d < Len(log)
    BY <1>1, <1>2 DEF PipeInv, TypeOK, StartOf, ReadSpace
  <1>4. rptr = log[d + 1].at
    BY <1>1, <1>2, <1>3 DEF StartOf
  <1>5. \A n \in 1..Len(log) : log[n].at = rptr => n = d + 1
    <2> SUFFICES ASSUME NEW n \in 1..Len(log), log[n].at = rptr, n # d + 1
                 PROVE  FALSE
      OBVIOUS
    <2>1. n < d + 1 \/ d + 1 < n
      BY <1>1
    <2>2. \A m, k \in 1..Len(log) : m < k => log[m].at < log[k].at
      BY DEF PipeInv, Layout
    <2>3. d + 1 \in 1..Len(log)
      BY <1>1, <1>3
    <2>4. log[n].at \in Nat
      BY DEF PipeInv, TypeOK
    <2> QED
      BY <1>4, <2>1, <2>2, <2>3, <2>4
  <1> QED
    BY <1>1, <1>3, <1>4, <1>5 DEF HeaderAtReadPtr

\* A step that leaves the log and the end of the last event where they are
\* leaves the layout of the stream alone.
LEMMA LayoutKept ==
    ASSUME TypeOK, log' = log, wptr' + todo' = wptr + todo
    PROVE  /\ \A n \in Nat : /\ StartOf(n)' = StartOf(n)
                             /\ TotalOf(n)' = TotalOf(n)
                             /\ PayloadOf(n)' = PayloadOf(n)
           /\ Layout => Layout'
  <1>1. \A n \in Nat : /\ StartOf(n)' = StartOf(n)
                       /\ TotalOf(n)' = TotalOf(n)
                       /\ PayloadOf(n)' = PayloadOf(n)
    BY DEF StartOf, TotalOf, PayloadOf
  <1>2. Len(log) \in Nat
    BY DEF TypeOK
  <1> QED
    BY <1>1, <1>2 DEF Layout

\* Appending to the log leaves the earlier events alone.
LEMMA AppendKeeps ==
    ASSUME TypeOK, NEW e \in Event, ProduceAccept(e), NEW l \in Nat, l = Len(log)
    PROVE  /\ Len(log') = l + 1
           /\ \A n \in 1..l : log'[n] = log[n] /\ TotalOf(n)' = TotalOf(n)
           /\ log'[l + 1].at = wptr
           /\ TotalOf(l + 1)' = Header + Size[e]
  <1> DEFINE p == [ev |-> e, at |-> wptr]
  <1>1. log' = Append(log, p) /\ log \in Seq(Packet) /\ p \in Packet
        /\ p.ev = e /\ p.at = wptr
    BY DEF TypeOK, ProduceAccept, Packet
  <1> HIDE DEF p
  <1>2. /\ Len(log') = l + 1
        /\ \A n \in 1..l : log'[n] = log[n]
        /\ log'[l + 1] = p
    BY <1>1
  <1>3. \A n \in 1..l : TotalOf(n)' = TotalOf(n)
    BY <1>2 DEF TotalOf, PayloadOf
  <1>4. TotalOf(l + 1)' = Header + Size[e]
    BY <1>1, <1>2 DEF TotalOf, PayloadOf
  <1> QED
    BY <1>1, <1>2, <1>3, <1>4

\* Accepting an event lays it out behind all others and keeps the invariant.
LEMMA AcceptInv ==
    ASSUME PipeInv, NEW e \in Event, ProduceAccept(e)
    PROVE  PipeInv'
  <1> USE DEF PipeInv
  <1>l. PICK l \in Nat : l = Len(log)
    BY DEF TypeOK
  <1>a. /\ Len(log') = l + 1
        /\ \A n \in 1..l : log'[n] = log[n] /\ TotalOf(n)' = TotalOf(n)
        /\ log'[l + 1].at = wptr
        /\ TotalOf(l + 1)' = Header + Size[e]
    BY <1>l, AppendKeeps
  <1>0. wptr \in Nat /\ rptr \in Nat /\ Size[e] \in Nat /\ l = Len(log)
        /\ Len(delivered) \in Nat /\ todo = 0 /\ todo' = Header + Size[e]
    BY <1>l DEF TypeOK, ProduceAccept
  <1>1. TypeOK'
    <2>1. [ev |-> e, at |-> wptr] \in Packet
      BY <1>0 DEF Packet
    <2>2. log' \in Seq(Packet)
      BY <2>1 DEF TypeOK, ProduceAccept
    <2> QED
      BY <1>0, <2>2 DEF TypeOK, ProduceAccept
  <1>2. NoShortCopy'
    BY DEF NoShortCopy, ProduceAccept
  <1>3. InOrderAndIntact'
    BY <1>0, <1>a DEF InOrderAndIntact, ProduceAccept
  <1>4. /\ \A n \in 1..(l + 1) : StartOf(n)' = StartOf(n)
        /\ StartOf(l + 2)' = wptr + Header + Size[e]
    <2>1. \A n \in 1..l : StartOf(n)' = StartOf(n)
      BY <1>0, <1>a DEF StartOf
    <2>2. StartOf(l + 1) = wptr
      BY <1>0 DEF StartOf
    <2>3. StartOf(l + 1)' = wptr
      BY <1>0, <1>a DEF StartOf
    <2>4. StartOf(l + 2)' = wptr + Header + Size[e]
      BY <1>0, <1>a DEF StartOf, ProduceAccept
    <2>5. \A n \in 1..(l + 1) : n \in 1..l \/ n = l + 1
      BY <1>0
    <2> QED
      BY <2>1, <2>2, <2>3, <2>4, <2>5
  <1>5. Layout'
    <2>1. \A n \in 1..(l + 1) : log'[n].at + TotalOf(n)' = StartOf(n + 1)'
      <3> TAKE n \in 1..(l + 1)
      <3>1. CASE n = l + 1
        BY <1>0, <1>4, <3>1, <1>a
      <3>2. CASE n # l + 1
        <4>1. n \in 1..l /\ n + 1 \in 1..(l + 1)
          BY <1>0, <3>2
        <4>2. log[n].at + TotalOf(n) = StartOf(n + 1)
          BY <1>0, <4>1 DEF Layout
        <4> QED
          BY <4>1, <4>2, <1>4, <1>a
      <3> QED
        BY <3>1, <3>2
    <2>2. \A m, n \in 1..(l + 1) : m < n => log'[m].at < log'[n].at
      <3> SUFFICES ASSUME NEW m \in 1..(l + 1), NEW n \in 1..(l + 1), m < n
                   PROVE  log'[m].at < log'[n].at
        OBVIOUS
      <3>1. m \in 1..l /\ log'[m] = log[m]
        BY <1>0, <1>a
      <3>2. CASE n \in 1..l
        BY <1>0, <3>1, <3>2, <1>a DEF Layout
      <3>3. CASE n = l + 1
        <4>1. log'[n].at = wptr
          BY <3>3, <1>a
        <4>2. log[m].at + TotalOf(m) = StartOf(m + 1) /\ TotalOf(m) \in Nat \ {0}
              /\ log[m].at \in Nat
          <5>1. m \in 1..Len(log)
            BY <1>0, <3>1
          <5>2. TotalOf(m) = Header + Size[log[m].ev] /\ log[m].at \in Nat
                /\ Size[log[m].ev] \in Nat
            BY <5>1, PayloadNat
          <5>3. log[m].at + TotalOf(m) = StartOf(m + 1)
            BY <5>1 DEF Layout
          <5> QED
            BY <5>2, <5>3
        <4>3. StartOf(m + 1) <= wptr
          <5>1. CASE m = l
            BY <5>1, <1>0 DEF StartOf
          <5>2. CASE m # l
            <6>1. m + 1 \in 1..l /\ l \in 1..l /\ m + 1 <= l
              BY <3>1, <5>2, <1>0
            <6>2. log[l].at + TotalOf(l) = wptr
              <7>1. log[l].at + TotalOf(l) = StartOf(l + 1)
                BY <6>1, <1>0 DEF Layout
              <7>2. StartOf(l + 1) = wptr
                BY <1>0 DEF StartOf
              <7> QED
                BY <7>1, <7>2
            <6>3. log[l].at \in Nat /\ TotalOf(l) \in Nat /\ log[m+1].at \in Nat
              BY <1>0, <6>1, PayloadNat
            <6>4. log[m + 1].at <= log[l].at
              <7>1. CASE m + 1 = l
                BY <7>1, <6>3
              <7>2. CASE m + 1 < l
                <8>1. log[m + 1].at < log[l].at
                  BY <1>0, <6>1, <7>2 DEF Layout
                <8> QED
                  BY <8>1, <6>3
              <7> QED
                BY <7>1, <7>2, <6>1
            <6>5. StartOf(m + 1) = log[m + 1].at
              BY <1>0, <6>1 DEF StartOf
            <6> QED
              BY <6>2, <6>3, <6>4, <6>5, <1>0
          <5> QED
            BY <5>1, <5>2
        <4> QED
          BY <4>1, <4>2, <4>3, <3>1, <1>0
      <3> QED
        BY <3>2, <3>3, <1>0
    <2>3. StartOf(1)' = 0
      BY <1>0, <1>4 DEF Layout
    <2> QED
      BY <2>1, <2>2, <2>3, <1>a DEF Layout
  <1>6. Room'
    BY <1>0 DEF Room, ProduceAccept, HasRoom, WriteSpace, ReadSpace
  <1>7. ReaderAt'
    <2>1. Len(delivered) + 1 \in 1..(l + 1)
      BY <1>0 DEF InOrderAndIntact
    <2>2. StartOf(Len(delivered) + 1)' = StartOf(Len(delivered) + 1)
      BY <2>1, <1>4 DEF ProduceAccept
    <2>3. pc \in {"check", "read"} => /\ tev \in 1..l
                                      /\ PayloadOf(tev)' = PayloadOf(tev)
      BY <1>0, <1>a DEF ReaderAt, ProduceAccept, PayloadOf
    <2> QED
      BY <1>0, <2>2, <2>3, <1>a DEF ReaderAt, ProduceAccept, ReadSpace
  <1> QED
    BY <1>1, <1>2, <1>3, <1>5, <1>6, <1>7

\* Making a part of an event visible keeps the invariant.
LEMMA PublishInv ==
    ASSUME PipeInv, NEW k \in 1..todo, Publish(k)
    PROVE  PipeInv'
  <1> USE DEF PipeInv
  <1>0. wptr \in Nat /\ rptr \in Nat /\ todo \in Nat /\ Len(log) \in Nat /\ k \in Nat
    BY DEF TypeOK
  <1>1. Lesser(k, WriteSpace) = k
    BY <1>0 DEF Room, WriteSpace, ReadSpace, Lesser
  <1>2. wptr' = wptr + k /\ todo' = todo - k /\ failed' = failed
    BY <1>0, <1>1 DEF Publish, TypeOK
  <1>3. UNCHANGED <<log, rptr, pc, tev, delivered>>
    BY DEF Publish
  <1>4. TypeOK'
    BY <1>0, <1>2 DEF TypeOK, Publish
  <1>5. \A n \in Nat : StartOf(n)' = StartOf(n) /\ TotalOf(n)' = TotalOf(n)
                       /\ PayloadOf(n)' = PayloadOf(n)
    BY <1>0, <1>2, <1>3, LayoutKept
  <1>6. Layout'
    BY <1>0, <1>2, <1>3, LayoutKept
  <1>7. Room'
    BY <1>0, <1>2, <1>3 DEF Room
  <1>8. ReaderAt'
    <2>1. StartOf(Len(delivered) + 1)' = StartOf(Len(delivered) + 1)
          /\ PayloadOf(tev)' = PayloadOf(tev)
      BY <1>3, <1>5 DEF TypeOK
    <2>2. wptr' - rptr' >= wptr - rptr
      BY <1>0, <1>2, <1>3
    <2>3. pc \in {"check", "read"} => PayloadOf(tev) \in Nat
      BY <1>0, PayloadNat DEF ReaderAt, TypeOK
    <2> QED
      BY <1>0, <1>2, <1>3, <2>1, <2>2, <2>3 DEF ReaderAt, ReadSpace
  <1> QED
    BY <1>2, <1>3, <1>4, <1>6, <1>7, <1>8 DEF NoShortCopy, InOrderAndIntact

\* Steps that touch neither the stream nor the consumer's place in it.
LEMMA QuietInv ==
    ASSUME PipeInv, TypeOK',
           UNCHANGED <<log, wptr, rptr, todo, tev, delivered, failed>>,
           \/ pc' = pc
           \/ pc \in {"idle", "loop", "check"} /\ pc' \in {"idle", "loop"}
    PROVE  PipeInv'
  <1>1. \A n \in Nat : StartOf(n)' = StartOf(n) /\ TotalOf(n)' = TotalOf(n)
                       /\ PayloadOf(n)' = PayloadOf(n)
    BY LayoutKept DEF PipeInv
  <1>2. Layout'
    BY LayoutKept DEF PipeInv
  <1>3. ReaderAt'
    BY <1>1 DEF PipeInv, TypeOK, ReaderAt, ReadSpace
  <1> QED
    BY <1>2, <1>3 DEF PipeInv, NoShortCopy, InOrderAndIntact, Room

\* Looking whether a header is there keeps the invariant.
LEMMA PeekInv ==
    ASSUME PipeInv, ConsumeLoop, ReadSpace >= Header
    PROVE  PipeInv'
  <1>1. pc = "loop" /\ pc' = "check" /\ UNCHANGED <<log, wptr, rptr, todo, delivered, failed>>
    BY DEF ConsumeLoop, PipeInv, TypeOK, ReadSpace
  <1>2. Len(delivered) < Len(log) /\ HeaderAtReadPtr = {Len(delivered) + 1}
    BY <1>1, PeekFindsNext
  <1>3. tev' = Len(delivered) + 1
    BY <1>1, <1>2 DEF ConsumeLoop, PipeInv, TypeOK, ReadSpace
  <1>4. TypeOK'
    BY <1>1, <1>3 DEF PipeInv, TypeOK, ConsumeLoop
  <1>5. \A n \in Nat : StartOf(n)' = StartOf(n) /\ TotalOf(n)' = TotalOf(n)
    BY <1>1, LayoutKept DEF PipeInv
  <1>6. Layout'
    BY <1>1, LayoutKept DEF PipeInv
  <1>7. ReaderAt'
    BY <1>1, <1>2, <1>3, <1>5 DEF PipeInv, TypeOK, ReaderAt, ReadSpace
  <1> QED
    BY <1>1, <1>4, <1>6, <1>7 DEF PipeInv, NoShortCopy, InOrderAndIntact, Room

\* Looking whether the body is there keeps the invariant.
LEMMA CheckInv ==
    ASSUME PipeInv, ConsumeCheck, PayloadComplete
    PROVE  PipeInv'
  <1>1. /\ pc = "check" /\ pc' = "read" /\ rptr' = rptr + Header
        /\ UNCHANGED <<log, wptr, todo, tev, delivered, failed>>
    BY DEF ConsumeCheck
  <1>2. tev = Len(delivered) + 1 /\ tev \in 1..Len(log) /\ rptr = StartOf(tev)
    BY <1>1 DEF PipeInv, TypeOK, ReaderAt
  <1>3. PayloadOf(tev) \in Nat
    BY <1>2, PayloadNat DEF PipeInv
  <1>4. TypeOK'
    BY <1>1 DEF PipeInv, TypeOK, ConsumeCheck
  <1>5. \A n \in Nat : StartOf(n)' = StartOf(n) /\ TotalOf(n)' = TotalOf(n)
                       /\ PayloadOf(n)' = PayloadOf(n)
    BY <1>1, LayoutKept DEF PipeInv
  <1>6. Layout'
    BY <1>1, LayoutKept DEF PipeInv
  <1>7. rptr' <= wptr'
    BY <1>1, <1>3 DEF PipeInv, TypeOK, PayloadComplete, ReadSpace
  <1>8. Room'
    BY <1>1, <1>7 DEF PipeInv, TypeOK, Room
  <1>9. ReaderAt'
    BY <1>1, <1>2, <1>3, <1>5 DEF PipeInv, TypeOK, ReaderAt, PayloadComplete, ReadSpace
  <1> QED
    BY <1>1, <1>4, <1>6, <1>8, <1>9 DEF PipeInv, NoShortCopy, InOrderAndIntact

\* What ConsumeRead does in a state of the invariant: it takes the whole payload.
LEMMA ReadTakesAll ==
    ASSUME PipeInv, NEW ret \in SchedReturns, ConsumeRead(ret)
    PROVE  /\ tev = Len(delivered) + 1 /\ tev \in 1..Len(log)
           /\ PayloadOf(tev) \in Nat
           /\ rptr' = rptr + PayloadOf(tev)
           /\ delivered' = Append(delivered, tev)
           /\ failed' = failed
           /\ pc' \in {"idle", "loop"}
  <1>1. tev = Len(delivered) + 1 /\ tev \in 1..Len(log) /\ ReadSpace >= PayloadOf(tev)
    BY DEF PipeInv, TypeOK, ReaderAt, ConsumeRead
  <1>2. PayloadOf(tev) \in Nat
    BY <1>1, PayloadNat DEF PipeInv
  <1>3. ReadSpace \in Int
    BY DEF PipeInv, TypeOK, ReadSpace
  <1>4. Lesser(PayloadOf(tev), ReadSpace) = PayloadOf(tev)
    BY <1>1, <1>2, <1>3 DEF Lesser
  <1>5. failed' = failed
    BY <1>4 DEF ConsumeRead, PipeInv, TypeOK
  <1> QED
    BY <1>1, <1>2, <1>4, <1>5 DEF ConsumeRead

\* Reading an event and handing it over keeps the invariant.
LEMMA ReadInv ==
    ASSUME PipeInv, NEW ret \in SchedReturns, ConsumeRead(ret)
    PROVE  PipeInv'
  <1>1. /\ tev = Len(delivered) + 1 /\ tev \in 1..Len(log)
        /\ PayloadOf(tev) \in Nat
        /\ rptr' = rptr + PayloadOf(tev)
        /\ delivered' = Append(delivered, tev)
        /\ failed' = failed
        /\ pc' \in {"idle", "loop"}
    BY ReadTakesAll
  <1>2. /\ UNCHANGED <<log, wptr, todo, tev>> /\ rptr = StartOf(tev) + Header
        /\ ReadSpace >= PayloadOf(tev)
    BY <1>1 DEF ConsumeRead, PipeInv, ReaderAt
  <1>3. TypeOK'
    BY <1>1 DEF PipeInv, TypeOK, ConsumeRead
  <1>4. \A n \in Nat : StartOf(n)' = StartOf(n) /\ TotalOf(n)' = TotalOf(n)
    BY <1>2, LayoutKept DEF PipeInv
  <1>5. Layout'
    BY <1>2, LayoutKept DEF PipeInv
  <1>6. Len(delivered') = tev /\ \A i \in 1..tev : delivered'[i] = i
    <2>1. /\ delivered \in Seq(Nat) /\ \A i \in 1..Len(delivered) : delivered[i] = i
          /\ Len(delivered) \in Nat /\ tev \in Nat
      BY DEF PipeInv, TypeOK, InOrderAndIntact
    <2>2. /\ Len(delivered') = Len(delivered) + 1 /\ delivered'[Len(delivered) + 1] = tev
          /\ \A i \in 1..Len(delivered) : delivered'[i] = delivered[i]
      BY <1>1, <2>1
    <2> QED
      BY <1>1, <2>1, <2>2
  <1>7. rptr' = StartOf(tev + 1)
    <2>1. log[tev].at + TotalOf(tev) = StartOf(tev + 1) /\ StartOf(tev) = log[tev].at
      BY <1>1 DEF PipeInv, Layout, StartOf
    <2>2. TotalOf(tev) = Header + PayloadOf(tev) /\ log[tev].at \in Nat
      BY <1>1, PayloadNat DEF PipeInv, TotalOf
    <2> QED
      <3>1. Header \in Nat /\ rptr = log[tev].at + Header
        BY <1>2, <2>1
      <3> QED
        BY <1>1, <2>1, <2>2, <3>1
  <1>8. Room'
    <2>1. wptr \in Nat /\ rptr \in Nat /\ todo \in Nat /\ wptr + todo <= rptr + Capacity
      BY DEF PipeInv, TypeOK, Room
    <2>2. wptr - rptr >= PayloadOf(tev) /\ PayloadOf(tev) \in Nat
      BY <1>1, <1>2 DEF ReadSpace
    <2>3. rptr' = rptr + PayloadOf(tev) /\ wptr' = wptr /\ todo' = todo
      BY <1>1, <1>2
    <2> QED
      BY <2>1, <2>2, <2>3 DEF Room
  <1>9. ReaderAt'
    BY <1>1, <1>2, <1>4, <1>6, <1>7 DEF ReaderAt
  <1>10. InOrderAndIntact'
    BY <1>1, <1>2, <1>6 DEF InOrderAndIntact
  <1> QED
    BY <1>1, <1>3, <1>5, <1>8, <1>9, <1>10 DEF PipeInv, NoShortCopy

\* Every step of the two threads preserves the invariant.
LEMMA NextInv == PipeInv /\ [Next]_vars => PipeInv'
  <1> SUFFICES ASSUME PipeInv, [Next]_vars PROVE PipeInv'
    OBVIOUS
  <1>1. ASSUME NEW e \in Event, ProduceAccept(e) PROVE PipeInv'
    BY <1>1, AcceptInv
  <1>2. ASSUME NEW e \in Event, ProduceReject(e) PROVE PipeInv'
    <2>1. TypeOK'
      BY <1>2 DEF PipeInv, TypeOK, ProduceReject
    <2> QED
      BY <1>2, <2>1, QuietInv DEF ProduceReject
  <1>3. ASSUME NEW k \in 1..todo, Publish(k) PROVE PipeInv'
    BY <1>3, PublishInv
  <1>4. CASE Flush
    <2>1. TypeOK'
      BY <1>4 DEF PipeInv, TypeOK, Flush
    <2> QED
      BY <1>4, <2>1, QuietInv DEF Flush
  <1>5. CASE ConsumeStart
    <2>1. TypeOK'
      BY <1>5 DEF PipeInv, TypeOK, ConsumeStart
    <2> QED
      BY <1>5, <2>1, QuietInv DEF ConsumeStart
  <1>6. CASE ConsumeLoop
    <2>1. CASE ReadSpace >= Header
      BY <1>6, <2>1, PeekInv
    <2>2. CASE ~(ReadSpace >= Header)
      <3>1. pc = "loop" /\ pc' = "idle" /\ UNCHANGED <<log, wptr, rptr, todo, tev, delivered, failed>>
        BY <1>6, <2>2 DEF ConsumeLoop
      <3>2. TypeOK'
        BY <1>6, <3>1 DEF PipeInv, TypeOK, ConsumeLoop
      <3> QED
        BY <3>1, <3>2, QuietInv
    <2> QED
      BY <2>1, <2>2
  <1>7. CASE ConsumeCheck
    <2>1. CASE PayloadComplete
      BY <1>7, <2>1, CheckInv
    <2>2. CASE ~PayloadComplete
      <3>1. TypeOK'
        BY <1>7, <2>2 DEF PipeInv, TypeOK, ConsumeCheck
      <3> QED
        BY <1>7, <2>2, <3>1, QuietInv DEF ConsumeCheck
    <2> QED
      BY <2>1, <2>2
  <1>8. ASSUME NEW ret \in SchedReturns, ConsumeRead(ret) PROVE PipeInv'
    BY <1>8, ReadInv
  <1>9. CASE UNCHANGED vars
    <2>1. TypeOK'
      BY <1>9 DEF PipeInv, TypeOK, vars
    <2> QED
      BY <1>9, <2>1, QuietInv DEF vars
  <1> QED
    BY <1>1, <1>2, <1>3, <1>4, <1>5, <1>6, <1>7, <1>8, <1>9 DEF Next, Producer, Consumer

\* The inductive invariant holds in every behaviour of the pipe.
THEOREM PipeInvariant == Spec => []PipeInv
  BY InitInv, NextInv, PTL DEF Spec

\* tjost_pipe_consume hands over the accepted events in order, whole and once,
\* for every event set, every size, every capacity and every interleaving.
THEOREM PipeInOrderAndIntact == Spec => []InOrderAndIntact
  <1>1. PipeInv => InOrderAndIntact
    BY DEF PipeInv
  <1> QED
    BY PipeInvariant, <1>1, PTL

\* None of the short-copy error returns of produce and consume is reachable.
THEOREM PipeNoShortCopy == Spec => []NoShortCopy
  <1>1. PipeInv => NoShortCopy
    BY DEF PipeInv
  <1> QED
    BY PipeInvariant, <1>1, PTL

-----------------------------------------------------------------------------
(* No wakeup is lost. *)

\* While an event is half written its producer still has to flush.
Owed == /\ todo > 0 => unflushed
        /\ NoLostWakeup

\* Less than a header in the ring, and not nothing: an event is half written.
LEMMA PartialHeader ==
    ASSUME PipeInv, pc = "loop", ReadSpace < Header, ReadSpace # 0
    PROVE  todo > 0
  <1> SUFFICES ASSUME todo = 0 PROVE FALSE
    BY DEF PipeInv, TypeOK
  <1>1. PICK d \in Nat : d = Len(delivered)
    BY DEF PipeInv, TypeOK
  <1>2. PICK l \in Nat : l = Len(log)
    BY DEF PipeInv, TypeOK
  <1>3. rptr \in Nat /\ wptr \in Nat /\ rptr < wptr /\ wptr < rptr + Header /\ d <= l
    BY <1>1, <1>2 DEF PipeInv, TypeOK, Room, ReadSpace, InOrderAndIntact
  <1>4. rptr = StartOf(d + 1)
    BY <1>1 DEF PipeInv, ReaderAt
  <1>5. d < l
    BY <1>2, <1>3, <1>4 DEF StartOf
  <1>6. d + 1 \in 1..l /\ l \in 1..l /\ d + 1 <= l
    BY <1>5
  <1>7. rptr = log[d + 1].at /\ StartOf(l + 1) = wptr
    BY <1>2, <1>3, <1>4, <1>6 DEF StartOf
  <1>8. log[l].at + TotalOf(l) = wptr
    BY <1>2, <1>6, <1>7 DEF PipeInv, Layout
  <1>9. log[l].at \in Nat /\ Size[log[l].ev] \in Nat /\ TotalOf(l) = Header + Size[log[l].ev]
    BY <1>2, <1>6, PayloadNat DEF PipeInv
  <1>10. d + 1 = l \/ log[d + 1].at < log[l].at
    <2>1. d + 1 = l \/ d + 1 < l
      BY <1>6
    <2>2. d + 1 < l => log[d + 1].at < log[l].at
      BY <1>2, <1>6 DEF PipeInv, Layout
    <2> QED
      BY <2>1, <2>2
  <1>11. rptr <= log[l].at
    BY <1>3, <1>7, <1>9, <1>10
  <1> QED
    BY <1>3, <1>8, <1>9, <1>11

\* A sleeping consumer without signal or due flush never comes to face a header.
LEMMA NextOwed == PipeInv /\ Owed /\ [Next]_vars => Owed'
  <1> SUFFICES ASSUME PipeInv, Owed, [Next]_vars PROVE Owed'
    OBVIOUS
  <1> USE DEF Owed, NoLostWakeup, ReadSpace
  <1>1. ASSUME NEW e \in Event, ProduceAccept(e) PROVE Owed'
    BY <1>1 DEF ProduceAccept
  <1>2. ASSUME NEW e \in Event, ProduceReject(e) PROVE Owed'
    BY <1>2 DEF ProduceReject
  <1>3. ASSUME NEW k \in 1..todo, Publish(k) PROVE Owed'
    <2>1. todo > 0 /\ unflushed
      BY DEF PipeInv, TypeOK
    <2> QED
      BY <1>3, <2>1 DEF Publish
  <1>4. CASE Flush
    BY <1>4 DEF Flush, PipeInv, TypeOK
  <1>5. CASE ConsumeStart
    BY <1>5 DEF ConsumeStart
  <1>6. CASE ConsumeLoop
    <2>1. (todo > 0 => unflushed)'
      BY <1>6 DEF ConsumeLoop
    <2>2. CASE ReadSpace < Header
      <3>1. ReadSpace = 0 \/ unflushed
        BY <1>6, <2>2, PartialHeader DEF ConsumeLoop
      <3> QED
        BY <1>6, <2>1, <3>1 DEF ConsumeLoop
    <2>3. CASE ~(ReadSpace < Header)
      BY <1>6, <2>1, <2>3 DEF ConsumeLoop
    <2> QED
      BY <2>2, <2>3
  <1>7. CASE ConsumeCheck
    BY <1>7 DEF ConsumeCheck
  <1>8. ASSUME NEW ret \in SchedReturns, ConsumeRead(ret) PROVE Owed'
    <2>1. UNCHANGED <<todo, unflushed>>
      BY <1>8 DEF ConsumeRead
    <2>2. SchedReturns = {0} => pc' = "loop"
      <3>1. Lesser(PayloadOf(tev), ReadSpace) = PayloadOf(tev)
        <4>1. tev \in 1..Len(log) /\ ReadSpace >= PayloadOf(tev) /\ ReadSpace \in Int
          BY <1>8 DEF ConsumeRead, PipeInv, TypeOK, ReaderAt
        <4> QED
          BY <4>1, PayloadNat DEF PipeInv, Lesser
      <3> QED
        BY <1>8, <3>1 DEF ConsumeRead
    <2> QED
      BY <2>1, <2>2
  <1>9. CASE UNCHANGED vars
    BY <1>9 DEF vars
  <1> QED
    BY <1>1, <1>2, <1>3, <1>4, <1>5, <1>6, <1>7, <1>8, <1>9 DEF Next, Producer, Consumer

\* A sleeping listener with no signal pending and no flush due has emptied the
\* ring, whatever the interleaving of flushes, signals and drains.
THEOREM PipeNoLostWakeup == Spec => []NoLostWakeup
  <1>1. Init => Owed
    BY DEF Init, Owed, NoLostWakeup, ReadSpace
  <1>2. Owed => NoLostWakeup
    BY DEF Owed
  <1> QED
    BY PipeInvariant, NextOwed, <1>1, <1>2, PTL DEF Spec

-----------------------------------------------------------------------------
(* The pipe implements the abstract channel. *)

\* The pipe begins as an empty channel.
LEMMA InitChannel == Init => Channel!Init
  BY DEF Init, Channel!Init, Complete, HandedOver

\* Every step of the pipe is a step of the channel or leaves it unchanged.
LEMMA NextChannel == PipeInv /\ PipeInv' /\ [Next]_vars => [Channel!Next]_<<Complete, HandedOver>>
  <1> SUFFICES ASSUME PipeInv, PipeInv', [Next]_vars
               PROVE  [Channel!Next]_<<Complete, HandedOver>>
    OBVIOUS
  <1>l. PICK l \in Nat : l = Len(log)
    BY DEF PipeInv, TypeOK
  <1>d. PICK d \in Nat : d = Len(delivered)
    BY DEF PipeInv, TypeOK
  <1>t. todo \in Nat /\ d <= l /\ \A i \in 1..d : delivered[i] = i
    BY <1>l, <1>d DEF PipeInv, TypeOK, InOrderAndIntact
  <1>1. ASSUME NEW e \in Event, ProduceAccept(e) PROVE UNCHANGED <<Complete, HandedOver>>
    <2>1. /\ Len(log') = l + 1 /\ \A n \in 1..l : log'[n] = log[n]
          /\ todo = 0 /\ todo' > 0 /\ delivered' = delivered
      <3>1. Header + Size[e] > 0
        OBVIOUS
      <3> QED
        BY <1>1, <1>l, <3>1, AppendKeeps DEF PipeInv, ProduceAccept
    <2>2. Complete = [i \in 1..l |-> log[i].ev] /\ Complete' = [i \in 1..l |-> log'[i].ev]
      BY <2>1, <1>l DEF Complete
    <2>3. HandedOver = [i \in 1..d |-> log[i].ev] /\ HandedOver' = [i \in 1..d |-> log'[i].ev]
      BY <2>1, <1>d, <1>t DEF HandedOver
    <2>4. \A i \in 1..d : i \in 1..l
      BY <1>t
    <2> QED
      BY <2>1, <2>2, <2>3, <2>4
  <1>2. ASSUME UNCHANGED <<log, todo, delivered>> PROVE UNCHANGED <<Complete, HandedOver>>
    BY <1>2 DEF Complete, HandedOver
  <1>3. ASSUME NEW k \in 1..todo, Publish(k) PROVE [Channel!Next]_<<Complete, HandedOver>>
    <2>1. Lesser(k, WriteSpace) = k
      BY DEF PipeInv, TypeOK, Room, WriteSpace, ReadSpace, Lesser
    <2>2. todo' = todo - k /\ UNCHANGED <<log, delivered>>
      BY <1>3, <2>1 DEF Publish
    <2>3. UNCHANGED HandedOver
      BY <2>2 DEF HandedOver
    <2>4. CASE todo' > 0
      BY <1>t, <2>2, <2>3, <2>4 DEF Complete
    <2>5. CASE todo' = 0
      <3>1. l > 0
        <4> SUFFICES ASSUME l = 0 PROVE FALSE
          OBVIOUS
        <4>1. wptr + todo = 0
          BY <1>l DEF PipeInv, Layout, StartOf
        <4> QED
          BY <4>1, <1>t DEF PipeInv, TypeOK
      <3>2. log[l].ev \in Event
        BY <1>l, <3>1, PayloadNat DEF PipeInv
      <3>3. Complete = [i \in 1..(l - 1) |-> log[i].ev] /\ Complete' = [i \in 1..l |-> log[i].ev]
        BY <1>l, <1>t, <2>2, <2>5 DEF Complete
      <3>4. Complete' = Append(Complete, log[l].ev)
        BY <3>1, <3>3
      <3> QED
        BY <2>3, <3>2, <3>4 DEF Channel!Next, Channel!Send
    <2> QED
      BY <1>t, <2>2, <2>4, <2>5
  <1>4. ASSUME NEW ret \in SchedReturns, ConsumeRead(ret) PROVE Channel!Receive
    <2>1. /\ tev = d + 1 /\ d + 1 \in 1..l
          /\ delivered' = Append(delivered, d + 1) /\ UNCHANGED <<log, todo, wptr>>
      BY <1>4, <1>l, <1>d, ReadTakesAll DEF ConsumeRead
    <2>2. HandedOver = [i \in 1..d |-> log[i].ev]
          /\ HandedOver' = [i \in 1..(d + 1) |-> log[i].ev]
      BY <2>1, <1>d, <1>t DEF HandedOver, PipeInv, TypeOK
    <2>3. UNCHANGED Complete
      BY <2>1 DEF Complete
    <2>4. d + 1 = l => todo = 0
      <3> SUFFICES ASSUME d + 1 = l PROVE todo = 0
        OBVIOUS
      <3>1. rptr = log[l].at + Header /\ wptr - rptr >= PayloadOf(l) /\ wptr \in Nat
            /\ rptr \in Nat
        BY <1>4, <1>l, <1>d, <2>1 DEF PipeInv, TypeOK, ReaderAt, StartOf, ConsumeRead, ReadSpace
      <3>2. log[l].at + TotalOf(l) = wptr + todo
        BY <1>l, <2>1 DEF PipeInv, Layout, StartOf
      <3>3. log[l].at \in Nat /\ PayloadOf(l) \in Nat /\ TotalOf(l) = Header + PayloadOf(l)
        BY <1>l, <2>1, PayloadNat DEF PipeInv, TotalOf
      <3> QED
        BY <1>t, <3>1, <3>2, <3>3
    <2>5. Len(HandedOver) = d /\ d < Len(Complete) /\ Complete[d + 1] = log[d + 1].ev
      <3>1. Len(HandedOver) = d
        BY <2>2
      <3>2. CASE todo > 0
        <4>1. Complete = [i \in 1..(l - 1) |-> log[i].ev] /\ d + 1 \in 1..(l - 1)
          BY <1>l, <2>1, <2>4, <3>2 DEF Complete
        <4> QED
          BY <3>1, <4>1
      <3>3. CASE todo = 0
        <4>1. Complete = [i \in 1..l |-> log[i].ev]
          BY <1>l, <3>3 DEF Complete
        <4> QED
          BY <2>1, <3>1, <4>1
      <3> QED
        BY <1>t, <3>2, <3>3
    <2>6. HandedOver' = Append(HandedOver, log[d + 1].ev)
      BY <2>2
    <2> QED
      BY <2>3, <2>5, <2>6 DEF Channel!Receive
  <1> QED
    BY <1>1, <1>2, <1>3, <1>4 DEF Next, Producer, Consumer, ProduceReject, Flush, ConsumeStart,
       ConsumeLoop, ConsumeCheck, vars, Channel!Next

\* Every behaviour of the pipe is one of the lossless first-in first-out
\* channel, an event being sent with its last byte.
THEOREM PipeImplementsChannel == Spec => ImplementsChannel
  BY InitChannel, NextChannel, PipeInvariant, PTL DEF Spec, ImplementsChannel, Channel!Spec
=============================================================================
