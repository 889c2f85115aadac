----------------------------- MODULE NetTxProofs -----------------------------
(***************************************************************************)
(* Proofs about NetTx: in every behaviour the sender sends the events      *)
(* whole, once and in order, for any payloads, any ring and any burst, and *)
(* nobody overwrites a packet on its way, until the moment a wakeup takes  *)
(* bytes off the ring while a packet is on its way.                        *)
(***************************************************************************)
EXTENDS NetTx, TLAPS

USE EventAssumption DEF EventAssumption

-----------------------------------------------------------------------------
(* The inductive invariant. *)

Packet == [from : Nat, len : Nat]

TypeInv == /\ log \in Seq([ev : Event, at : Nat]) /\ todo \in Seq(Nat)
           /\ wptr \in Nat /\ rptr \in Nat
           /\ flying \in Seq(Packet) /\ sent \in Seq(Packet)

\* The end of the n-th event in the ring, where the next one starts.
End(n) == log[n].at + Header + Size[log[n].ev]
Start(n) == IF n = 1 THEN 0 ELSE End(n - 1)
Total == Start(Len(log) + 1)

\* The events lie one behind the other.
LayoutInv == /\ \A i \in 1..Len(log) : log[i].at = Start(i)
             /\ \A i, j \in 1..Len(log) : i < j => End(i) <= log[j].at

\* What of the last event is still to be written, and that it fits.
WriterInv ==
    /\ \/ todo = << >> /\ wptr = Total
       \/ /\ Len(log) > 0 /\ todo = <<Header, Size[log[Len(log)].ev]>>
          /\ wptr = log[Len(log)].at
       \/ /\ Len(log) > 0 /\ todo = <<Size[log[Len(log)].ev]>>
          /\ wptr = log[Len(log)].at + Header
    /\ rptr <= wptr /\ wptr <= Total /\ Total - rptr <= Capacity

\* The reader stands before the first event that was not handed over, or behind
\* the header of the one packet that is on its way.
ReaderInv ==
    \/ flying = << >> /\ Len(sent) <= Len(log) /\ rptr = Start(Len(sent) + 1)
    \/ /\ Len(sent) < Len(log) /\ flying = <<PacketOf(Len(sent) + 1)>>
       /\ rptr = Start(Len(sent) + 1) + Header
       /\ rptr + Size[log[Len(sent) + 1].ev] <= wptr

SentInv == \A i \in 1..Len(sent) : sent[i] = PacketOf(i)

NetTxInv == TypeInv /\ LayoutInv /\ WriterInv /\ ReaderInv /\ SentInv

\* An empty ring and a sender at rest satisfy the invariant.
LEMMA InitNetTx == Init => NetTxInv
  BY DEF Init, NetTxInv, TypeInv, LayoutInv, WriterInv, ReaderInv, SentInv, Start, Total

-----------------------------------------------------------------------------
(* The ring. *)

\* A natural number is its own remainder by a larger one.
LEMMA SmallRemainder == ASSUME NEW a \in Nat, NEW b \in Nat, a < b PROVE a % b = a
  OBVIOUS

\* jack_ringbuffer_read_space is the difference of the two counters as long as
\* the ring holds no more than its capacity.
LEMMA SpaceIsDifference ==
    ASSUME NEW r \in Nat, wptr \in Nat, r <= wptr, wptr - r <= Capacity
    PROVE  Space(r) = wptr - r
  <1>1. wptr - r \in Nat /\ Capacity + 1 \in Nat /\ wptr - r < Capacity + 1
    OBVIOUS
  <1> QED
    BY <1>1, SmallRemainder DEF Space

\* What is written into the ring ends where the last event does.
LEMMA ElementTypes ==
    ASSUME TypeInv, NEW n \in 1..Len(log)
    PROVE  /\ log[n].ev \in Event /\ log[n].at \in Nat
           /\ Size[log[n].ev] \in Nat \ {0} /\ End(n) \in Nat /\ PacketOf(n) \in Packet
  <1> DEFINE Entry == [ev : Event, at : Nat]
  <1>1. log[n] \in Entry
    <2>1. log \in Seq(Entry)
      BY DEF TypeInv
    <2> HIDE DEF Entry
    <2> QED
      BY <2>1
  <1>2. log[n].ev \in Event /\ log[n].at \in Nat
    BY <1>1
  <1>3. Size[log[n].ev] \in Nat \ {0}
    BY <1>2
  <1> QED
    BY <1>2, <1>3 DEF End, PacketOf, Packet

-----------------------------------------------------------------------------
(* The real-time thread. *)

\* The space check and the layout of a new event keep the invariant.
LEMMA TakeKeeps == ASSUME NetTxInv, NEW e \in Event, TakeFromQueue(e) PROVE NetTxInv'
  <1>1. TypeInv /\ todo = << >> /\ UNCHANGED <<wptr, rptr, wake, flying, sent>>
    BY DEF NetTxInv, TakeFromQueue
  <1>2. wptr = Total /\ rptr <= wptr /\ wptr - rptr <= Capacity
    BY <1>1 DEF NetTxInv, WriterInv
  <1>3. Len(log) \in Nat /\ Size[e] \in Nat \ {0}
    BY <1>1 DEF TypeInv
  <1>4. CASE UNCHANGED <<log, todo>>
    BY <1>1, <1>4 DEF NetTxInv, TypeInv, LayoutInv, WriterInv, ReaderInv, SentInv, Total, Start, End,
                      PacketOf
  <1>5. CASE HasRoom(e) /\ log' = Append(log, [ev |-> e, at |-> wptr]) /\ todo' = <<Header, Size[e]>>
    <2>1. Capacity - (wptr - rptr) >= Header + Size[e]
      BY <1>1, <1>2, <1>5, SpaceIsDifference DEF HasRoom, Room, TypeInv
    <2>2. /\ log' \in Seq([ev : Event, at : Nat]) /\ Len(log') = Len(log) + 1
          /\ \A i \in 1..Len(log) : log'[i] = log[i]
          /\ log'[Len(log) + 1] = [ev |-> e, at |-> wptr]
      BY <1>1, <1>5 DEF TypeInv
    <2>3. \A i \in 1..Len(log) : End(i)' = End(i) /\ PacketOf(i)' = PacketOf(i)
      BY <2>2 DEF End, PacketOf
    <2>4. \A i \in 1..Len(log) + 1 : Start(i)' = Start(i)
      BY <1>3, <2>3 DEF Start
    <2>5. Total' = wptr + Header + Size[e]
      <3>1. Len(log') + 1 # 1 /\ Len(log') + 1 - 1 = Len(log) + 1
        BY <1>3, <2>2
      <3>2. Total' = log'[Len(log) + 1].at + Header + Size[log'[Len(log) + 1].ev]
        BY <3>1 DEF Total, Start, End
      <3>3. log'[Len(log) + 1].at = wptr /\ log'[Len(log) + 1].ev = e
        BY <2>2
      <3> QED
        BY <3>2, <3>3
    <2>6. TypeInv'
      BY <1>1, <1>3, <1>5, <2>2 DEF TypeInv
    <2>7. LayoutInv'
      <3>1. ASSUME NEW i \in 1..Len(log') PROVE log'[i].at = Start(i)'
        <4>1. CASE i \in 1..Len(log)
          BY <2>2, <2>4, <4>1 DEF NetTxInv, LayoutInv
        <4>2. CASE i = Len(log) + 1
          BY <1>2, <1>3, <2>2, <2>4, <4>2 DEF Total
        <4> QED
          BY <2>2, <4>1, <4>2
      <3>2. ASSUME NEW i \in 1..Len(log'), NEW j \in 1..Len(log'), i < j
            PROVE  End(i)' <= log'[j].at
        <4>1. i \in 1..Len(log) /\ End(i)' = End(i) /\ End(i) \in Nat
          BY <1>1, <1>3, <2>2, <2>3, <3>2, ElementTypes
        <4>2. CASE j \in 1..Len(log)
          BY <2>2, <3>2, <4>1, <4>2 DEF NetTxInv, LayoutInv
        <4>3. CASE j = Len(log) + 1
          <5>1. Total = End(Len(log)) /\ End(Len(log)) \in Nat
            BY <1>1, <1>3, <4>1, ElementTypes DEF Total, Start
          <5>2. i = Len(log) \/ End(i) <= log[Len(log)].at
            BY <1>3, <4>1 DEF NetTxInv, LayoutInv
          <5>4. Len(log) \in 1..Len(log)
            BY <1>3, <4>1
          <5>5. log[Len(log)].at \in Nat /\ Size[log[Len(log)].ev] \in Nat
            BY <1>1, <5>4, ElementTypes
          <5>3. log[Len(log)].at <= End(Len(log))
            BY <5>5 DEF End
          <5>6. End(i) <= wptr
            BY <1>2, <4>1, <5>1, <5>2, <5>3, <5>5
          <5> QED
            BY <2>2, <4>1, <4>3, <5>6
        <4> QED
          BY <2>2, <4>2, <4>3
      <3> QED
        BY <3>1, <3>2 DEF LayoutInv
    <2>8. WriterInv'
      BY <1>1, <1>2, <1>3, <1>5, <2>1, <2>2, <2>5 DEF WriterInv, TypeInv
    <2>9. ReaderInv'
      <3>1. Len(sent) \in Nat
        BY <1>1 DEF TypeInv
      <3>2. CASE flying = << >> /\ Len(sent) <= Len(log) /\ rptr = Start(Len(sent) + 1)
        BY <1>1, <1>3, <2>2, <2>4, <3>1, <3>2 DEF ReaderInv
      <3>3. CASE /\ Len(sent) < Len(log) /\ flying = <<PacketOf(Len(sent) + 1)>>
                 /\ rptr = Start(Len(sent) + 1) + Header
                 /\ rptr + Size[log[Len(sent) + 1].ev] <= wptr
        <4>1. Len(sent) + 1 \in 1..Len(log)
          BY <1>3, <3>1, <3>3
        <4> QED
          <5>1. PICK n \in 1..Len(log) : n = Len(sent) + 1
            BY <4>1
          <5>2. /\ flying = <<PacketOf(n)>> /\ rptr = Start(n) + Header
                /\ rptr + Size[log[n].ev] <= wptr
            BY <3>3, <5>1
          <5>3. n \in 1..Len(log) + 1
            BY <1>3, <5>1
          <5>4. log'[n] = log[n] /\ PacketOf(n)' = PacketOf(n) /\ Start(n)' = Start(n)
            BY <2>2, <2>3, <2>4, <5>3
          <5>5. Len(sent') < Len(log') /\ n = Len(sent') + 1
            BY <1>1, <1>3, <2>2, <3>1, <3>3, <5>1
          <5>6. /\ flying' = <<PacketOf(n)'>> /\ rptr' = Start(n)' + Header
                /\ rptr' + Size[log'[n].ev] <= wptr'
            BY <1>1, <5>2, <5>4
          <5> QED
            BY <5>5, <5>6 DEF ReaderInv
      <3> QED
        BY <3>2, <3>3 DEF NetTxInv, ReaderInv
    <2>a. SentInv'
      <3>1. Len(sent) <= Len(log) /\ Len(sent) \in Nat
        BY <1>1, <1>3 DEF NetTxInv, ReaderInv, TypeInv
      <3>2. \A i \in 1..Len(sent) : i \in 1..Len(log)
        BY <1>3, <3>1
      <3>3. sent' = sent /\ \A i \in 1..Len(sent) : sent[i] = PacketOf(i)
        BY <1>1, <1>3 DEF NetTxInv, SentInv
      <3> QED
        BY <2>3, <3>2, <3>3 DEF SentInv
    <2> QED
      BY <2>6, <2>7, <2>8, <2>9, <2>a DEF NetTxInv
  <1> QED
    BY <1>4, <1>5 DEF TakeFromQueue

\* Making a part of an event visible keeps the invariant.
LEMMA PublishKeeps == ASSUME NetTxInv, Publish PROVE NetTxInv'
  <1>1. /\ TypeInv /\ todo # << >> /\ todo' = Tail(todo)
        /\ wptr' = wptr + (IF Head(todo) <= Room THEN Head(todo) ELSE Room)
        /\ UNCHANGED <<log, rptr, flying, sent>>
    BY DEF NetTxInv, Publish
  <1>2. Len(log) > 0 /\ Len(log) \in 1..Len(log)
    <2>1. Len(log) \in Nat
      BY <1>1 DEF TypeInv
    <2>2. Len(log) > 0
      BY <1>1 DEF NetTxInv, WriterInv
    <2> QED
      BY <2>1, <2>2
  <1>3. /\ log[Len(log)].at \in Nat /\ Size[log[Len(log)].ev] \in Nat \ {0}
        /\ Total = log[Len(log)].at + Header + Size[log[Len(log)].ev]
    <2> DEFINE n == Len(log)
    <2>1. n \in 1..Len(log) /\ n \in Nat
      BY <1>2
    <2>2. Total = Start(n + 1)
      BY DEF Total
    <2> HIDE DEF n
    <2>3. log[n].at \in Nat /\ Size[log[n].ev] \in Nat \ {0}
      BY <1>1, <2>1, ElementTypes
    <2>4. n + 1 # 1 /\ (n + 1) - 1 = n
      BY <2>1
    <2>5. Total = log[n].at + Header + Size[log[n].ev]
      BY <2>2, <2>4, Zenon DEF Start, End
    <2> QED
      BY <2>3, <2>5 DEF n
  <1>4. /\ rptr \in Nat /\ wptr \in Nat /\ rptr <= wptr /\ wptr <= Total
        /\ Total - rptr <= Capacity
    BY <1>1 DEF NetTxInv, WriterInv, TypeInv
  <1>5. Room = Capacity - (wptr - rptr)
    BY <1>3, <1>4, SpaceIsDifference DEF Room
  <1>6. UNCHANGED <<Total>>
    BY <1>1 DEF Total, Start, End
  <1> DEFINE size == Size[log[Len(log)].ev]
             at == log[Len(log)].at
  <1>b. size \in Nat \ {0} /\ at \in Nat /\ Total = at + Header + size
    BY <1>3
  <1>c. \/ todo = <<Header, size>> /\ wptr = at
        \/ todo = <<size>> /\ wptr = at + Header
    BY <1>1 DEF NetTxInv, WriterInv
  <1>7. /\ wptr' \in Nat /\ wptr <= wptr' /\ wptr' <= Total
        /\ \/ todo' = <<size>> /\ wptr' = at + Header
           \/ todo' = << >> /\ wptr' = Total
    <2> HIDE DEF size, at
    <2>1. CASE todo = <<Header, size>> /\ wptr = at
      <3>1. Head(todo) = Header /\ Tail(todo) = <<size>> /\ Header <= Room
        BY <1>b, <1>4, <1>5, <2>1
      <3>2. wptr' = at + Header /\ todo' = <<size>>
        BY <1>1, <2>1, <3>1
      <3> QED
        BY <1>b, <2>1, <3>2
    <2>2. CASE todo = <<size>> /\ wptr = at + Header
      <3>1. Head(todo) = size /\ Tail(todo) = << >> /\ size <= Room
        BY <1>b, <1>4, <1>5, <2>2
      <3>2. wptr' = at + Header + size /\ todo' = << >>
        BY <1>1, <1>b, <2>2, <3>1
      <3> QED
        BY <1>b, <2>2, <3>2
    <2> QED
      BY <1>c, <2>1, <2>2
  <1>d. todo' \in Seq(Nat)
    <2> HIDE DEF size
    <2>1. << >> \in Seq(Nat) /\ <<size>> \in Seq(Nat)
      BY <1>b
    <2> QED
      BY <1>7, <2>1
  <1>e. WriterInv'
    <2>1. Total' = Total
      BY <1>6
    <2>2. rptr' <= wptr' /\ wptr' <= Total' /\ Total' - rptr' <= Capacity
      <3> HIDE DEF size, at
      <3> QED
        BY <1>1, <1>4, <1>7, <2>1
    <2> QED
      BY <1>1, <1>2, <1>7, <2>1, <2>2 DEF WriterInv
  <1>8. TypeInv'
    BY <1>1, <1>7, <1>d DEF TypeInv
  <1>9. LayoutInv' /\ SentInv'
    BY <1>1 DEF NetTxInv, LayoutInv, SentInv, Start, End, PacketOf
  <1>a. ReaderInv'
    <2>1. CASE flying = << >>
      BY <1>1, <2>1 DEF NetTxInv, ReaderInv, Start, End
    <2>2. CASE flying # << >>
      <3>1. Len(sent) + 1 \in 1..Len(log)
        <4> HIDE DEF size, at
        <4>1. Len(sent) \in Nat /\ Len(log) \in Nat
          BY <1>1 DEF TypeInv
        <4>2. Len(sent) < Len(log)
          BY <2>2 DEF NetTxInv, ReaderInv
        <4> QED
          BY <4>1, <4>2
      <3>2. rptr + Size[log[Len(sent) + 1].ev] <= wptr /\ Size[log[Len(sent) + 1].ev] \in Nat
        BY <1>1, <2>2, <3>1, ElementTypes DEF NetTxInv, ReaderInv
      <3>4. wptr <= wptr' /\ wptr' \in Nat
        BY <1>7
      <3>3. rptr + Size[log[Len(sent) + 1].ev] <= wptr'
        BY <1>4, <3>2, <3>4
      <3> QED
        BY <1>1, <2>2, <3>3 DEF NetTxInv, ReaderInv, Start, End, PacketOf
    <2> QED
      BY <2>1, <2>2
  <1> QED
    BY <1>8, <1>9, <1>a, <1>e DEF NetTxInv

-----------------------------------------------------------------------------
(* The thread of the module. *)

\* _next, with no packet on its way and the ring read up to the start of an event:
\* it does nothing, or hands over the payload of that event.
LEMMA NextPacketHandsOver ==
    ASSUME TypeInv, LayoutInv, WriterInv, NEW k \in Nat, k <= Len(log),
           Start(k + 1) >= rptr, Start(k + 1) <= wptr, NextPacket(Start(k + 1), << >>)
    PROVE  \/ rptr' = Start(k + 1) /\ flying' = << >>
           \/ /\ k < Len(log) /\ rptr' = Start(k + 1) + Header
              /\ flying' = <<PacketOf(k + 1)>>
              /\ Start(k + 1) + Header + Size[log[k + 1].ev] <= wptr
  <1> DEFINE r == Start(k + 1)
  <1>1. Len(log) \in Nat /\ wptr \in Nat /\ rptr \in Nat
    BY DEF TypeInv
  <1>2. r \in Nat
    <2>1. CASE k = 0
      BY <2>1 DEF Start
    <2>2. CASE k # 0
      <3>1. k \in 1..Len(log) /\ r = End(k)
        BY <1>1, <2>2 DEF Start
      <3> QED
        BY <3>1, ElementTypes
    <2> QED
      BY <2>1, <2>2
  <1>3. wptr - r <= Capacity /\ wptr <= Total
    <2>1. wptr <= Total /\ Total - rptr <= Capacity
      BY DEF WriterInv
    <2>2. Total \in Nat
      <3>1. CASE Len(log) = 0
        BY <3>1 DEF Total, Start
      <3>2. CASE Len(log) # 0
        <4>1. Len(log) \in 1..Len(log) /\ Total = End(Len(log))
          BY <1>1, <3>2 DEF Total, Start
        <4> QED
          BY <4>1, ElementTypes
      <3> QED
        BY <3>1, <3>2
    <2> QED
      BY <1>1, <1>2, <2>1, <2>2
  <1>4. Space(r) = wptr - r
    BY <1>1, <1>2, <1>3, SpaceIsDifference
  <1>5. CASE Space(r) < Header
    BY <1>5 DEF NextPacket
  <1>6. CASE ~(Space(r) < Header)
    <2>1. k < Len(log) /\ k + 1 \in 1..Len(log)
      <3>1. wptr > r
        BY <1>1, <1>2, <1>4, <1>6
      <3>2. k # Len(log)
        BY <1>1, <1>2, <1>3, <3>1 DEF Total
      <3> QED
        BY <1>1, <3>2
    <2>2. log[k + 1].at = r /\ Size[log[k + 1].ev] \in Nat \ {0}
      BY <2>1, ElementTypes DEF LayoutInv
    <2>3. HeaderAt(r) = {k + 1}
      <3>1. k + 1 \in HeaderAt(r)
        BY <2>1, <2>2 DEF HeaderAt
      <3>2. ASSUME NEW n \in 1..Len(log), log[n].at = r, n # k + 1 PROVE FALSE
        <4>1. CASE n < k + 1
          <5>1. End(n) <= r
            BY <2>1, <2>2, <4>1 DEF LayoutInv
          <5>2. End(n) > log[n].at /\ End(n) \in Nat /\ log[n].at \in Nat
            BY ElementTypes DEF End
          <5> QED
            BY <1>2, <3>2, <5>1, <5>2
        <4>2. CASE n > k + 1
          <5>1. End(k + 1) <= log[n].at
            BY <2>1, <4>2 DEF LayoutInv
          <5>2. End(k + 1) > log[k + 1].at /\ End(k + 1) \in Nat /\ log[k + 1].at \in Nat
            BY <2>1, ElementTypes DEF End
          <5> QED
            BY <1>2, <2>2, <3>2, <5>1, <5>2
        <4> QED
          BY <1>1, <3>2, <4>1, <4>2
      <3> QED
        BY <3>1, <3>2 DEF HeaderAt
    <2>4. PeekAt(r) = {<<Size[log[k + 1].ev], TRUE>>}
      BY <2>3 DEF PeekAt
    <2>5. /\ rptr' = IF Complete(r, Size[log[k + 1].ev]) THEN r + Header ELSE r
          /\ flying' = IF Complete(r, Size[log[k + 1].ev])
                       THEN Append(<< >>, [from |-> r + Header, len |-> Size[log[k + 1].ev]])
                       ELSE << >>
      <3>1. PICK peek \in PeekAt(r) :
              /\ rptr' = IF Complete(r, peek[1]) THEN r + Header ELSE r
              /\ flying' = IF Complete(r, peek[1]) /\ peek[2]
                           THEN Append(<< >>, [from |-> r + Header, len |-> peek[1]])
                           ELSE << >>
        BY <1>6 DEF NextPacket
      <3>2. peek = <<Size[log[k + 1].ev], TRUE>>
        BY <2>4, <3>1
      <3> QED
        BY <3>1, <3>2
    <2>6. Append(<< >>, [from |-> r + Header, len |-> Size[log[k + 1].ev]]) = <<PacketOf(k + 1)>>
      BY <2>2 DEF PacketOf
    <2>7. CASE Complete(r, Size[log[k + 1].ev])
      <3>1. r + Header + Size[log[k + 1].ev] <= wptr
        BY <1>1, <1>2, <1>4, <2>2, <2>7 DEF Complete
      <3> QED
        BY <2>1, <2>5, <2>6, <2>7, <3>1
    <2> QED
      BY <2>5, <2>7
  <1> QED
    BY <1>5, <1>6

\* After a call of _next the invariant holds, with k packets sent.
LEMMA NextPacketKeeps ==
    ASSUME NetTxInv, NEW k \in Nat, k <= Len(log), Start(k + 1) >= rptr, Start(k + 1) <= wptr,
           NextPacket(Start(k + 1), << >>), UNCHANGED <<log, wptr, todo>>,
           sent' \in Seq(Packet), Len(sent') = k, \A i \in 1..k : sent'[i] = PacketOf(i)
    PROVE  NetTxInv'
  <1>1. /\ TypeInv /\ LayoutInv /\ WriterInv /\ Len(log) \in Nat /\ wptr \in Nat /\ rptr \in Nat
    BY DEF NetTxInv, TypeInv
  <1>2. \/ rptr' = Start(k + 1) /\ flying' = << >>
        \/ /\ k < Len(log) /\ rptr' = Start(k + 1) + Header
           /\ flying' = <<PacketOf(k + 1)>>
           /\ Start(k + 1) + Header + Size[log[k + 1].ev] <= wptr
    BY <1>1, NextPacketHandsOver
  <1>3. Start(k + 1) \in Nat
    <2>1. CASE k = 0
      BY <2>1 DEF Start
    <2>2. CASE k # 0
      <3>1. k \in 1..Len(log) /\ Start(k + 1) = End(k)
        BY <1>1, <2>2 DEF Start
      <3> QED
        BY <1>1, <3>1, ElementTypes
    <2> QED
      BY <2>1, <2>2
  <1>4. k < Len(log) => Size[log[k + 1].ev] \in Nat /\ PacketOf(k + 1) \in Packet
    <2>1. k < Len(log) => k + 1 \in 1..Len(log)
      BY <1>1
    <2> QED
      BY <1>1, <2>1, ElementTypes
  <1>5. rptr' \in Nat /\ rptr <= rptr' /\ rptr' <= wptr /\ flying' \in Seq(Packet)
    <2>1. CASE rptr' = Start(k + 1) /\ flying' = << >>
      BY <1>1, <1>3, <2>1
    <2>2. CASE /\ k < Len(log) /\ rptr' = Start(k + 1) + Header
               /\ flying' = <<PacketOf(k + 1)>>
               /\ Start(k + 1) + Header + Size[log[k + 1].ev] <= wptr
      <3>1. rptr' \in Nat /\ rptr <= rptr' /\ rptr' <= wptr
        BY <1>1, <1>3, <1>4, <2>2
      <3>2. flying' \in Seq(Packet)
        BY <1>4, <2>2
      <3> QED
        BY <3>1, <3>2
    <2> QED
      BY <1>2, <2>1, <2>2
  <1>6. Total' = Total /\ \A n \in Nat : Start(n)' = Start(n) /\ PacketOf(n)' = PacketOf(n)
    BY DEF Total, Start, End, PacketOf
  <1>7. TypeInv'
    BY <1>1, <1>5 DEF TypeInv
  <1>8. LayoutInv'
    BY <1>1 DEF LayoutInv, Start, End
  <1>9. WriterInv'
    <2>1. Total \in Nat
      <3>1. CASE Len(log) = 0
        BY <3>1 DEF Total, Start
      <3>2. CASE Len(log) # 0
        <4>1. Len(log) \in 1..Len(log) /\ Total = End(Len(log))
          BY <1>1, <3>2 DEF Total, Start
        <4> QED
          BY <1>1, <4>1, ElementTypes
      <3> QED
        BY <3>1, <3>2
    <2>3. wptr <= Total /\ Total - rptr <= Capacity
      BY <1>1 DEF WriterInv
    <2>4. Total' = Total /\ wptr' = wptr
      BY <1>6
    <2>2. rptr' <= wptr' /\ wptr' <= Total' /\ Total' - rptr' <= Capacity
      <3>1. rptr' \in Nat /\ rptr <= rptr' /\ rptr' <= wptr
        BY <1>5
      <3>2. rptr \in Nat /\ wptr \in Nat
        BY <1>1
      <3>3. Total - rptr' <= Capacity
        <4> DEFINE total == Total
                   before == rptr
                   after == rptr'
        <4>1. /\ total \in Nat /\ before \in Nat /\ after \in Nat /\ before <= after
              /\ total - before <= Capacity /\ Capacity \in Nat
          BY <2>1, <2>3, <3>1, <3>2
        <4> HIDE DEF total, before, after
        <4>2. total - after <= Capacity
          BY <4>1
        <4> QED
          BY <4>2 DEF total, after
      <3> QED
        BY <2>3, <2>4, <3>1, <3>3
    <2> QED
      BY <1>1, <1>6, <2>2 DEF WriterInv
  <1>a. ReaderInv'
    <2>1. Start(k + 1)' = Start(k + 1) /\ PacketOf(k + 1)' = PacketOf(k + 1)
      BY <1>6
    <2>2. CASE rptr' = Start(k + 1) /\ flying' = << >>
      BY <2>1, <2>2 DEF ReaderInv
    <2>3. CASE /\ k < Len(log) /\ rptr' = Start(k + 1) + Header
               /\ flying' = <<PacketOf(k + 1)>>
               /\ Start(k + 1) + Header + Size[log[k + 1].ev] <= wptr
      BY <2>1, <2>3 DEF ReaderInv
    <2> QED
      BY <1>2, <2>2, <2>3
  <1>b. SentInv'
    BY <1>6 DEF SentInv
  <1> QED
    BY <1>7, <1>8, <1>9, <1>a, <1>b DEF NetTxInv

\* A wakeup that finds no packet on its way keeps the invariant; one that finds
\* a packet starts a second round of the loop or changes nothing.
LEMMA AsioKeeps == ASSUME NetTxInv, Asio, ~doubled' PROVE NetTxInv'
  <1>1. NextPacket(rptr, flying) /\ UNCHANGED <<log, wptr, todo, sent>> /\ TypeInv /\ rptr \in Nat
    BY DEF Asio, NetTxInv, TypeInv
  <1>2. CASE flying = << >>
    <2>1. /\ Len(sent) \in Nat /\ Len(sent) <= Len(log) /\ rptr = Start(Len(sent) + 1)
          /\ rptr \in Nat /\ wptr \in Nat /\ rptr <= wptr /\ sent \in Seq(Packet)
      BY <1>2 DEF NetTxInv, ReaderInv, WriterInv, TypeInv
    <2>2. \A i \in 1..Len(sent) : sent[i] = PacketOf(i)
      BY DEF NetTxInv, SentInv
    <2> QED
      BY <1>1, <1>2, <2>1, <2>2, NextPacketKeeps
  <1>3. CASE flying # << >>
    <2>1. rptr' = rptr
      BY <1>3 DEF Asio
    <2>2. flying' = flying
      <3>1. CASE Space(rptr) < Header
        BY <1>1, <3>1 DEF NextPacket
      <3>2. CASE ~(Space(rptr) < Header)
        <4>1. PICK peek \in PeekAt(rptr) :
                /\ rptr' = IF Complete(rptr, peek[1]) THEN rptr + Header ELSE rptr
                /\ flying' = IF Complete(rptr, peek[1]) /\ peek[2]
                             THEN Append(flying, [from |-> rptr + Header, len |-> peek[1]])
                             ELSE flying
          BY <1>1, <3>2 DEF NextPacket
        <4>2. ~Complete(rptr, peek[1])
          BY <1>1, <2>1, <4>1
        <4> QED
          BY <4>1, <4>2
      <3> QED
        BY <3>1, <3>2
    <2> QED
      BY <1>1, <2>1, <2>2 DEF NetTxInv, TypeInv, LayoutInv, WriterInv, ReaderInv, SentInv, Total, Start,
                              End, PacketOf
  <1> QED
    BY <1>2, <1>3

\* The callback of a packet that has been sent keeps the invariant.
LEMMA SendCbKeeps == ASSUME NetTxInv, SendCb PROVE NetTxInv'
  <1>1. /\ flying # << >> /\ sent' = Append(sent, Head(flying))
        /\ NextPacket(rptr + Head(flying).len, Tail(flying)) /\ UNCHANGED <<log, wptr, todo>>
    BY DEF SendCb
  <1> DEFINE k == Len(sent) + 1
  <1>2. TypeInv /\ k \in Nat /\ Len(sent) \in Nat /\ k \in 1..Len(log)
    BY <1>1 DEF NetTxInv, TypeInv, ReaderInv
  <1>3. /\ flying = <<PacketOf(k)>> /\ rptr = Start(k) + Header
        /\ rptr + Size[log[k].ev] <= wptr
    BY <1>1 DEF NetTxInv, ReaderInv
  <1>4. Head(flying) = PacketOf(k) /\ Tail(flying) = << >> /\ Head(flying).len = Size[log[k].ev]
    BY <1>3 DEF PacketOf
  <1>5. Start(k + 1) = End(k) /\ log[k].at = Start(k)
    BY <1>2 DEF Start, NetTxInv, LayoutInv
  <1>6. /\ log[k].at \in Nat /\ Size[log[k].ev] \in Nat /\ rptr \in Nat /\ wptr \in Nat
        /\ PacketOf(k) \in Packet /\ sent \in Seq(Packet)
    BY <1>2, ElementTypes DEF TypeInv
  <1>7. rptr + Head(flying).len = Start(k + 1)
    BY <1>3, <1>4, <1>5, <1>6 DEF End
  <1>8. sent' \in Seq(Packet) /\ Len(sent') = k /\ sent'[k] = PacketOf(k)
        /\ \A i \in 1..Len(sent) : sent'[i] = sent[i]
    BY <1>1, <1>4, <1>6
  <1>9. \A i \in 1..k : sent'[i] = PacketOf(i)
    <2>1. \A i \in 1..Len(sent) : sent[i] = PacketOf(i)
      BY DEF NetTxInv, SentInv
    <2> QED
      BY <1>2, <1>8, <2>1
  <1>a. k <= Len(log) /\ Start(k + 1) >= rptr /\ Start(k + 1) <= wptr
    BY <1>2, <1>3, <1>4, <1>6, <1>7
  <1>b. NextPacket(Start(k + 1), << >>)
    BY <1>1, <1>4, <1>7
  <1> HIDE DEF k
  <1> QED
    BY <1>1, <1>2, <1>8, <1>9, <1>a, <1>b, NextPacketKeeps

\* What holds until the loop of the sender is doubled.
UntilDoubled == doubled \in BOOLEAN /\ (~doubled => NetTxInv)

\* Every step keeps the invariant unless it doubles the loop, which nothing undoes.
LEMMA NextKeepsNetTx == UntilDoubled /\ [Next]_vars => UntilDoubled'
  <1> SUFFICES ASSUME UntilDoubled, [Next]_vars PROVE UntilDoubled'
    OBVIOUS
  <1>a. doubled' \in BOOLEAN /\ (doubled => doubled')
    BY DEF UntilDoubled, Next, RealTime, TakeFromQueue, NothingDue, Publish, AsyncSend, Asio, SendCb, vars
  <1> SUFFICES ASSUME NetTxInv, ~doubled' PROVE NetTxInv'
    BY <1>a DEF UntilDoubled
  <1>1. ASSUME NEW e \in Event, TakeFromQueue(e) PROVE NetTxInv'
    BY <1>1, TakeKeeps
  <1>2. CASE Publish
    BY <1>2, PublishKeeps
  <1>3. CASE NothingDue \/ AsyncSend \/ UNCHANGED vars
    <2>1. UNCHANGED <<log, wptr, rptr, todo, flying, sent>>
      BY <1>3 DEF NothingDue, AsyncSend, vars
    <2> QED
      BY <2>1 DEF NetTxInv, TypeInv, LayoutInv, WriterInv, ReaderInv, SentInv, Total, Start, End,
                  PacketOf
  <1>4. CASE Asio
    BY <1>4, AsioKeeps
  <1>5. CASE SendCb
    BY <1>5, SendCbKeeps
  <1> QED
    BY <1>1, <1>2, <1>3, <1>4, <1>5 DEF Next, RealTime

-----------------------------------------------------------------------------
(* The theorems. *)

\* The ring, the loop of the sender and the stream are in step in every behaviour,
\* until mod_net_asio starts a second round of the loop beside the first.
THEOREM NetTxInvariant == Spec => []UntilDoubled
  <1>1. Init => UntilDoubled
    BY InitNetTx DEF Init, UntilDoubled
  <1> QED
    BY <1>1, NextKeepsNetTx, PTL DEF Spec

\* The peer gets the payloads of the queued events whole, once and in order, and
\* a second round of the loop is the only thing that can change that.
THEOREM NetTxInOrder == Spec => []InOrderUntilDoubled
  <1>1. ASSUME NetTxInv PROVE PacketsInOrder
    <2> DEFINE handed == sent \o flying
    <2>1. Len(sent) \in Nat /\ sent \in Seq(Packet) /\ flying \in Seq(Packet) /\ Len(log) \in Nat
      BY <1>1 DEF NetTxInv, TypeInv
    <2>2. \A i \in 1..Len(sent) : sent[i] = PacketOf(i)
      BY <1>1 DEF NetTxInv, SentInv
    <2>3. CASE flying = << >> /\ Len(sent) <= Len(log)
      <3>1. handed = sent
        BY <2>1, <2>3
      <3> QED
        BY <2>1, <2>2, <2>3, <3>1 DEF PacketsInOrder
    <2>4. CASE flying = <<PacketOf(Len(sent) + 1)>> /\ Len(sent) < Len(log)
      <3>1. /\ Len(handed) = Len(sent) + 1 /\ handed[Len(sent) + 1] = PacketOf(Len(sent) + 1)
            /\ \A i \in 1..Len(sent) : handed[i] = sent[i]
        BY <2>1, <2>4
      <3>2. \A i \in 1..Len(handed) : handed[i] = PacketOf(i)
        BY <2>1, <2>2, <3>1
      <3> QED
        BY <2>1, <2>4, <3>1, <3>2 DEF PacketsInOrder
    <2> QED
      BY <1>1, <2>3, <2>4 DEF NetTxInv, ReaderInv
  <1>2. UntilDoubled => InOrderUntilDoubled
    BY <1>1 DEF UntilDoubled, InOrderUntilDoubled
  <1> QED
    BY <1>2, NetTxInvariant, PTL

\* The bytes of a packet on its way are not free for process_out to write, in any
\* behaviour, until a second round of the loop takes them off the ring.
THEOREM NetTxInFlightKept == Spec => []InFlightKept
  <1>1. ASSUME NetTxInv PROVE InFlightKept
    <2>1. CASE flying = << >>
      BY <2>1 DEF InFlightKept
    <2>2. CASE flying # << >>
      <3>1. Len(sent) + 1 \in 1..Len(log) /\ Len(sent) \in Nat
        BY <1>1, <2>2 DEF NetTxInv, ReaderInv, TypeInv
      <3>2. log[Len(sent) + 1].at = Start(Len(sent) + 1)
        BY <1>1, <3>1 DEF NetTxInv, LayoutInv
      <3>3. flying = <<PacketOf(Len(sent) + 1)>> /\ rptr = Start(Len(sent) + 1) + Header
        BY <1>1, <2>2 DEF NetTxInv, ReaderInv
      <3>4. PacketOf(Len(sent) + 1).from = rptr /\ rptr \in Nat
        BY <1>1, <3>2, <3>3 DEF PacketOf, NetTxInv, TypeInv
      <3> QED
        BY <3>3, <3>4 DEF InFlightKept
    <2> QED
      BY <2>1, <2>2
  <1>2. UntilDoubled => InFlightKept
    BY <1>1 DEF UntilDoubled, InFlightKept
  <1> QED
    BY <1>2, NetTxInvariant, PTL
=============================================================================
