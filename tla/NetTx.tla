-------------------------------- MODULE NetTx --------------------------------
(***************************************************************************)
(* modules/mod_net.c:122-245 and 260-304: the transmit side of the net     *)
(* modules.  The real-time thread lays its due events into the ring rb_tx  *)
(* and wakes the thread of the module, which sends one packet after the    *)
(* other straight out of the ring: _next takes the header off the ring,    *)
(* hands the payload to the stream and leaves it in place until the stream *)
(* reports it as sent; mod_net_send_cb then takes it off and goes on.      *)
(*                                                                         *)
(* The stream (libosc_stream, external) sends what it is handed in order   *)
(* and calls back once for each packet with its length.  What a reader     *)
(* decodes where no header starts is arbitrary.                            *)
(***************************************************************************)
EXTENDS Integers, Sequences, FiniteSets

CONSTANTS Event,      \* events in the module's queue
          Size,       \* payload bytes of each event
          Header,     \* sizeof(Tjost_Event)
          Capacity,   \* usable bytes of rb_tx
          GarbageSizes, \* sizes a misplaced header may decode to
          MaxEvents,  \* bound: events in a behaviour
          MaxRead     \* bound: bytes of rb_tx up to which a doubled loop is followed

ASSUME EventAssumption == /\ Size \in [Event -> Nat \ {0}] /\ Header \in Nat \ {0}
                          /\ Capacity \in Nat /\ GarbageSizes \subseteq Nat
ASSUME RunAssumption == MaxEvents \in Nat /\ MaxRead \in Nat

VARIABLES log,       \* events laid into rb_tx: [ev, at], at the wptr of the header
          wptr,      \* bytes written to rb_tx so far
          rptr,      \* bytes taken off rb_tx so far
          todo,      \* pieces of the last event still to be written
          tried,     \* events taken from the queue, overflows included
          due,       \* process_out has still to call uv_async_send
          wake,      \* net->asio is signalled
          flying,    \* packets the stream has not yet reported as sent: [from, len]
          sent,      \* packets the stream has reported as sent
          doubled    \* history: a wakeup took bytes off rb_tx while a packet was on its way

vars == <<log, wptr, rptr, todo, tried, due, wake, flying, sent, doubled>>

Init == /\ log = << >> /\ wptr = 0 /\ rptr = 0 /\ todo = << >> /\ tried = 0
        /\ due = FALSE /\ wake = FALSE /\ flying = << >> /\ sent = << >> /\ doubled = FALSE

-----------------------------------------------------------------------------
(* The real-time thread: mod_net_process_out. *)

\* The read space behind r, in JACK's ring of Capacity + 1 bytes.
Space(r) == (wptr - r) % (Capacity + 1)

Room == Capacity - Space(rptr)

\* Mutant of HasRoom: the space check forgets the header.
HasRoomNoHeader(e) == Room >= Size[e]

HasRoom(e) == Room >= Header + Size[e]

\* Lines 272-294; an event without room in the ring is reported and dropped.
TakeFromQueue(e) ==
    /\ todo = << >> /\ tried < MaxEvents
    /\ tried' = tried + 1
    /\ due' = TRUE
    /\ \/ /\ HasRoom(e)
          /\ log' = Append(log, [ev |-> e, at |-> wptr])
          /\ todo' = <<Header, Size[e]>>
       \/ /\ ~HasRoom(e)
          /\ UNCHANGED <<log, todo>>
    /\ UNCHANGED <<wptr, rptr, wake, flying, sent, doubled>>

\* A period in which the events of the queue are all due later: line 296 counts
\* the whole queue, so the sender is woken nevertheless.
NothingDue ==
    /\ todo = << >> /\ ~due /\ tried < MaxEvents
    /\ due' = TRUE
    /\ UNCHANGED <<log, wptr, rptr, todo, tried, wake, flying, sent, doubled>>

\* Lines 288 and 289: the two writes become visible one after the other.  A
\* write copies what fits; nobody looks at its result.
Publish ==
    /\ todo # << >>
    /\ wptr' = wptr + (IF Head(todo) <= Room THEN Head(todo) ELSE Room)
    /\ todo' = Tail(todo)
    /\ UNCHANGED <<log, rptr, tried, due, wake, flying, sent, doubled>>

\* Mutant of AsyncSend: the wakeup comes before the events.
AsyncSendEarly ==
    /\ due
    /\ due' = FALSE
    /\ wake' = TRUE
    /\ UNCHANGED <<log, wptr, rptr, todo, tried, flying, sent, doubled>>

\* Lines 296-301
AsyncSend ==
    /\ due /\ todo = << >>
    /\ due' = FALSE
    /\ wake' = TRUE
    /\ UNCHANGED <<log, wptr, rptr, todo, tried, flying, sent, doubled>>

-----------------------------------------------------------------------------
(* The thread of the module. *)

HeaderAt(r) == {n \in 1..Len(log) : log[n].at = r}

\* What a peek at r may decode: the size of the payload, and whether its first
\* byte is one of '#' and '/'.
PeekAt(r) == IF HeaderAt(r) = {} THEN GarbageSizes \X BOOLEAN
             ELSE {<<Size[log[n].ev], TRUE>> : n \in HeaderAt(r)}

Complete(r, size) == Space(r) >= Header + size

\* Mutant of NextPacket: the payload is taken off the ring when it is handed over.
NextPacketEager(r, inflight) ==
    IF Space(r) < Header
    THEN rptr' = r /\ flying' = inflight
    ELSE \E peek \in PeekAt(r) :
            /\ rptr' = IF Complete(r, peek[1]) THEN r + Header + peek[1] ELSE r
            /\ flying' = IF Complete(r, peek[1]) /\ peek[2]
                         THEN Append(inflight, [from |-> r + Header, len |-> peek[1]])
                         ELSE inflight

\* _next, the ring being read up to r: nothing happens unless a header and the
\* payload it announces are complete.  The header is taken off the ring also
\* when the payload turns out to be no OSC packet (line 231).
NextPacket(r, inflight) ==
    IF Space(r) < Header
    THEN rptr' = r /\ flying' = inflight
    ELSE \E peek \in PeekAt(r) :
            /\ rptr' = IF Complete(r, peek[1]) THEN r + Header ELSE r
            /\ flying' = IF Complete(r, peek[1]) /\ peek[2]
                         THEN Append(inflight, [from |-> r + Header, len |-> peek[1]])
                         ELSE inflight

\* A bound: once doubled, nothing keeps the loop behind what was written.
Followed == doubled => rptr <= MaxRead

\* mod_net_asio: "start sending loop".  Nothing keeps it from running while
\* an earlier round of the loop waits for its mod_net_send_cb; if it finds what
\* looks like a complete packet there, two rounds of the loop are under way.
Asio ==
    /\ wake /\ Followed
    /\ wake' = FALSE
    /\ NextPacket(rptr, flying)
    /\ doubled' = (doubled \/ (flying # << >> /\ rptr' # rptr))
    /\ UNCHANGED <<log, wptr, todo, tried, due, sent>>

\* mod_net_send_cb
SendCb ==
    /\ flying # << >> /\ Followed
    /\ sent' = Append(sent, Head(flying))
    /\ NextPacket(rptr + Head(flying).len, Tail(flying))
    /\ UNCHANGED <<log, wptr, todo, tried, due, wake, doubled>>

-----------------------------------------------------------------------------
RealTime == (\E e \in Event : TakeFromQueue(e)) \/ NothingDue \/ Publish \/ AsyncSend

Next == RealTime \/ Asio \/ SendCb

Spec == Init /\ [][Next]_vars

\* process_out runs to its end, libuv handles signals, the stream calls back.
FairSpec == Spec /\ WF_vars(Publish) /\ WF_vars(AsyncSend) /\ WF_vars(Asio) /\ WF_vars(SendCb)

-----------------------------------------------------------------------------
(* Properties. *)

\* The packet the n-th event is to be sent as.
PacketOf(n) == [from |-> log[n].at + Header, len |-> Size[log[n].ev]]

\* The peer gets the payloads of the queued events, each whole, once and in
\* order; no other bytes of the ring are ever handed to the stream.
PacketsInOrder ==
    LET handed == sent \o flying IN
    /\ Len(handed) <= Len(log)
    /\ \A i \in 1..Len(handed) : handed[i] = PacketOf(i)

\* In every behaviour PacketsInOrder can be lost in one way only: a wakeup finds
\* a packet on its way (mod_net.c:244) and starts a second round of the loop.
InOrderUntilDoubled == doubled \/ PacketsInOrder

\* The bytes of a packet on its way stay in the ring: the producer, which counts
\* everything before rptr as free, cannot write over them.  Again a second round
\* of the loop is the only thing that can free them early.
InFlightKept == \A i \in 1..Len(flying) : doubled \/ flying[i].from >= rptr

\* Every event that found room is sent in the end, if no second round of the loop
\* spoils the ring: no wakeup is lost between a sender that has just found the
\* ring empty, or an incomplete packet in it, and process_out.
AllSent == \A n \in 1..MaxEvents : Len(log) >= n ~> Len(sent) >= n \/ doubled
=============================================================================
