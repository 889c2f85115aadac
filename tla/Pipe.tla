-------------------------------- MODULE Pipe --------------------------------
(***************************************************************************)
(* tjost_pipe.c: the single-producer single-consumer event pipe that joins *)
(* the real-time thread with every other thread of the program.            *)
(*                                                                         *)
(* The JACK ring buffer (external) is its byte stream: wptr and rptr count *)
(* the bytes ever written and read, wptr - rptr is the read space.  An     *)
(* event is a header of Header bytes and a payload of Size[e] bytes laid   *)
(* out behind it.  log remembers what was laid out where, so that a reader *)
(* that looks for a header at a position where none starts reads garbage.  *)
(*                                                                         *)
(* jack_ringbuffer_write publishes its bytes by moving write_ptr once, or  *)
(* twice when the copy wraps around: Publish lets any part of a write      *)
(* become visible.                                                         *)
(***************************************************************************)
EXTENDS Integers, Sequences

CONSTANTS Event,         \* events offered to tjost_pipe_produce
          Size,          \* payload bytes of each event
          Header,        \* sizeof(Tjost_Event)
          Capacity,      \* usable bytes of the ring
          Listening,     \* TRUE: consumed by _asio after a flush (outputs)
                         \* FALSE: polled by a process_in of each cycle
          SchedReturns,  \* what sched_cb may return, a subset of {0, 1}
          MaxEvents      \* bound: events offered in a behaviour

ASSUME SizeAssumption == Size \in [Event -> Nat]
ASSUME HeaderAssumption == Header \in Nat \ {0}
ASSUME CapacityAssumption == Capacity \in Nat
ASSUME ModeAssumption == Listening \in BOOLEAN /\ SchedReturns \subseteq {0, 1}
ASSUME BoundAssumption == MaxEvents \in Nat

VARIABLES log,       \* accepted events: [ev, at], at the wptr of its header
          wptr,      \* bytes the producer published so far
          rptr,      \* bytes the consumer took so far
          todo,      \* bytes of the last accepted event still to be written
          offered,   \* events offered so far, rejected ones included
          unflushed, \* produce was called since the last tjost_pipe_flush
          wake,      \* the uv_async_t is signalled; sends coalesce
          pc,        \* the consumer: idle, loop (89), check (94), read (101)
          tev,       \* the event of the last peek, its index in log; 0 garbage
          delivered, \* events handed to sched_cb, in order
          failed     \* produce or consume met a short copy and returned -1

vars == <<log, wptr, rptr, todo, offered, unflushed, wake, pc, tev, delivered, failed>>

ReadSpace == wptr - rptr
WriteSpace == Capacity - ReadSpace

PayloadOf(n) == IF n = 0 THEN 0 ELSE Size[log[n].ev]

Lesser(a, b) == IF a <= b THEN a ELSE b

Init == /\ log = << >> /\ wptr = 0 /\ rptr = 0 /\ todo = 0
        /\ offered = 0 /\ unflushed = FALSE /\ wake = FALSE
        /\ pc = "idle" /\ tev = 0 /\ delivered = << >> /\ failed = FALSE

-----------------------------------------------------------------------------
(* The producer. *)

\* Mutant of HasRoom: the space check forgets the header.
HasRoomNoHeader(e) == WriteSpace >= Size[e]

\* tjost_pipe_produce, line 62: room for the header and the payload?
HasRoom(e) == WriteSpace >= Header + Size[e]

\* The call passes the space check and goes on to its two writes.
ProduceAccept(e) ==
    /\ todo = 0 /\ offered < MaxEvents
    /\ HasRoom(e)
    /\ log' = Append(log, [ev |-> e, at |-> wptr])
    /\ todo' = Header + Size[e]
    /\ offered' = offered + 1
    /\ unflushed' = TRUE
    /\ UNCHANGED <<wptr, rptr, wake, pc, tev, delivered, failed>>

\* The call returns -1; the caller reports it, drops the event and goes on.
ProduceReject(e) ==
    /\ todo = 0 /\ offered < MaxEvents
    /\ ~HasRoom(e)
    /\ offered' = offered + 1
    /\ unflushed' = TRUE
    /\ UNCHANGED <<log, wptr, rptr, todo, wake, pc, tev, delivered, failed>>

\* Lines 66 and 68: k more bytes of the event become visible.  A write that
\* finds too little space copies what fits and the call returns -1.
Publish(k) ==
    LET n == Lesser(k, WriteSpace) IN
    /\ k \in 1..todo
    /\ wptr' = wptr + n
    /\ todo' = IF n = k THEN todo - k ELSE 0
    /\ failed' = (failed \/ n # k)
    /\ UNCHANGED <<log, rptr, offered, unflushed, wake, pc, tev, delivered>>

\* Mutant of Flush: the flush comes before the events are complete.
FlushEarly ==
    /\ Listening /\ unflushed
    /\ unflushed' = FALSE
    /\ wake' = TRUE
    /\ UNCHANGED <<log, wptr, rptr, todo, offered, pc, tev, delivered, failed>>

\* tjost_pipe_flush, after the events of one process_out: uv_async_send.
Flush ==
    /\ Listening /\ todo = 0 /\ unflushed
    /\ unflushed' = FALSE
    /\ wake' = TRUE
    /\ UNCHANGED <<log, wptr, rptr, todo, offered, pc, tev, delivered, failed>>

-----------------------------------------------------------------------------
(* The consumer. *)

\* Someone calls tjost_pipe_consume: _asio for a signalled handle, whose
\* signal libuv clears first, or a process_in of the audio cycle.
ConsumeStart ==
    /\ pc = "idle"
    /\ Listening => wake
    /\ wake' = FALSE
    /\ pc' = "loop"
    /\ UNCHANGED <<log, wptr, rptr, todo, offered, unflushed, tev, delivered, failed>>

\* What a peek at rptr decodes: the event whose header starts there.
HeaderAtReadPtr == {n \in 1..Len(log) : log[n].at = rptr}

\* Lines 89 and 91: leave the loop, or peek at a complete header.
ConsumeLoop ==
    /\ pc = "loop"
    /\ \/ /\ ReadSpace < Header
          /\ pc' = "idle"
          /\ UNCHANGED tev
       \/ /\ ReadSpace >= Header
          /\ tev' = IF HeaderAtReadPtr = {} THEN 0
                    ELSE CHOOSE n \in HeaderAtReadPtr : TRUE
          /\ pc' = "check"
    /\ UNCHANGED <<log, wptr, rptr, todo, offered, unflushed, wake, delivered, failed>>

\* Mutant of PayloadComplete: any payload byte will do.
PayloadStarted == ReadSpace > Header

\* Line 94: is the payload complete?
PayloadComplete == ReadSpace >= Header + PayloadOf(tev)

\* Line 94-96: take the header off the ring, or go round the loop again.
ConsumeCheck ==
    /\ pc = "check"
    /\ \/ /\ PayloadComplete
          /\ rptr' = rptr + Header
          /\ pc' = "read"
       \/ /\ ~PayloadComplete
          /\ pc' = "loop"
          /\ UNCHANGED rptr
    /\ UNCHANGED <<log, wptr, todo, offered, unflushed, wake, tev, delivered, failed>>

\* Mutant of ConsumeRead: the event is handed over but left in the ring.
ConsumeReadAgain(ret) ==
    /\ pc = "read"
    /\ rptr' = rptr - Header
    /\ delivered' = Append(delivered, tev)
    /\ pc' = IF ret = 0 THEN "loop" ELSE "idle"
    /\ UNCHANGED <<log, wptr, todo, offered, unflushed, wake, tev, failed>>

\* Lines 98-105: alloc_cb, copy the payload, sched_cb.  A short copy makes the
\* call return -1; a nonzero return of sched_cb leaves the loop.
ConsumeRead(ret) ==
    LET got == Lesser(PayloadOf(tev), ReadSpace)
        ok  == got = PayloadOf(tev)
    IN
    /\ pc = "read"
    /\ rptr' = rptr + got
    /\ delivered' = IF ok THEN Append(delivered, tev) ELSE delivered
    /\ failed' = (failed \/ ~ok)
    /\ pc' = IF ok /\ ret = 0 THEN "loop" ELSE "idle"
    /\ UNCHANGED <<log, wptr, todo, offered, unflushed, wake, tev>>

-----------------------------------------------------------------------------
Producer == \/ \E e \in Event : ProduceAccept(e) \/ ProduceReject(e)
            \/ \E k \in 1..todo : Publish(k)
            \/ Flush
Consumer == \/ ConsumeStart \/ ConsumeLoop \/ ConsumeCheck
            \/ \E ret \in SchedReturns : ConsumeRead(ret)

Next == Producer \/ Consumer

Spec == Init /\ [][Next]_vars

\* A thread inside produce or consume runs on; whoever produced flushes at the
\* end of its process_out (mod_dump.c:259-263); libuv runs _asio for a signal
\* and JACK calls the process callback again and again.
Fairness == /\ WF_vars(\E k \in 1..todo : Publish(k))
            /\ WF_vars(Flush)
            /\ WF_vars(Consumer)

FairSpec == Spec /\ Fairness

-----------------------------------------------------------------------------
(* Properties. *)

TotalOf(n) == Header + PayloadOf(n)

Packet == [ev : Event, at : Nat]

\* The types of the variables.
TypeOK == /\ log \in Seq(Packet)
          /\ wptr \in Nat /\ rptr \in Nat /\ todo \in Nat /\ offered \in Nat
          /\ unflushed \in BOOLEAN /\ wake \in BOOLEAN /\ failed \in BOOLEAN
          /\ pc \in {"idle", "loop", "check", "read"}
          /\ tev \in Nat
          /\ delivered \in Seq(Nat)

\* Whatever the interleaving of the two threads, sched_cb sees exactly the
\* accepted events, in the order tjost_pipe_produce accepted them, none twice,
\* none torn: the consumer never takes payload bytes for a header.
InOrderAndIntact ==
    /\ Len(delivered) <= Len(log)
    /\ \A i \in 1..Len(delivered) : delivered[i] = i

\* The one space check of produce covers both its writes, and the one
\* completeness check of consume covers both its reads: none of the error
\* returns behind them (lines 67, 69, 92, 102) is ever taken.
NoShortCopy == ~failed

\* No wakeup is lost although uv_async_send coalesces: a listening consumer
\* that sleeps, with no signal pending and no flush due, has left nothing in
\* the ring.
NoLostWakeup ==
    (Listening /\ SchedReturns = {0} /\ pc = "idle" /\ ~wake /\ ~unflushed)
        => ReadSpace = 0

\* A consumer that found an incomplete payload goes round its loop without
\* waiting; it always gets the payload in the end.
SpinEnds == pc = "check" ~> pc = "read"

\* Every accepted event is handed to sched_cb eventually.
AcceptedIsDelivered ==
    \A n \in 1..MaxEvents : Len(log) >= n ~> Len(delivered) >= n

\* The events whose last byte is published, and those handed over.
Complete == [i \in 1..(IF todo > 0 THEN Len(log) - 1 ELSE Len(log)) |-> log[i].ev]
HandedOver == [i \in 1..Len(delivered) |-> log[delivered[i]].ev]

Channel == INSTANCE EventChannel WITH sent <- Complete, received <- HandedOver

\* The pipe implements the abstract channel: an event is sent when its last
\* byte is published and received when sched_cb gets it.
ImplementsChannel == Channel!Spec

-----------------------------------------------------------------------------
(* The inductive invariant behind InOrderAndIntact and NoShortCopy. *)

\* Where the event after the n-th begins, or will begin.
StartOf(n) == IF n <= Len(log) THEN log[n].at ELSE wptr + todo

\* The accepted events lie one behind the other in the stream.
Layout == /\ \A n \in 1..Len(log) : log[n].at + TotalOf(n) = StartOf(n + 1)
          /\ \A m, n \in 1..Len(log) : m < n => log[m].at < log[n].at
          /\ StartOf(1) = 0

\* What produce still has to write fits; the consumer never overtakes it.
Room == rptr <= wptr /\ wptr + todo <= rptr + Capacity

\* Where the consumer stands between two events, or inside one.
ReaderAt == LET d == Len(delivered) IN
    /\ pc \in {"idle", "loop"} => rptr = StartOf(d + 1)
    /\ pc = "check" => /\ rptr = StartOf(d + 1) /\ tev = d + 1
                       /\ d < Len(log) /\ ReadSpace >= Header
    /\ pc = "read"  => /\ rptr = StartOf(d + 1) + Header /\ tev = d + 1
                       /\ d < Len(log) /\ ReadSpace >= PayloadOf(tev)

PipeInv == TypeOK /\ NoShortCopy /\ InOrderAndIntact /\ Layout /\ Room /\ ReaderAt
=============================================================================
