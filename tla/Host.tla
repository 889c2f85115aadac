-------------------------------- MODULE Host --------------------------------
(***************************************************************************)
(* tjost.c:87-136 and 308-399: the event queues of the host and the cycle  *)
(* of its JACK process callback.                                           *)
(*                                                                         *)
(* In every period of Period frames the real-time thread first lets the    *)
(* inputs put events into the host queue (phase "in"), then dispatches the *)
(* events of the host queue that are due to the queues of the children and *)
(* to Lua callbacks ("main", "fan"), and at last has every output module   *)
(* empty its own queue as far as it is due ("out").  All output modules    *)
(* share one loop; they differ in what they do with an event: the ports    *)
(* (osc_out, midi_out, ...) write it at a frame of the period, loopback    *)
(* schedules it anew in the host queue, uplink passes it to the main       *)
(* thread.                                                                 *)
(*                                                                         *)
(* jack_nframes_t wraps around at TimeMod, 2^32 in the code.               *)
(***************************************************************************)
EXTENDS Integers, Sequences, FiniteSets, SequencesExt

CONSTANTS PortIn,      \* inputs that read a port: time in the current period
          PipeIn,      \* inputs that drain a pipe: any time stamp
          Broadcast,   \* TJOST_MODULE_BROADCAST
          Port,        \* outputs that write into a JACK port buffer
          Loopback,    \* loopback modules
          Uplink,      \* uplink modules
          Outputs,     \* the modules with an output side, in list order
          Uplinks,     \* the uplink modules, in list order
          Children,    \* module -> its children
          HasLua,      \* the modules with a Lua callback
          Period,      \* nframes
          TimeMod,     \* where the frame time wraps around
          StartTime,   \* frame time of the first cycle
          PipeTimes,   \* time stamps of events from a pipe
          PortRoom,    \* events that fit into a port buffer in one period
          LuaDelays,   \* a callback sends at the time of its event plus this
          MaxEvents,   \* bound: events created by inputs and callbacks
          MaxCycles    \* bound: cycles

Output == Port \cup Loopback \cup Uplink
Source == PortIn \cup PipeIn \cup Loopback \cup Uplink \cup {Broadcast}
Time == 0..(TimeMod - 1)

\* Every module with an output side is in the lists, a module is of one kind
\* ("lua" stands for the callbacks), and the inputs are no outputs here.
ASSUME ModulesAssumption ==
    /\ Outputs \in Seq(Port \cup Loopback) /\ ToSet(Outputs) = Port \cup Loopback
    /\ Uplinks \in Seq(Uplink) /\ ToSet(Uplinks) = Uplink
    /\ Port \cap (Loopback \cup Uplink) = {} /\ Loopback \cap Uplink = {}
    /\ (PortIn \cup PipeIn) \cap (Loopback \cup Uplink \cup {Broadcast, "lua"}) = {}
    /\ Broadcast \notin Loopback \cup Uplink
    /\ Children \in [Source \ {Broadcast} -> SUBSET Output]
    /\ HasLua \subseteq Source \ {Broadcast}
ASSUME TimeAssumption ==
    /\ Period \in Nat \ {0} /\ TimeMod \in Nat \ {0} /\ StartTime \in Time
    /\ PipeTimes \subseteq Time /\ LuaDelays \subseteq Int /\ PortRoom \in Nat
ASSUME HostBoundAssumption == MaxEvents \in Nat /\ MaxCycles \in Nat

VARIABLES last,     \* jack_last_frame_time, constant during a cycle
          cycle,    \* cycles so far
          phase,    \* where _process is: in, main, fan, out
          queue,    \* host->queue
          mqueue,   \* module -> module->queue
          pend,     \* sources whose children the event at hand still has to reach
          turn,     \* modules whose process_out is still to run in this cycle
          created,  \* every event ever made: its source and requested time
          written,  \* port -> what it wrote: event, frame of the period, cycle
          dropped,  \* port -> the events that its buffer had no room for
          txcount,  \* host->pipe_uplink_tx_count
          txwait    \* events in pipe_uplink_tx since its last flush

vars == <<last, cycle, phase, queue, mqueue, pend, turn, created, written, dropped, txcount, txwait>>

Wrap(t) == t % TimeMod

Init == /\ last = StartTime /\ cycle = 1 /\ phase = "in"
        /\ queue = << >> /\ mqueue = [m \in Output |-> << >>]
        /\ pend = << >> /\ turn = << >>
        /\ created = << >> /\ written = [m \in Port |-> << >>]
        /\ dropped = [m \in Port |-> << >>]
        /\ txcount = 0 /\ txwait = 0

-----------------------------------------------------------------------------
(* Queues. *)

\* Mutant of Before: equal times count as later.
StrictlyBefore(e1, e2) == e1.time < e2.time

\* _tjost_schedule_sort
Before(e1, e2) == e1.time <= e2.time

\* eina_inlist_sorted_insert (external) puts an event behind all those that
\* the comparison places before it.
SortedInsert(q, ev) ==
    LET p == Max({0} \cup {i \in 1..Len(q) : Before(q[i], ev)})
    IN  InsertAt(q, p + 1, ev)

Event(id, src, time) == [id |-> id, src |-> src, time |-> time]

\* Mutant of Due: the last frame of the period is left to the next one.
DueOffByOne(ev) == ev.time + 1 < Wrap(last + Period)

\* The loops over a queue stop at the first event of a later period.
Due(ev) == ev.time < Wrap(last + Period)

\* An immediate or a late event is executed at the start of the period.
Clamp(time) == IF time = 0 \/ time < last THEN last ELSE time

-----------------------------------------------------------------------------
(* Phase "in": tjost_uplink_rx_drain and the process_in of every input. *)

ArrivalTimes(src) == IF src \in PortIn THEN {Wrap(last + i) : i \in 0..(Period - 1)}
                     ELSE IF src \in PipeIn THEN PipeTimes
                     ELSE {0}

\* tjost_host_schedule and tjost_host_schedule_inline
Arrive(src, time) ==
    /\ phase = "in" /\ Len(created) < MaxEvents
    /\ queue' = SortedInsert(queue, Event(Len(created) + 1, src, time))
    /\ created' = Append(created, [src |-> src, time |-> time])
    /\ UNCHANGED <<last, cycle, phase, mqueue, pend, turn, written, dropped, txcount, txwait>>

InputsDone ==
    /\ phase = "in"
    /\ phase' = "main"
    /\ UNCHANGED <<last, cycle, queue, mqueue, pend, turn, created, written, dropped, txcount, txwait>>

-----------------------------------------------------------------------------
(* Phases "main" and "fan": the loop over the host queue. *)

SourcesOf(src) == IF src = Broadcast THEN Uplinks ELSE <<src>>

\* Mutant of TakeEvent: a late event is not dispatched.
TakeEventDropLate ==
    /\ phase = "main" /\ queue # << >> /\ Due(Head(queue))
    /\ queue' = [queue EXCEPT ![1].time = Clamp(@)]
    /\ pend' = IF Head(queue).time \in 1..(last - 1) THEN << >> ELSE SourcesOf(Head(queue).src)
    /\ phase' = "fan"
    /\ UNCHANGED <<last, cycle, mqueue, turn, created, written, dropped, txcount, txwait>>

\* Lines 337-345: take the head of the host queue, if it is due.
TakeEvent ==
    /\ phase = "main" /\ queue # << >> /\ Due(Head(queue))
    /\ queue' = [queue EXCEPT ![1].time = Clamp(@)]
    /\ pend' = SourcesOf(Head(queue).src)
    /\ phase' = "fan"
    /\ UNCHANGED <<last, cycle, mqueue, turn, created, written, dropped, txcount, txwait>>

\* What the Lua callback of a module does with an event: nothing, or a call of
\* one output, which schedules a message in that module's queue.
Calls == {[to |-> "nobody", time |-> 0]} \cup
         [to : Output, time : {0} \cup {Wrap(Head(queue).time + d) : d \in LuaDelays}]

\* Mutant of ToChildren: the event gets ahead of those already queued.
ToChildrenFirst(s) == [m \in Output |->
    IF m \in Children[s] THEN <<Head(queue)>> \o mqueue[m] ELSE mqueue[m]]

\* Lines 352-353 and 366-367: tjost_module_schedule for every child of s.
ToChildren(s) == [m \in Output |->
    IF m \in Children[s] THEN SortedInsert(mqueue[m], Head(queue)) ELSE mqueue[m]]

\* Lines 349-375 for one source: its children, then its Lua callback.
FanOut(call) ==
    LET s == Head(pend)
        ev == Event(Len(created) + 1, s, call.time)
    IN
    /\ phase = "fan" /\ pend # << >>
    /\ \/ /\ call.to = "nobody"
          /\ mqueue' = ToChildren(s)
          /\ UNCHANGED created
       \/ /\ call.to \in Output /\ s \in HasLua /\ Len(created) < MaxEvents
          /\ mqueue' = [ToChildren(s) EXCEPT ![call.to] = SortedInsert(@, ev)]
          /\ created' = Append(created, [src |-> "lua", time |-> call.time])
    /\ pend' = Tail(pend)
    /\ UNCHANGED <<last, cycle, phase, queue, turn, written, dropped, txcount, txwait>>

\* Lines 377-378: the event is done.
DropEvent ==
    /\ phase = "fan" /\ pend = << >>
    /\ queue' = Tail(queue)
    /\ phase' = "main"
    /\ UNCHANGED <<last, cycle, mqueue, pend, turn, created, written, dropped, txcount, txwait>>

\* The loop has reached the end of the queue or an event of a later period.
QueueDone ==
    /\ phase = "main"
    /\ ~(queue # << >> /\ Due(Head(queue)))
    /\ turn' = Outputs \o Uplinks
    /\ phase' = "out"
    /\ UNCHANGED <<last, cycle, queue, mqueue, pend, created, written, dropped, txcount, txwait>>

-----------------------------------------------------------------------------
(* Phase "out": process_out of one module after the other. *)

\* The module whose turn it is has a due event.
Emitting(m) == /\ phase = "out" /\ turn # << >> /\ m = Head(turn)
               /\ mqueue[m] # << >> /\ Due(Head(mqueue[m]))

\* osc_out: jack_osc_event_write at the event's frame of the period.  Without
\* room in the port buffer the event is reported and dropped.
WritePort(m) ==
    LET ev == Head(mqueue[m])
        full == Cardinality({i \in DOMAIN written[m] : written[m][i].cycle = cycle}) >= PortRoom
    IN
    /\ m \in Port /\ Emitting(m)
    /\ \/ /\ ~full
          /\ written' = [written EXCEPT ![m] = Append(@,
                [id |-> ev.id, src |-> ev.src, frame |-> Clamp(ev.time) - last, cycle |-> cycle])]
          /\ UNCHANGED dropped
       \/ /\ full
          /\ dropped' = [dropped EXCEPT ![m] = Append(@, ev)]
          /\ UNCHANGED written
    /\ mqueue' = [mqueue EXCEPT ![m] = Tail(@)]
    /\ UNCHANGED <<last, cycle, phase, queue, pend, turn, created, txcount, txwait>>

\* loopback: back into the host queue, one period later; a late event is put
\* off by a period more (mod_loopback.c:42).
LoopTime(time) == IF time = 0 THEN last
                  ELSE IF time < last THEN Wrap(last + Period)
                  ELSE time

LoopBack(m) ==
    LET ev == Head(mqueue[m]) IN
    /\ m \in Loopback /\ Emitting(m)
    /\ queue' = SortedInsert(queue, Event(ev.id, m, Wrap(LoopTime(ev.time) + Period)))
    /\ mqueue' = [mqueue EXCEPT ![m] = Tail(@)]
    /\ UNCHANGED <<last, cycle, phase, pend, turn, created, written, dropped, txcount, txwait>>

\* uplink: tjost_uplink_tx_push, which counts the event also when the pipe has
\* no room for it.
PushUplink(m, accepted) ==
    /\ m \in Uplink /\ Emitting(m)
    /\ txcount' = txcount + 1
    /\ txwait' = IF accepted THEN txwait + 1 ELSE txwait
    /\ mqueue' = [mqueue EXCEPT ![m] = Tail(@)]
    /\ UNCHANGED <<last, cycle, phase, queue, pend, turn, created, written, dropped>>

OutputDone ==
    /\ phase = "out" /\ turn # << >> /\ ~Emitting(Head(turn))
    /\ turn' = Tail(turn)
    /\ UNCHANGED <<last, cycle, phase, queue, mqueue, pend, created, written, dropped, txcount, txwait>>

\* Mutant of FlushNeeded: a single message does not count.
FlushNeededOffByOne == txcount > 1

\* Line 391
FlushNeeded == txcount > 0

\* Lines 391-398, and the next call of _process with its line 325.
CycleDone ==
    /\ phase = "out" /\ turn = << >> /\ cycle < MaxCycles
    /\ txwait' = IF FlushNeeded THEN 0 ELSE txwait
    /\ txcount' = 0
    /\ last' = Wrap(last + Period)
    /\ cycle' = cycle + 1
    /\ phase' = "in"
    /\ UNCHANGED <<queue, mqueue, pend, turn, created, written, dropped>>

-----------------------------------------------------------------------------
Next == \/ \E src \in PortIn \cup PipeIn \cup Uplink \cup {Broadcast} :
              \E time \in ArrivalTimes(src) : Arrive(src, time)
        \/ InputsDone
        \/ TakeEvent
        \/ (phase = "fan" /\ \E call \in Calls : FanOut(call))
        \/ DropEvent
        \/ QueueDone
        \/ \E m \in Port : WritePort(m)
        \/ \E m \in Loopback : LoopBack(m)
        \/ \E m \in Uplink, accepted \in BOOLEAN : PushUplink(m, accepted)
        \/ OutputDone
        \/ CycleDone

Spec == Init /\ [][Next]_vars

-----------------------------------------------------------------------------
(* Properties. *)

\* Every port buffer is filled the way JACK demands: each event at a frame of
\* the current period, in the order of the frames, whatever time stamps the
\* inputs and callbacks used.
PortBufferInOrder ==
    \A m \in Port : \A i \in 1..Len(written[m]) :
        /\ written[m][i].frame \in 0..(Period - 1)
        /\ i > 1 /\ written[m][i].cycle = written[m][i - 1].cycle
              => written[m][i - 1].frame <= written[m][i].frame

\* Two events of one source reach a port in the order they were made in, unless
\* the later one was meant for an earlier time.
SourceOrderKept ==
    \A m \in Port : \A i, j \in 1..Len(written[m]) :
        LET a == written[m][i]
            b == written[m][j]
        IN  (i < j /\ a.src = b.src /\ a.src \notin HasLua \cup Loopback)
               => a.id <= b.id \/ created[a.id].time < created[b.id].time

\* Copies of an event from a source in a queue, and in what a port wrote.
In(s, id, q) == Cardinality({i \in 1..Len(q) : q[i].id = id /\ q[i].src = s})

\* An event that an input scheduled is nowhere lost and nowhere doubled: until
\* it leaves the host queue each child port is still to get it; from then on it
\* is exactly once in that port's queue, in its output or among its overflows.
ExactlyOnce ==
    \A id \in 1..Len(created) : LET s == created[id].src IN
        s \in PortIn \cup PipeIn =>
            \A m \in Port \cap Children[s] :
                LET there == In(s, id, mqueue[m]) + In(s, id, written[m]) + In(s, id, dropped[m]) IN
                IF In(s, id, queue) = 1 /\ ~(phase = "fan" /\ Head(queue).id = id /\ pend = << >>)
                THEN there = 0 ELSE there = 1

\* When a cycle ends nothing that was due in it is left in any queue.
NothingDueLeft ==
    (phase = "out" /\ turn = << >> /\ last + 2 * Period < TimeMod) =>
        /\ \A i \in 1..Len(queue) : queue[i].time >= last + Period
        /\ \A m \in Output : \A i \in 1..Len(mqueue[m]) : mqueue[m][i].time >= last + Period

\* No uplink message waits for a flush from one cycle to the next.
UplinkFlushed == phase = "in" => txwait = 0
=============================================================================
