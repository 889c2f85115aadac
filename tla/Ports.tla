-------------------------------- MODULE Ports --------------------------------
(***************************************************************************)
(* The modules of JACK's own ports: mod_midi_in.c, mod_midi_out.c,         *)
(* mod_cv_in.c and mod_cv_out.c, in a script that passes MIDI and control  *)
(* values on after Delay frames.                                           *)
(*                                                                         *)
(* One action is one period of _process; what happens between the two      *)
(* ends of a chain is Host's subject: an event of this period is executed  *)
(* in it, and what a callback schedules waits in the queue of the output.  *)
(* A MIDI event is [time, id], its bytes are left out; times are frames.   *)
(***************************************************************************)
EXTENDS Integers, Sequences, FiniteSets, SequencesExt

CONSTANTS NFrames,    \* frames of a period
          Values,     \* samples
          Delays,     \* what Delay may be
          MaxMidi,    \* bound: MIDI events of a period
          MidiCap,    \* MIDI events that fit into an output buffer
          MaxPeriods  \* bound

ASSUME PortsAssumption == /\ {MaxMidi, MidiCap, MaxPeriods} \subseteq Nat /\ NFrames \in Nat \ {0}
                          /\ Delays \subseteq Nat /\ 0 \in Values

Frames == 0 .. NFrames - 1

VARIABLES delay,
          last,      \* jack_last_frame_time of the next period
          cvIn,      \* cv_in's dat->value
          cvOut,     \* cv_out's dat->value
          cvQueue,   \* cv_out's module->queue: [time, value]
          midiQueue, \* midi_out's module->queue: [time, midi], midi a sequence of events
          \* history: the streams of samples, the MIDI events read and written
          samplesIn, samplesOut, midiIn, midiOut,
          dropped    \* MIDI events that did not fit

vars == <<delay, last, cvIn, cvOut, cvQueue, midiQueue, samplesIn, samplesOut, midiIn, midiOut,
          dropped>>

Init == /\ delay \in Delays /\ last = 0
        /\ cvIn = 0 /\ cvOut = 0 /\ cvQueue = <<>> /\ midiQueue = <<>>
        /\ samplesIn = <<>> /\ samplesOut = <<>> /\ midiIn = <<>> /\ midiOut = <<>>
        /\ dropped = 0

-----------------------------------------------------------------------------
\* One turn of cv_in's loop over the frames, for the i-th frame: a sample that is
\* not the one before becomes an event.
CvStep(buf, evs, i) ==
    LET before == IF i = 1 THEN cvIn ELSE buf[i - 2]
    IN IF buf[i - 1] # before THEN Append(evs, [time |-> last + i - 1, value |-> buf[i - 1]])
       ELSE evs
CvIn(buf) ==
    LET events[i \in 0 .. NFrames] == IF i = 0 THEN <<>> ELSE CvStep(buf, events[i - 1], i)
    IN events[NFrames]

\* The loops of cv_out and midi_out over their queues stop at the first event that
\* belongs to a later period.  No event is late here; what becomes of one that
\* is, is in Host.
DueCount(queue) ==
    Max({k \in 0 .. Len(queue) : \A j \in 1 .. k : queue[j].time < last + NFrames})
Due(queue) == SubSeq(queue, 1, DueCount(queue))
Rest(queue) == SubSeq(queue, DueCount(queue) + 1, Len(queue))
Delayed(s) == [k \in DOMAIN s |-> [s[k] EXCEPT !.time = @ + delay]]

\* The events that have passed at a frame.
Passed(due, i) == {k \in DOMAIN due : due[k].time - last <= i}

\* Mutant of CvOut: the rest of the period is not filled with the last value.
CvOutUnfilled(due) ==
    [i \in Frames |->
        IF Passed(due, i) # {} /\ Passed(due, i) # DOMAIN due
        THEN due[Max(Passed(due, i))].value ELSE cvOut]

\* The buffer that _cv and the last loop of process_out fill: at every frame the
\* value of the last event that has passed.
CvOut(due) ==
    [i \in Frames |->
        IF Passed(due, i) = {} THEN cvOut ELSE due[Max(Passed(due, i))].value]

-----------------------------------------------------------------------------
\* Mutant of MidiStep: the last event does not close its group.
MidiStepOpen(evs, acc, i) ==
    LET lastTime == IF i = 1 THEN evs[1].time ELSE acc.lastTime
        end == i - 1
    IN IF evs[i].time > lastTime \/ i = Len(evs)
       THEN [first |-> end + 1,
             lastTime |-> evs[i].time,
             out |-> Append(acc.out, [time |-> last + evs[i].time,
                                      midi |-> SubSeq(evs, acc.first, end)])]
       ELSE [acc EXCEPT !.lastTime = lastTime]

\* Lines 45-100, for the i-th event: a later event, or the last one, closes the
\* group of those before it; the last one belongs to the group it closes.  The
\* message gets the time of the event that closed it, and last_time that of its
\* last event.
MidiStep(evs, acc, i) ==
    LET lastTime == IF i = 1 THEN evs[1].time ELSE acc.lastTime
        end == IF i = Len(evs) THEN i ELSE i - 1
    IN IF evs[i].time > lastTime \/ i = Len(evs)
       THEN [first |-> end + 1,
             lastTime |-> evs[end].time,
             out |-> Append(acc.out, [time |-> last + evs[i].time,
                                      midi |-> SubSeq(evs, acc.first, end)])]
       ELSE [acc EXCEPT !.lastTime = lastTime]
MidiIn(evs) ==
    LET acc[i \in 0 .. Len(evs)] == IF i = 0 THEN [first |-> 1, lastTime |-> 0, out |-> <<>>]
                                    ELSE MidiStep(evs, acc[i - 1], i)
    IN acc[Len(evs)].out

\* Every MIDI argument of every message, as far as there is room in the buffer.
Arguments(e) == [j \in DOMAIN e.midi |-> [time |-> e.time, id |-> e.midi[j].id]]
MidiWrites(queue) ==
    LET writes[k \in 0 .. Len(queue)] == IF k = 0 THEN <<>>
                                         ELSE writes[k - 1] \o Arguments(queue[k])
    IN writes[Len(queue)]
MidiOut(due) ==
    SubSeq(MidiWrites(due), 1, IF Len(MidiWrites(due)) < MidiCap THEN Len(MidiWrites(due))
                               ELSE MidiCap)

-----------------------------------------------------------------------------
\* One period with these MIDI events and samples.
Period(evs, buf) ==
    LET cvq == cvQueue \o Delayed(CvIn(buf))
        midiq == midiQueue \o Delayed(MidiIn(evs))
    IN /\ cvIn' = buf[NFrames - 1]
       /\ cvOut' = IF Due(cvq) = <<>> THEN cvOut ELSE Last(Due(cvq)).value
       /\ cvQueue' = Rest(cvq)
       /\ samplesIn' = samplesIn \o [k \in 1 .. NFrames |-> buf[k - 1]]
       /\ samplesOut' = samplesOut \o [k \in 1 .. NFrames |-> CvOut(Due(cvq))[k - 1]]
       /\ midiQueue' = Rest(midiq)
       /\ midiIn' = midiIn \o [k \in DOMAIN evs |-> [evs[k] EXCEPT !.time = last + @]]
       /\ midiOut' = midiOut \o MidiOut(Due(midiq))
       /\ dropped' = dropped + Len(MidiWrites(Due(midiq))) - Len(MidiOut(Due(midiq)))
       /\ last' = last + NFrames
       /\ UNCHANGED delay

\* What JACK may hand over.  The modules have nothing in common, so one of the
\* ports is busy in a period and the others go on as they were.
Still == [i \in Frames |-> cvIn]
MidiPeriods == UNION {{s \in [1 .. n -> Frames] : \A k \in 2 .. n : s[k - 1] <= s[k]}
                       : n \in 1 .. MaxMidi}
MidiPeriod == \E times \in MidiPeriods :
                 Period([k \in DOMAIN times |-> [time |-> times[k], id |-> Len(midiIn) + k]],
                        Still)
CvPeriod == \E buf \in [Frames -> Values] : Period(<<>>, buf)

Next == /\ last < MaxPeriods * NFrames
        /\ \/ MidiPeriod
           \/ CvPeriod

Spec == Init /\ [][Next]_vars

-----------------------------------------------------------------------------
(* Properties. *)

\* cv_out plays what cv_in read, sample by sample, Delay frames later: the
\* events between them carry every change, and the period's rest, a change in
\* its first frame and a value that lasts for periods are filled in right.
CvThrough ==
    \A k \in DOMAIN samplesOut :
        samplesOut[k] = IF k <= delay THEN 0 ELSE samplesIn[k - delay]

\* midi_out writes what midi_in read, once and in order; no event early, none
\* later than the end of its period, frames in the order JACK wants them.  Only
\* what does not fit is missing.
MidiThrough ==
    LET t(k) == midiOut[k].time
        source(k) == midiIn[midiOut[k].id]
    IN /\ \A k \in 2 .. Len(midiOut) : midiOut[k - 1].id < midiOut[k].id /\ t(k - 1) <= t(k)
       /\ \A k \in DOMAIN midiOut :
             t(k) - delay \in source(k).time .. (source(k).time \div NFrames + 1) * NFrames - 1
       /\ Len(midiOut) + dropped
             = Len(midiIn) - Len(MidiWrites(midiQueue))
=============================================================================
