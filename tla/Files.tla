-------------------------------- MODULE Files --------------------------------
(***************************************************************************)
(* mod_write.c and mod_read.c: a script records events to a file and plays *)
(* the file back, later or somewhere else.                                 *)
(*                                                                         *)
(* Both modules have a pipe between the process thread and the main loop.  *)
(* As EventChannel allows, a pipe is a sequence; that of the player counts *)
(* its bytes, because the player looks at the space there is.  A record is *)
(* [time, size, kind, id] with its time counted from the start of the      *)
(* recording; kind tells a message from a bundle.                          *)
(***************************************************************************)
EXTENDS Integers, Sequences, FiniteSets, SequencesExt, FiniteSetsExt

CONSTANTS FileFrames,  \* frames of a period
          Starts,      \* frame time of the first period
          Sizes,       \* sizes of packets
          BufSize,     \* TJOST_BUF_SIZE, the largest of them
          Header,      \* sizeof(Tjost_Event)
          Ring,        \* bytes of the player's pipe
          RecCap,      \* events in the recorder's pipe
          MaxEvents,   \* bound: events of the recording
          FilePeriods  \* bound

ASSUME FilesAssumption ==
    /\ {FileFrames, BufSize, Header, Ring, RecCap, MaxEvents, FilePeriods} \subseteq Nat
    /\ Starts \subseteq Nat /\ Sizes \subseteq 1 .. BufSize

VARIABLES fpc,      \* "record", "play"
          now,      \* jack_last_frame_time of the next period
          periods,
          recOffset, playOffset, \* dat->offset of the two modules, 0 is "not set"
          recPipe, file,
          at,       \* records of file that have been read
          eof,      \* feof(dat->f)
          playPipe,
          \* history: the first period of either module, what was recorded when,
          \* what the player handed to the host
          recStart, playStart, recorded, played,
          events,   \* events so far
          taken     \* the records of file the player took into its pipe

filesVars == <<fpc, now, periods, recOffset, playOffset, recPipe, file, at, eof, playPipe,
               recStart, playStart, recorded, played, events, taken>>

FilesInit ==
    /\ fpc = "record" /\ now \in Starts /\ periods = 0
    /\ recOffset = 0 /\ playOffset = 0 /\ recPipe = <<>> /\ file = <<>> /\ at = 0 /\ eof = FALSE
    /\ playPipe = <<>> /\ recStart = now /\ playStart = 0 /\ recorded = <<>> /\ played = <<>>
    /\ events = 0 /\ taken = <<>>

Kinds == {"message", "bundle"}

-----------------------------------------------------------------------------
\* Mutant of Relative: the time of the event in its period.
RelativeToPeriod(time, offset) == time - now

\* Line 91 of mod_write.c.
Relative(time, offset) == time - offset

\* process_out of write in a period with no event, or with one at time t (0 is
\* immediate, a time before the period late).
WritePeriod(evs) ==
    LET offset == IF recOffset = 0 THEN now ELSE recOffset
        clamped(e) == IF e.time < now THEN now ELSE e.time
        new == [k \in DOMAIN evs |->
                  [time |-> Relative(clamped(evs[k]), offset), size |-> evs[k].size,
                   kind |-> evs[k].kind, id |-> evs[k].id]]
        room == RecCap - Len(recPipe)
        kept == IF room < Len(new) THEN room ELSE Len(new)
    IN /\ fpc = "record" /\ periods < FilePeriods
       /\ recOffset' = offset
       /\ recPipe' = recPipe \o SubSeq(new, 1, kept)
       /\ recorded' = recorded \o [k \in 1 .. kept |-> [time |-> clamped(evs[k]), id |-> evs[k].id]]
       /\ events' = events + Len(evs)
       /\ now' = now + FileFrames /\ periods' = periods + 1
       /\ UNCHANGED <<fpc, playOffset, file, at, eof, playPipe, recStart, playStart, played, taken>>

Record == \/ WritePeriod(<<>>)
          \/ \E t \in {0} \cup {x \in now - 1 .. now + FileFrames - 1 : x > 0}, s \in Sizes, c \in Kinds :
                /\ events < MaxEvents
                /\ WritePeriod(<<[time |-> t, size |-> s, kind |-> c, id |-> events + 1]>>)
          \/ \E t \in now .. now + FileFrames - 1, s \in Sizes, c \in Kinds :
                /\ events + 1 < MaxEvents
                /\ WritePeriod(<<[time |-> now, size |-> s, kind |-> "message", id |-> events + 1],
                                 [time |-> t, size |-> s, kind |-> c, id |-> events + 2]>>)

\* _sched of write, in the main loop.
WriteFile == /\ fpc = "record" /\ recPipe # <<>>
             /\ file' = Append(file, Head(recPipe)) /\ recPipe' = Tail(recPipe)
             /\ UNCHANGED <<fpc, now, periods, recOffset, playOffset, at, eof, playPipe, recStart,
                            playStart, recorded, played, events, taken>>

\* del of write: what the main loop has not taken from the pipe is gone.  The
\* player starts with the next period.
StartPlaying ==
    /\ fpc = "record" /\ fpc' = "play"
    /\ recPipe' = <<>>
    /\ periods' = 0 /\ playStart' = now
    /\ UNCHANGED <<now, recOffset, playOffset, file, at, eof, playPipe, recStart, recorded, played,
                   events, taken>>

-----------------------------------------------------------------------------
\* tjost_pipe_space: what the records in the pipe have left of it.
Space(pipe) ==
    LET used[k \in 0 .. Len(pipe)] == IF k = 0 THEN 0 ELSE used[k - 1] + Header + pipe[k].size
    IN Ring - used[Len(pipe)]

\* Mutant of RoomForAny: exactly the largest packet will do.
RoomForBuffer == Space(playPipe) >= BufSize

\* The guard of _asio's loop.
RoomForAny == Space(playPipe) > BufSize

\* _asio of read: one turn of its loop.  The recorder writes what it is given;
\* osc_check_message takes nothing but messages, and the pipe what fits.
Accepted(r) == r.kind = "message" /\ Header + r.size <= Space(playPipe)
ReadFile ==
    /\ fpc = "play" /\ ~eof /\ RoomForAny
    /\ at < Len(file)
    /\ at' = at + 1
    /\ IF Accepted(file[at + 1])
       THEN playPipe' = Append(playPipe, file[at + 1]) /\ taken' = Append(taken, at + 1)
       ELSE UNCHANGED <<playPipe, taken>>
    /\ UNCHANGED <<fpc, now, periods, recOffset, playOffset, recPipe, file, eof, recStart, playStart,
                   recorded, played, events>>

\* The turn that finds the end: time and size were never assigned, the buffer is
\* that of the last record, or still zero.  As a rule the size is not that of a
\* message; after a message it may be.
ReadEnd ==
    /\ fpc = "play" /\ ~eof /\ RoomForAny
    /\ at = Len(file)
    /\ eof' = TRUE
    /\ \/ UNCHANGED playPipe
       \/ /\ at > 0 /\ file[at].kind = "message"
          /\ \E t \in 0 .. 1 :
                playPipe' = Append(playPipe, [time |-> t, size |-> 1, kind |-> "message", id |-> 0])
    /\ UNCHANGED <<fpc, now, periods, recOffset, playOffset, recPipe, file, at, recStart, playStart,
                   recorded, played, events, taken>>

\* process_in of read: everything in the pipe is scheduled.
PlayPeriod ==
    LET offset == IF playOffset = 0 THEN now ELSE playOffset
    IN /\ fpc = "play" /\ periods < FilePeriods
       /\ playOffset' = offset
       /\ played' = played \o [k \in DOMAIN playPipe |->
                                 [time |-> playPipe[k].time + offset, id |-> playPipe[k].id]]
       /\ playPipe' = <<>>
       /\ now' = now + FileFrames /\ periods' = periods + 1
       /\ UNCHANGED <<fpc, recOffset, recPipe, file, at, eof, recStart, playStart, recorded, events,
                      taken>>

FilesNext == Record \/ WriteFile \/ StartPlaying \/ ReadFile \/ ReadEnd \/ PlayPeriod

FilesSpec == FilesInit /\ [][FilesNext]_filesVars

-----------------------------------------------------------------------------
(* Properties. *)

\* What the player took from the file is played in its order, each event as long
\* after the start of the player as it was executed after that of the recorder.
\* Excepted are a recording that starts when the frame time is 0, which the code
\* takes for a start that is still to come, and what the last turn of the reader
\* makes up.
ReplayKeepsIntervals ==
    recStart # 0 =>
        \A k \in DOMAIN played :
            IF k <= Len(taken)
            THEN LET r == recorded[taken[k]]
                 IN /\ taken[k] <= Len(recorded) /\ played[k].id = r.id
                    /\ played[k].time - playStart = r.time - recStart
            ELSE played[k].id = 0

\* The player takes every record of the file, once and in its order, but for two
\* sorts that the recorder writes all the same: bundles, which the reader's check
\* refuses, and packets too large for what its loop counts as room for any.
OnlyRefusedMissing ==
    /\ \A i, k \in DOMAIN taken : i < k => taken[i] < taken[k]
    /\ \A j \in 1 .. at : \/ \E k \in DOMAIN taken : taken[k] = j
                         \/ file[j].kind = "bundle"
                         \/ Header + file[j].size > BufSize + 1
=============================================================================
