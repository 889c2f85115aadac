---------------------------- MODULE DevicesProofs ----------------------------
(***************************************************************************)
(* Proofs about the devices, Files and Ports.  Files: for any periods,     *)
(* sizes, pipes and recordings, what the player takes is played in its     *)
(* order and with its intervals, and it takes all but what it refuses.     *)
(* Ports: for any period, samples and delay, cv_out plays what cv_in read  *)
(* and midi_out writes what midi_in read.                                  *)
(***************************************************************************)
EXTENDS Ports, Files, FiniteSetTheorems, SequenceTheorems, TLAPS

-----------------------------------------------------------------------------
(* Induction over numbers, and functions that are defined by recursion over them. *)

\* What holds of zero and of the number after each is true of all.
LEMMA AllNaturals ==
    ASSUME NEW T \in SUBSET Nat, 0 \in T, \A n \in T : n + 1 \in T
    PROVE  T = Nat
  <1> DEFINE R == OpToRel(<, Nat)
             Bad == Nat \ T
  <1>1. SUFFICES ASSUME Bad # {} PROVE FALSE
    OBVIOUS
  <1>2. PICK k \in Bad : \A j \in Bad : ~(<<j, k>> \in R)
    <2>1. Bad \subseteq Nat
      OBVIOUS
    <2> HIDE DEF Bad, R
    <2> QED  BY <1>1, <2>1, NatLessThanWellFounded, WFMin DEF R
  <1>3. k \in Nat /\ k # 0 /\ k \notin T
    BY <1>2
  <1>4. k - 1 \in Nat /\ (k - 1) + 1 = k
    BY <1>3
  <1>5. <<k - 1, k>> \in R
    BY <1>3, <1>4 DEF OpToRel
  <1>6. k - 1 \in T
    BY <1>2, <1>4, <1>5
  <1> QED  BY <1>3, <1>4, <1>6

\* The same for numbers up to n.
LEMMA UpTo ==
    ASSUME NEW n \in Nat, NEW T, 0 \in T, \A k \in 1 .. n : k - 1 \in T => k \in T
    PROVE  \A k \in 0 .. n : k \in T
  <1> DEFINE U == {k \in Nat : k <= n => k \in T}
  <1>1. U \in SUBSET Nat /\ 0 \in U
    OBVIOUS
  <1>2. ASSUME NEW k \in U PROVE k + 1 \in U
    <2>1. k \in Nat /\ k + 1 \in Nat /\ (k + 1) - 1 = k
      OBVIOUS
    <2>2. ASSUME k + 1 <= n PROVE k + 1 \in T
      <3>1. k + 1 \in 1 .. n /\ k \in T
        BY <2>1, <2>2
      <3> QED  BY <2>1, <3>1
    <2> QED  BY <2>1, <2>2
  <1> HIDE DEF U
  <1>3. U = Nat
    BY <1>1, <1>2, AllNaturals
  <1> QED  BY <1>3 DEF U

\* A function begins with b and goes on by g.
Recurs(f, n, b, g) == f[0] = b /\ \A k \in 1 .. n : f[k] = g[k][f[k - 1]]

\* A recursion over the numbers up to n defines a function.
LEMMA RecursionExists ==
    ASSUME NEW S, NEW n \in Nat, NEW b \in S, NEW g \in [1 .. n -> [S -> S]]
    PROVE  \E f \in [0 .. n -> S] : Recurs(f, n, b, g)
  <1> DEFINE T == {m \in 0 .. n : \E f \in [0 .. m -> S] : Recurs(f, m, b, g)}
  <1>1. 0 \in T
    <2> DEFINE f == [k \in 0 .. 0 |-> b]
    <2>1. f \in [0 .. 0 -> S] /\ f[0] = b /\ \A k \in 1 .. 0 : FALSE
      OBVIOUS
    <2> HIDE DEF f
    <2> QED  BY <2>1 DEF Recurs
  <1>2. ASSUME NEW m \in 1 .. n, m - 1 \in T PROVE m \in T
    <2>1. PICK h \in [0 .. m - 1 -> S] :
             h[0] = b /\ \A k \in 1 .. m - 1 : h[k] = g[k][h[k - 1]]
      BY <1>2 DEF Recurs
    <2>2. m - 1 \in 0 .. m - 1 /\ m \in Nat /\ h[m - 1] \in S /\ g[m] \in [S -> S]
      OBVIOUS
    <2>3. g[m][h[m - 1]] \in S
      BY <2>2
    <2> DEFINE f == [k \in 0 .. m |-> IF k = m THEN g[m][h[m - 1]] ELSE h[k]]
    <2>4. \A k \in 0 .. m : k # m => k \in 0 .. m - 1
      BY <2>2
    <2>5. f \in [0 .. m -> S] /\ f[m] = g[m][h[m - 1]] /\ \A k \in 0 .. m : k # m => f[k] = h[k]
      <3>1. \A k \in 0 .. m : (IF k = m THEN g[m][h[m - 1]] ELSE h[k]) \in S
        BY <2>3, <2>4
      <3>2. m \in 0 .. m
        BY <2>2
      <3> QED  BY <3>1, <3>2
    <2> HIDE DEF f
    <2>6. f[0] = b
      BY <2>1, <2>2, <2>5
    <2>7. ASSUME NEW k \in 1 .. m PROVE f[k] = g[k][f[k - 1]]
      <3>1. k - 1 \in 0 .. m /\ k - 1 # m /\ f[k - 1] = h[k - 1]
        <4>1. k - 1 \in 0 .. m /\ k - 1 # m
          BY <2>2
        <4> QED  BY <2>5, <4>1
      <3>2. CASE k = m
        BY <2>5, <3>1, <3>2
      <3>3. CASE k # m
        <4>1. k \in 1 .. m - 1 /\ k \in 0 .. m
          BY <2>2, <3>3
        <4> QED  BY <2>1, <2>5, <3>1, <3>3, <4>1
      <3> QED  BY <3>2, <3>3
    <2>8. Recurs(f, m, b, g)
      BY <2>6, <2>7 DEF Recurs
    <2> QED  BY <2>5, <2>8
  <1> HIDE DEF T
  <1>3. n \in T
    <2>1. \A k \in 0 .. n : k \in T
      BY <1>1, <1>2, UpTo
    <2> QED  BY <2>1
  <1> QED  BY <1>3 DEF T

-----------------------------------------------------------------------------
(* The files. *)

USE FilesAssumption DEF FilesAssumption

RecordType == [time : Int, size : Int, kind : Kinds, id : Int]
HistoryType == [time : Int, id : Int]

FilesTypeInv ==
    /\ fpc \in {"record", "play"} /\ now \in Nat /\ recStart \in Nat /\ playStart \in Nat
    /\ recOffset \in Nat /\ playOffset \in Nat /\ at \in Nat /\ events \in Nat
    /\ eof \in BOOLEAN /\ taken \in Seq(Nat)
    /\ recPipe \in Seq(RecordType) /\ file \in Seq(RecordType) /\ playPipe \in Seq(RecordType)
    /\ recorded \in Seq(HistoryType) /\ played \in Seq(HistoryType)
    /\ Len(recPipe) <= RecCap /\ now >= recStart

\* A record in the file and what was executed.
Match(r, e) == r.id = e.id /\ r.time = e.time - recStart

\* The recorder: its pipe goes on where the file ends.
RecorderInv ==
    recStart # 0 =>
        /\ \A k \in 1..Len(file) : k <= Len(recorded) /\ Match(file[k], recorded[k])
        /\ fpc = "record" =>
             /\ IF recOffset = 0 THEN now = recStart ELSE recOffset = recStart
             /\ Len(recorded) = Len(file) + Len(recPipe)
             /\ \A k \in 1..Len(recPipe) : Match(recPipe[k], recorded[Len(file) + k])

\* The player: before its start nothing is read, and then its start is not 0.
PlayerInv ==
    /\ fpc = "record" => /\ at = 0 /\ played = << >> /\ playPipe = << >> /\ ~eof
                         /\ taken = << >> /\ playOffset = 0
    /\ fpc = "play" => /\ playStart >= recStart
                       /\ recStart # 0 =>
                            IF playOffset = 0 THEN now = playStart ELSE playOffset = playStart
    /\ at <= Len(file)

\* What the player took are records it has read, and all of them but those that
\* are refused.
TakenInv == OnlyRefusedMissing /\ \A k \in 1..Len(taken) : taken[k] \in 1..at

\* What was played and what waits in the pipe is what was taken, and perhaps one
\* record more that the last turn of the reader made up.
PlayedInv ==
    recStart # 0 =>
        /\ \/ Len(played) + Len(playPipe) = Len(taken)
           \/ eof /\ Len(played) + Len(playPipe) = Len(taken) + 1
        /\ \A k \in 1..Len(played) :
              IF k <= Len(taken)
              THEN /\ played[k].id = file[taken[k]].id
                   /\ played[k].time - playStart = file[taken[k]].time
              ELSE played[k].id = 0
        /\ \A j \in 1..Len(playPipe) :
              IF Len(played) + j <= Len(taken) THEN playPipe[j] = file[taken[Len(played) + j]]
              ELSE playPipe[j].id = 0

FilesInv == FilesTypeInv /\ RecorderInv /\ PlayerInv /\ TakenInv /\ PlayedInv

\* Before anything is recorded or replayed the invariant holds.
LEMMA InitFiles == FilesInit => FilesInv
  <1> SUFFICES ASSUME FilesInit PROVE FilesInv
    OBVIOUS
  <1>1. /\ fpc = "record" /\ now \in Nat /\ recStart = now /\ recOffset = 0 /\ playOffset = 0
        /\ recPipe = << >> /\ file = << >> /\ at = 0 /\ eof = FALSE /\ playPipe = << >>
        /\ playStart = 0 /\ recorded = << >> /\ played = << >> /\ events = 0 /\ taken = << >>
    BY DEF FilesInit
  <1>2. /\ << >> \in Seq(RecordType) /\ << >> \in Seq(HistoryType) /\ << >> \in Seq(Nat)
        /\ Len(<< >>) = 0 /\ DOMAIN << >> = {}
    OBVIOUS
  <1>3. FilesTypeInv
    <2>1. recPipe \in Seq(RecordType) /\ file \in Seq(RecordType) /\ playPipe \in Seq(RecordType)
      BY <1>1, <1>2
    <2>2. recorded \in Seq(HistoryType) /\ played \in Seq(HistoryType)
      BY <1>1, <1>2
    <2>3. Len(recPipe) <= RecCap
      BY <1>1, <1>2
    <2>4. eof \in BOOLEAN /\ taken \in Seq(Nat)
      BY <1>1, <1>2
    <2>5. now >= recStart
      BY <1>1
    <2> QED
      BY <1>1, <2>1, <2>2, <2>3, <2>4, <2>5 DEF FilesTypeInv
  <1>4. RecorderInv /\ PlayerInv /\ TakenInv /\ PlayedInv
    BY <1>1, <1>2 DEF RecorderInv, PlayerInv, TakenInv, OnlyRefusedMissing, PlayedInv
  <1> QED
    BY <1>3, <1>4 DEF FilesInv

-----------------------------------------------------------------------------
(* Sequences of records. *)

\* The concatenation of two sequences, element by element.
LEMMA ConcatElements ==
    ASSUME NEW S, NEW s \in Seq(S), NEW t \in Seq(S)
    PROVE  /\ s \o t \in Seq(S) /\ Len(s \o t) = Len(s) + Len(t)
           /\ Len(s) \in Nat /\ Len(t) \in Nat
           /\ \A k \in 1..Len(s) : (s \o t)[k] = s[k]
           /\ \A k \in 1..Len(t) : (s \o t)[Len(s) + k] = t[k]
  OBVIOUS

\* What appending leaves at each place of a sequence.
LEMMA AppendElements ==
    ASSUME NEW S, NEW s \in Seq(S), NEW e \in S
    PROVE  /\ Append(s, e) \in Seq(S) /\ Len(Append(s, e)) = Len(s) + 1 /\ Len(s) \in Nat
           /\ \A k \in 1..Len(s) : Append(s, e)[k] = s[k]
           /\ Append(s, e)[Len(s) + 1] = e
  OBVIOUS

\* A function over an interval is a sequence.
LEMMA FunctionIsSequence ==
    ASSUME NEW S, NEW n \in Nat, NEW f \in [1..n -> S]
    PROVE  f \in Seq(S) /\ Len(f) = n
  OBVIOUS

-----------------------------------------------------------------------------
(* The recorder. *)

EventType == [time : Nat, size : Nat, kind : Kinds, id : Nat]

\* process_out of write keeps what fits into the pipe, with times from its start.
LEMMA WritePeriodKeeps ==
    ASSUME FilesInv, NEW evs \in Seq(EventType), WritePeriod(evs)
    PROVE  FilesInv'
  <1> DEFINE offset == IF recOffset = 0 THEN now ELSE recOffset
             clamped(e) == IF e.time < now THEN now ELSE e.time
             new == [k \in DOMAIN evs |->
                       [time |-> Relative(clamped(evs[k]), offset), size |-> evs[k].size,
                        kind |-> evs[k].kind, id |-> evs[k].id]]
             room == RecCap - Len(recPipe)
             kept == IF room < Len(new) THEN room ELSE Len(new)
             done == [k \in 1..kept |-> [time |-> clamped(evs[k]), id |-> evs[k].id]]
  <1>1. /\ fpc = "record" /\ recOffset' = offset /\ recPipe' = recPipe \o SubSeq(new, 1, kept)
        /\ recorded' = recorded \o done /\ events' = events + Len(evs) /\ now' = now + FileFrames
        /\ UNCHANGED <<fpc, playOffset, file, at, eof, playPipe, recStart, playStart, played, taken>>
    BY DEF WritePeriod
  <1>2. /\ FilesTypeInv /\ now \in Nat /\ recOffset \in Nat /\ FileFrames \in Nat
        /\ recPipe \in Seq(RecordType) /\ recorded \in Seq(HistoryType) /\ Len(recPipe) \in Nat
        /\ Len(recPipe) <= RecCap /\ RecCap \in Nat
    BY DEF FilesInv, FilesTypeInv
  <1>3. Len(evs) \in Nat /\ DOMAIN evs = 1..Len(evs)
    OBVIOUS
  <1>4. ASSUME NEW k \in 1..Len(evs)
        PROVE  evs[k].time \in Nat /\ evs[k].size \in Nat /\ evs[k].kind \in Kinds /\ evs[k].id \in Nat
    <2>1. evs[k] \in EventType
      <3> HIDE DEF new, done
      <3> QED
        BY <1>3
    <2> QED
      BY <2>1 DEF EventType
  <1>5. offset \in Nat
    BY <1>2
  <1>6. new \in Seq(RecordType) /\ Len(new) = Len(evs)
    <2>1. ASSUME NEW k \in 1..Len(evs)
          PROVE  [time |-> Relative(clamped(evs[k]), offset), size |-> evs[k].size,
                  kind |-> evs[k].kind, id |-> evs[k].id] \in RecordType
      <3> HIDE DEF new, done, room, kept, offset
      <3>1. clamped(evs[k]) \in Nat
        BY <1>2, <1>4
      <3> HIDE DEF clamped
      <3>2. Relative(clamped(evs[k]), offset) \in Int
        BY <1>5, <3>1 DEF Relative
      <3> QED
        BY <1>4, <3>2 DEF RecordType
    <2>2. new \in [1..Len(evs) -> RecordType]
      BY <1>3, <2>1
    <2> HIDE DEF new
    <2> QED
      BY <1>3, <2>2, FunctionIsSequence
  <1>7. kept \in 0..Len(evs) /\ kept <= room /\ kept \in Nat
    <2> HIDE DEF new
    <2> QED
      BY <1>2, <1>3, <1>6
  <1>8. /\ SubSeq(new, 1, kept) \in Seq(RecordType) /\ Len(SubSeq(new, 1, kept)) = kept
        /\ \A k \in 1..kept : SubSeq(new, 1, kept)[k] = new[k]
    <2> HIDE DEF new, kept
    <2> QED
      BY <1>6, <1>7
  <1>9. done \in Seq(HistoryType) /\ Len(done) = kept
    <2>1. ASSUME NEW k \in 1..kept
          PROVE  [time |-> clamped(evs[k]), id |-> evs[k].id] \in HistoryType
      <3>1. k \in 1..Len(evs)
        <4> HIDE DEF kept
        <4> QED
          BY <1>3, <1>7
      <3> QED
        BY <1>2, <1>4, <3>1 DEF HistoryType
    <2>2. done \in [1..kept -> HistoryType]
      BY <2>1
    <2> HIDE DEF done, kept
    <2> QED
      BY <1>7, <2>2, FunctionIsSequence
  <1>a. \A k \in 1..kept : /\ done[k].time = clamped(evs[k]) /\ done[k].id = evs[k].id
                           /\ new[k].time = clamped(evs[k]) - offset /\ new[k].id = evs[k].id
    <2> SUFFICES ASSUME NEW k \in 1..kept
                 PROVE  /\ done[k].time = clamped(evs[k]) /\ done[k].id = evs[k].id
                        /\ new[k].time = clamped(evs[k]) - offset /\ new[k].id = evs[k].id
      OBVIOUS
    <2>1. k \in DOMAIN evs
      <3> HIDE DEF kept
      <3> QED
        BY <1>3, <1>7
    <2>2. done[k] = [time |-> clamped(evs[k]), id |-> evs[k].id]
      OBVIOUS
    <2>3. new[k] = [time |-> Relative(clamped(evs[k]), offset), size |-> evs[k].size,
                    kind |-> evs[k].kind, id |-> evs[k].id]
      BY <2>1
    <2> HIDE DEF done, new, clamped, kept, offset
    <2> QED
      BY <2>2, <2>3 DEF Relative
  <1>b. \A k \in 1..kept : done[k].time \in Int
    <2>1. \A k \in 1..kept : done[k] \in HistoryType
      <3> HIDE DEF done, kept
      <3> QED
        BY <1>9
    <2> HIDE DEF done, kept
    <2> QED
      BY <2>1 DEF HistoryType
  <1> HIDE DEF new, kept, done, room
  <1>c. /\ recPipe' \in Seq(RecordType) /\ Len(recPipe') = Len(recPipe) + kept
        /\ \A k \in 1..Len(recPipe) : recPipe'[k] = recPipe[k]
        /\ \A k \in 1..kept : recPipe'[Len(recPipe) + k] = new[k]
    <2> DEFINE more == SubSeq(new, 1, kept)
               both == recPipe \o more
    <2>1. /\ more \in Seq(RecordType) /\ Len(more) = kept /\ recPipe' = both
          /\ \A k \in 1..kept : more[k] = new[k]
      BY <1>1, <1>8, Zenon
    <2> HIDE DEF more
    <2>2. /\ both \in Seq(RecordType) /\ Len(both) = Len(recPipe) + Len(more)
          /\ \A k \in 1..Len(recPipe) : both[k] = recPipe[k]
          /\ \A k \in 1..Len(more) : both[Len(recPipe) + k] = more[k]
      <3>1. recPipe \in Seq(RecordType) /\ more \in Seq(RecordType)
        BY <1>2, <2>1
      <3> QED
        BY <3>1, ConcatElements, SMT
    <2> HIDE DEF both
    <2> QED
      BY <2>1, <2>2
  <1>d. /\ recorded' \in Seq(HistoryType) /\ Len(recorded') = Len(recorded) + kept
        /\ \A k \in 1..Len(recorded) : recorded'[k] = recorded[k]
        /\ \A k \in 1..kept : recorded'[Len(recorded) + k] = done[k]
        /\ Len(recorded) \in Nat
    <2> DEFINE both == recorded \o done
    <2>1. /\ both \in Seq(HistoryType) /\ Len(both) = Len(recorded) + Len(done)
          /\ Len(recorded) \in Nat
          /\ \A k \in 1..Len(recorded) : both[k] = recorded[k]
          /\ \A k \in 1..Len(done) : both[Len(recorded) + k] = done[k]
      <3>1. recorded \in Seq(HistoryType) /\ done \in Seq(HistoryType)
        BY <1>2, <1>9
      <3> QED
        BY <3>1, ConcatElements, SMT
    <2>2. recorded' = both
      BY <1>1
    <2> HIDE DEF both
    <2> QED
      BY <1>9, <2>1, <2>2
  <1>e. FilesTypeInv'
    <2>1. Len(recPipe') <= RecCap
      BY <1>2, <1>7, <1>c DEF room
    <2>2. events' \in Nat /\ now' \in Nat /\ now' >= recStart' /\ recOffset' \in Nat
      <3>1. events \in Nat /\ now >= recStart /\ recStart \in Nat
        BY <1>2 DEF FilesTypeInv
      <3>2. events' = events + Len(evs) /\ now' = now + FileFrames /\ recStart' = recStart
        BY <1>1
      <3>3. recOffset' = offset
        BY <1>1
      <3> HIDE DEF offset, clamped
      <3> QED
        BY <1>2, <1>3, <1>5, <3>1, <3>2, <3>3
    <2> QED
      <3>1. /\ recPipe' \in Seq(RecordType) /\ recorded' \in Seq(HistoryType)
            /\ fpc' \in {"record", "play"} /\ events' \in Nat
        BY <1>1, <1>2, <1>c, <1>d, <2>2 DEF FilesTypeInv
      <3>2. /\ recStart' \in Nat /\ playStart' \in Nat /\ playOffset' \in Nat /\ at' \in Nat
            /\ file' \in Seq(RecordType) /\ playPipe' \in Seq(RecordType)
            /\ played' \in Seq(HistoryType) /\ eof' \in BOOLEAN /\ taken' \in Seq(Nat)
        BY <1>1, <1>2 DEF FilesTypeInv
      <3> QED
        BY <2>1, <2>2, <3>1, <3>2 DEF FilesTypeInv
  <1>f. RecorderInv'
    <2> SUFFICES ASSUME recStart # 0 PROVE RecorderInv'
      BY <1>1 DEF RecorderInv
    <2>1. offset = recStart /\ recStart \in Nat
      BY <1>1 DEF FilesInv, FilesTypeInv, RecorderInv
    <2>2. Len(recorded) = Len(file) + Len(recPipe) /\ Len(file) \in Nat
      BY <1>1 DEF FilesInv, FilesTypeInv, RecorderInv
    <2>3. \A k \in 1..Len(file) : k <= Len(recorded') /\ Match(file[k], recorded'[k])
      BY <1>7, <1>d, <2>2 DEF FilesInv, RecorderInv
    <2>4. ASSUME NEW k \in 1..Len(recPipe') PROVE Match(recPipe'[k], recorded'[Len(file) + k])
      <3>1. CASE k \in 1..Len(recPipe)
        <4>1. Match(recPipe[k], recorded[Len(file) + k])
          BY <1>1, <3>1 DEF FilesInv, RecorderInv
        <4>2. Len(file) + k \in 1..Len(recorded)
          BY <1>2, <2>2, <3>1
        <4> QED
          BY <1>c, <1>d, <3>1, <4>1, <4>2
      <3>2. CASE k \notin 1..Len(recPipe)
        <4>1. PICK i \in 1..kept : k = Len(recPipe) + i
          <5>1. k - Len(recPipe) \in 1..kept
            BY <1>2, <1>7, <1>c, <3>2
          <5> QED
            BY <1>2, <5>1
        <4>2. recPipe'[k] = new[i] /\ recorded'[Len(file) + k] = done[i]
          <5>1. Len(file) + k = Len(recorded) + i
            BY <1>2, <1>7, <2>2, <4>1
          <5> QED
            BY <1>c, <1>d, <4>1, <5>1
        <4>3. new[i].id = done[i].id /\ new[i].time = done[i].time - recStart
          BY <1>a, <2>1, <4>1
        <4> QED
          BY <4>2, <4>3 DEF Match
      <3> QED
        BY <3>1, <3>2
    <2>5. recOffset' = recStart
      BY <1>1, <2>1
    <2>6. Len(recorded') = Len(file) + Len(recPipe')
      BY <1>2, <1>7, <1>c, <1>d, <2>2
    <2> QED
      BY <1>1, <2>3, <2>4, <2>5, <2>6 DEF RecorderInv, Match
  <1>g. PlayerInv' /\ TakenInv' /\ PlayedInv'
    BY <1>1 DEF FilesInv, PlayerInv, TakenInv, OnlyRefusedMissing, PlayedInv
  <1> QED
    BY <1>e, <1>f, <1>g DEF FilesInv

\* Recording an event, in the pipe, in the file or not at all, keeps the invariant.
LEMMA RecordKeeps == ASSUME FilesInv, Record PROVE FilesInv'
  <1>1. now \in Nat /\ events \in Nat /\ Sizes \subseteq Nat
    BY DEF FilesInv, FilesTypeInv
  <1>2. CASE WritePeriod(<< >>)
    <2>1. << >> \in Seq(EventType)
      OBVIOUS
    <2> QED
      BY <1>2, <2>1, WritePeriodKeeps
  <1>3. ASSUME NEW t \in {0} \cup {x \in now - 1..now + FileFrames - 1 : x > 0}, NEW s \in Sizes,
               NEW c \in Kinds,
               WritePeriod(<<[time |-> t, size |-> s, kind |-> c, id |-> events + 1]>>)
        PROVE  FilesInv'
    <2>1. t \in Nat /\ s \in Nat
      BY <1>1
    <2>2. [time |-> t, size |-> s, kind |-> c, id |-> events + 1] \in EventType
      BY <1>1, <2>1 DEF EventType
    <2>3. <<[time |-> t, size |-> s, kind |-> c, id |-> events + 1]>> \in Seq(EventType)
      BY <2>2
    <2> QED
      BY <1>3, <2>3, WritePeriodKeeps
  <1>4. ASSUME NEW t \in now..now + FileFrames - 1, NEW s \in Sizes, NEW c \in Kinds,
               WritePeriod(<<[time |-> now, size |-> s, kind |-> "message", id |-> events + 1],
                             [time |-> t, size |-> s, kind |-> c, id |-> events + 2]>>)
        PROVE  FilesInv'
    <2>1. t \in Nat /\ s \in Nat /\ "message" \in Kinds
      BY <1>1 DEF Kinds
    <2>2. /\ [time |-> now, size |-> s, kind |-> "message", id |-> events + 1] \in EventType
          /\ [time |-> t, size |-> s, kind |-> c, id |-> events + 2] \in EventType
      BY <1>1, <2>1 DEF EventType
    <2>3. <<[time |-> now, size |-> s, kind |-> "message", id |-> events + 1],
            [time |-> t, size |-> s, kind |-> c, id |-> events + 2]>> \in Seq(EventType)
      BY <2>2
    <2> QED
      BY <1>4, <2>3, WritePeriodKeeps
  <1> QED
    BY <1>2, <1>3, <1>4 DEF Record

\* The main loop moves the first record of the pipe to the end of the file.
LEMMA WriteFileKeeps == ASSUME FilesInv, WriteFile PROVE FilesInv'
  <1>1. /\ fpc = "record" /\ recPipe # << >> /\ file' = Append(file, Head(recPipe))
        /\ recPipe' = Tail(recPipe)
        /\ UNCHANGED <<fpc, now, recOffset, playOffset, at, eof, playPipe, recStart, playStart,
                       recorded, played, events, taken>>
    BY DEF WriteFile
  <1>2. recPipe \in Seq(RecordType) /\ file \in Seq(RecordType) /\ Len(recPipe) <= RecCap
    BY DEF FilesInv, FilesTypeInv
  <1>3. /\ Len(recPipe) \in Nat \ {0} /\ Head(recPipe) = recPipe[1] /\ Head(recPipe) \in RecordType
        /\ recPipe' \in Seq(RecordType) /\ Len(recPipe') = Len(recPipe) - 1
        /\ \A k \in 1..Len(recPipe') : recPipe'[k] = recPipe[k + 1]
    BY <1>1, <1>2
  <1>4. /\ file' \in Seq(RecordType) /\ Len(file') = Len(file) + 1 /\ Len(file) \in Nat
        /\ \A k \in 1..Len(file) : file'[k] = file[k]
        /\ file'[Len(file) + 1] = recPipe[1]
    BY <1>1, <1>2, <1>3, AppendElements
  <1>5. FilesTypeInv'
    <2>1. Len(recPipe') <= RecCap
      BY <1>2, <1>3
    <2> QED
      BY <1>1, <1>3, <1>4, <2>1 DEF FilesInv, FilesTypeInv
  <1>6. RecorderInv'
    <2> SUFFICES ASSUME recStart # 0 PROVE RecorderInv'
      BY <1>1 DEF RecorderInv
    <2>1. /\ Len(recorded) = Len(file) + Len(recPipe)
          /\ IF recOffset = 0 THEN now = recStart ELSE recOffset = recStart
          /\ \A k \in 1..Len(file) : k <= Len(recorded) /\ Match(file[k], recorded[k])
          /\ \A k \in 1..Len(recPipe) : Match(recPipe[k], recorded[Len(file) + k])
      BY <1>1 DEF FilesInv, RecorderInv
    <2>2. ASSUME NEW k \in 1..Len(file') PROVE k <= Len(recorded) /\ Match(file'[k], recorded[k])
      <3>1. CASE k \in 1..Len(file)
        BY <1>4, <2>1, <3>1
      <3>2. CASE k = Len(file) + 1
        BY <1>3, <1>4, <2>1, <3>2
      <3> QED
        BY <1>4, <3>1, <3>2
    <2>3. ASSUME NEW k \in 1..Len(recPipe') PROVE Match(recPipe'[k], recorded[Len(file') + k])
      <3>1. k + 1 \in 1..Len(recPipe) /\ Len(file') + k = Len(file) + (k + 1)
        BY <1>3, <1>4
      <3> QED
        BY <1>3, <2>1, <3>1
    <2>4. Len(recorded) = Len(file') + Len(recPipe')
      BY <1>3, <1>4, <2>1
    <2> QED
      BY <1>1, <2>1, <2>2, <2>3, <2>4 DEF RecorderInv, Match
  <1>7. PlayerInv'
    BY <1>1, <1>4 DEF FilesInv, PlayerInv
  <1>8. TakenInv' /\ PlayedInv'
    <2>1. at = 0 /\ taken = << >> /\ played = << >> /\ playPipe = << >>
      BY <1>1 DEF FilesInv, PlayerInv
    <2>2. Len(<< >>) = 0 /\ DOMAIN << >> = {}
      OBVIOUS
    <2> QED
      BY <1>1, <2>1, <2>2 DEF TakenInv, OnlyRefusedMissing, PlayedInv
  <1> QED
    BY <1>5, <1>6, <1>7, <1>8 DEF FilesInv

\* Opening the recording for replay keeps the invariant.
LEMMA StartPlayingKeeps == ASSUME FilesInv, StartPlaying PROVE FilesInv'
  <1>1. /\ fpc = "record" /\ fpc' = "play" /\ recPipe' = << >> /\ playStart' = now
        /\ UNCHANGED <<now, recOffset, playOffset, file, at, eof, playPipe, recStart, recorded, played,
                       events, taken>>
    BY DEF StartPlaying
  <1>2. /\ at = 0 /\ played = << >> /\ playPipe = << >> /\ playOffset = 0
        /\ now >= recStart /\ now \in Nat /\ << >> \in Seq(RecordType) /\ Len(<< >>) = 0
    BY <1>1 DEF FilesInv, FilesTypeInv, PlayerInv
  <1>3. FilesTypeInv'
    BY <1>1, <1>2 DEF FilesInv, FilesTypeInv
  <1>4. RecorderInv'
    BY <1>1 DEF FilesInv, RecorderInv, Match
  <1>5. PlayerInv' /\ TakenInv' /\ PlayedInv'
    BY <1>1, <1>2 DEF FilesInv, PlayerInv, TakenInv, OnlyRefusedMissing, PlayedInv
  <1> QED
    BY <1>3, <1>4, <1>5 DEF FilesInv

-----------------------------------------------------------------------------
(* The player. *)

\* The space in the pipe is a number.
LEMMA SpaceIsNumber == ASSUME NEW pipe \in Seq(RecordType) PROVE Space(pipe) \in Int
  <1> DEFINE n == Len(pipe)
             size == [k \in 1 .. n |-> Header + pipe[k].size]
             g == [k \in 1 .. n |-> [x \in Int |-> x + Header + pipe[k].size]]
             u == CHOOSE f : f = [k \in 0 .. n |-> IF k = 0 THEN 0 ELSE f[k - 1] + Header + pipe[k].size]
  <1>1. n \in Nat /\ \A k \in 1 .. n : pipe[k].size \in Int
    <2>1. n \in Nat /\ \A k \in 1 .. n : pipe[k] \in RecordType
      OBVIOUS
    <2> QED
      BY <2>1 DEF RecordType
  <1>2. g \in [1 .. n -> [Int -> Int]] /\ \A x \in Int, k \in 1 .. n : g[k][x] = x + Header + pipe[k].size
    <2>1. \A x \in Int, k \in 1 .. n : x + Header + pipe[k].size \in Int
      BY <1>1
    <2> QED
      BY <2>1
  <1> HIDE DEF g, n
  <1>3. PICK h \in [0 .. n -> Int] : h[0] = 0 /\ \A k \in 1 .. n : h[k] = g[k][h[k - 1]]
    <2> DEFINE b == 0
    <2>1. b \in Int
      OBVIOUS
    <2> HIDE DEF b
    <2>2. \E h \in [0 .. n -> Int] : Recurs(h, n, b, g)
      BY <1>1, <1>2, <2>1, RecursionExists
    <2> QED
      BY <2>2 DEF b, Recurs
  <1>4. \A k \in 1 .. n : h[k] = h[k - 1] + Header + pipe[k].size
    <2>1. TAKE k \in 1 .. n
    <2>2. k - 1 \in 0 .. n
      BY <1>1
    <2>3. h[k - 1] \in Int
      BY <2>2
    <2> QED
      BY <1>2, <1>3, <2>3
  <1>5. h = [k \in 0 .. n |-> IF k = 0 THEN 0 ELSE h[k - 1] + Header + pipe[k].size]
    <2>1. \A k \in 0 .. n : h[k] = IF k = 0 THEN 0 ELSE h[k - 1] + Header + pipe[k].size
      <3>1. TAKE k \in 0 .. n
      <3>2. k = 0 \/ k \in 1 .. n
        BY <1>1
      <3> QED
        BY <1>3, <1>4, <3>2
    <2> QED
      BY <2>1
  <1>6. u = [k \in 0 .. n |-> IF k = 0 THEN 0 ELSE u[k - 1] + Header + pipe[k].size]
    <2>1. \E f : f = [k \in 0 .. n |-> IF k = 0 THEN 0 ELSE f[k - 1] + Header + pipe[k].size]
      BY <1>5
    <2> QED
      BY <2>1
  <1>7. Space(pipe) = Ring - u[n]
    BY DEF Space, n
  <1> HIDE DEF u
  <1>8. \A k \in 0 .. n : k \in {i \in 0 .. n : u[i] \in Int}
    <2> DEFINE T == {i \in 0 .. n : u[i] \in Int}
    <2>1. 0 \in T
      BY <1>1, <1>6
    <2>2. ASSUME NEW k \in 1 .. n, k - 1 \in T PROVE k \in T
      <3>1. k \in 0 .. n /\ k # 0 /\ u[k - 1] \in Int
        BY <1>1, <2>2
      <3>2. u[k] = u[k - 1] + Header + pipe[k].size
        BY <1>6, <3>1
      <3>3. u[k - 1] + Header + pipe[k].size \in Int
        <4> DEFINE x == u[k - 1]
        <4>1. x \in Int /\ pipe[k].size \in Int /\ Header \in Int
          BY <1>1, <3>1
        <4> HIDE DEF x
        <4> QED
          BY <4>1 DEF x
      <3> QED
        BY <3>1, <3>2, <3>3
    <2> HIDE DEF T
    <2>3. \A k \in 0 .. n : k \in T
      BY <1>1, <2>1, <2>2, UpTo
    <2> QED
      BY <2>3 DEF T
  <1>9. u[n] \in Int
    BY <1>1, <1>8
  <1> QED
    BY <1>7, <1>9

\* Reading the next record of the file into the pipe keeps the invariant.
LEMMA ReadFileKeeps == ASSUME FilesInv, ReadFile PROVE FilesInv'
  <1>1. /\ fpc = "play" /\ ~eof /\ at < Len(file) /\ at' = at + 1
        /\ \/ /\ playPipe' = Append(playPipe, file[at + 1]) /\ taken' = Append(taken, at + 1)
           \/ /\ ~Accepted(file[at + 1]) /\ taken' = taken /\ playPipe' = playPipe
        /\ UNCHANGED <<fpc, now, recOffset, playOffset, recPipe, file, eof, recStart, playStart,
                       recorded, played, events>>
    BY DEF ReadFile
  <1>2. /\ at \in Nat /\ Len(file) \in Nat /\ at + 1 \in 1..Len(file)
        /\ file \in Seq(RecordType) /\ playPipe \in Seq(RecordType) /\ taken \in Seq(Nat)
        /\ Len(taken) \in Nat /\ Len(playPipe) \in Nat /\ Len(played) \in Nat
    <2>1. /\ file \in Seq(RecordType) /\ playPipe \in Seq(RecordType) /\ at \in Nat
          /\ taken \in Seq(Nat) /\ played \in Seq(HistoryType)
      BY DEF FilesInv, FilesTypeInv
    <2>2. Len(file) \in Nat /\ Len(taken) \in Nat /\ Len(playPipe) \in Nat /\ Len(played) \in Nat
      BY <2>1
    <2> QED
      BY <1>1, <2>1, <2>2
  <1>3. file[at + 1] \in RecordType
    <2> DEFINE n == at + 1
    <2>1. n \in 1..Len(file) /\ file \in Seq(RecordType)
      BY <1>2
    <2> HIDE DEF n
    <2>2. file[n] \in RecordType
      BY <2>1
    <2> QED
      BY <2>2 DEF n
  <1>4. ASSUME playPipe' = Append(playPipe, file[at + 1]), taken' = Append(taken, at + 1)
        PROVE  /\ playPipe' \in Seq(RecordType) /\ taken' \in Seq(Nat)
               /\ Len(playPipe') = Len(playPipe) + 1 /\ Len(taken') = Len(taken) + 1
               /\ \A k \in 1..Len(playPipe) : playPipe'[k] = playPipe[k]
               /\ playPipe'[Len(playPipe) + 1] = file[at + 1]
               /\ \A k \in 1..Len(taken) : taken'[k] = taken[k]
               /\ taken'[Len(taken) + 1] = at + 1
    <2>1. at + 1 \in Nat
      BY <1>2
    <2> QED
      BY <1>2, <1>3, <1>4, <2>1, AppendElements
  <1>5. FilesTypeInv' /\ RecorderInv' /\ PlayerInv'
    <2>1. playPipe' \in Seq(RecordType) /\ taken' \in Seq(Nat)
      BY <1>1, <1>2, <1>4
    <2>2. at' \in Nat /\ at' <= Len(file)
      BY <1>1, <1>2
    <2>3. FilesTypeInv'
      BY <1>1, <2>1, <2>2 DEF FilesInv, FilesTypeInv
    <2>4. RecorderInv'
      BY <1>1 DEF FilesInv, RecorderInv, Match
    <2>5. PlayerInv'
      BY <1>1, <2>2 DEF FilesInv, PlayerInv
    <2> QED
      BY <2>3, <2>4, <2>5
  <1>6. TakenInv'
    <2>1. /\ \A i, k \in 1..Len(taken) : i < k => taken[i] < taken[k]
          /\ \A j \in 1..at : \/ \E k \in 1..Len(taken) : taken[k] = j
                              \/ file[j].kind = "bundle" \/ Header + file[j].size > BufSize + 1
          /\ \A k \in 1..Len(taken) : taken[k] \in 1..at
      <3>1. DOMAIN taken = 1..Len(taken)
        BY <1>2
      <3>2. OnlyRefusedMissing /\ \A k \in 1..Len(taken) : taken[k] \in 1..at
        BY DEF FilesInv, TakenInv
      <3> QED
        BY <3>1, <3>2 DEF OnlyRefusedMissing
    <2>2. taken' \in Seq(Nat) /\ DOMAIN taken' = 1..Len(taken')
      BY <1>5 DEF FilesTypeInv
    <2>3. CASE playPipe' = Append(playPipe, file[at + 1]) /\ taken' = Append(taken, at + 1)
      <3>1. /\ Len(taken') = Len(taken) + 1 /\ taken'[Len(taken) + 1] = at + 1
            /\ \A k \in 1..Len(taken) : taken'[k] = taken[k]
        BY <1>4, <2>3
      <3>2. \A k \in 1..Len(taken') : k \in 1..Len(taken) \/ k = Len(taken) + 1
        BY <1>2, <3>1
      <3>3. Len(taken) + 1 \in 1..Len(taken') /\ \A k \in 1..Len(taken) : k \in 1..Len(taken')
        BY <1>2, <3>1
      <3>4. ASSUME NEW k \in 1..Len(taken') PROVE taken'[k] \in 1..at'
        <4>1. at' = at + 1 /\ at \in Nat
          BY <1>1, <1>2
        <4>2. CASE k \in 1..Len(taken)
          <5>1. taken'[k] \in 1..at
            BY <2>1, <3>1, <4>2
          <5> QED
            BY <4>1, <5>1
        <4>3. CASE k = Len(taken) + 1
          BY <3>1, <4>1, <4>3
        <4> QED
          BY <3>2, <4>2, <4>3
      <3>5. ASSUME NEW i \in 1..Len(taken'), NEW k \in 1..Len(taken'), i < k
            PROVE  taken'[i] < taken'[k]
        <4>1. i \in 1..Len(taken)
          BY <1>2, <3>1, <3>5
        <4>2. CASE k \in 1..Len(taken)
          BY <2>1, <3>1, <3>5, <4>1, <4>2
        <4>3. CASE k = Len(taken) + 1
          <5>1. taken'[i] \in 1..at /\ taken'[k] = at + 1 /\ at \in Nat
            BY <1>2, <2>1, <3>1, <4>1, <4>3
          <5> QED
            BY <5>1
        <4> QED
          BY <3>2, <4>2, <4>3
      <3>6. ASSUME NEW j \in 1..at'
            PROVE  \/ \E k \in 1..Len(taken') : taken'[k] = j
                   \/ file[j].kind = "bundle" \/ Header + file[j].size > BufSize + 1
        <4>1. j \in 1..at \/ j = at + 1
          BY <1>1, <1>2
        <4>2. CASE j \in 1..at
          BY <2>1, <3>1, <3>3, <4>2
        <4>3. CASE j = at + 1
          BY <3>1, <3>3, <4>3
        <4> QED
          BY <4>1, <4>2, <4>3
      <3> QED
        BY <1>1, <2>2, <3>4, <3>5, <3>6 DEF TakenInv, OnlyRefusedMissing
    <2>4. CASE ~Accepted(file[at + 1]) /\ taken' = taken /\ playPipe' = playPipe
      <3>1. file[at + 1].kind = "bundle" \/ Header + file[at + 1].size > BufSize + 1
        <4>1. Space(playPipe) \in Int /\ Space(playPipe) > BufSize
          BY <1>2, SpaceIsNumber DEF ReadFile, RoomForAny
        <4>2. file[at + 1].kind \in {"message", "bundle"} /\ file[at + 1].size \in Int
          BY <1>3 DEF RecordType, Kinds
        <4>3. file[at + 1].kind # "message" \/ ~(Header + file[at + 1].size <= Space(playPipe))
          BY <2>4 DEF Accepted
        <4> DEFINE room == Space(playPipe)
                   size == file[at + 1].size
        <4>4. ASSUME ~(Header + size <= room) PROVE Header + size > BufSize + 1
          <5>1. room \in Int /\ room > BufSize /\ size \in Int
            BY <4>1, <4>2
          <5> HIDE DEF room, size
          <5> QED
            BY <4>4, <5>1
        <4> QED
          BY <4>2, <4>3, <4>4
      <3>2. \A j \in 1..at' : j \in 1..at \/ j = at + 1
        BY <1>1, <1>2
      <3>3. \A k \in 1..Len(taken) : taken[k] \in 1..at'
        <4>1. at' = at + 1 /\ at \in Nat
          BY <1>1, <1>2
        <4>2. \A i \in 1..at : i \in 1..at'
          BY <4>1
        <4> QED
          BY <2>1, <4>2
      <3>4. \A j \in 1..at' : \/ \E k \in 1..Len(taken) : taken[k] = j
                              \/ file[j].kind = "bundle" \/ Header + file[j].size > BufSize + 1
        BY <2>1, <3>1, <3>2
      <3>5. DOMAIN taken' = 1..Len(taken) /\ Len(taken') = Len(taken) /\ taken' = taken /\ file' = file
        BY <1>1, <1>2, <2>4
      <3> QED
        BY <2>1, <3>3, <3>4, <3>5 DEF TakenInv, OnlyRefusedMissing
    <2> QED
      BY <1>1, <2>3, <2>4
  <1>7. PlayedInv'
    <2> SUFFICES ASSUME recStart # 0 PROVE PlayedInv'
      BY <1>1 DEF PlayedInv
    <2>1. /\ Len(played) + Len(playPipe) = Len(taken)
          /\ \A k \in 1..Len(played) :
                IF k <= Len(taken)
                THEN /\ played[k].id = file[taken[k]].id
                     /\ played[k].time - playStart = file[taken[k]].time
                ELSE played[k].id = 0
          /\ \A j \in 1..Len(playPipe) :
                IF Len(played) + j <= Len(taken) THEN playPipe[j] = file[taken[Len(played) + j]]
                ELSE playPipe[j].id = 0
      BY <1>1 DEF FilesInv, PlayedInv
    <2>2. CASE ~Accepted(file[at + 1]) /\ taken' = taken /\ playPipe' = playPipe
      BY <1>1, <2>1, <2>2 DEF PlayedInv
    <2>3. CASE playPipe' = Append(playPipe, file[at + 1]) /\ taken' = Append(taken, at + 1)
      <3>1. /\ Len(playPipe') = Len(playPipe) + 1 /\ Len(taken') = Len(taken) + 1
            /\ \A k \in 1..Len(playPipe) : playPipe'[k] = playPipe[k]
            /\ playPipe'[Len(playPipe) + 1] = file[at + 1]
            /\ \A k \in 1..Len(taken) : taken'[k] = taken[k]
            /\ taken'[Len(taken) + 1] = at + 1
        BY <1>4, <2>3
      <3>2. Len(played) + Len(playPipe') = Len(taken')
        BY <1>2, <2>1, <3>1
      <3>3. ASSUME NEW k \in 1..Len(played)
            PROVE  IF k <= Len(taken')
                   THEN /\ played[k].id = file[taken'[k]].id
                        /\ played[k].time - playStart = file[taken'[k]].time
                   ELSE played[k].id = 0
        <4>1. k \in 1..Len(taken) /\ k <= Len(taken) /\ k <= Len(taken')
          BY <1>2, <2>1, <3>1
        <4> QED
          BY <2>1, <3>1, <4>1
      <3>4. ASSUME NEW j \in 1..Len(playPipe')
            PROVE  /\ Len(played) + j <= Len(taken')
                   /\ playPipe'[j] = file[taken'[Len(played) + j]]
        <4>1. Len(played) + j <= Len(taken')
          BY <1>2, <3>1, <3>2
        <4>2. CASE j \in 1..Len(playPipe)
          <5>1. Len(played) + j \in 1..Len(taken) /\ Len(played) + j <= Len(taken)
            BY <1>2, <2>1, <4>2
          <5> QED
            BY <2>1, <3>1, <4>1, <4>2, <5>1
        <4>3. CASE j = Len(playPipe) + 1
          <5>1. Len(played) + j = Len(taken) + 1
            <6>1. /\ Len(played) + Len(playPipe) = Len(taken)
                  /\ Len(played) \in Nat /\ Len(playPipe) \in Nat
              BY <1>2, <2>1
            <6> QED
              BY <4>3, <6>1
          <5> QED
            BY <3>1, <4>1, <4>3, <5>1
        <4>4. j \in 1..Len(playPipe) \/ j = Len(playPipe) + 1
          <5>1. Len(playPipe') = Len(playPipe) + 1 /\ Len(playPipe) \in Nat
            BY <1>2, <3>1
          <5> QED
            BY <5>1
        <4> QED
          BY <4>2, <4>3, <4>4
      <3> QED
        BY <1>1, <3>2, <3>3, <3>4 DEF PlayedInv
    <2> QED
      BY <1>1, <2>2, <2>3
  <1> QED
    BY <1>5, <1>6, <1>7 DEF FilesInv

\* The end of the file keeps the invariant.
LEMMA ReadEndKeeps == ASSUME FilesInv, ReadEnd PROVE FilesInv'
  <1>1. /\ fpc = "play" /\ ~eof /\ at = Len(file) /\ eof' = TRUE
        /\ UNCHANGED <<fpc, now, recOffset, playOffset, recPipe, file, at, recStart, playStart, recorded,
                       played, events, taken>>
    BY DEF ReadEnd
  <1>2. \/ playPipe' = playPipe
        \/ \E t \in 0..1 :
              playPipe' = Append(playPipe, [time |-> t, size |-> 1, kind |-> "message", id |-> 0])
    BY DEF ReadEnd
  <1>3. playPipe \in Seq(RecordType) /\ Len(playPipe) \in Nat /\ Len(taken) \in Nat
    BY DEF FilesInv, FilesTypeInv
  <1>4. /\ playPipe' \in Seq(RecordType)
        /\ \A k \in 1..Len(playPipe) : playPipe'[k] = playPipe[k]
        /\ \/ Len(playPipe') = Len(playPipe)
           \/ Len(playPipe') = Len(playPipe) + 1 /\ playPipe'[Len(playPipe) + 1].id = 0
    <2>1. CASE playPipe' = playPipe
      BY <1>3, <2>1
    <2>2. ASSUME NEW t \in 0..1,
                 playPipe' = Append(playPipe, [time |-> t, size |-> 1, kind |-> "message", id |-> 0])
          PROVE  /\ playPipe' \in Seq(RecordType) /\ Len(playPipe') = Len(playPipe) + 1
                 /\ \A k \in 1..Len(playPipe) : playPipe'[k] = playPipe[k]
                 /\ playPipe'[Len(playPipe) + 1].id = 0
      <3> DEFINE e == [time |-> t, size |-> 1, kind |-> "message", id |-> 0]
      <3>1. e \in RecordType /\ e.id = 0
        BY DEF RecordType, Kinds
      <3>2. playPipe' = Append(playPipe, e)
        BY <2>2
      <3> HIDE DEF e
      <3> QED
        BY <1>3, <3>1, <3>2, AppendElements
    <2> QED
      BY <1>2, <2>1, <2>2
  <1>5. FilesTypeInv'
    BY <1>1, <1>4 DEF FilesInv, FilesTypeInv
  <1>6. RecorderInv' /\ PlayerInv' /\ TakenInv'
    BY <1>1 DEF FilesInv, RecorderInv, PlayerInv, TakenInv, OnlyRefusedMissing, Match
  <1>7. PlayedInv'
    <2> SUFFICES ASSUME recStart # 0 PROVE PlayedInv'
      BY <1>1 DEF PlayedInv
    <2>1. /\ Len(played) + Len(playPipe) = Len(taken) /\ Len(played) \in Nat
          /\ \A k \in 1..Len(played) :
                IF k <= Len(taken)
                THEN /\ played[k].id = file[taken[k]].id
                     /\ played[k].time - playStart = file[taken[k]].time
                ELSE played[k].id = 0
          /\ \A j \in 1..Len(playPipe) :
                IF Len(played) + j <= Len(taken) THEN playPipe[j] = file[taken[Len(played) + j]]
                ELSE playPipe[j].id = 0
      BY <1>1 DEF FilesInv, FilesTypeInv, PlayedInv
    <2>2. \/ Len(played) + Len(playPipe') = Len(taken)
          \/ Len(played) + Len(playPipe') = Len(taken) + 1
      <3>1. Len(played) + Len(playPipe) = Len(taken) /\ Len(played) \in Nat /\ Len(playPipe) \in Nat
        BY <1>3, <2>1
      <3>2. Len(playPipe') = Len(playPipe) \/ Len(playPipe') = Len(playPipe) + 1
        BY <1>4
      <3> QED
        BY <3>1, <3>2
    <2>3. ASSUME NEW j \in 1..Len(playPipe')
          PROVE  IF Len(played) + j <= Len(taken) THEN playPipe'[j] = file[taken[Len(played) + j]]
                 ELSE playPipe'[j].id = 0
      <3>1. CASE j \in 1..Len(playPipe)
        BY <1>4, <2>1, <3>1
      <3>2. CASE j \notin 1..Len(playPipe)
        <4>1. j = Len(playPipe) + 1 /\ playPipe'[j].id = 0
          BY <1>3, <1>4, <3>2
        <4>2. Len(played) + j = Len(taken) + 1
          BY <1>3, <2>1, <4>1
        <4> QED
          BY <1>3, <4>1, <4>2
      <3> QED
        BY <3>1, <3>2
    <2> QED
      BY <1>1, <2>1, <2>2, <2>3 DEF PlayedInv
  <1> QED
    BY <1>5, <1>6, <1>7 DEF FilesInv

\* process_in of read schedules all that is in its pipe, with times from its start.
LEMMA PlayPeriodKeeps == ASSUME FilesInv, PlayPeriod PROVE FilesInv'
  <1> DEFINE offset == IF playOffset = 0 THEN now ELSE playOffset
             new == [k \in DOMAIN playPipe |->
                       [time |-> playPipe[k].time + offset, id |-> playPipe[k].id]]
  <1>1. /\ fpc = "play" /\ playOffset' = offset /\ played' = played \o new /\ playPipe' = << >>
        /\ now' = now + FileFrames
        /\ UNCHANGED <<fpc, recOffset, recPipe, file, at, eof, recStart, playStart, recorded, events,
                       taken>>
    BY DEF PlayPeriod
  <1>2. /\ playPipe \in Seq(RecordType) /\ played \in Seq(HistoryType) /\ file \in Seq(RecordType)
        /\ now \in Nat /\ playOffset \in Nat /\ FileFrames \in Nat /\ recStart \in Nat
        /\ now >= recStart /\ playStart \in Nat /\ at \in Nat /\ Len(file) \in Nat
        /\ Len(played) \in Nat
    BY DEF FilesInv, FilesTypeInv
  <1>3. Len(playPipe) \in Nat /\ DOMAIN playPipe = 1..Len(playPipe)
    BY <1>2
  <1>4. ASSUME NEW k \in 1..Len(playPipe) PROVE playPipe[k].time \in Int /\ playPipe[k].id \in Int
    <2>1. playPipe[k] \in RecordType
      <3> HIDE DEF new
      <3> QED
        BY <1>2
    <2> QED
      BY <2>1 DEF RecordType
  <1>5. new \in Seq(HistoryType) /\ Len(new) = Len(playPipe)
    <2>1. ASSUME NEW k \in 1..Len(playPipe)
          PROVE  [time |-> playPipe[k].time + offset, id |-> playPipe[k].id] \in HistoryType
      <3>1. offset \in Int
        BY <1>2
      <3>2. playPipe[k].time \in Int /\ playPipe[k].id \in Int
        BY <1>4
      <3> DEFINE t == playPipe[k].time + offset
                 i == playPipe[k].id
      <3> HIDE DEF offset, new
      <3>3. t \in Int /\ i \in Int
        BY <3>1, <3>2
      <3> HIDE DEF t, i
      <3>4. [time |-> t, id |-> i] \in HistoryType
        BY <3>3 DEF HistoryType
      <3> QED
        BY <3>4 DEF t, i
    <2>2. new \in [1..Len(playPipe) -> HistoryType]
      BY <1>3, <2>1
    <2> HIDE DEF new
    <2> QED
      BY <1>3, <2>2, FunctionIsSequence
  <1>6. \A k \in 1..Len(playPipe) : /\ new[k].time = playPipe[k].time + offset
                                    /\ new[k].id = playPipe[k].id
    BY <1>3
  <1> HIDE DEF new
  <1>7. /\ played' \in Seq(HistoryType) /\ Len(played') = Len(played) + Len(playPipe)
        /\ \A k \in 1..Len(played) : played'[k] = played[k]
        /\ \A k \in 1..Len(playPipe) : played'[Len(played) + k] = new[k]
    <2>1. /\ played \o new \in Seq(HistoryType) /\ Len(played \o new) = Len(played) + Len(new)
          /\ \A k \in 1..Len(played) : (played \o new)[k] = played[k]
          /\ \A k \in 1..Len(new) : (played \o new)[Len(played) + k] = new[k]
      <3>1. played \in Seq(HistoryType) /\ new \in Seq(HistoryType)
        BY <1>2, <1>5
      <3> HIDE DEF HistoryType, offset
      <3> QED
        BY <3>1, ConcatElements
    <2>2. played' = played \o new /\ Len(new) = Len(playPipe)
      BY <1>1, <1>5
    <2>3. \A k \in 1..Len(playPipe) : (played \o new)[Len(played) + k] = new[k]
      <3> DEFINE n == Len(new)
                 s == played \o new
      <3>1. \A k \in 1..n : s[Len(played) + k] = new[k]
        BY <2>1
      <3>2. n = Len(playPipe)
        BY <2>2
      <3> HIDE DEF n, s
      <3>3. \A k \in 1..Len(playPipe) : s[Len(played) + k] = new[k]
        BY <3>1, <3>2
      <3> QED
        BY <3>3 DEF s
    <2> DEFINE s == played \o new
    <2>4. s = played'
      BY <2>2
    <2>5. /\ s \in Seq(HistoryType) /\ Len(s) = Len(played) + Len(playPipe)
          /\ \A k \in 1..Len(played) : s[k] = played[k]
          /\ \A k \in 1..Len(playPipe) : s[Len(played) + k] = new[k]
      BY <2>1, <2>2, <2>3
    <2> HIDE DEF HistoryType, offset, s
    <2> QED
      BY <2>4, <2>5
  <1>8. FilesTypeInv'
    <2>1. now' \in Nat /\ now' >= recStart' /\ playOffset' \in Nat
      BY <1>1, <1>2
    <2>2. playPipe' \in Seq(RecordType)
      BY <1>1
    <2> QED
      BY <1>1, <1>7, <2>1, <2>2 DEF FilesInv, FilesTypeInv
  <1>9. recStart # 0 => offset = playStart /\ playStart # 0
    BY <1>1, <1>2 DEF FilesInv, PlayerInv
  <1>a. RecorderInv' /\ PlayerInv' /\ TakenInv'
    <2>1. RecorderInv'
      BY <1>1 DEF FilesInv, RecorderInv, Match
    <2>2. PlayerInv'
      BY <1>1, <1>9 DEF FilesInv, PlayerInv
    <2>3. TakenInv'
      BY <1>1 DEF FilesInv, TakenInv, OnlyRefusedMissing
    <2> QED
      BY <2>1, <2>2, <2>3
  <1>b. PlayedInv'
    <2> SUFFICES ASSUME recStart # 0 PROVE PlayedInv'
      BY <1>1 DEF PlayedInv
    <2>1. /\ \/ Len(played) + Len(playPipe) = Len(taken)
             \/ eof /\ Len(played) + Len(playPipe) = Len(taken) + 1
          /\ \A k \in 1..Len(played) :
                IF k <= Len(taken)
                THEN /\ played[k].id = file[taken[k]].id
                     /\ played[k].time - playStart = file[taken[k]].time
                ELSE played[k].id = 0
          /\ \A j \in 1..Len(playPipe) :
                IF Len(played) + j <= Len(taken) THEN playPipe[j] = file[taken[Len(played) + j]]
                ELSE playPipe[j].id = 0
      BY DEF FilesInv, PlayedInv
    <2>2. ASSUME NEW k \in 1..Len(played')
          PROVE  IF k <= Len(taken)
                 THEN /\ played'[k].id = file[taken[k]].id
                      /\ played'[k].time - playStart = file[taken[k]].time
                 ELSE played'[k].id = 0
      <3>1. CASE k \in 1..Len(played)
        BY <1>7, <2>1, <3>1
      <3>2. CASE k \notin 1..Len(played)
        <4>1. PICK j \in 1..Len(playPipe) : k = Len(played) + j
          <5>1. k - Len(played) \in 1..Len(playPipe)
            <6>1. /\ Len(played') = Len(played) + Len(playPipe) /\ Len(played) \in Nat
                  /\ Len(playPipe) \in Nat
              BY <1>2, <1>3, <1>7
            <6> QED
              BY <3>2, <6>1
          <5>2. k = Len(played) + (k - Len(played))
            BY <1>2
          <5> QED
            BY <5>1, <5>2
        <4>2. played'[k].id = playPipe[j].id /\ played'[k].time = playPipe[j].time + playStart
          BY <1>6, <1>7, <1>9, <4>1
        <4>3. CASE k <= Len(taken)
          <5>1. playPipe[j] = file[taken[k]] /\ playPipe[j].time \in Int
            BY <1>4, <2>1, <4>1, <4>3
          <5>2. playStart \in Nat
            BY <1>2
          <5>3. played'[k].id = file[taken[k]].id
            BY <4>2, <5>1
          <5>4. played'[k].time - playStart = file[taken[k]].time
            BY <4>2, <5>1, <5>2
          <5> QED
            BY <4>3, <5>3, <5>4
        <4>4. CASE ~(k <= Len(taken))
          BY <2>1, <4>1, <4>2, <4>4
        <4> QED
          BY <4>3, <4>4
      <3> QED
        BY <3>1, <3>2
    <2>3. Len(playPipe') = 0 /\ Len(played') + Len(playPipe') = Len(played) + Len(playPipe)
      BY <1>1, <1>2, <1>3, <1>7
    <2> QED
      BY <1>1, <2>1, <2>2, <2>3 DEF PlayedInv
  <1> HIDE DEF offset
  <1> QED
    BY <1>8, <1>a, <1>b DEF FilesInv

\* Every step of recorder and player keeps the invariant.
LEMMA NextKeepsFiles == FilesInv /\ [FilesNext]_filesVars => FilesInv'
  <1> SUFFICES ASSUME FilesInv, [FilesNext]_filesVars PROVE FilesInv'
    OBVIOUS
  <1>1. CASE UNCHANGED filesVars
    BY <1>1 DEF filesVars, FilesInv, FilesTypeInv, RecorderInv, PlayerInv, TakenInv,
                OnlyRefusedMissing, PlayedInv, Match
  <1> QED
    BY <1>1, RecordKeeps, WriteFileKeeps, StartPlayingKeeps, ReadFileKeeps, ReadEndKeeps,
       PlayPeriodKeeps DEF FilesNext

-----------------------------------------------------------------------------
(* The theorems. *)

\* Recorder, file and player are in step in every behaviour.
THEOREM FilesInvariant == FilesSpec => []FilesInv
  BY InitFiles, NextKeepsFiles, PTL DEF FilesSpec

\* mod_write.c:62-106, mod_read.c:29-99: for any recording that does not start at
\* frame time 0 and any pipe, the player hands the host what it took from the
\* file, in its order, each event as long after its start as it was executed
\* after the recorder's.
THEOREM ReplayIsFaithful == FilesSpec => []ReplayKeepsIntervals
  <1>1. ASSUME FilesInv PROVE ReplayKeepsIntervals
    <2> SUFFICES ASSUME recStart # 0, NEW k \in DOMAIN played
                 PROVE  IF k <= Len(taken)
                        THEN /\ taken[k] <= Len(recorded) /\ played[k].id = recorded[taken[k]].id
                             /\ played[k].time - playStart = recorded[taken[k]].time - recStart
                        ELSE played[k].id = 0
      BY DEF ReplayKeepsIntervals
    <2>1. /\ k \in 1..Len(played) /\ at \in Nat /\ at <= Len(file) /\ Len(file) \in Nat
          /\ Len(taken) \in Nat
      <3>1. at \in Nat /\ file \in Seq(RecordType) /\ taken \in Seq(Nat) /\ played \in Seq(HistoryType)
        BY <1>1 DEF FilesInv, FilesTypeInv
      <3>2. at <= Len(file)
        BY <1>1 DEF FilesInv, PlayerInv
      <3>3. DOMAIN played = 1..Len(played)
        BY <3>1
      <3> QED
        BY <3>1, <3>2, <3>3
    <2>2. IF k <= Len(taken)
          THEN /\ played[k].id = file[taken[k]].id
               /\ played[k].time - playStart = file[taken[k]].time
          ELSE played[k].id = 0
      BY <1>1, <2>1 DEF FilesInv, PlayedInv
    <2>3. ASSUME k <= Len(taken)
          PROVE  taken[k] <= Len(recorded) /\ Match(file[taken[k]], recorded[taken[k]])
      <3>1. k \in 1..Len(taken)
        BY <2>1, <2>3
      <3>2. taken[k] \in 1..at
        BY <1>1, <3>1 DEF FilesInv, TakenInv
      <3>3. taken[k] \in 1..Len(file)
        BY <2>1, <3>2
      <3> QED
        BY <1>1, <3>3 DEF FilesInv, RecorderInv
    <2> QED
      BY <2>2, <2>3 DEF Match
  <1> QED
    BY <1>1, FilesInvariant, PTL

\* mod_read.c:77-96: for any sizes and any pipe the player takes every record of
\* the file, once and in its order, but bundles and records that are larger than
\* what its loop waits for.
THEOREM OthersAreTaken == FilesSpec => []OnlyRefusedMissing
  <1>1. FilesInv => OnlyRefusedMissing
    BY DEF FilesInv, TakenInv
  <1> QED
    BY <1>1, FilesInvariant, PTL

-----------------------------------------------------------------------------
(* The ports. *)

HIDE DEF FilesAssumption

-----------------------------------------------------------------------------
(* Control values: what a queue of events plays. *)

CvEvent == [time : Int, value : Values]

\* The value at the time t, when it was v and these events are to come.
At(q, t) == {k \in 1 .. Len(q) : q[k].time <= t}
Playing(q, v, t) == IF At(q, t) = {} THEN v ELSE q[Max(At(q, t))].value

\* A set of numbers up to n has a largest one.
LEMMA Largest ==
    ASSUME NEW n \in Nat, NEW S \in SUBSET (0 .. n), S # {}
    PROVE  Max(S) \in S /\ \A x \in S : Max(S) >= x
  <1> DEFINE T == {m \in 0 .. n : \A U \in SUBSET (0 .. m) : U # {} => \E x \in U : \A y \in U : x >= y}
  <1>1. 0 \in T
    <2>1. \A U \in SUBSET (0 .. 0) : \A x, y \in U : x >= y
      OBVIOUS
    <2>2. 0 \in 0 .. n
      OBVIOUS
    <2> QED  BY <2>1, <2>2
  <1>2. ASSUME NEW m \in 1 .. n, m - 1 \in T PROVE m \in T
    <2>1. ASSUME NEW U \in SUBSET (0 .. m), U # {} PROVE \E x \in U : \A y \in U : x >= y
      <3>1. CASE m \in U
        BY <3>1
      <3>2. CASE m \notin U
        <4>1. U \in SUBSET (0 .. m - 1)
          BY <3>2
        <4> QED  BY <1>2, <2>1, <4>1
      <3> QED  BY <3>1, <3>2
    <2> QED  BY <2>1
  <1> HIDE DEF T
  <1>3. n \in T
    <2>1. \A k \in 0 .. n : k \in T
      BY <1>1, <1>2, UpTo
    <2> QED  BY <2>1
  <1>4. \E x \in S : \A y \in S : x >= y
    BY <1>3 DEF T
  <1> QED  BY <1>4 DEF Max

\* The largest element is known by what it is.
LEMMA LargestIs ==
    ASSUME NEW n \in Nat, NEW S \in SUBSET (0 .. n), NEW x \in S, \A y \in S : x >= y
    PROVE  Max(S) = x
  <1>1. Max(S) \in S /\ Max(S) >= x
    BY Largest
  <1> DEFINE m == Max(S)
  <1>2. x >= m /\ x \in Int /\ m \in Int
    <2>1. m \in S /\ S \subseteq 0 .. n
      BY <1>1
    <2> HIDE DEF m
    <2>2. m \in 0 .. n /\ x \in 0 .. n /\ x >= m
      BY <2>1
    <2> QED  BY <2>2
  <1>3. m >= x /\ x >= m /\ m \in Int /\ x \in Int
    BY <1>1, <1>2
  <1> HIDE DEF m
  <1>4. m = x
    BY <1>3
  <1> QED  BY <1>4 DEF m

\* What plays is the value of an event that has passed, or the old value.
LEMMA PlayingIs ==
    ASSUME NEW q \in Seq(CvEvent), NEW v, NEW t \in Int
    PROVE  \/ At(q, t) = {} /\ Playing(q, v, t) = v
           \/ \E k \in 1 .. Len(q) : /\ q[k].time <= t /\ Playing(q, v, t) = q[k].value
                                     /\ \A j \in 1 .. Len(q) : q[j].time <= t => j <= k
  <1>1. CASE At(q, t) = {}
    BY <1>1 DEF Playing
  <1>2. CASE At(q, t) # {}
    <2> DEFINE n == Len(q)
               S == At(q, t)
    <2>1. n \in Nat /\ S \in SUBSET (0 .. n)
      BY DEF At
    <2> HIDE DEF n, S
    <2>2. Max(S) \in S /\ \A x \in S : Max(S) >= x
      BY <1>2, <2>1, Largest DEF S
    <2>3. Playing(q, v, t) = q[Max(S)].value
      BY <1>2 DEF Playing, S
    <2>4. \A j \in 1 .. n : q[j].time <= t => j \in S
      BY DEF S, At, n
    <2>5. q[Max(S)].time <= t /\ Max(S) \in 1 .. n
      BY <2>2 DEF S, At, n
    <2>6. \A j \in 1 .. n : q[j].time <= t => j <= Max(S)
      BY <2>2, <2>4, <2>5
    <2> QED  BY <2>3, <2>5, <2>6 DEF n
  <1> QED  BY <1>1, <1>2

\* The value of the last event that has passed plays.
LEMMA PlayingLast ==
    ASSUME NEW q \in Seq(CvEvent), NEW v, NEW t \in Int, NEW k \in 1 .. Len(q), q[k].time <= t,
           \A j \in 1 .. Len(q) : q[j].time <= t => j <= k
    PROVE  Playing(q, v, t) = q[k].value
  <1> DEFINE n == Len(q)
             S == At(q, t)
  <1>1. n \in Nat /\ S \in SUBSET (0 .. n) /\ k \in S /\ \A y \in S : k >= y
    BY DEF At
  <1> HIDE DEF n, S
  <1>2. Max(S) = k
    BY <1>1, LargestIs
  <1> QED  BY <1>1, <1>2 DEF S, Playing

\* Nothing has passed.
LEMMA PlayingNone ==
    ASSUME NEW q \in Seq(CvEvent), NEW v, NEW t \in Int, \A j \in 1 .. Len(q) : q[j].time > t
    PROVE  Playing(q, v, t) = v
  <1>1. At(q, t) = {}
    <2>1. ASSUME NEW j \in 1 .. Len(q) PROVE ~(q[j].time <= t)
      <3>1. q[j] \in CvEvent /\ q[j].time > t
        OBVIOUS
      <3> QED  BY <3>1 DEF CvEvent
    <2> QED  BY <2>1 DEF At
  <1> QED  BY <1>1 DEF Playing

\* Events behind others.
LEMMA PlayingConcat ==
    ASSUME NEW q \in Seq(CvEvent), NEW r \in Seq(CvEvent), NEW v, NEW t \in Int
    PROVE  Playing(q \o r, v, t) = Playing(r, Playing(q, v, t), t)
  <1> DEFINE s == q \o r
             w == Playing(q, v, t)
  <1>1. /\ s \in Seq(CvEvent) /\ Len(s) = Len(q) + Len(r) /\ Len(q) \in Nat /\ Len(r) \in Nat
        /\ \A i \in 1 .. Len(q) : s[i] = q[i]
        /\ \A i \in 1 .. Len(r) : s[Len(q) + i] = r[i]
    <2> HIDE DEF CvEvent
    <2> QED  OBVIOUS
  <1> HIDE DEF s, w
  <1>2. \A i \in 1 .. Len(s) : i \in 1 .. Len(q) \/ (i - Len(q) \in 1 .. Len(r) /\ i = Len(q) + (i - Len(q)))
    BY <1>1
  <1>3. CASE At(r, t) # {}
    <2>1. PICK k \in 1 .. Len(r) : /\ r[k].time <= t /\ Playing(r, w, t) = r[k].value
                                   /\ \A j \in 1 .. Len(r) : r[j].time <= t => j <= k
      BY <1>3, PlayingIs
    <2> DEFINE m == Len(q) + k
    <2>2. m \in 1 .. Len(s) /\ s[m] = r[k]
      BY <1>1
    <2>3. ASSUME NEW j \in 1 .. Len(s), s[j].time <= t PROVE j <= m
      <3>1. CASE j \in 1 .. Len(q)
        BY <1>1, <3>1
      <3>2. CASE j - Len(q) \in 1 .. Len(r) /\ j = Len(q) + (j - Len(q))
        <4>1. s[j] = r[j - Len(q)]
          BY <1>1, <3>2
        <4>2. j - Len(q) <= k
          BY <2>1, <2>3, <3>2, <4>1
        <4> QED  BY <1>1, <4>2
      <3> QED  BY <1>2, <3>1, <3>2
    <2> HIDE DEF m
    <2>4. Playing(s, v, t) = s[m].value
      BY <1>1, <2>1, <2>2, <2>3, PlayingLast
    <2> QED  BY <2>1, <2>2, <2>4 DEF s, w
  <1>4. CASE At(r, t) = {}
    <2>1. \A j \in 1 .. Len(r) : ~(r[j].time <= t)
      BY <1>4 DEF At
    <2>2. Playing(r, w, t) = w
      BY <1>4 DEF Playing
    <2>3. At(s, t) = At(q, t) /\ \A k \in At(q, t) : s[k] = q[k]
      <3>1. ASSUME NEW k \in At(s, t) PROVE k \in At(q, t)
        <4>1. k \in 1 .. Len(s) /\ s[k].time <= t
          BY DEF At
        <4>2. CASE k \in 1 .. Len(q)
          BY <1>1, <4>1, <4>2 DEF At
        <4>3. CASE k - Len(q) \in 1 .. Len(r) /\ k = Len(q) + (k - Len(q))
          <5>1. s[k] = r[k - Len(q)]
            BY <1>1, <4>3
          <5> QED  BY <2>1, <4>1, <4>3, <5>1
        <4> QED  BY <1>2, <4>1, <4>2, <4>3
      <3>2. ASSUME NEW k \in At(q, t) PROVE k \in At(s, t) /\ s[k] = q[k]
        <4>1. k \in 1 .. Len(q) /\ q[k].time <= t
          BY DEF At
        <4> QED  BY <1>1, <4>1 DEF At
      <3> QED  BY <3>1, <3>2
    <2>4. At(q, t) # {} => Max(At(q, t)) \in At(q, t)
      <3>1. Len(q) \in Nat /\ At(q, t) \in SUBSET (0 .. Len(q))
        BY <1>1 DEF At
      <3> QED  BY <3>1, Largest
    <2>5. Playing(s, v, t) = Playing(q, v, t)
      BY <2>3, <2>4 DEF Playing
    <2> QED  BY <2>2, <2>5 DEF s, w
  <1> QED  BY <1>3, <1>4

\* One event behind others.
LEMMA PlayingAppend ==
    ASSUME NEW q \in Seq(CvEvent), NEW e \in CvEvent, NEW v, NEW t \in Int
    PROVE  Playing(Append(q, e), v, t) = IF e.time <= t THEN e.value ELSE Playing(q, v, t)
  <1> DEFINE r == <<e>>
             w == Playing(q, v, t)
  <1>1. r \in Seq(CvEvent) /\ Len(r) = 1 /\ r[1] = e
    <2> HIDE DEF CvEvent
    <2> QED  OBVIOUS
  <1>2. Append(q, e) = q \o r
    <2> HIDE DEF CvEvent
    <2> QED  BY AppendIsConcat
  <1> HIDE DEF r, w
  <1>3. Playing(q \o r, v, t) = Playing(r, w, t)
    BY <1>1, PlayingConcat DEF w
  <1>4. CASE e.time <= t
    <2>1. Playing(r, w, t) = r[1].value
      <3>1. 1 \in 1 .. Len(r) /\ r[1].time <= t /\ \A j \in 1 .. Len(r) : r[j].time <= t => j <= 1
        BY <1>1, <1>4
      <3> QED  BY <1>1, <3>1, PlayingLast
    <2> QED  BY <1>1, <1>2, <1>3, <1>4, <2>1
  <1>5. CASE ~(e.time <= t)
    <2>1. At(r, t) = {}
      BY <1>1, <1>5 DEF At
    <2> QED  BY <1>2, <1>3, <1>5, <2>1 DEF Playing, w
  <1> QED  BY <1>4, <1>5

\* Events that a script passes on later.
LEMMA PlayingDelayed ==
    ASSUME NEW q \in Seq(CvEvent), NEW v, NEW t \in Int, delay \in Nat
    PROVE  /\ Delayed(q) \in Seq(CvEvent) /\ Len(Delayed(q)) = Len(q)
           /\ \A k \in 1 .. Len(q) : /\ Delayed(q)[k].time = q[k].time + delay
                                     /\ Delayed(q)[k].value = q[k].value
           /\ Playing(Delayed(q), v, t) = Playing(q, v, t - delay)
  <1> DEFINE d == [k \in 1 .. Len(q) |-> [q[k] EXCEPT !.time = @ + delay]]
  <1>0. Delayed(q) = d /\ Len(q) \in Nat /\ \A k \in 1 .. Len(q) : q[k] \in CvEvent
    BY DEF Delayed
  <1>1. \A k \in 1 .. Len(q) : /\ d[k] \in CvEvent /\ d[k].time = q[k].time + delay
                               /\ d[k].value = q[k].value /\ q[k].time \in Int
    <2>1. TAKE k \in 1 .. Len(q)
    <2>2. q[k] \in CvEvent
      BY <1>0
    <2>3. d[k] = [q[k] EXCEPT !.time = @ + delay]
      OBVIOUS
    <2> HIDE DEF d
    <2> QED  BY <2>2, <2>3 DEF CvEvent
  <1>2. d \in Seq(CvEvent) /\ Len(d) = Len(q)
    <2>1. \A k \in 1 .. Len(q) : d[k] \in CvEvent
      BY <1>1
    <2>2. d \in [1 .. Len(q) -> CvEvent]
      <3> HIDE DEF CvEvent
      <3> QED  BY <2>1
    <2> HIDE DEF d, CvEvent
    <2> QED  BY <1>0, <2>2, SeqDef
  <1> HIDE DEF d
  <1>3. At(d, t) = At(q, t - delay)
    <2>1. \A k \in 1 .. Len(q) : d[k].time <= t <=> q[k].time <= t - delay
      BY <1>1
    <2> QED  BY <1>2, <2>1 DEF At
  <1>4. At(q, t - delay) # {} => Max(At(q, t - delay)) \in 1 .. Len(q)
    <2> DEFINE S == At(q, t - delay)
               n == Len(q)
    <2>1. S \in SUBSET (0 .. n) /\ S \subseteq 1 .. n /\ n \in Nat
      BY <1>0 DEF At
    <2> HIDE DEF S, n
    <2>2. S # {} => Max(S) \in S
      BY <2>1, Largest
    <2> QED  BY <2>1, <2>2 DEF S, n
  <1>5. Playing(d, v, t) = Playing(q, v, t - delay)
    BY <1>1, <1>3, <1>4 DEF Playing
  <1> QED  BY <1>0, <1>1, <1>2, <1>5

-----------------------------------------------------------------------------
(* Control values: what cv_in makes of a period. *)

\* The events that the first i samples of buf have become.
Heard(buf, i, evs) ==
    /\ evs \in Seq(CvEvent)
    /\ \A k \in 1 .. Len(evs) : last <= evs[k].time /\ evs[k].time < last + i
    /\ \A j, k \in 1 .. Len(evs) : j <= k => evs[j].time <= evs[k].time
    /\ \A t \in 0 .. i - 1 : Playing(evs, cvIn, last + t) = buf[t]
    /\ \A t \in Nat : t >= i =>
          Playing(evs, cvIn, last + t) = IF i = 0 THEN cvIn ELSE buf[i - 1]

\* One more sample.
LEMMA StepHeard ==
    ASSUME NEW buf \in [Frames -> Values], NEW i \in 1 .. NFrames, NEW evs,
           last \in Nat, cvIn \in Values, Heard(buf, i - 1, evs)
    PROVE  CvStep(buf, evs, i) \in Seq(CvEvent) /\ Heard(buf, i, CvStep(buf, evs, i))
  <1> DEFINE before == IF i = 1 THEN cvIn ELSE buf[i - 2]
             e == [time |-> last + i - 1, value |-> buf[i - 1]]
  <1>0. /\ NFrames \in Nat /\ i \in Nat /\ i >= 1 /\ i <= NFrames
    BY PortsAssumption DEF PortsAssumption
  <1>1. /\ evs \in Seq(CvEvent) /\ Len(evs) \in Nat
        /\ \A k \in 1 .. Len(evs) : last <= evs[k].time /\ evs[k].time < last + (i - 1)
        /\ \A j, k \in 1 .. Len(evs) : j <= k => evs[j].time <= evs[k].time
        /\ \A t \in 0 .. (i - 1) - 1 : Playing(evs, cvIn, last + t) = buf[t]
        /\ \A t \in Nat : t >= i - 1 => Playing(evs, cvIn, last + t) = before
    <2>1. i - 1 = 0 <=> i = 1
      BY <1>0
    <2>2. (i - 1) - 1 = i - 2
      BY <1>0
    <2> QED  BY <2>1, <2>2 DEF Heard
  <1>2. e \in CvEvent /\ e.time = last + i - 1 /\ e.value = buf[i - 1] /\ e.time \in Int
    <2>1. i - 1 \in Frames
      BY <1>0 DEF Frames
    <2>2. buf[i - 1] \in Values
      BY <2>1
    <2>3. last + i - 1 \in Int
      BY <1>0
    <2> QED  BY <2>2, <2>3 DEF CvEvent
  <1>k. \A k \in 1 .. Len(evs) : evs[k].time \in Int
    <2>1. TAKE k \in 1 .. Len(evs)
    <2>2. evs[k] \in CvEvent
      BY <1>1
    <2> QED  BY <2>2 DEF CvEvent
  <1> HIDE DEF e, before
  <1>3. CASE buf[i - 1] # before
    <2> DEFINE r == Append(evs, e)
    <2>1. /\ r \in Seq(CvEvent) /\ Len(r) = Len(evs) + 1 /\ r[Len(evs) + 1] = e
          /\ \A k \in 1 .. Len(evs) : r[k] = evs[k]
      <3> HIDE DEF CvEvent
      <3> QED  BY <1>1, <1>2
    <2>2. \A t \in Int : Playing(r, cvIn, t) = IF e.time <= t THEN e.value ELSE Playing(evs, cvIn, t)
      BY <1>1, <1>2, PlayingAppend
    <2> HIDE DEF r
    <2>3. \A k \in 1 .. Len(r) : k \in 1 .. Len(evs) \/ k = Len(evs) + 1
      BY <1>1, <2>1
    <2>4. ASSUME NEW k \in 1 .. Len(r) PROVE last <= r[k].time /\ r[k].time < last + i
      <3>1. CASE k \in 1 .. Len(evs)
        <4>1. last <= evs[k].time /\ evs[k].time < last + (i - 1) /\ r[k] = evs[k] /\ evs[k].time \in Int
          BY <1>1, <1>k, <2>1, <3>1
        <4> QED  BY <1>0, <4>1
      <3>2. CASE k = Len(evs) + 1
        BY <1>0, <1>2, <2>1, <3>2
      <3> QED  BY <2>3, <3>1, <3>2
    <2>5. ASSUME NEW j \in 1 .. Len(r), NEW k \in 1 .. Len(r), j <= k PROVE r[j].time <= r[k].time
      <3>1. CASE k \in 1 .. Len(evs)
        <4>1. j \in 1 .. Len(evs)
          BY <2>1, <2>5, <3>1
        <4> QED  BY <1>1, <2>1, <2>5, <3>1, <4>1
      <3>2. CASE k = Len(evs) + 1 /\ j \in 1 .. Len(evs)
        <4>1. r[j].time < last + (i - 1) /\ r[k].time = last + i - 1 /\ r[j].time \in Int
          BY <1>1, <1>2, <1>k, <2>1, <3>2
        <4> QED  BY <1>0, <4>1
      <3>3. CASE k = Len(evs) + 1 /\ j = Len(evs) + 1
        BY <1>2, <2>1, <3>3
      <3> QED  BY <2>3, <3>1, <3>2, <3>3
    <2>6. ASSUME NEW t \in 0 .. i - 1 PROVE Playing(r, cvIn, last + t) = buf[t]
      <3>1. last + t \in Int /\ (e.time <= last + t <=> t = i - 1)
        BY <1>0, <1>2
      <3>2. CASE t = i - 1
        BY <1>2, <2>2, <3>1, <3>2
      <3>3. CASE t # i - 1
        <4>1. t \in 0 .. (i - 1) - 1
          BY <1>0, <3>3
        <4>2. Playing(evs, cvIn, last + t) = buf[t]
          BY <1>1, <4>1
        <4> QED  BY <2>2, <3>1, <3>3, <4>2
      <3> QED  BY <3>2, <3>3
    <2>7. ASSUME NEW t \in Nat, t >= i PROVE Playing(r, cvIn, last + t) = buf[i - 1]
      <3>1. last + t \in Int /\ e.time <= last + t
        BY <1>0, <1>2, <2>7
      <3> QED  BY <1>2, <2>2, <3>1
    <2>8. Heard(buf, i, r)
      <3>1. \A t \in Nat : t >= i => Playing(r, cvIn, last + t) = IF i = 0 THEN cvIn ELSE buf[i - 1]
        BY <1>0, <2>7
      <3> QED  BY <2>1, <2>4, <2>5, <2>6, <3>1 DEF Heard
    <2> QED  BY <1>3, <2>1, <2>8 DEF CvStep, before, e, r
  <1>4. CASE buf[i - 1] = before
    <2>1. \A k \in 1 .. Len(evs) : last <= evs[k].time /\ evs[k].time < last + i
      <3>1. TAKE k \in 1 .. Len(evs)
      <3>2. last <= evs[k].time /\ evs[k].time < last + (i - 1) /\ evs[k].time \in Int
        BY <1>1, <1>k
      <3> QED  BY <1>0, <3>2
    <2>2. ASSUME NEW t \in 0 .. i - 1 PROVE Playing(evs, cvIn, last + t) = buf[t]
      <3>1. t \in 0 .. (i - 1) - 1 \/ (t = i - 1 /\ t \in Nat /\ t >= i - 1)
        BY <1>0
      <3> QED  BY <1>1, <1>4, <3>1
    <2>3. ASSUME NEW t \in Nat, t >= i PROVE Playing(evs, cvIn, last + t) = buf[i - 1]
      <3>1. t >= i - 1
        BY <1>0, <2>3
      <3> QED  BY <1>1, <1>4, <3>1
    <2>4. Heard(buf, i, evs)
      <3>1. \A t \in Nat : t >= i => Playing(evs, cvIn, last + t) = IF i = 0 THEN cvIn ELSE buf[i - 1]
        BY <1>0, <2>3
      <3> QED  BY <1>1, <2>1, <2>2, <3>1 DEF Heard
    <2>5. CvStep(buf, evs, i) = evs
      BY <1>4 DEF CvStep, before
    <2> QED  BY <1>1, <2>4, <2>5
  <1> QED  BY <1>3, <1>4

\* The type of what one turn of the loop makes.
LEMMA StepType ==
    ASSUME NEW buf \in [Frames -> Values], NEW i \in 1 .. NFrames, NEW evs \in Seq(CvEvent),
           last \in Nat
    PROVE  CvStep(buf, evs, i) \in Seq(CvEvent)
  <1> DEFINE e == [time |-> last + i - 1, value |-> buf[i - 1]]
  <1>1. e \in CvEvent
    <2>1. i - 1 \in Frames /\ last + i - 1 \in Int
      BY PortsAssumption DEF PortsAssumption, Frames
    <2>2. buf[i - 1] \in Values
      BY <2>1
    <2> QED  BY <2>1, <2>2 DEF CvEvent
  <1>2. Append(evs, e) \in Seq(CvEvent)
    <2> HIDE DEF e, CvEvent
    <2> QED  BY <1>1
  <1> QED  BY <1>2 DEF CvStep

\* What cv_in makes of a period.
LEMMA CvInHeard ==
    ASSUME NEW buf \in [Frames -> Values], last \in Nat, cvIn \in Values
    PROVE  Heard(buf, NFrames, CvIn(buf))
  <1> DEFINE n == NFrames
             S == Seq(CvEvent)
             g == [k \in 1 .. n |-> [x \in S |-> CvStep(buf, x, k)]]
             heard == CHOOSE f : f = [i \in 0 .. n |-> IF i = 0 THEN << >> ELSE CvStep(buf, f[i - 1], i)]
  <1>0. n \in Nat /\ << >> \in S
    BY PortsAssumption DEF PortsAssumption
  <1>1. g \in [1 .. n -> [S -> S]]
    <2>1. ASSUME NEW k \in 1 .. n, NEW x \in S PROVE CvStep(buf, x, k) \in S
      BY StepType
    <2> HIDE DEF S
    <2> QED  BY <2>1
  <1>2. \A x \in S : \A k \in 1 .. n : g[k][x] = CvStep(buf, x, k)
    <2> HIDE DEF S
    <2> QED  OBVIOUS
  <1> HIDE DEF g, S, n
  <1>3. PICK h \in [0 .. n -> S] : h[0] = << >> /\ \A k \in 1 .. n : h[k] = g[k][h[k - 1]]
    <2> DEFINE b == << >>
    <2>1. b \in S
      BY <1>0
    <2> HIDE DEF b
    <2>2. \E h \in [0 .. n -> S] : Recurs(h, n, b, g)
      BY <1>0, <1>1, <2>1, RecursionExists
    <2> QED  BY <2>2 DEF b, Recurs
  <1>4. \A k \in 1 .. n : h[k - 1] \in S /\ h[k] = CvStep(buf, h[k - 1], k)
    <2>1. TAKE k \in 1 .. n
    <2>2. k - 1 \in 0 .. n
      BY <1>0
    <2>3. h[k - 1] \in S
      BY <2>2
    <2> QED  BY <1>2, <1>3, <2>3
  <1>5. h = [i \in 0 .. n |-> IF i = 0 THEN << >> ELSE CvStep(buf, h[i - 1], i)]
    <2>1. \A i \in 0 .. n : h[i] = IF i = 0 THEN << >> ELSE CvStep(buf, h[i - 1], i)
      <3>1. TAKE i \in 0 .. n
      <3>2. i = 0 \/ i \in 1 .. n
        BY <1>0
      <3> QED  BY <1>3, <1>4, <3>2
    <2> QED  BY <2>1
  <1>6. heard = [i \in 0 .. n |-> IF i = 0 THEN << >> ELSE CvStep(buf, heard[i - 1], i)]
    <2>1. \E f : f = [i \in 0 .. n |-> IF i = 0 THEN << >> ELSE CvStep(buf, f[i - 1], i)]
      BY <1>5
    <2> QED  BY <2>1
  <1>7. CvIn(buf) = heard[n]
    BY DEF CvIn, n
  <1> HIDE DEF heard
  <1>8. heard[0] = << >> /\ \A k \in 1 .. n : heard[k] = CvStep(buf, heard[k - 1], k)
    <2>1. 0 \in 0 .. n /\ \A k \in 1 .. n : k \in 0 .. n /\ k # 0
      BY <1>0
    <2> QED  BY <1>6, <2>1
  <1> DEFINE T == {i \in 0 .. n : Heard(buf, i, heard[i])}
  <1>9. 0 \in T
    <2>1. \A t \in Int : Playing(<< >>, cvIn, t) = cvIn
      BY DEF Playing, At
    <2>2. Heard(buf, 0, << >>)
      BY <1>0, <2>1 DEF Heard, S
    <2> QED  BY <1>0, <1>8, <2>2
  <1>10. ASSUME NEW k \in 1 .. n, k - 1 \in T PROVE k \in T
    <2>1. Heard(buf, k - 1, heard[k - 1])
      BY <1>10
    <2>2. Heard(buf, k, CvStep(buf, heard[k - 1], k))
      BY <2>1, StepHeard DEF n
    <2> QED  BY <1>0, <1>8, <2>2
  <1> HIDE DEF T
  <1>11. \A k \in 0 .. n : k \in T
    BY <1>0, <1>9, <1>10, UpTo
  <1>12. n \in T
    BY <1>0, <1>11
  <1> QED  BY <1>7, <1>12 DEF T, n

-----------------------------------------------------------------------------
(* What is due in a period, and what is left. *)

\* Events in the order of their times.
Ordered(q) == \A j, k \in 1 .. Len(q) : j <= k => q[j].time <= q[k].time

\* The loop over a queue splits it where the next period begins.
LEMMA DueSplits ==
    ASSUME NEW E, NEW q \in Seq(E), \A k \in 1 .. Len(q) : q[k].time \in Int, last \in Nat
    PROVE  /\ Due(q) \in Seq(E) /\ Rest(q) \in Seq(E) /\ q = Due(q) \o Rest(q)
           /\ \A k \in 1 .. Len(Due(q)) : Due(q)[k] = q[k] /\ q[k].time < last + NFrames
           /\ Len(Due(q)) \in Nat /\ Len(Due(q)) <= Len(q) /\ Len(Rest(q)) = Len(q) - Len(Due(q))
           /\ \A k \in 1 .. Len(Rest(q)) : Rest(q)[k] = q[Len(Due(q)) + k]
           /\ Ordered(q) => \A k \in 1 .. Len(Rest(q)) : Rest(q)[k].time >= last + NFrames
  <1> DEFINE n == Len(q)
             S == {k \in 0 .. n : \A j \in 1 .. k : q[j].time < last + NFrames}
             c == DueCount(q)
  <1>0. n \in Nat /\ NFrames \in Nat
    BY PortsAssumption DEF PortsAssumption
  <1>1. c \in S /\ \A x \in S : c >= x
    <2>1. S \in SUBSET (0 .. n) /\ 0 \in S
      BY <1>0
    <2>2. c = Max(S)
      BY DEF DueCount
    <2> HIDE DEF S, c, n
    <2> QED  BY <1>0, <2>1, <2>2, Largest
  <1>2. c \in 0 .. n /\ \A k \in 1 .. c : q[k].time < last + NFrames
    <2> HIDE DEF c, n
    <2> QED  BY <1>1
  <1>3. c + 1 \in 1 .. n => ~(q[c + 1].time < last + NFrames)
    <2>1. SUFFICES ASSUME c + 1 \in 1 .. n, q[c + 1].time < last + NFrames PROVE FALSE
      OBVIOUS
    <2>2. \A j \in 1 .. c + 1 : j \in 1 .. c \/ j = c + 1
      BY <1>2
    <2>3. c + 1 \in S
      BY <1>2, <2>1, <2>2
    <2>4. c >= c + 1
      BY <1>1, <2>3
    <2> QED  BY <1>2, <2>4
  <1> DEFINE d == Due(q)
             r == Rest(q)
  <1>4. d = SubSeq(q, 1, c) /\ r = SubSeq(q, c + 1, n)
    BY DEF Due, Rest
  <1> HIDE DEF c, S
  <1>5. d \in Seq(E) /\ Len(d) = c /\ \A k \in 1 .. c : d[k] = q[k]
    <2> HIDE DEF d
    <2> QED  BY <1>2, <1>4
  <1>6. r \in Seq(E) /\ Len(r) = n - c /\ \A k \in 1 .. n - c : r[k] = q[c + k]
    <2> HIDE DEF r
    <2> QED  BY <1>2, <1>4
  <1> HIDE DEF d, r
  <1>7. q = d \o r
    <2> DEFINE s == d \o r
    <2>1. /\ s \in Seq(E) /\ Len(s) = Len(d) + Len(r)
          /\ \A k \in 1 .. Len(d) : s[k] = d[k]
      BY <1>5, <1>6, ConcatElements
    <2>2. \A i \in 1 .. Len(r) : s[Len(d) + i] = r[i]
      BY <1>5, <1>6, ConcatElements
    <2> HIDE DEF s
    <2>3. Len(s) = n
      BY <1>2, <1>5, <1>6, <2>1
    <2>4. ASSUME NEW k \in 1 .. n PROVE q[k] = s[k]
      <3>1. CASE k \in 1 .. c
        BY <1>5, <2>1, <3>1
      <3>2. CASE k \notin 1 .. c
        <4>1. k - c \in 1 .. n - c /\ k = c + (k - c)
          BY <1>2, <3>2
        <4>2. s[c + (k - c)] = r[k - c] /\ r[k - c] = q[c + (k - c)]
          BY <1>5, <1>6, <2>2, <4>1
        <4> QED  BY <4>1, <4>2
      <3> QED  BY <3>1, <3>2
    <2>5. q = s
      BY <2>1, <2>3, <2>4, SeqEqual
    <2> QED  BY <2>5 DEF s
  <1>8. ASSUME Ordered(q), NEW k \in 1 .. Len(r) PROVE r[k].time >= last + NFrames
    <2>1. c + k \in 1 .. n /\ c + 1 \in 1 .. n /\ c + 1 <= c + k /\ r[k] = q[c + k]
      BY <1>2, <1>6
    <2>2. q[c + 1].time <= q[c + k].time /\ q[c + 1].time \in Int /\ q[c + k].time \in Int
      BY <1>8, <2>1 DEF Ordered
    <2>3. ~(q[c + 1].time < last + NFrames)
      BY <1>3, <2>1
    <2> QED  BY <1>0, <2>1, <2>2, <2>3
  <1>9. Len(d) \in Nat /\ Len(d) <= n /\ Len(r) = n - Len(d) /\ Len(d) = c
    BY <1>0, <1>2, <1>5, <1>6
  <1>10. \A k \in 1 .. Len(d) : d[k] = q[k] /\ q[k].time < last + NFrames
    BY <1>2, <1>5
  <1>11. \A k \in 1 .. Len(r) : r[k] = q[Len(d) + k]
    BY <1>6, <1>9
  <1>12. Ordered(q) => \A k \in 1 .. Len(r) : r[k].time >= last + NFrames
    BY <1>8
  <1>13. d \in Seq(E) /\ r \in Seq(E)
    BY <1>5, <1>6
  <1> HIDE DEF c
  <1> QED  BY <1>7, <1>9, <1>10, <1>11, <1>12, <1>13 DEF d, r

-----------------------------------------------------------------------------
(* Control values: the invariant. *)

\* The samples that were read, and the last one for good.
Signal(s, v, t) == IF t < 0 THEN 0 ELSE IF t < Len(s) THEN s[t + 1] ELSE v

CvTypeInv ==
    /\ delay \in Nat /\ last \in Nat /\ cvIn \in Values /\ cvOut \in Values
    /\ cvQueue \in Seq(CvEvent)
    /\ samplesIn \in Seq(Values) /\ samplesOut \in Seq(Values)
    /\ Len(samplesIn) = last /\ Len(samplesOut) = last

\* The queue is in order, and with it cv_out plays what cv_in read.
CvQueueInv ==
    /\ last = 0 => cvIn = 0
    /\ Ordered(cvQueue)
    /\ \A k \in 1 .. Len(cvQueue) : cvQueue[k].time < last + delay
    /\ \A t \in Nat : t >= last =>
          Playing(cvQueue, cvOut, t) = Signal(samplesIn, cvIn, t - delay)

CvInv == CvTypeInv /\ CvQueueInv /\ CvThrough

\* At the start there is silence.
LEMMA CvStart == Init => CvInv
  <1> SUFFICES ASSUME Init PROVE CvInv
    OBVIOUS
  <1>1. /\ delay \in Nat /\ last = 0 /\ cvIn = 0 /\ cvOut = 0 /\ cvQueue = << >>
        /\ samplesIn = << >> /\ samplesOut = << >>
    BY PortsAssumption DEF Init, PortsAssumption
  <1>2. CvTypeInv
    BY <1>1, PortsAssumption DEF CvTypeInv, PortsAssumption
  <1>3. \A t : Playing(cvQueue, cvOut, t) = 0
    BY <1>1 DEF Playing, At
  <1>4. \A t \in Int : Signal(samplesIn, cvIn, t) = 0
    BY <1>1 DEF Signal
  <1>5. \A t \in Nat : Playing(cvQueue, cvOut, t) = Signal(samplesIn, cvIn, t - delay)
    BY <1>1, <1>3, <1>4
  <1>6. CvQueueInv
    BY <1>1, <1>5 DEF CvQueueInv, Ordered
  <1>7. CvThrough
    BY <1>1 DEF CvThrough
  <1> QED  BY <1>2, <1>6, <1>7 DEF CvInv

-----------------------------------------------------------------------------
(* Control values: a period. *)

\* The samples of a period as a sequence.
LEMMA Sampled ==
    ASSUME NEW f \in [Frames -> Values], NEW s \in Seq(Values)
    PROVE  LET t == s \o [k \in 1 .. NFrames |-> f[k - 1]] IN
           /\ t \in Seq(Values) /\ Len(t) = Len(s) + NFrames
           /\ \A k \in 1 .. Len(s) : t[k] = s[k]
           /\ \A i \in Frames : t[Len(s) + i + 1] = f[i]
  <1> DEFINE r == [k \in 1 .. NFrames |-> f[k - 1]]
             t == s \o r
  <1>0. NFrames \in Nat /\ Len(s) \in Nat
    BY PortsAssumption DEF PortsAssumption
  <1>1. \A k \in 1 .. NFrames : f[k - 1] \in Values
    <2>1. TAKE k \in 1 .. NFrames
    <2>2. k - 1 \in Frames
      BY <1>0 DEF Frames
    <2> QED  BY <2>2
  <1>2. r \in [1 .. NFrames -> Values]
    BY <1>1
  <1>3. r \in Seq(Values) /\ Len(r) = NFrames
    <2> HIDE DEF r
    <2> QED  BY <1>0, <1>2, SeqDef
  <1>4. \A i \in Frames : i + 1 \in 1 .. NFrames /\ r[i + 1] = f[i]
    <2>1. TAKE i \in Frames
    <2>2. i + 1 \in 1 .. NFrames /\ (i + 1) - 1 = i
      BY <1>0 DEF Frames
    <2> QED  BY <2>2
  <1> HIDE DEF r
  <1>5. /\ t \in Seq(Values) /\ Len(t) = Len(s) + Len(r)
        /\ \A k \in 1 .. Len(s) : t[k] = s[k]
        /\ \A k \in 1 .. Len(r) : t[Len(s) + k] = r[k]
    BY <1>3
  <1> HIDE DEF t
  <1>6. \A i \in Frames : t[Len(s) + i + 1] = f[i]
    <2>1. TAKE i \in Frames
    <2>2. i \in Nat /\ Len(s) + i + 1 = Len(s) + (i + 1)
      BY <1>0 DEF Frames
    <2> QED  BY <1>3, <1>4, <1>5, <2>2
  <1> QED  BY <1>3, <1>5, <1>6 DEF t, r

\* With the events of this period the queue plays what has been read, these samples
\* included.
LEMMA QueuePlays ==
    ASSUME CvInv, NEW buf \in [Frames -> Values], NEW ins,
           ins = samplesIn \o [k \in 1 .. NFrames |-> buf[k - 1]]
    PROVE  LET q == cvQueue \o Delayed(CvIn(buf)) IN
           /\ q \in Seq(CvEvent) /\ Ordered(q)
           /\ \A k \in 1 .. Len(q) : q[k].time \in Int /\ q[k].time < last + NFrames + delay
           /\ \A t \in Nat : t >= last =>
                 Playing(q, cvOut, t) = Signal(ins, buf[NFrames - 1], t - delay)
  <1> DEFINE c == CvIn(buf)
             d == Delayed(c)
             q == cvQueue \o d
             end == buf[NFrames - 1]
  <1>0. /\ NFrames \in Nat \ {0} /\ delay \in Nat /\ last \in Nat /\ cvIn \in Values
        /\ cvQueue \in Seq(CvEvent) /\ samplesIn \in Seq(Values) /\ Len(samplesIn) = last
        /\ Len(cvQueue) \in Nat
    BY PortsAssumption DEF PortsAssumption, CvInv, CvTypeInv
  <1>q. /\ last = 0 => cvIn = 0
        /\ Ordered(cvQueue) /\ \A k \in 1 .. Len(cvQueue) : cvQueue[k].time < last + delay
        /\ \A t \in Nat : t >= last =>
              Playing(cvQueue, cvOut, t) = Signal(samplesIn, cvIn, t - delay)
    BY DEF CvInv, CvQueueInv
  <1>1. /\ c \in Seq(CvEvent)
        /\ \A k \in 1 .. Len(c) : last <= c[k].time /\ c[k].time < last + NFrames
        /\ \A j, k \in 1 .. Len(c) : j <= k => c[j].time <= c[k].time
        /\ \A t \in 0 .. NFrames - 1 : Playing(c, cvIn, last + t) = buf[t]
        /\ \A t \in Nat : t >= NFrames => Playing(c, cvIn, last + t) = end
    <2>1. Heard(buf, NFrames, c)
      BY <1>0, CvInHeard
    <2> HIDE DEF c
    <2> QED  BY <1>0, <2>1 DEF Heard
  <1>2. /\ Len(ins) = last + NFrames
        /\ \A k \in 1 .. last : ins[k] = samplesIn[k]
        /\ \A i \in Frames : ins[last + i + 1] = buf[i]
    BY <1>0, Sampled
  <1> HIDE DEF c
  <1>3. /\ d \in Seq(CvEvent) /\ Len(d) = Len(c) /\ Len(c) \in Nat
        /\ \A k \in 1 .. Len(c) : d[k].time = c[k].time + delay
        /\ \A v : \A t \in Int : Playing(d, v, t) = Playing(c, v, t - delay)
    BY <1>0, <1>1, PlayingDelayed
  <1> HIDE DEF d
  <1>4. /\ q \in Seq(CvEvent) /\ Len(q) = Len(cvQueue) + Len(c)
        /\ \A k \in 1 .. Len(cvQueue) : q[k] = cvQueue[k]
        /\ \A k \in 1 .. Len(c) : q[Len(cvQueue) + k] = d[k]
    <2> DEFINE p == cvQueue \o d
    <2>1. /\ p \in Seq(CvEvent) /\ Len(p) = Len(cvQueue) + Len(d)
          /\ \A k \in 1 .. Len(cvQueue) : p[k] = cvQueue[k]
          /\ \A k \in 1 .. Len(d) : p[Len(cvQueue) + k] = d[k]
      <3>1. cvQueue \in Seq(CvEvent) /\ d \in Seq(CvEvent)
        BY <1>0, <1>3
      <3> HIDE DEF CvEvent
      <3> QED  BY <3>1, ConcatElements
    <2> HIDE DEF p
    <2>2. q = p
      BY DEF p
    <2> HIDE DEF q
    <2> QED  BY <1>3, <2>1, <2>2
  <1> HIDE DEF q
  <1>5. \A k \in 1 .. Len(q) : q[k].time \in Int
    <2>1. TAKE k \in 1 .. Len(q)
    <2>2. q[k] \in CvEvent
      BY <1>4
    <2> QED  BY <2>2 DEF CvEvent
  <1>6. \A k \in 1 .. Len(q) :
           \/ k \in 1 .. Len(cvQueue)
           \/ k - Len(cvQueue) \in 1 .. Len(c) /\ k = Len(cvQueue) + (k - Len(cvQueue))
    BY <1>0, <1>3, <1>4
  <1>7. \A k \in 1 .. Len(q) :
           /\ k \in 1 .. Len(cvQueue) => q[k].time < last + delay
           /\ k \notin 1 .. Len(cvQueue) =>
                 last + delay <= q[k].time /\ q[k].time < last + NFrames + delay
    <2>1. TAKE k \in 1 .. Len(q)
    <2>2. CASE k \in 1 .. Len(cvQueue)
      BY <1>4, <1>q, <2>2
    <2>3. CASE k \notin 1 .. Len(cvQueue)
      <3> DEFINE i == k - Len(cvQueue)
      <3>1. i \in 1 .. Len(c) /\ k = Len(cvQueue) + i
        BY <1>6, <2>3
      <3> HIDE DEF i
      <3>2. q[k] = d[i] /\ d[i].time = c[i].time + delay /\ last <= c[i].time /\ c[i].time < last + NFrames
        BY <1>1, <1>3, <1>4, <3>1
      <3>3. c[i].time \in Int
        <4>1. c[i] \in CvEvent
          BY <1>1, <3>1
        <4> QED  BY <4>1 DEF CvEvent
      <3> QED  BY <1>0, <2>3, <3>2, <3>3
    <2> QED  BY <2>2, <2>3
  <1>8. \A k \in 1 .. Len(q) : q[k].time < last + NFrames + delay
    <2>1. TAKE k \in 1 .. Len(q)
    <2>2. q[k].time < last + delay \/ q[k].time < last + NFrames + delay
      BY <1>7
    <2> QED  BY <1>0, <1>5, <2>2
  <1>9. ASSUME NEW j \in 1 .. Len(q), NEW k \in 1 .. Len(q), j <= k PROVE q[j].time <= q[k].time
    <2>1. CASE k \in 1 .. Len(cvQueue)
      <3>1. j \in 1 .. Len(cvQueue)
        BY <1>9, <2>1
      <3> QED  BY <1>4, <1>q, <1>9, <2>1, <3>1 DEF Ordered
    <2>2. CASE k \notin 1 .. Len(cvQueue) /\ j \in 1 .. Len(cvQueue)
      <3>1. q[j].time < last + delay /\ last + delay <= q[k].time
        BY <1>7, <2>2
      <3>2. q[j].time \in Int /\ q[k].time \in Int
        BY <1>5
      <3> QED  BY <1>0, <3>1, <3>2
    <2>3. CASE k \notin 1 .. Len(cvQueue) /\ j \notin 1 .. Len(cvQueue)
      <3> DEFINE a == j - Len(cvQueue)
                 b == k - Len(cvQueue)
      <3>1. a \in 1 .. Len(c) /\ b \in 1 .. Len(c) /\ j = Len(cvQueue) + a /\ k = Len(cvQueue) + b
        BY <1>6, <2>3
      <3>2. a <= b
        BY <1>0, <1>9
      <3> HIDE DEF a, b
      <3>3. q[j].time = c[a].time + delay /\ q[k].time = c[b].time + delay /\ c[a].time <= c[b].time
        BY <1>1, <1>3, <1>4, <3>1, <3>2
      <3>4. c[a].time \in Int /\ c[b].time \in Int
        <4>1. c[a] \in CvEvent /\ c[b] \in CvEvent
          BY <1>1, <3>1
        <4> QED  BY <4>1 DEF CvEvent
      <3> QED  BY <1>0, <3>3, <3>4
    <2> QED  BY <2>1, <2>2, <2>3
  <1>10. ASSUME NEW t \in Nat, t >= last
         PROVE  Playing(q, cvOut, t) = Signal(ins, end, t - delay)
    <2> DEFINE u == t - delay
               old == Signal(samplesIn, cvIn, u)
    <2>0. u \in Int /\ t \in Int
      BY <1>0
    <2>1. Playing(cvQueue, cvOut, t) = old
      BY <1>q, <1>10
    <2>2. Playing(q, cvOut, t) = Playing(d, Playing(cvQueue, cvOut, t), t)
      BY <1>0, <1>3, <2>0, PlayingConcat DEF q
    <2>3. Playing(q, cvOut, t) = Playing(c, old, u)
      BY <1>3, <2>0, <2>1, <2>2
    <2> HIDE DEF u
    <2>4. CASE u < last
      <3>1. Playing(c, old, u) = old
        <4>1. \A k \in 1 .. Len(c) : c[k].time > u
          <5>1. TAKE k \in 1 .. Len(c)
          <5>2. c[k] \in CvEvent /\ last <= c[k].time
            BY <1>1
          <5>3. c[k].time \in Int
            BY <5>2 DEF CvEvent
          <5> QED  BY <1>0, <2>0, <2>4, <5>2, <5>3
        <4> HIDE DEF old
        <4> QED  BY <1>1, <2>0, <4>1, PlayingNone
      <3>2. old = Signal(ins, end, u)
        <4>1. CASE u < 0
          BY <4>1 DEF Signal
        <4>2. CASE ~(u < 0)
          <5>1. u + 1 \in 1 .. last /\ u < Len(ins) /\ u < Len(samplesIn)
            BY <1>0, <1>2, <2>0, <2>4, <4>2
          <5> QED  BY <1>2, <4>2, <5>1 DEF Signal
        <4> QED  BY <4>1, <4>2
      <3> QED  BY <2>3, <3>1, <3>2 DEF u
    <2>5. CASE ~(u < last)
      <3> DEFINE i == u - last
      <3>1. i \in Nat /\ u = last + i /\ ~(u < 0) /\ ~(u < Len(samplesIn))
        BY <1>0, <2>0, <2>5
      <3>2. old = cvIn
        BY <3>1 DEF Signal
      <3> HIDE DEF old, i
      <3>3. Playing(q, cvOut, t) = Playing(c, cvIn, last + i)
        BY <2>3, <3>1, <3>2
      <3>4. CASE i < NFrames
        <4>1. i \in 0 .. NFrames - 1 /\ i \in Frames /\ u < Len(ins) /\ u + 1 = last + i + 1
          BY <1>0, <1>2, <3>1, <3>4 DEF Frames
        <4>2. Signal(ins, end, u) = ins[last + i + 1]
          BY <3>1, <4>1 DEF Signal
        <4> QED  BY <1>1, <1>2, <3>3, <4>1, <4>2 DEF u
      <3>5. CASE ~(i < NFrames)
        <4>1. i >= NFrames /\ ~(u < Len(ins))
          BY <1>0, <1>2, <3>1, <3>5
        <4>2. Signal(ins, end, u) = end
          BY <3>1, <4>1 DEF Signal
        <4> QED  BY <1>1, <3>1, <3>3, <4>1, <4>2 DEF u
      <3> QED  BY <3>4, <3>5
    <2> QED  BY <2>4, <2>5
  <1> QED  BY <1>4, <1>5, <1>8, <1>9, <1>10 DEF q, d, c, Ordered

\* A period.
LEMMA CvPeriodKeeps ==
    ASSUME CvInv, NEW evs, NEW buf \in [Frames -> Values], Period(evs, buf)
    PROVE  CvInv'
  <1> DEFINE q == cvQueue \o Delayed(CvIn(buf))
             d == Due(q)
             r == Rest(q)
             ins == samplesIn \o [k \in 1 .. NFrames |-> buf[k - 1]]
             outs == samplesOut \o [k \in 1 .. NFrames |-> CvOut(d)[k - 1]]
             end == buf[NFrames - 1]
             out == IF d = << >> THEN cvOut ELSE Last(d).value
  <1>0. /\ NFrames \in Nat \ {0} /\ delay \in Nat /\ last \in Nat /\ cvOut \in Values
        /\ samplesIn \in Seq(Values) /\ Len(samplesIn) = last
        /\ samplesOut \in Seq(Values) /\ Len(samplesOut) = last
    BY PortsAssumption DEF PortsAssumption, CvInv, CvTypeInv
  <1>1. /\ cvIn' = end /\ cvOut' = out /\ cvQueue' = r /\ samplesIn' = ins /\ samplesOut' = outs
        /\ last' = last + NFrames /\ delay' = delay
    BY DEF Period
  <1>2. /\ q \in Seq(CvEvent) /\ Ordered(q)
        /\ \A k \in 1 .. Len(q) : q[k].time \in Int /\ q[k].time < last + NFrames + delay
        /\ \A t \in Nat : t >= last => Playing(q, cvOut, t) = Signal(ins, end, t - delay)
    BY QueuePlays
  <1> HIDE DEF q
  <1>3. /\ d \in Seq(CvEvent) /\ r \in Seq(CvEvent) /\ q = d \o r
        /\ \A k \in 1 .. Len(d) : d[k] = q[k] /\ q[k].time < last + NFrames
        /\ Len(d) \in Nat /\ Len(d) <= Len(q) /\ Len(r) = Len(q) - Len(d)
        /\ \A k \in 1 .. Len(r) : r[k] = q[Len(d) + k] /\ r[k].time >= last + NFrames
    BY <1>0, <1>2, DueSplits
  <1>b. end \in Values
    <2>1. NFrames - 1 \in Frames
      BY <1>0 DEF Frames
    <2> QED  BY <2>1
  <1> HIDE DEF d, r
  <1>s. /\ ins \in Seq(Values) /\ Len(ins) = last + NFrames
        /\ \A k \in 1 .. last : ins[k] = samplesIn[k]
        /\ \A i \in Frames : ins[last + i + 1] = buf[i]
    <2> DEFINE t == samplesIn \o [k \in 1 .. NFrames |-> buf[k - 1]]
    <2>1. /\ t \in Seq(Values) /\ Len(t) = Len(samplesIn) + NFrames
          /\ \A k \in 1 .. Len(samplesIn) : t[k] = samplesIn[k]
          /\ \A i \in Frames : t[Len(samplesIn) + i + 1] = buf[i]
      BY <1>0, Sampled
    <2>2. ins = t
      OBVIOUS
    <2> HIDE DEF t, ins
    <2> QED  BY <1>0, <2>1, <2>2
  <1> HIDE DEF ins
  <1>v. \A k \in 1 .. Len(d) : d[k] \in CvEvent /\ d[k].value \in Values /\ d[k].time \in Int
    <2>1. TAKE k \in 1 .. Len(d)
    <2>2. d[k] \in CvEvent
      BY <1>3
    <2> QED  BY <2>2 DEF CvEvent
  <1>w. \A v \in Values : \A t \in Int : Playing(d, v, t) \in Values
    <2>1. TAKE v \in Values
    <2>2. TAKE t \in Int
    <2>3. \/ Playing(d, v, t) = v
          \/ \E k \in 1 .. Len(d) : Playing(d, v, t) = d[k].value
      BY <1>3, PlayingIs
    <2> QED  BY <1>v, <2>3
  <1>4. \A i \in Frames : CvOut(d)[i] = Playing(d, cvOut, last + i)
    <2>1. TAKE i \in Frames
    <2>2. Passed(d, i) = At(d, last + i)
      <3>1. DOMAIN d = 1 .. Len(d)
        BY <1>3
      <3>2. \A k \in 1 .. Len(d) : d[k].time - last <= i <=> d[k].time <= last + i
        BY <1>0, <1>v DEF Frames
      <3> QED  BY <3>1, <3>2 DEF Passed, At
    <2> QED  BY <2>2 DEF CvOut, Playing
  <1>5. \A i \in Frames : CvOut(d)[i] \in Values
    <2>1. TAKE i \in Frames
    <2>2. last + i \in Int
      BY <1>0 DEF Frames
    <2> QED  BY <1>0, <1>4, <1>w, <2>2
  <1>6. CvOut(d) \in [Frames -> Values]
    <2> DEFINE f(i) == IF Passed(d, i) = {} THEN cvOut ELSE d[Max(Passed(d, i))].value
    <2>1. CvOut(d) = [i \in Frames |-> f(i)]
      BY DEF CvOut
    <2> HIDE DEF f
    <2>2. \A i \in Frames : f(i) \in Values
      BY <1>5, <2>1
    <2> QED  BY <2>1, <2>2
  <1>7. /\ outs \in Seq(Values) /\ Len(outs) = last + NFrames
        /\ \A k \in 1 .. last : outs[k] = samplesOut[k]
        /\ \A i \in Frames : outs[last + i + 1] = CvOut(d)[i]
    <2> DEFINE f == CvOut(d)
               t == samplesOut \o [k \in 1 .. NFrames |-> f[k - 1]]
    <2>0. f \in [Frames -> Values]
      BY <1>6
    <2>2. outs = t
      OBVIOUS
    <2> HIDE DEF f
    <2>1. /\ t \in Seq(Values) /\ Len(t) = Len(samplesOut) + NFrames
          /\ \A k \in 1 .. Len(samplesOut) : t[k] = samplesOut[k]
          /\ \A i \in Frames : t[Len(samplesOut) + i + 1] = f[i]
      BY <1>0, <2>0, Sampled
    <2> HIDE DEF t, outs
    <2> QED  BY <1>0, <2>1, <2>2 DEF f
  <1> HIDE DEF outs
  <1>8. ASSUME NEW t \in Int
        PROVE  /\ t < last + NFrames => Playing(q, cvOut, t) = Playing(d, cvOut, t)
               /\ t >= last + NFrames => Playing(q, cvOut, t) = Playing(r, out, t)
    <2> DEFINE w == Playing(d, cvOut, t)
    <2>1. Playing(q, cvOut, t) = Playing(r, w, t)
      BY <1>3, PlayingConcat
    <2>2. ASSUME t < last + NFrames PROVE Playing(r, w, t) = w
      <3>1. \A k \in 1 .. Len(r) : r[k].time > t
        <4>1. TAKE k \in 1 .. Len(r)
        <4>2. r[k] \in CvEvent /\ r[k].time >= last + NFrames
          BY <1>3
        <4>3. r[k].time \in Int
          BY <4>2 DEF CvEvent
        <4> QED  BY <1>0, <2>2, <4>2, <4>3
      <3> HIDE DEF w
      <3> QED  BY <1>3, <3>1, PlayingNone
    <2>3. ASSUME t >= last + NFrames PROVE w = out
      <3>1. CASE d = << >>
        BY <3>1 DEF Playing, At
      <3>2. CASE d # << >>
        <4>1. Len(d) \in 1 .. Len(d) /\ Last(d) = d[Len(d)]
          BY <1>3, <3>2 DEF Last
        <4>2. d[Len(d)].time <= t
          <5>1. d[Len(d)].time < last + NFrames /\ d[Len(d)].time \in Int
            BY <1>3, <1>v, <4>1
          <5> QED  BY <1>0, <2>3, <5>1
        <4>3. \A j \in 1 .. Len(d) : d[j].time <= t => j <= Len(d)
          BY <1>3
        <4>4. w = d[Len(d)].value
          BY <1>3, <4>1, <4>2, <4>3, PlayingLast
        <4> QED  BY <3>2, <4>1, <4>4
      <3> QED  BY <3>1, <3>2
    <2> QED  BY <2>1, <2>2, <2>3
  <1>9. out \in Values
    <2>1. CASE d = << >>
      BY <1>0, <2>1
    <2>2. CASE d # << >>
      <3>1. Len(d) \in 1 .. Len(d) /\ Last(d) = d[Len(d)]
        BY <1>3, <2>2 DEF Last
      <3> QED  BY <1>v, <2>2, <3>1
    <2> QED  BY <2>1, <2>2
  <1> HIDE DEF out, end
  <1>10. CvTypeInv'
    BY <1>0, <1>1, <1>3, <1>7, <1>9, <1>b, <1>s DEF CvTypeInv
  <1>11. CvQueueInv'
    <2>1. last' # 0
      BY <1>0, <1>1
    <2>2. ASSUME NEW j \in 1 .. Len(r), NEW k \in 1 .. Len(r), j <= k PROVE r[j].time <= r[k].time
      <3>1. /\ Len(d) + j \in 1 .. Len(q) /\ Len(d) + k \in 1 .. Len(q) /\ Len(d) + j <= Len(d) + k
            /\ r[j] = q[Len(d) + j] /\ r[k] = q[Len(d) + k]
        BY <1>2, <1>3, <2>2
      <3> QED  BY <1>2, <3>1 DEF Ordered
    <2>3. \A k \in 1 .. Len(r) : r[k].time < last + NFrames + delay
      <3>1. TAKE k \in 1 .. Len(r)
      <3>2. Len(d) + k \in 1 .. Len(q) /\ r[k] = q[Len(d) + k]
        BY <1>2, <1>3
      <3> QED  BY <1>2, <3>2
    <2>4. ASSUME NEW t \in Nat, t >= last + NFrames PROVE Playing(r, out, t) = Signal(ins, end, t - delay)
      <3>1. t \in Int /\ t >= last
        BY <1>0, <2>4
      <3> QED  BY <1>2, <1>8, <2>4, <3>1
    <2>5. Ordered(cvQueue)'
      BY <1>1, <2>2 DEF Ordered
    <2>6. (\A t \in Nat : t >= last => Playing(cvQueue, cvOut, t) = Signal(samplesIn, cvIn, t - delay))'
      BY <1>1, <2>4 DEF Playing, At, Signal
    <2> QED  BY <1>1, <2>1, <2>3, <2>5, <2>6 DEF CvQueueInv
  <1>12. CvThrough'
    <2>1. ASSUME NEW k \in 1 .. last + NFrames
          PROVE  outs[k] = IF k <= delay THEN 0 ELSE ins[k - delay]
      <3>1. CASE k \in 1 .. last
        <4>1. DOMAIN samplesOut = 1 .. last
          BY <1>0
        <4>2. samplesOut[k] = IF k <= delay THEN 0 ELSE samplesIn[k - delay]
          BY <3>1, <4>1 DEF CvInv, CvThrough
        <4>3. ~(k <= delay) => k - delay \in 1 .. last
          BY <1>0, <3>1
        <4> QED  BY <1>7, <1>s, <3>1, <4>2, <4>3
      <3>2. CASE k \notin 1 .. last
        <4> DEFINE i == k - 1 - last
                   t == last + i
        <4>1. i \in Frames /\ k = last + i + 1 /\ t \in Nat /\ t \in Int /\ t >= last /\ t < last + NFrames
          BY <1>0, <3>2 DEF Frames
        <4>2. outs[k] = CvOut(d)[i] /\ CvOut(d)[i] = Playing(d, cvOut, t)
          BY <1>4, <1>7, <4>1
        <4>3. t = k - 1
          BY <1>0
        <4> HIDE DEF t, i
        <4>4. outs[k] = Signal(ins, end, t - delay)
          BY <1>2, <1>8, <4>1, <4>2
        <4>5. CASE k <= delay
          <5>1. t - delay < 0
            BY <1>0, <4>3, <4>5
          <5> QED  BY <4>4, <4>5, <5>1 DEF Signal
        <4>6. CASE ~(k <= delay)
          <5>1. ~(t - delay < 0) /\ t - delay < Len(ins) /\ (t - delay) + 1 = k - delay
            BY <1>0, <1>s, <4>3, <4>6
          <5> QED  BY <4>4, <4>6, <5>1 DEF Signal
        <4> QED  BY <4>5, <4>6
      <3> QED  BY <3>1, <3>2
    <2>2. DOMAIN outs = 1 .. last + NFrames
      BY <1>7
    <2> QED  BY <1>1, <2>1, <2>2 DEF CvThrough
  <1> QED  BY <1>10, <1>11, <1>12 DEF CvInv

\* Whatever period comes, and nothing.
LEMMA CvNextKeeps == CvInv /\ [Next]_vars => CvInv'
  <1> SUFFICES ASSUME CvInv, [Next]_vars PROVE CvInv'
    OBVIOUS
  <1>1. Still \in [Frames -> Values]
    BY DEF Still, CvInv, CvTypeInv
  <1>2. CASE MidiPeriod
    BY <1>1, <1>2, CvPeriodKeeps DEF MidiPeriod
  <1>3. CASE CvPeriod
    BY <1>3, CvPeriodKeeps DEF CvPeriod
  <1>4. CASE UNCHANGED vars
    BY <1>4 DEF vars, CvInv, CvTypeInv, CvQueueInv, CvThrough, Ordered, Playing, At, Signal
  <1> QED  BY <1>2, <1>3, <1>4 DEF Next

\* mod_cv_in.c:35-63, mod_cv_out.c:35-101: cv_out plays what cv_in read, sample by
\* sample and Delay frames later, for any period, delay and samples.
THEOREM CvPassesThrough == Spec => []CvThrough
  <1>1. CvInv => CvThrough
    BY DEF CvInv
  <1> QED  BY <1>1, CvStart, CvNextKeeps, PTL DEF Spec

-----------------------------------------------------------------------------
(* MIDI: what midi_out makes of a queue. *)

Item == [time : Int, id : Nat]
Message == [time : Int, midi : Seq(Item)]

\* The arguments of a message, all at its time.
LEMMA ArgumentsAre ==
    ASSUME NEW e \in Message
    PROVE  /\ e.time \in Int /\ e.midi \in Seq(Item)
           /\ Arguments(e) \in Seq(Item) /\ Len(Arguments(e)) = Len(e.midi)
           /\ \A j \in 1 .. Len(e.midi) : /\ Arguments(e)[j].time = e.time
                                          /\ Arguments(e)[j].id = e.midi[j].id
  <1>1. e.time \in Int /\ e.midi \in Seq(Item)
    BY DEF Message
  <1> DEFINE s == e.midi
             n == Len(s)
  <1>2. n \in Nat /\ DOMAIN s = 1 .. n
    BY <1>1
  <1>3. \A j \in 1 .. n : s[j] \in Item
    <2> HIDE DEF Item, s
    <2> QED  BY <1>1 DEF s
  <1>4. \A j \in 1 .. n : [time |-> e.time, id |-> s[j].id] \in Item
    BY <1>1, <1>3 DEF Item
  <1> DEFINE a == [j \in 1 .. n |-> [time |-> e.time, id |-> s[j].id]]
  <1>5. Arguments(e) = a
    BY <1>2 DEF Arguments
  <1>6. a \in [1 .. n -> Item]
    BY <1>4
  <1>7. a \in Seq(Item) /\ Len(a) = n
    <2> HIDE DEF a, n, Item
    <2> QED  BY <1>2, <1>6, FunctionIsSequence
  <1> QED  BY <1>1, <1>5, <1>7

\* Writes(q, w): w[k] is what the first k messages of q are in the buffer.
Writes(q, w) == /\ w \in [0 .. Len(q) -> Seq(Item)] /\ w[0] = << >>
                /\ \A k \in 1 .. Len(q) : w[k] = w[k - 1] \o Arguments(q[k])
                /\ MidiWrites(q) = w[Len(q)]

\* The walk through a queue.
LEMMA WritesWalk ==
    ASSUME NEW q \in Seq(Message) PROVE \E w : Writes(q, w)
  <1> DEFINE n == Len(q)
             S == Seq(Item)
             g == [k \in 1 .. n |-> [x \in S |-> x \o Arguments(q[k])]]
             w == CHOOSE f : f = [k \in 0 .. n |-> IF k = 0 THEN << >> ELSE f[k - 1] \o Arguments(q[k])]
  <1>0. n \in Nat /\ << >> \in S
    OBVIOUS
  <1>1. \A k \in 1 .. n : Arguments(q[k]) \in S
    <2>1. \A k \in 1 .. n : q[k] \in Message
      <3> HIDE DEF Message
      <3> QED  OBVIOUS
    <2> QED  BY <2>1, ArgumentsAre
  <1>2. \A x \in S, k \in 1 .. n : x \o Arguments(q[k]) \in S
    <2> TAKE x \in S, k \in 1 .. n
    <2> DEFINE a == Arguments(q[k])
    <2>1. a \in S
      BY <1>1
    <2>2. x \o a \in S
      <3> HIDE DEF a, Item
      <3> QED  BY <2>1, ConcatElements
    <2> QED  BY <2>2
  <1>3. g \in [1 .. n -> [S -> S]] /\ \A x \in S, k \in 1 .. n : g[k][x] = x \o Arguments(q[k])
    <2> HIDE DEF S
    <2> QED  BY <1>2
  <1> HIDE DEF g, S, n
  <1>4. PICK h \in [0 .. n -> S] : h[0] = << >> /\ \A k \in 1 .. n : h[k] = g[k][h[k - 1]]
    <2> DEFINE b == << >>
    <2>1. b \in S
      BY <1>0
    <2> HIDE DEF b
    <2>2. \E h \in [0 .. n -> S] : Recurs(h, n, b, g)
      BY <1>0, <1>3, <2>1, RecursionExists
    <2> QED  BY <2>2 DEF b, Recurs
  <1>5. \A k \in 1 .. n : h[k] = h[k - 1] \o Arguments(q[k])
    <2>1. TAKE k \in 1 .. n
    <2>2. k - 1 \in 0 .. n
      BY <1>0
    <2>3. h[k - 1] \in S
      BY <2>2
    <2> QED  BY <1>3, <1>4, <2>3
  <1>6. h = [k \in 0 .. n |-> IF k = 0 THEN << >> ELSE h[k - 1] \o Arguments(q[k])]
    <2>1. \A k \in 0 .. n : h[k] = IF k = 0 THEN << >> ELSE h[k - 1] \o Arguments(q[k])
      <3>1. TAKE k \in 0 .. n
      <3>2. k = 0 \/ k \in 1 .. n
        BY <1>0
      <3> QED  BY <1>4, <1>5, <3>2
    <2> QED  BY <2>1
  <1>7. w = [k \in 0 .. n |-> IF k = 0 THEN << >> ELSE w[k - 1] \o Arguments(q[k])]
    <2>1. \E f : f = [k \in 0 .. n |-> IF k = 0 THEN << >> ELSE f[k - 1] \o Arguments(q[k])]
      BY <1>6
    <2> QED  BY <2>1
  <1>8. MidiWrites(q) = w[n]
    BY DEF MidiWrites, n
  <1> HIDE DEF w
  <1>9. w[0] = << >> /\ \A k \in 1 .. n : w[k] = w[k - 1] \o Arguments(q[k])
    <2>1. 0 \in 0 .. n /\ \A k \in 1 .. n : k \in 0 .. n /\ k # 0
      BY <1>0
    <2> QED  BY <1>7, <2>1
  <1>10. \A k \in 0 .. n : w[k] = h[k]
    <2> DEFINE T == {k \in 0 .. n : w[k] = h[k]}
    <2>1. 0 \in T
      <3>1. 0 \in 0 .. n
        BY <1>0
      <3> QED  BY <1>4, <1>9, <3>1
    <2>2. ASSUME NEW k \in 1 .. n, k - 1 \in T PROVE k \in T
      <3>1. k \in 0 .. n /\ w[k - 1] = h[k - 1]
        BY <1>0, <2>2
      <3> QED  BY <1>5, <1>9, <3>1
    <2> HIDE DEF T
    <2>3. n \in Nat
      BY <1>0
    <2>4. \A k \in 0 .. n : k \in T
      BY <2>1, <2>2, <2>3, UpTo
    <2> QED  BY <2>4 DEF T
  <1>11. w \in [0 .. n -> S]
    BY <1>7, <1>10
  <1> QED  BY <1>8, <1>9, <1>11 DEF Writes, n, S

\* What the walk holds on its way.
LEMMA WalkTypes ==
    ASSUME NEW q \in Seq(Message), NEW w, Writes(q, w)
    PROVE  /\ Len(q) \in Nat /\ \A k \in 0 .. Len(q) : w[k] \in Seq(Item)
           /\ \A k \in 1 .. Len(q) : /\ k - 1 \in 0 .. Len(q) /\ w[k - 1] \in Seq(Item)
                                     /\ q[k] \in Message /\ Arguments(q[k]) \in Seq(Item)
                                     /\ w[k] = w[k - 1] \o Arguments(q[k])
           /\ MidiWrites(q) \in Seq(Item)
  <1> DEFINE n == Len(q)
  <1>1. n \in Nat /\ \A k \in 1 .. n : q[k] \in Message
    <2> HIDE DEF Message
    <2> QED  OBVIOUS
  <1> HIDE DEF n, Item, Message
  <1>2. /\ \A k \in 0 .. n : w[k] \in Seq(Item)
        /\ \A k \in 1 .. n : w[k] = w[k - 1] \o Arguments(q[k])
        /\ MidiWrites(q) = w[n]
    BY DEF Writes, n
  <1>3. n \in 0 .. n /\ \A k \in 1 .. n : k - 1 \in 0 .. n
    BY <1>1
  <1>4. \A k \in 1 .. n : Arguments(q[k]) \in Seq(Item)
    BY <1>1, ArgumentsAre
  <1> QED  BY <1>1, <1>2, <1>3, <1>4 DEF n

\* A queue without messages writes nothing.
LEMMA WritesNothing == MidiWrites(<< >>) = << >>
  <1> DEFINE q == << >>
  <1>1. q \in Seq(Message) /\ Len(q) = 0
    OBVIOUS
  <1> HIDE DEF q, Message
  <1>2. PICK w : Writes(q, w)
    BY <1>1, WritesWalk
  <1>3. MidiWrites(q) = << >>
    BY <1>1, <1>2 DEF Writes
  <1> QED  BY <1>3 DEF q

\* A queue behind another writes behind it.
LEMMA WritesConcat ==
    ASSUME NEW q \in Seq(Message), NEW r \in Seq(Message)
    PROVE  MidiWrites(q \o r) = MidiWrites(q) \o MidiWrites(r)
  <1> DEFINE s == q \o r
             m == Len(q)
             n == Len(r)
  <1>1. /\ s \in Seq(Message) /\ Len(s) = m + n /\ m \in Nat /\ n \in Nat
        /\ \A k \in 1 .. m : s[k] = q[k]
        /\ \A k \in 1 .. n : s[m + k] = r[k]
    <2> HIDE DEF Message
    <2> QED  BY ConcatElements
  <1> HIDE DEF s, m, n, Message, Item
  <1>2. PICK u : Writes(q, u)
    BY WritesWalk
  <1>3. PICK v : Writes(r, v)
    BY WritesWalk
  <1>4. PICK w : Writes(s, w)
    BY <1>1, WritesWalk
  <1>5. \A k \in 0 .. m : w[k] = u[k]
    <2> DEFINE T == {k \in 0 .. m : w[k] = u[k]}
    <2>1. 0 \in T
      <3>1. 0 \in 0 .. m
        BY <1>1
      <3>2. w[0] = << >> /\ u[0] = << >>
        BY <1>2, <1>4 DEF Writes
      <3> QED  BY <3>1, <3>2
    <2>2. ASSUME NEW k \in 1 .. m, k - 1 \in T PROVE k \in T
      <3>1. k \in 0 .. m /\ k \in 1 .. m + n /\ w[k - 1] = u[k - 1] /\ s[k] = q[k]
        BY <1>1, <2>2
      <3>2. w[k] = w[k - 1] \o Arguments(s[k])
        BY <1>1, <1>4, <3>1 DEF Writes
      <3>3. u[k] = u[k - 1] \o Arguments(q[k])
        BY <1>2 DEF Writes, m
      <3> QED  BY <3>1, <3>2, <3>3
    <2> HIDE DEF T
    <2>3. m \in Nat
      BY <1>1
    <2>4. \A k \in 0 .. m : k \in T
      BY <2>1, <2>2, <2>3, UpTo
    <2> QED  BY <2>4 DEF T
  <1> DEFINE T == {k \in 0 .. n : w[m + k] = u[m] \o v[k]}
  <1>6. u[m] \in Seq(Item)
    <2>1. m \in 0 .. m
      BY <1>1
    <2>2. \A k \in 0 .. m : u[k] \in Seq(Item)
      BY <1>2, WalkTypes DEF m
    <2> QED  BY <2>1, <2>2
  <1>7. 0 \in T
    <2>1. v[0] = << >>
      BY <1>3 DEF Writes
    <2>2. u[m] \o << >> = u[m]
      BY <1>6, ConcatEmptySeq
    <2>3. m + 0 = m /\ m \in 0 .. m /\ 0 \in 0 .. n
      BY <1>1
    <2>4. w[m + 0] = u[m]
      BY <1>5, <2>3
    <2> QED  BY <2>1, <2>2, <2>3, <2>4
  <1>8. ASSUME NEW k \in 1 .. n, k - 1 \in T PROVE k \in T
    <2> DEFINE a == Arguments(r[k])
               x == v[k - 1]
               y == u[m]
    <2>1. m + k \in 1 .. m + n /\ (m + k) - 1 = m + (k - 1)
      BY <1>1
    <2>2. w[m + k] = w[m + (k - 1)] \o Arguments(s[m + k])
      BY <1>1, <1>4, <2>1 DEF Writes
    <2>3. a \in Seq(Item) /\ x \in Seq(Item) /\ v[k] = x \o a
      BY <1>1, <1>3, WalkTypes DEF n
    <2>4. w[m + (k - 1)] = y \o x
      BY <1>8
    <2>5. s[m + k] = r[k]
      BY <1>1
    <2>6. w[m + k] = (y \o x) \o a
      BY <2>2, <2>4, <2>5
    <2>7. y \in Seq(Item)
      BY <1>6
    <2>8. w[m + k] = u[m] \o v[k]
      <3>1. (y \o x) \o a = y \o (x \o a)
        <4> HIDE DEF y, x, a
        <4> QED  BY <2>3, <2>7, ConcatAssociative
      <3> QED  BY <2>3, <2>6, <3>1
    <2>9. k \in 0 .. n
      BY <1>1
    <2> QED  BY <2>8, <2>9
  <1> HIDE DEF T
  <1>9. \A k \in 0 .. n : k \in T
    BY <1>1, <1>7, <1>8, UpTo
  <1>10. w[m + n] = u[m] \o v[n]
    <2>1. n \in 0 .. n
      BY <1>1
    <2>2. n \in T
      BY <1>9, <2>1
    <2> QED  BY <2>2 DEF T
  <1>11. MidiWrites(s) = w[m + n] /\ MidiWrites(q) = u[m] /\ MidiWrites(r) = v[n]
    BY <1>1, <1>2, <1>3, <1>4 DEF Writes, m, n
  <1> QED  BY <1>10, <1>11 DEF s

\* One message.
LEMMA WritesOne == ASSUME NEW e \in Message PROVE MidiWrites(<<e>>) = Arguments(e)
  <1> DEFINE q == <<e>>
  <1>1. q \in Seq(Message) /\ Len(q) = 1 /\ q[1] = e
    <2> HIDE DEF Message
    <2> QED  OBVIOUS
  <1> HIDE DEF q, Message
  <1>2. PICK w : Writes(q, w)
    BY <1>1, WritesWalk
  <1>3. MidiWrites(q) = w[1] /\ w[0] = << >> /\ w[1] = w[1 - 1] \o Arguments(q[1])
    BY <1>1, <1>2 DEF Writes
  <1>4. MidiWrites(q) = << >> \o Arguments(e) /\ Arguments(e) \in Seq(Item)
    BY <1>1, <1>3, ArgumentsAre
  <1>5. << >> \o Arguments(e) = Arguments(e)
    BY <1>4, ConcatEmptySeq
  <1> QED  BY <1>4, <1>5 DEF q

\* A place in a concatenation lies in one of its parts.
LEMMA PlaceInConcat ==
    ASSUME NEW m \in Nat, NEW n \in Nat, NEW k \in 1 .. m + n
    PROVE  k \in 1 .. m \/ (k - m \in 1 .. n /\ m + (k - m) = k)
  OBVIOUS

\* What is in order, behind what is in order and not later, is in order.
LEMMA OrderedConcat ==
    ASSUME NEW E, NEW s \in Seq(E), NEW t \in Seq(E), Ordered(s), Ordered(t),
           \A i \in 1 .. Len(s), j \in 1 .. Len(t) : s[i].time <= t[j].time
    PROVE  Ordered(s \o t)
  <1> DEFINE u == s \o t
             m == Len(s)
             n == Len(t)
  <1>1. /\ m \in Nat /\ n \in Nat /\ Len(u) = m + n
        /\ \A k \in 1 .. m : u[k] = s[k]
        /\ \A k \in 1 .. n : u[m + k] = t[k]
    BY ConcatElements
  <1>2. /\ \A j, k \in 1 .. m : j <= k => s[j].time <= s[k].time
        /\ \A j, k \in 1 .. n : j <= k => t[j].time <= t[k].time
        /\ \A i \in 1 .. m, j \in 1 .. n : s[i].time <= t[j].time
    BY DEF Ordered
  <1> HIDE DEF u, m, n
  <1>3. ASSUME NEW j \in 1 .. m + n, NEW k \in 1 .. m + n, j <= k PROVE u[j].time <= u[k].time
    <2>1. CASE k \in 1 .. m
      <3>1. j \in 1 .. m
        BY <1>1, <1>3, <2>1
      <3> QED  BY <1>1, <1>2, <1>3, <2>1, <3>1
    <2>2. CASE k \notin 1 .. m
      <3> DEFINE b == k - m
      <3>1. b \in 1 .. n /\ m + b = k
        BY <1>1, <2>2
      <3>2. u[k] = t[b]
        BY <1>1, <3>1
      <3>3. CASE j \in 1 .. m
        <4>1. u[j] = s[j]
          BY <1>1, <3>3
        <4> HIDE DEF b
        <4> QED  BY <1>2, <3>1, <3>2, <3>3, <4>1
      <3>4. CASE j \notin 1 .. m
        <4> DEFINE a == j - m
        <4>1. a \in 1 .. n /\ m + a = j /\ a <= b
          BY <1>1, <1>3, <3>4
        <4>2. u[j] = t[a]
          BY <1>1, <4>1
        <4> HIDE DEF a, b
        <4> QED  BY <1>2, <3>1, <3>2, <4>1, <4>2
      <3> QED  BY <3>3, <3>4
    <2> QED  BY <2>1, <2>2
  <1> QED  BY <1>1, <1>3 DEF Ordered, u

\* What is written has the times of the messages, and their order.
LEMMA WritesTimes ==
    ASSUME NEW q \in Seq(Message)
    PROVE  /\ MidiWrites(q) \in Seq(Item)
           /\ \A j \in 1 .. Len(MidiWrites(q)) :
                 \E k \in 1 .. Len(q) : MidiWrites(q)[j].time = q[k].time
           /\ Ordered(q) => Ordered(MidiWrites(q))
  <1> DEFINE n == Len(q)
             From(s, k) == \A j \in 1 .. Len(s) : \E i \in 1 .. k : s[j].time = q[i].time
  <1>1. PICK w : Writes(q, w)
    BY WritesWalk
  <1>2. /\ n \in Nat /\ \A k \in 0 .. n : w[k] \in Seq(Item)
        /\ \A k \in 1 .. n : /\ k - 1 \in 0 .. n /\ w[k - 1] \in Seq(Item)
                             /\ q[k] \in Message /\ Arguments(q[k]) \in Seq(Item)
                             /\ w[k] = w[k - 1] \o Arguments(q[k])
    BY <1>1, WalkTypes
  <1>3. w[0] = << >> /\ MidiWrites(q) = w[n] /\ MidiWrites(q) \in Seq(Item)
    BY <1>1, WalkTypes DEF Writes
  <1> DEFINE T == {k \in 0 .. n : From(w[k], k) /\ (Ordered(q) => Ordered(w[k]))}
  <1>4. 0 \in T
    <2>1. From(<< >>, 0) /\ Ordered(<< >>)
      BY DEF Ordered
    <2>2. 0 \in 0 .. n
      BY <1>2
    <2> HIDE DEF From, n
    <2> QED  BY <1>3, <2>1, <2>2
  <1>5. ASSUME NEW k \in 1 .. n, k - 1 \in T PROVE k \in T
    <2> DEFINE x == w[k - 1]
               a == Arguments(q[k])
    <2>1. /\ x \in Seq(Item) /\ a \in Seq(Item) /\ w[k] = x \o a /\ q[k] \in Message
          /\ k \in 0 .. n
      <3>1. k \in 0 .. n
        BY <1>2
      <3> HIDE DEF n
      <3> QED  BY <1>2, <3>1
    <2>2. From(x, k - 1) /\ (Ordered(q) => Ordered(x))
      BY <1>5
    <2>3. \A j \in 1 .. Len(a) : a[j].time = q[k].time
      BY <2>1, ArgumentsAre
    <2> HIDE DEF x, a, Item, Message
    <2>4. From(w[k], k)
      <3> DEFINE u == x \o a
      <3>1. /\ Len(u) = Len(x) + Len(a) /\ Len(x) \in Nat /\ Len(a) \in Nat
            /\ \A j \in 1 .. Len(x) : u[j] = x[j]
            /\ \A j \in 1 .. Len(a) : u[Len(x) + j] = a[j]
        BY <2>1, ConcatElements
      <3> HIDE DEF u
      <3>2. ASSUME NEW j \in 1 .. Len(u) PROVE \E i \in 1 .. k : u[j].time = q[i].time
        <4>1. CASE j \in 1 .. Len(x)
          <5>1. PICK i \in 1 .. k - 1 : x[j].time = q[i].time
            BY <2>2, <4>1
          <5>2. i \in 1 .. k
            BY <1>2, <5>1
          <5> QED  BY <3>1, <4>1, <5>1, <5>2
        <4>2. CASE j \notin 1 .. Len(x)
          <5> DEFINE b == j - Len(x)
          <5>1. b \in 1 .. Len(a) /\ Len(x) + b = j
            BY <3>1, <4>2
          <5> HIDE DEF b
          <5>2. u[j].time = q[k].time
            BY <2>3, <3>1, <5>1
          <5>3. k \in 1 .. k
            BY <1>2
          <5> QED  BY <5>2, <5>3
        <4> QED  BY <4>1, <4>2
      <3>3. u = w[k]
        BY <2>1 DEF u
      <3> QED  BY <3>2, <3>3
    <2>5. ASSUME Ordered(q) PROVE Ordered(w[k])
      <3>1. Ordered(x)
        BY <2>2, <2>5
      <3>2. q[k].time \in Int
        BY <2>1 DEF Message
      <3>3. Ordered(a)
        BY <2>3, <3>2 DEF Ordered
      <3>4. ASSUME NEW i \in 1 .. Len(x), NEW j \in 1 .. Len(a) PROVE x[i].time <= a[j].time
        <4>1. PICK h \in 1 .. k - 1 : x[i].time = q[h].time
          BY <2>2
        <4>2. h \in 1 .. n /\ h <= k
          BY <1>2, <4>1
        <4>3. q[h].time <= q[k].time
          BY <2>5, <4>2 DEF Ordered
        <4> QED  BY <2>3, <4>1, <4>3
      <3>5. Ordered(x \o a)
        BY <2>1, <3>1, <3>3, <3>4, OrderedConcat
      <3> QED  BY <2>1, <3>5
    <2> HIDE DEF From
    <2> QED  BY <2>1, <2>4, <2>5
  <1> HIDE DEF T
  <1>6. \A k \in 0 .. n : k \in T
    BY <1>2, <1>4, <1>5, UpTo
  <1>7. n \in T
    <2>1. n \in 0 .. n
      BY <1>2
    <2> QED  BY <1>6, <2>1
  <1>8. From(w[n], n) /\ (Ordered(q) => Ordered(w[n]))
    BY <1>7 DEF T
  <1> QED  BY <1>3, <1>8

\* A script sends every message on with another time.
LEMMA MessagesDelayed ==
    ASSUME NEW q \in Seq(Message), delay \in Nat
    PROVE  /\ Delayed(q) \in Seq(Message) /\ Len(Delayed(q)) = Len(q) /\ Len(q) \in Nat
           /\ \A k \in 1 .. Len(q) : /\ Delayed(q)[k].time = q[k].time + delay
                                     /\ Delayed(q)[k].midi = q[k].midi
                                     /\ q[k].time \in Int
           /\ Ordered(q) => Ordered(Delayed(q))
  <1> DEFINE n == Len(q)
             d == Delayed(q)
  <1>1. n \in Nat /\ DOMAIN q = 1 .. n
    OBVIOUS
  <1>2. ASSUME NEW k \in 1 .. n
        PROVE  /\ q[k].time \in Int
               /\ [q[k] EXCEPT !.time = @ + delay] \in Message
               /\ [q[k] EXCEPT !.time = @ + delay].time = q[k].time + delay
               /\ [q[k] EXCEPT !.time = @ + delay].midi = q[k].midi
    <2>1. q[k] \in Message
      <3> HIDE DEF Message
      <3> QED  OBVIOUS
    <2> DEFINE e == q[k]
    <2>2. e \in [time : Int, midi : Seq(Item)]
      BY <2>1 DEF Message
    <2> HIDE DEF e, n
    <2>3. /\ [e EXCEPT !.time = @ + delay].time = e.time + delay
          /\ [e EXCEPT !.time = @ + delay].midi = e.midi
      BY <2>2
    <2>4. [e EXCEPT !.time = @ + delay] \in [time : Int, midi : Seq(Item)]
      <3> DEFINE S == Seq(Item)
                 t == e.time + delay
      <3>1. e \in [time : Int, midi : S] /\ e.time \in Int
        BY <2>2
      <3>2. t \in Int
        BY <3>1
      <3> HIDE DEF S, t
      <3>3. [e EXCEPT !.time = t] \in [time : Int, midi : S]
        BY <3>1, <3>2
      <3> QED  BY <3>3 DEF S, t
    <2>5. e.time \in Int
      BY <2>2
    <2> QED  BY <2>3, <2>4, <2>5 DEF e, Message
  <1>3. d = [k \in 1 .. n |-> [q[k] EXCEPT !.time = @ + delay]]
    BY <1>1 DEF Delayed
  <1> HIDE DEF d, n
  <1>4. d \in [1 .. n -> Message] /\ \A k \in 1 .. n : d[k] = [q[k] EXCEPT !.time = @ + delay]
    <2> HIDE DEF Message
    <2> QED  BY <1>2, <1>3
  <1>5. d \in Seq(Message) /\ Len(d) = n
    <2> HIDE DEF Message
    <2> QED  BY <1>1, <1>4, FunctionIsSequence
  <1>6. \A k \in 1 .. n : /\ d[k].time = q[k].time + delay
                          /\ d[k].midi = q[k].midi /\ q[k].time \in Int
    BY <1>2, <1>4
  <1>7. ASSUME Ordered(q) PROVE Ordered(d)
    <2>1. ASSUME NEW j \in 1 .. n, NEW k \in 1 .. n, j <= k PROVE d[j].time <= d[k].time
      <3>1. q[j].time <= q[k].time
        BY <1>7, <2>1 DEF Ordered, n
      <3> QED  BY <1>6, <3>1
    <2> QED  BY <1>5, <2>1 DEF Ordered
  <1> QED  BY <1>1, <1>5, <1>6, <1>7 DEF d, n

\* What is written of messages sent on: the same, as much later.
LEMMA WritesDelayed ==
    ASSUME NEW q \in Seq(Message), delay \in Nat
    PROVE  LET v == MidiWrites(Delayed(q))
               w == MidiWrites(q)
           IN /\ v \in Seq(Item) /\ w \in Seq(Item) /\ Len(v) = Len(w)
              /\ \A j \in 1 .. Len(w) : v[j].time = w[j].time + delay /\ v[j].id = w[j].id
  <1> DEFINE n == Len(q)
             d == Delayed(q)
             Same(s, t) == /\ Len(s) = Len(t)
                           /\ \A j \in 1 .. Len(t) : /\ s[j].time = t[j].time + delay
                                                     /\ s[j].id = t[j].id
  <1>1. /\ d \in Seq(Message) /\ Len(d) = n /\ n \in Nat
        /\ \A k \in 1 .. n : d[k].time = q[k].time + delay /\ d[k].midi = q[k].midi
    BY MessagesDelayed
  <1> HIDE DEF d, Message, Item
  <1>2. PICK v : Writes(d, v)
    BY <1>1, WritesWalk
  <1>3. PICK w : Writes(q, w)
    BY WritesWalk
  <1>4. /\ \A k \in 1 .. n : /\ k - 1 \in 0 .. n /\ w[k - 1] \in Seq(Item)
                             /\ q[k] \in Message /\ Arguments(q[k]) \in Seq(Item)
                             /\ w[k] = w[k - 1] \o Arguments(q[k])
        /\ MidiWrites(q) \in Seq(Item)
    BY <1>3, WalkTypes
  <1>5. /\ \A k \in 1 .. n : /\ v[k - 1] \in Seq(Item)
                             /\ d[k] \in Message /\ Arguments(d[k]) \in Seq(Item)
                             /\ v[k] = v[k - 1] \o Arguments(d[k])
        /\ MidiWrites(d) \in Seq(Item)
    <2>1. d \in Seq(Message)
      BY <1>1
    <2>2. /\ \A k \in 1 .. Len(d) : /\ v[k - 1] \in Seq(Item)
                                    /\ d[k] \in Message /\ Arguments(d[k]) \in Seq(Item)
                                    /\ v[k] = v[k - 1] \o Arguments(d[k])
          /\ MidiWrites(d) \in Seq(Item)
      BY <1>2, <2>1, WalkTypes
    <2>3. Len(d) = n
      BY <1>1
    <2> HIDE DEF n
    <2> QED  BY <2>2, <2>3
  <1>6. v[0] = << >> /\ w[0] = << >> /\ MidiWrites(d) = v[n] /\ MidiWrites(q) = w[n]
    BY <1>1, <1>2, <1>3 DEF Writes
  <1> HIDE DEF n
  <1> DEFINE T == {k \in 0 .. n : Same(v[k], w[k])}
  <1>7. 0 \in T
    <2>1. Same(<< >>, << >>) /\ 0 \in 0 .. n
      BY <1>1
    <2> HIDE DEF Same
    <2> QED  BY <1>6, <2>1
  <1>8. ASSUME NEW k \in 1 .. n, k - 1 \in T PROVE k \in T
    <2> DEFINE x == w[k - 1]
               a == Arguments(q[k])
               y == v[k - 1]
               b == Arguments(d[k])
    <2>1. x \in Seq(Item) /\ a \in Seq(Item) /\ w[k] = x \o a /\ q[k] \in Message
      BY <1>4
    <2>2. y \in Seq(Item) /\ b \in Seq(Item) /\ v[k] = y \o b /\ d[k] \in Message
      BY <1>5
    <2>3. d[k].time = q[k].time + delay /\ d[k].midi = q[k].midi
      BY <1>1
    <2>4. Same(y, x)
      BY <1>8
    <2>5. Same(b, a)
      <3>1. /\ Len(a) = Len(q[k].midi) /\ q[k].midi \in Seq(Item)
            /\ \A j \in 1 .. Len(q[k].midi) : a[j].time = q[k].time /\ a[j].id = q[k].midi[j].id
        BY <2>1, ArgumentsAre
      <3>2. /\ Len(b) = Len(d[k].midi)
            /\ \A j \in 1 .. Len(d[k].midi) : b[j].time = d[k].time /\ b[j].id = d[k].midi[j].id
        BY <2>2, ArgumentsAre
      <3> HIDE DEF a, b
      <3> QED  BY <2>3, <3>1, <3>2
    <2> HIDE DEF x, y, a, b
    <2>6. Same(y \o b, x \o a)
      <3> DEFINE s == y \o b
                 t == x \o a
      <3>1. /\ Len(s) = Len(y) + Len(b) /\ Len(y) \in Nat /\ Len(b) \in Nat
            /\ \A j \in 1 .. Len(y) : s[j] = y[j]
            /\ \A j \in 1 .. Len(b) : s[Len(y) + j] = b[j]
        BY <2>2, ConcatElements
      <3>2. /\ Len(t) = Len(x) + Len(a) /\ Len(x) \in Nat /\ Len(a) \in Nat
            /\ \A j \in 1 .. Len(x) : t[j] = x[j]
            /\ \A j \in 1 .. Len(a) : t[Len(x) + j] = a[j]
        BY <2>1, ConcatElements
      <3> HIDE DEF s, t
      <3>3. Len(y) = Len(x) /\ Len(b) = Len(a) /\ Len(s) = Len(t)
        BY <2>4, <2>5, <3>1, <3>2
      <3>4. ASSUME NEW j \in 1 .. Len(t)
            PROVE  s[j].time = t[j].time + delay /\ s[j].id = t[j].id
        <4>1. CASE j \in 1 .. Len(x)
          BY <2>4, <3>1, <3>2, <3>3, <4>1
        <4>2. CASE j \notin 1 .. Len(x)
          <5> DEFINE i == j - Len(x)
          <5>1. i \in 1 .. Len(a) /\ Len(x) + i = j
            BY <3>2, <4>2
          <5> HIDE DEF i
          <5>2. s[j] = b[i] /\ t[j] = a[i]
            BY <3>1, <3>2, <3>3, <5>1
          <5> QED  BY <2>5, <5>1, <5>2
        <4> QED  BY <4>1, <4>2
      <3> QED  BY <3>3, <3>4 DEF s, t
    <2>7. k \in 0 .. n
      BY <1>1
    <2> HIDE DEF Same
    <2> QED  BY <2>1, <2>2, <2>6, <2>7
  <1> HIDE DEF T
  <1>9. \A k \in 0 .. n : k \in T
    BY <1>1, <1>7, <1>8, UpTo
  <1>10. n \in T
    <2>1. n \in 0 .. n
      BY <1>1
    <2> QED  BY <1>9, <2>1
  <1>11. Same(MidiWrites(d), MidiWrites(q))
    BY <1>6, <1>10 DEF T
  <1> QED  BY <1>4, <1>5, <1>11 DEF d

-----------------------------------------------------------------------------
(* MIDI: what midi_in makes of a period. *)

Group == [first : Nat \ {0}, lastTime : Int, out : Seq(Message)]

\* The MIDI events of a period, as JACK hands them over.
Arrived(evs) == /\ evs \in Seq(Item) /\ Ordered(evs)
                /\ \A k \in 1 .. Len(evs) : evs[k].time \in Frames

\* The end of a group, and its message.
GroupEnd(evs, i) == IF i = Len(evs) THEN i ELSE i - 1
GroupMessage(evs, acc, i) == [time |-> last + evs[i].time,
                              midi |-> SubSeq(evs, acc.first, GroupEnd(evs, i))]

\* One turn of the loop.
LEMMA Turn ==
    ASSUME NEW evs \in Seq(Item), NEW i \in 1 .. Len(evs), NEW acc \in Group, last \in Nat
    PROVE  LET s == MidiStep(evs, acc, i) IN
           /\ s \in Group /\ GroupMessage(evs, acc, i) \in Message
           /\ \/ s.first = acc.first /\ s.out = acc.out /\ i # Len(evs)
              \/ /\ s.first = GroupEnd(evs, i) + 1
                 /\ s.out = Append(acc.out, GroupMessage(evs, acc, i))
                 /\ GroupEnd(evs, i) \in 1 .. Len(evs)
  <1> DEFINE n == Len(evs)
             end == GroupEnd(evs, i)
             m == GroupMessage(evs, acc, i)
             lastTime == IF i = 1 THEN evs[1].time ELSE acc.lastTime
             closes == evs[i].time > lastTime \/ i = n
             s == MidiStep(evs, acc, i)
  <1>1. n \in Nat /\ \A k \in 1 .. n : evs[k] \in Item
    <2> HIDE DEF Item
    <2> QED  OBVIOUS
  <1>2. \A k \in 1 .. n : evs[k].time \in Int
    BY <1>1 DEF Item
  <1>3. acc.first \in Nat \ {0} /\ acc.lastTime \in Int /\ acc.out \in Seq(Message)
    BY DEF Group
  <1>4. lastTime \in Int
    <2>1. i = 1 => 1 \in 1 .. n
      BY <1>1
    <2> QED  BY <1>2, <1>3, <2>1
  <1>5. end \in Int /\ end <= n
    BY <1>1 DEF GroupEnd
  <1>6. closes => end \in 1 .. n
    <2>1. CASE i = n
      BY <1>1, <2>1 DEF GroupEnd
    <2>2. CASE i # n /\ i = 1
      BY <1>2, <2>2
    <2>3. CASE i # n /\ i # 1
      BY <1>1, <2>3 DEF GroupEnd
    <2> QED  BY <2>1, <2>2, <2>3
  <1>7. m \in Message
    <2> DEFINE f == acc.first
               q == SubSeq(evs, f, end)
    <2>1. f \in Int /\ \A k \in f .. end : k \in 1 .. n
      BY <1>1, <1>3, <1>5
    <2>2. \A k \in f .. end : evs[k] \in Item
      BY <1>1, <2>1
    <2>3. q \in Seq(Item)
      <3> HIDE DEF f, end, Item
      <3> QED  BY <1>5, <2>1, <2>2, SubSeqProperties
    <2>4. last + evs[i].time \in Int
      BY <1>2
    <2>5. m = [time |-> last + evs[i].time, midi |-> q]
      BY DEF GroupMessage
    <2> HIDE DEF q, m
    <2> QED  BY <2>3, <2>4, <2>5 DEF Message
  <1>8. CASE closes
    <2>1. s = [first |-> end + 1, lastTime |-> evs[end].time, out |-> Append(acc.out, m)]
      <3>1. \/ i = Len(evs) \/ evs[i].time > lastTime
        BY <1>8
      <3> QED  BY <3>1 DEF MidiStep, GroupEnd, GroupMessage
    <2>2. end + 1 \in Nat \ {0} /\ evs[end].time \in Int
      BY <1>1, <1>2, <1>6, <1>8
    <2> DEFINE o == Append(acc.out, m)
    <2>3. o \in Seq(Message)
      <3> HIDE DEF m, Message
      <3> QED  BY <1>3, <1>7
    <2> HIDE DEF end, m, s, o, closes
    <2>4. s = [first |-> end + 1, lastTime |-> evs[end].time, out |-> o]
      BY <2>1 DEF o
    <2>5. s \in Group
      <3> DEFINE t == evs[end].time
                 f == end + 1
      <3>1. f \in Nat \ {0} /\ t \in Int /\ s = [first |-> f, lastTime |-> t, out |-> o]
        BY <2>2, <2>4
      <3> HIDE DEF f, t
      <3> QED  BY <2>3, <3>1 DEF Group
    <2>6. s.first = end + 1 /\ s.out = o
      BY <2>4
    <2> QED  BY <1>6, <1>7, <1>8, <2>5, <2>6 DEF o, s, m, end
  <1>9. CASE ~closes
    <2>1. s = [acc EXCEPT !.lastTime = lastTime]
      BY <1>9 DEF MidiStep
    <2> HIDE DEF s, lastTime, m, end
    <2>2. s \in Group /\ s.first = acc.first /\ s.out = acc.out
      <3> DEFINE S == Seq(Message)
      <3>1. acc \in [first : Nat \ {0}, lastTime : Int, out : S]
        BY DEF Group
      <3> HIDE DEF S
      <3>2. /\ s \in [first : Nat \ {0}, lastTime : Int, out : S]
            /\ s.first = acc.first /\ s.out = acc.out
        BY <1>4, <2>1, <3>1
      <3> QED  BY <3>2 DEF Group, S
    <2> QED  BY <1>7, <1>9, <2>2 DEF s, m
  <1> QED  BY <1>8, <1>9

\* After i events: the groups that are closed hold the events before acc.first.
Grouped(evs, i, acc) ==
    LET w == MidiWrites(acc.out) IN
    /\ acc \in Group
    /\ acc.first <= Len(evs) + 1 /\ Len(w) = acc.first - 1
    /\ IF i = Len(evs) THEN acc.first = Len(evs) + 1 ELSE i = 0 \/ acc.first <= i
    /\ i = 0 => acc.first = 1 /\ acc.out = << >>
    /\ \A j \in 1 .. Len(w) : /\ w[j].id = evs[j].id
                              /\ w[j].time >= last + evs[j].time
                              /\ w[j].time <= last + NFrames - 1
    /\ Ordered(acc.out)
    /\ \A k \in 1 .. Len(acc.out) : last <= acc.out[k].time /\ acc.out[k].time <= last + evs[i].time

\* One turn of the loop keeps that.
LEMMA TurnGroups ==
    ASSUME NEW evs, Arrived(evs), NEW i \in 1 .. Len(evs), NEW acc, Grouped(evs, i - 1, acc),
           last \in Nat
    PROVE  Grouped(evs, i, MidiStep(evs, acc, i))
  <1> DEFINE n == Len(evs)
             end == GroupEnd(evs, i)
             m == GroupMessage(evs, acc, i)
             s == MidiStep(evs, acc, i)
             o == acc.out
             w == MidiWrites(o)
             f == acc.first
             frame == last + evs[i].time
  <1>1. /\ evs \in Seq(Item) /\ n \in Nat /\ NFrames \in Nat
        /\ \A k \in 1 .. n : evs[k].time \in 0 .. NFrames - 1
        /\ \A j, k \in 1 .. n : j <= k => evs[j].time <= evs[k].time
    BY PortsAssumption DEF PortsAssumption, Arrived, Ordered, Frames
  <1>2. /\ acc \in Group /\ f <= n + 1 /\ Len(w) = f - 1
        /\ IF i - 1 = n THEN f = n + 1 ELSE i - 1 = 0 \/ f <= i - 1
        /\ i - 1 = 0 => f = 1 /\ o = << >>
        /\ \A j \in 1 .. Len(w) : /\ w[j].id = evs[j].id
                                  /\ w[j].time >= last + evs[j].time
                                  /\ w[j].time <= last + NFrames - 1
        /\ Ordered(o)
        /\ \A k \in 1 .. Len(o) : last <= o[k].time /\ o[k].time <= last + evs[i - 1].time
    BY DEF Grouped
  <1>3. f \in Nat \ {0} /\ o \in Seq(Message)
    BY <1>2 DEF Group
  <1>4. f <= i
    BY <1>1, <1>2, <1>3
  <1>5. /\ s \in Group /\ m \in Message
        /\ \/ s.first = f /\ s.out = o /\ i # n
           \/ s.first = end + 1 /\ s.out = Append(o, m) /\ end \in 1 .. n
    BY <1>1, <1>2, Turn
  <1>6. /\ frame \in Int /\ last <= frame /\ frame <= last + NFrames - 1
        /\ \A k \in 1 .. n : evs[k].time \in Int
    BY <1>1
  <1>7. \A k \in 1 .. Len(o) : last <= o[k].time /\ o[k].time <= frame /\ o[k].time \in Int
    <2>1. TAKE k \in 1 .. Len(o)
    <2>2. o[k].time \in Int
      <3>1. o[k] \in Message
        <4> HIDE DEF Message, o
        <4> QED  BY <1>3, <2>1
      <3> QED  BY <3>1 DEF Message
    <2>3. i - 1 # 0
      BY <1>2, <2>1
    <2>4. i - 1 \in 1 .. n /\ i - 1 <= i
      BY <1>1, <2>3
    <2>5. evs[i - 1].time <= evs[i].time /\ evs[i - 1].time \in Int
      BY <1>1, <2>4
    <2>6. last <= o[k].time /\ o[k].time <= last + evs[i - 1].time
      BY <1>2
    <2>7. evs[i].time \in Int
      BY <1>6
    <2> DEFINE t == o[k].time
               a == evs[i - 1].time
               b == evs[i].time
    <2>8. t \in Int /\ a \in Int /\ b \in Int /\ a <= b /\ last <= t /\ t <= last + a
      BY <2>2, <2>5, <2>6, <2>7
    <2> HIDE DEF t, a, b
    <2>9. last <= t /\ t <= last + b /\ t \in Int
      BY <2>8
    <2> QED  BY <2>9 DEF t, b
  <1> HIDE DEF s, o, w, Message
  <1>8. CASE s.first = f /\ s.out = o /\ i # n
    BY <1>1, <1>2, <1>4, <1>5, <1>7, <1>8 DEF Grouped, s, o, w
  <1>9. CASE s.first = end + 1 /\ s.out = Append(o, m) /\ end \in 1 .. n
    <2> DEFINE p == m.midi
               a == Arguments(m)
    <2>1. /\ end \in 1 .. n /\ end <= i /\ f <= end + 1 /\ end \in Int
          /\ (i = n => end = n) /\ (i # n => end + 1 <= i)
      BY <1>1, <1>3, <1>4, <1>9 DEF GroupEnd
    <2>2. m.time = frame /\ p = SubSeq(evs, f, end)
      BY DEF GroupMessage
    <2>3. Len(p) = end - f + 1 /\ \A j \in 1 .. end - f + 1 : p[j] = evs[f + j - 1]
      <3> HIDE DEF end, f, p, Item
      <3>1. f <= end \/ f = end + 1
        BY <1>3, <2>1
      <3>2. \A k \in f .. end : evs[k] \in Item
        BY <1>1, <1>3, <2>1
      <3> QED  BY <1>3, <2>1, <2>2, <3>1, <3>2, SubSeqProperties
    <2>4. /\ a \in Seq(Item) /\ Len(a) = Len(p)
          /\ \A j \in 1 .. Len(p) : a[j].time = frame /\ a[j].id = p[j].id
      BY <1>5, <2>2, ArgumentsAre
    <2> HIDE DEF a, p
    <2>5. MidiWrites(s.out) = w \o a /\ w \in Seq(Item)
      <3> HIDE DEF m
      <3>1. Append(o, m) = o \o <<m>> /\ <<m>> \in Seq(Message)
        BY <1>3, <1>5
      <3>2. MidiWrites(o \o <<m>>) = MidiWrites(o) \o MidiWrites(<<m>>)
        BY <1>3, <3>1, WritesConcat
      <3>3. MidiWrites(<<m>>) = a
        BY <1>5, WritesOne DEF a
      <3>4. w \in Seq(Item)
        BY <1>3, WritesTimes DEF w
      <3> QED  BY <1>9, <3>1, <3>2, <3>3, <3>4 DEF w
    <2> DEFINE u == w \o a
    <2>6. /\ Len(u) = Len(w) + Len(a) /\ Len(w) \in Nat /\ Len(a) \in Nat
          /\ \A j \in 1 .. Len(w) : u[j] = w[j]
          /\ \A j \in 1 .. Len(a) : u[Len(w) + j] = a[j]
      <3>1. w \in Seq(Item) /\ a \in Seq(Item)
        BY <2>4, <2>5
      <3> HIDE DEF Item
      <3> QED  BY <3>1, ConcatElements
    <2> HIDE DEF u, f, end
    <2>7. Len(u) = end
      BY <1>2, <1>3, <2>1, <2>3, <2>4, <2>6
    <2>8. ASSUME NEW j \in 1 .. end
          PROVE  u[j].id = evs[j].id /\ u[j].time >= last + evs[j].time /\ u[j].time <= last + NFrames - 1
      <3>1. CASE j \in 1 .. Len(w)
        BY <1>2, <2>6, <3>1
      <3>2. CASE j \notin 1 .. Len(w)
        <4> DEFINE b == j - Len(w)
        <4>1. b \in 1 .. Len(a) /\ Len(w) + b = j /\ f + b - 1 = j
          BY <1>2, <1>3, <2>1, <2>6, <2>7, <3>2
        <4> HIDE DEF b
        <4>2. b \in 1 .. end - f + 1
          BY <2>3, <2>4, <4>1
        <4>3. u[j] = a[b] /\ p[b] = evs[j]
          BY <2>3, <2>6, <4>1, <4>2
        <4>4. u[j].id = evs[j].id /\ u[j].time = frame
          BY <2>4, <4>1, <4>3
        <4>5. evs[j].time <= evs[i].time /\ evs[j].time \in Int /\ evs[i].time \in Int
          <5>1. j \in 1 .. n /\ j <= i
            BY <1>1, <2>1
          <5> QED  BY <1>1, <1>6, <5>1
        <4>6. frame >= last + evs[j].time
          BY <4>5
        <4> QED  BY <1>6, <4>4, <4>6
      <3> QED  BY <3>1, <3>2
    <2> DEFINE r == Append(o, m)
    <2>9. /\ Len(r) = Len(o) + 1 /\ Len(o) \in Nat
          /\ \A k \in 1 .. Len(o) : r[k] = o[k]
          /\ r[Len(o) + 1] = m
      BY <1>3, <1>5, AppendElements
    <2> HIDE DEF r
    <2>10. ASSUME NEW k \in 1 .. Len(r) PROVE last <= r[k].time /\ r[k].time <= frame
      <3>1. CASE k \in 1 .. Len(o)
        BY <1>7, <2>9, <3>1
      <3>2. CASE k \notin 1 .. Len(o)
        <4>1. k = Len(o) + 1
          BY <2>9, <3>2
        <4>2. r[k].time = frame
          BY <2>2, <2>9, <4>1
        <4> HIDE DEF frame
        <4> QED  BY <1>6, <4>2
      <3> QED  BY <3>1, <3>2
    <2>11. Ordered(r)
      <3>1. ASSUME NEW j \in 1 .. Len(r), NEW k \in 1 .. Len(r), j <= k PROVE r[j].time <= r[k].time
        <4>1. CASE k \in 1 .. Len(o)
          <5>1. j \in 1 .. Len(o)
            BY <2>9, <3>1, <4>1
          <5>2. o[j].time <= o[k].time
            BY <1>2, <3>1, <4>1, <5>1 DEF Ordered
          <5> QED  BY <2>9, <4>1, <5>1, <5>2
        <4>2. CASE k \notin 1 .. Len(o)
          <5>1. k = Len(o) + 1
            BY <2>9, <4>2
          <5>2. r[k].time = frame
            BY <2>2, <2>9, <5>1
          <5> QED  BY <2>10, <5>2
        <4> QED  BY <4>1, <4>2
      <3> QED  BY <3>1 DEF Ordered
    <2>12. s.first = end + 1 /\ s.out = r /\ MidiWrites(s.out) = u
      BY <1>9, <2>5 DEF r, u, f, end
    <2>13. IF i = n THEN s.first = n + 1 ELSE i = 0 \/ s.first <= i
      BY <2>1, <2>12
    <2>14. s.first <= n + 1 /\ Len(u) = s.first - 1 /\ i # 0
      BY <1>1, <2>1, <2>7, <2>12
    <2> QED  BY <1>5, <2>7, <2>8, <2>10, <2>11, <2>12, <2>13, <2>14 DEF Grouped, s
  <1> QED  BY <1>5, <1>8, <1>9

\* midi_in passes every event of the period on, in its order, not before its time
\* and not after the period.
LEMMA MidiInGroups ==
    ASSUME NEW evs, Arrived(evs), last \in Nat
    PROVE  LET q == MidiIn(evs)
               w == MidiWrites(q)
           IN /\ q \in Seq(Message) /\ Ordered(q)
              /\ \A k \in 1 .. Len(q) : last <= q[k].time /\ q[k].time < last + NFrames
              /\ Len(w) = Len(evs)
              /\ \A j \in 1 .. Len(w) : /\ w[j].id = evs[j].id
                                        /\ w[j].time >= last + evs[j].time
                                        /\ w[j].time <= last + NFrames - 1
  <1> DEFINE n == Len(evs)
             S == Group
             start == [first |-> 1, lastTime |-> 0, out |-> << >>]
             g == [k \in 1 .. n |-> [x \in S |-> MidiStep(evs, x, k)]]
             acc == CHOOSE f : f = [k \in 0 .. n |-> IF k = 0 THEN start ELSE MidiStep(evs, f[k - 1], k)]
  <1>0. n \in Nat /\ evs \in Seq(Item)
    BY DEF Arrived
  <1>1. start \in S
    <2> DEFINE o == << >>
    <2>1. o \in Seq(Message)
      OBVIOUS
    <2> HIDE DEF o, Message
    <2>2. [first |-> 1, lastTime |-> 0, out |-> o] \in Group
      BY <2>1 DEF Group
    <2> QED  BY <2>2 DEF o
  <1>2. \A k \in 1 .. n, x \in S : MidiStep(evs, x, k) \in S
    BY <1>0, Turn
  <1>3. g \in [1 .. n -> [S -> S]] /\ \A x \in S, k \in 1 .. n : g[k][x] = MidiStep(evs, x, k)
    <2> HIDE DEF S
    <2> QED  BY <1>2
  <1> HIDE DEF g, S, n, start
  <1>4. PICK h \in [0 .. n -> S] : h[0] = start /\ \A k \in 1 .. n : h[k] = g[k][h[k - 1]]
    <2>2. \E h \in [0 .. n -> S] : Recurs(h, n, start, g)
      BY <1>0, <1>1, <1>3, RecursionExists
    <2> QED  BY <2>2 DEF Recurs
  <1>5. \A k \in 1 .. n : h[k] = MidiStep(evs, h[k - 1], k)
    <2>1. TAKE k \in 1 .. n
    <2>2. k - 1 \in 0 .. n
      BY <1>0
    <2>3. h[k - 1] \in S
      BY <2>2
    <2> QED  BY <1>3, <1>4, <2>3
  <1>6. h = [k \in 0 .. n |-> IF k = 0 THEN start ELSE MidiStep(evs, h[k - 1], k)]
    <2>1. \A k \in 0 .. n : h[k] = IF k = 0 THEN start ELSE MidiStep(evs, h[k - 1], k)
      <3>1. TAKE k \in 0 .. n
      <3>2. k = 0 \/ k \in 1 .. n
        BY <1>0
      <3> QED  BY <1>4, <1>5, <3>2
    <2> QED  BY <2>1
  <1>7. acc = [k \in 0 .. n |-> IF k = 0 THEN start ELSE MidiStep(evs, acc[k - 1], k)]
    <2>1. \E f : f = [k \in 0 .. n |-> IF k = 0 THEN start ELSE MidiStep(evs, f[k - 1], k)]
      BY <1>6
    <2> QED  BY <2>1
  <1>8. MidiIn(evs) = acc[n].out
    BY DEF MidiIn, n, start
  <1> HIDE DEF acc
  <1>9. acc[0] = start /\ \A k \in 1 .. n : acc[k] = MidiStep(evs, acc[k - 1], k)
    <2>1. 0 \in 0 .. n /\ \A k \in 1 .. n : k \in 0 .. n /\ k # 0
      BY <1>0
    <2> QED  BY <1>7, <2>1
  <1> DEFINE T == {k \in 0 .. n : Grouped(evs, k, acc[k])}
  <1>10. 0 \in T
    <2> DEFINE e == << >>
    <2>1. start.first = 1 /\ start.out = e /\ MidiWrites(e) = e /\ Len(e) = 0
      BY WritesNothing DEF start
    <2>2. Ordered(e)
      BY <2>1 DEF Ordered
    <2>3. 0 = n => 1 = n + 1
      BY <1>0
    <2> HIDE DEF e
    <2>4. Grouped(evs, 0, start)
      <3>1. Len(MidiWrites(start.out)) = 0 /\ 0 = start.first - 1 /\ start.first <= n + 1
        BY <1>0, <2>1
      <3>2. Len(start.out) = 0
        BY <2>1
      <3>3. start.out = << >>
        BY <2>1 DEF e
      <3>4. Ordered(start.out)
        BY <2>1, <2>2
      <3> QED  BY <1>0, <1>1, <2>1, <2>3, <3>1, <3>2, <3>3, <3>4 DEF Grouped, n, S
    <2>5. 0 \in 0 .. n
      BY <1>0
    <2> QED  BY <1>9, <2>4, <2>5
  <1>11. ASSUME NEW k \in 1 .. n, k - 1 \in T PROVE k \in T
    <2>1. Grouped(evs, k - 1, acc[k - 1])
      BY <1>11
    <2> DEFINE x == acc[k - 1]
    <2>2. Grouped(evs, k - 1, x)
      BY <2>1
    <2> HIDE DEF x
    <2>3. Grouped(evs, k, MidiStep(evs, x, k))
      BY <2>2, TurnGroups DEF n
    <2>4. acc[k] = MidiStep(evs, x, k) /\ k \in 0 .. n
      BY <1>0, <1>9 DEF x
    <2> QED  BY <2>3, <2>4
  <1> HIDE DEF T
  <1>12. \A k \in 0 .. n : k \in T
    BY <1>0, <1>10, <1>11, UpTo
  <1>13. n \in T
    <2>1. n \in 0 .. n
      BY <1>0
    <2> QED  BY <1>12, <2>1
  <1> DEFINE c == acc[n]
             q == c.out
             w == MidiWrites(q)
  <1>14. /\ c \in Group /\ Len(w) = c.first - 1 /\ c.first = n + 1
         /\ \A j \in 1 .. Len(w) : /\ w[j].id = evs[j].id
                                   /\ w[j].time >= last + evs[j].time
                                   /\ w[j].time <= last + NFrames - 1
         /\ Ordered(q) /\ (n = 0 => q = << >>)
         /\ \A k \in 1 .. Len(q) : last <= q[k].time /\ q[k].time <= last + evs[n].time
    BY <1>13 DEF T, Grouped, n
  <1> HIDE DEF c, q
  <1>15. q \in Seq(Message)
    BY <1>14 DEF Group, q
  <1>16. Len(w) = n
    BY <1>0, <1>14
  <1>17. ASSUME NEW k \in 1 .. Len(q) PROVE last <= q[k].time /\ q[k].time < last + NFrames
    <2>1. n # 0
      BY <1>14, <1>17
    <2>2. n \in 1 .. n
      BY <1>0, <2>1
    <2>3. evs[n].time \in 0 .. NFrames - 1 /\ NFrames \in Nat
      BY <2>2, PortsAssumption DEF Arrived, Frames, n, PortsAssumption
    <2>4. q[k].time \in Int
      <3>1. q[k] \in Message
        <4> HIDE DEF Message
        <4> QED  BY <1>15, <1>17
      <3> QED  BY <3>1 DEF Message
    <2> QED  BY <1>14, <2>3, <2>4
  <1>18. MidiIn(evs) = q
    BY <1>8 DEF q, c
  <1> QED  BY <1>14, <1>15, <1>16, <1>17, <1>18 DEF n

-----------------------------------------------------------------------------
(* MIDI: the invariant. *)

\* An event that is sent on in time: not before the event that came in, and with it
\* or by the end of its period, Delay frames later.
InTime(e, source) ==
    e.time - delay \in source.time .. (source.time \div NFrames + 1) * NFrames - 1

MidiTypeInv ==
    /\ delay \in Nat /\ \E p \in Nat : last = p * NFrames
    /\ midiIn \in Seq(Item) /\ midiOut \in Seq(Item) /\ midiQueue \in Seq(Message)
    /\ dropped \in Nat

\* The queue is in order and within Delay frames; what it will write are the events
\* that came in last, one after the other.
MidiQueueInv ==
    LET w == MidiWrites(midiQueue) IN
    /\ Ordered(midiQueue)
    /\ \A k \in 1 .. Len(midiQueue) : /\ last <= midiQueue[k].time
                                      /\ midiQueue[k].time < last + delay
    /\ Len(w) <= Len(midiIn)
    /\ \A j \in 1 .. Len(w) : /\ w[j].id = Len(midiIn) - Len(w) + j
                              /\ InTime(w[j], midiIn[w[j].id])

\* What has been written are events before those, in their order.
MidiOutInv ==
    LET done == Len(midiIn) - Len(MidiWrites(midiQueue)) IN
    /\ Len(midiOut) + dropped = done
    /\ Ordered(midiOut)
    /\ \A k \in 1 .. Len(midiOut) : /\ midiOut[k].time < last /\ midiOut[k].id \in 1 .. done
                                    /\ InTime(midiOut[k], midiIn[midiOut[k].id])
    /\ \A j, k \in 1 .. Len(midiOut) : j < k => midiOut[j].id < midiOut[k].id

MidiInv == MidiTypeInv /\ MidiQueueInv /\ MidiOutInv

\* It holds at the start.
LEMMA MidiStart == Init => MidiInv
  <1> SUFFICES ASSUME Init PROVE MidiInv
    OBVIOUS
  <1> DEFINE e == << >>
  <1>1. /\ delay \in Nat /\ last = 0 /\ midiIn = e /\ midiOut = e /\ midiQueue = e /\ dropped = 0
        /\ NFrames \in Nat
    BY PortsAssumption DEF Init, PortsAssumption
  <1>2. e \in Seq(Item) /\ e \in Seq(Message) /\ Len(e) = 0 /\ MidiWrites(e) = e
    BY WritesNothing
  <1>3. Ordered(e)
    BY <1>2 DEF Ordered
  <1>4. 0 = 0 * NFrames /\ 0 \in Nat
    BY <1>1
  <1> HIDE DEF e, Item, Message
  <1>5. MidiTypeInv
    BY <1>1, <1>2, <1>4 DEF MidiTypeInv
  <1>6. MidiQueueInv /\ MidiOutInv
    <2>1. /\ Len(midiIn) = 0 /\ Len(midiOut) = 0 /\ Len(midiQueue) = 0
          /\ Len(MidiWrites(midiQueue)) = 0 /\ dropped = 0
          /\ Ordered(midiQueue) /\ Ordered(midiOut)
      BY <1>1, <1>2, <1>3
    <2> QED  BY <2>1 DEF MidiQueueInv, MidiOutInv
  <1> QED  BY <1>5, <1>6 DEF MidiInv

\* The frames of a period end where the next one begins.
LEMMA PeriodEnds ==
    ASSUME NEW p \in Nat, NEW t \in 0 .. NFrames - 1
    PROVE  ((p * NFrames + t) \div NFrames + 1) * NFrames = p * NFrames + NFrames
  <1> DEFINE n == NFrames
  <1>1. n \in Nat \ {0}
    BY PortsAssumption DEF PortsAssumption
  <1> HIDE DEF n
  <1>2. (p * n + t) \div n = p
    BY <1>1 DEF n
  <1>3. (p + 1) * n = p * n + n
    BY <1>1
  <1> QED  BY <1>2, <1>3 DEF n

\* What midi_in notes of the events of a period.
Noted(evs) == [k \in DOMAIN evs |-> [evs[k] EXCEPT !.time = last + @]]

\* The same events, with the frames of JACK's clock.
LEMMA NotedIs ==
    ASSUME NEW evs \in Seq(Item), last \in Nat
    PROVE  /\ Noted(evs) \in Seq(Item) /\ Len(Noted(evs)) = Len(evs) /\ Len(evs) \in Nat
           /\ \A k \in 1 .. Len(evs) : /\ Noted(evs)[k].time = last + evs[k].time
                                       /\ evs[k].time \in Int
  <1> DEFINE n == Len(evs)
             s == Noted(evs)
  <1>1. n \in Nat /\ DOMAIN evs = 1 .. n
    OBVIOUS
  <1>2. ASSUME NEW k \in 1 .. n
        PROVE  /\ [evs[k] EXCEPT !.time = last + @] \in Item /\ evs[k].time \in Int
               /\ [evs[k] EXCEPT !.time = last + @].time = last + evs[k].time
    <2> DEFINE e == evs[k]
    <2>1. e \in Item
      <3> HIDE DEF Item
      <3> QED  OBVIOUS
    <2> HIDE DEF e
    <2> DEFINE t == last + e.time
    <2>2. e \in [time : Int, id : Nat] /\ e.time \in Int
      BY <2>1 DEF Item
    <2>3. t \in Int
      BY <2>2
    <2> HIDE DEF t
    <2>4. [e EXCEPT !.time = t] \in [time : Int, id : Nat]
      BY <2>2, <2>3
    <2>5. [e EXCEPT !.time = t].time = t
      BY <2>2
    <2> QED  BY <2>2, <2>4, <2>5 DEF e, t, Item
  <1>3. s = [k \in 1 .. n |-> [evs[k] EXCEPT !.time = last + @]]
    BY <1>1 DEF Noted
  <1> HIDE DEF s, n, Item
  <1>4. s \in [1 .. n -> Item] /\ \A k \in 1 .. n : s[k] = [evs[k] EXCEPT !.time = last + @]
    BY <1>2, <1>3
  <1>5. s \in Seq(Item) /\ Len(s) = n
    BY <1>1, <1>4, FunctionIsSequence
  <1>6. \A k \in 1 .. n : s[k].time = last + evs[k].time /\ evs[k].time \in Int
    BY <1>2, <1>4
  <1> QED  BY <1>1, <1>5, <1>6 DEF s, n

\* What the queue holds once the events of a period have come in.
LEMMA QueueAfterInput ==
    ASSUME MidiInv, NEW evs, Arrived(evs),
           \A k \in 1 .. Len(evs) : evs[k].id = Len(midiIn) + k
    PROVE  LET q == midiQueue \o Delayed(MidiIn(evs))
               u == MidiWrites(q)
               in == midiIn \o Noted(evs)
               done == Len(midiIn) - Len(MidiWrites(midiQueue))
           IN /\ q \in Seq(Message) /\ Ordered(q)
              /\ \A k \in 1 .. Len(q) : last <= q[k].time /\ q[k].time < last + NFrames + delay
              /\ in \in Seq(Item) /\ \A k \in 1 .. Len(midiIn) : in[k] = midiIn[k]
              /\ u \in Seq(Item) /\ done \in Nat /\ Len(in) = done + Len(u)
              /\ \A j \in 1 .. Len(u) : u[j].id = done + j /\ InTime(u[j], in[u[j].id])
  <1> DEFINE m == MidiIn(evs)
             d == Delayed(m)
             q == midiQueue \o d
             w == MidiWrites(midiQueue)
             x == MidiWrites(m)
             v == MidiWrites(d)
             u == MidiWrites(q)
             new == Noted(evs)
             in == midiIn \o new
             n == Len(evs)
             done == Len(midiIn) - Len(w)
  <1>1. /\ delay \in Nat /\ last \in Nat /\ NFrames \in Nat
        /\ midiIn \in Seq(Item) /\ midiQueue \in Seq(Message)
    BY PortsAssumption DEF MidiInv, MidiTypeInv, PortsAssumption
  <1>2. PICK p \in Nat : last = p * NFrames
    BY DEF MidiInv, MidiTypeInv
  <1>3. /\ Ordered(midiQueue) /\ Len(w) <= Len(midiIn)
        /\ \A k \in 1 .. Len(midiQueue) : last <= midiQueue[k].time /\ midiQueue[k].time < last + delay
        /\ \A j \in 1 .. Len(w) : w[j].id = done + j /\ InTime(w[j], midiIn[w[j].id])
    BY DEF MidiInv, MidiQueueInv
  <1>4. evs \in Seq(Item) /\ \A k \in 1 .. n : evs[k].time \in 0 .. NFrames - 1
    BY DEF Arrived, Frames
  <1>5. /\ m \in Seq(Message) /\ Ordered(m)
        /\ \A k \in 1 .. Len(m) : last <= m[k].time /\ m[k].time < last + NFrames
        /\ Len(x) = n
        /\ \A j \in 1 .. n : /\ x[j].id = evs[j].id
                             /\ x[j].time >= last + evs[j].time
                             /\ x[j].time <= last + NFrames - 1
    BY <1>1, MidiInGroups
  <1>6. /\ d \in Seq(Message) /\ Len(d) = Len(m) /\ Ordered(d) /\ Len(m) \in Nat
        /\ \A k \in 1 .. Len(m) : d[k].time = m[k].time + delay /\ m[k].time \in Int
    <2> HIDE DEF m, Message
    <2> QED  BY <1>1, <1>5, MessagesDelayed
  <1>7. /\ v \in Seq(Item) /\ x \in Seq(Item) /\ Len(v) = n
        /\ \A j \in 1 .. n : v[j].time = x[j].time + delay /\ v[j].id = x[j].id
    <2> HIDE DEF m, Message, Item
    <2> QED  BY <1>1, <1>5, WritesDelayed
  <1>8. /\ new \in Seq(Item) /\ Len(new) = n /\ n \in Nat
        /\ \A k \in 1 .. n : new[k].time = last + evs[k].time /\ evs[k].time \in Int
    <2> HIDE DEF Item
    <2> QED  BY <1>1, <1>4, NotedIs
  <1> HIDE DEF m, d, x, v, new, w, Item, Message
  <1>9. w \in Seq(Item) /\ u = w \o v
    <2>1. w \in Seq(Item)
      BY <1>1, WritesTimes DEF w
    <2> QED  BY <1>1, <1>6, <2>1, WritesConcat DEF w, v
  <1> HIDE DEF u
  <1>10. /\ u \in Seq(Item) /\ Len(u) = Len(w) + n /\ Len(w) \in Nat
         /\ \A j \in 1 .. Len(w) : u[j] = w[j]
         /\ \A j \in 1 .. n : u[Len(w) + j] = v[j]
    <2> DEFINE t == w \o v
    <2>1. /\ t \in Seq(Item) /\ Len(t) = Len(w) + Len(v) /\ Len(w) \in Nat
          /\ \A j \in 1 .. Len(w) : t[j] = w[j]
          /\ \A j \in 1 .. Len(v) : t[Len(w) + j] = v[j]
      <3>1. w \in Seq(Item) /\ v \in Seq(Item)
        BY <1>7, <1>9
      <3> QED  BY <3>1, ConcatElements
    <2>2. t = u /\ Len(v) = n
      BY <1>7, <1>9
    <2> HIDE DEF t, n
    <2> QED  BY <2>1, <2>2
  <1>11. /\ in \in Seq(Item) /\ Len(in) = Len(midiIn) + n /\ Len(midiIn) \in Nat
         /\ \A k \in 1 .. Len(midiIn) : in[k] = midiIn[k]
         /\ \A k \in 1 .. n : in[Len(midiIn) + k] = new[k]
    <2>1. /\ in \in Seq(Item) /\ Len(in) = Len(midiIn) + Len(new) /\ Len(midiIn) \in Nat
          /\ \A k \in 1 .. Len(midiIn) : in[k] = midiIn[k]
          /\ \A k \in 1 .. Len(new) : in[Len(midiIn) + k] = new[k]
      <3>1. midiIn \in Seq(Item) /\ new \in Seq(Item)
        BY <1>1, <1>8
      <3> QED  BY <3>1, ConcatElements
    <2>2. Len(new) = n
      BY <1>8
    <2> HIDE DEF in, n
    <2> QED  BY <2>1, <2>2
  <1>12. /\ q \in Seq(Message) /\ Len(q) = Len(midiQueue) + Len(d) /\ Len(midiQueue) \in Nat
         /\ \A k \in 1 .. Len(midiQueue) : q[k] = midiQueue[k]
         /\ \A k \in 1 .. Len(d) : q[Len(midiQueue) + k] = d[k]
    <2>1. midiQueue \in Seq(Message) /\ d \in Seq(Message)
      BY <1>1, <1>6
    <2> QED  BY <2>1, ConcatElements
  <1>13. /\ \A k \in 1 .. Len(midiQueue) : midiQueue[k].time \in Int
         /\ \A k \in 1 .. Len(d) : /\ last + delay <= d[k].time /\ d[k].time < last + NFrames + delay
    <2>1. ASSUME NEW k \in 1 .. Len(midiQueue) PROVE midiQueue[k].time \in Int
      <3>1. midiQueue[k] \in Message
        BY <1>1
      <3> QED  BY <3>1 DEF Message
    <2>2. ASSUME NEW k \in 1 .. Len(d)
          PROVE  last + delay <= d[k].time /\ d[k].time < last + NFrames + delay
      BY <1>1, <1>5, <1>6
    <2> QED  BY <2>1, <2>2
  <1>14. Ordered(q)
    <2>1. ASSUME NEW i \in 1 .. Len(midiQueue), NEW j \in 1 .. Len(d)
          PROVE  midiQueue[i].time <= d[j].time
      <3>1. /\ midiQueue[i].time \in Int /\ midiQueue[i].time < last + delay
            /\ last + delay <= d[j].time
        BY <1>3, <1>13
      <3>2. d[j].time \in Int
        BY <1>1, <1>6
      <3> QED  BY <1>1, <3>1, <3>2
    <2> QED  BY <1>1, <1>3, <1>6, <2>1, OrderedConcat
  <1> HIDE DEF q
  <1>15. ASSUME NEW k \in 1 .. Len(q) PROVE last <= q[k].time /\ q[k].time < last + NFrames + delay
    <2>1. CASE k \in 1 .. Len(midiQueue)
      <3>1. q[k] = midiQueue[k] /\ midiQueue[k].time \in Int
        BY <1>12, <1>13, <2>1
      <3>2. last <= midiQueue[k].time /\ midiQueue[k].time < last + delay
        BY <1>3, <2>1
      <3> QED  BY <1>1, <3>1, <3>2
    <2>2. CASE k \notin 1 .. Len(midiQueue)
      <3> DEFINE i == k - Len(midiQueue)
      <3>1. i \in 1 .. Len(d) /\ Len(midiQueue) + i = k
        BY <1>6, <1>12, <2>2
      <3> HIDE DEF i
      <3>2. q[k] = d[i] /\ d[i].time \in Int
        <4>1. q[k] = d[i]
          BY <1>12, <3>1
        <4>2. i \in 1 .. Len(m)
          BY <1>6, <3>1
        <4>3. d[i].time \in Int
          BY <1>1, <1>6, <4>2
        <4> QED  BY <4>1, <4>3
      <3>3. last + delay <= d[i].time /\ d[i].time < last + NFrames + delay
        BY <1>13, <3>1
      <3> QED  BY <1>1, <3>2, <3>3
    <2> QED  BY <2>1, <2>2
  <1>16. done \in Nat /\ Len(in) = done + Len(u) /\ Len(midiIn) = done + Len(w)
    BY <1>3, <1>10, <1>11
  <1> HIDE DEF in, done
  <1>17. ASSUME NEW j \in 1 .. Len(u) PROVE u[j].id = done + j /\ InTime(u[j], in[u[j].id])
    <2>1. CASE j \in 1 .. Len(w)
      <3>1. u[j] = w[j] /\ w[j].id = done + j /\ InTime(w[j], midiIn[w[j].id])
        BY <1>3, <1>10, <2>1 DEF done
      <3>2. done + j \in 1 .. Len(midiIn)
        BY <1>10, <1>16, <2>1
      <3>3. in[done + j] = midiIn[done + j]
        BY <1>11, <3>2
      <3> QED  BY <3>1, <3>3
    <2>2. CASE j \notin 1 .. Len(w)
      <3> DEFINE i == j - Len(w)
      <3>1. i \in 1 .. n /\ Len(w) + i = j /\ Len(midiIn) + i = done + j
        BY <1>10, <1>11, <1>16, <2>2
      <3> HIDE DEF i, n
      <3>2. u[j] = v[i] /\ in[done + j] = new[i]
        BY <1>10, <1>11, <3>1
      <3>3. v[i].id = done + j /\ v[i].time = x[i].time + delay
        BY <1>5, <1>7, <3>1 DEF n
      <3>4. /\ new[i].time = last + evs[i].time /\ evs[i].time \in 0 .. NFrames - 1
            /\ x[i].time >= last + evs[i].time /\ x[i].time <= last + NFrames - 1
        BY <1>4, <1>5, <1>8, <3>1
      <3>5. (new[i].time \div NFrames + 1) * NFrames = last + NFrames
        <4> DEFINE t == evs[i].time
        <4>1. t \in 0 .. NFrames - 1
          BY <3>4
        <4> HIDE DEF t
        <4>2. ((p * NFrames + t) \div NFrames + 1) * NFrames = p * NFrames + NFrames
          BY <1>2, <4>1, PeriodEnds
        <4> QED  BY <1>2, <3>4, <4>2 DEF t
      <3>6. x[i].time \in Int
        <4>1. x[i] \in Item
          BY <1>5, <1>7, <3>1 DEF n
        <4> QED  BY <4>1 DEF Item
      <3>7. InTime(v[i], new[i])
        <4> DEFINE a == (new[i].time \div NFrames + 1) * NFrames
                   t == v[i].time - delay
        <4>1. t = x[i].time /\ a = last + NFrames
          BY <1>1, <3>3, <3>5, <3>6
        <4>2. new[i].time \in Int
          BY <1>1, <3>4
        <4> HIDE DEF a, t
        <4>3. t \in new[i].time .. a - 1
          BY <1>1, <3>4, <3>6, <4>1, <4>2
        <4> QED  BY <4>3 DEF InTime, a, t
      <3> QED  BY <3>2, <3>3, <3>7
    <2> QED  BY <2>1, <2>2
  <1> HIDE DEF n
  <1> QED  BY <1>10, <1>11, <1>12, <1>14, <1>15, <1>16, <1>17 DEF q, d, m, u, in, new, done, w

\* The first elements of a sequence.
LEMMA FirstElements ==
    ASSUME NEW S, NEW s \in Seq(S), NEW n \in Nat, n <= Len(s)
    PROVE  /\ SubSeq(s, 1, n) \in Seq(S) /\ Len(SubSeq(s, 1, n)) = n
           /\ \A k \in 1 .. n : SubSeq(s, 1, n)[k] = s[k]
  OBVIOUS

\* A period with these events.
LEMMA MidiPeriodKeeps ==
    ASSUME MidiInv, NEW evs, Arrived(evs), NEW buf, Period(evs, buf),
           \A k \in 1 .. Len(evs) : evs[k].id = Len(midiIn) + k
    PROVE  MidiInv'
  <1> DEFINE q == midiQueue \o Delayed(MidiIn(evs))
             in == midiIn \o Noted(evs)
             w == MidiWrites(midiQueue)
             u == MidiWrites(q)
             due == Due(q)
             rest == Rest(q)
             y == MidiWrites(due)
             z == MidiWrites(rest)
             out == MidiOut(due)
             outs == midiOut \o out
             done == Len(midiIn) - Len(w)
  <1>1. /\ midiQueue' = rest /\ midiIn' = in /\ midiOut' = outs
        /\ dropped' = dropped + Len(y) - Len(out)
        /\ last' = last + NFrames /\ delay' = delay
    BY DEF Period, Noted
  <1>2. /\ delay \in Nat /\ last \in Nat /\ NFrames \in Nat /\ dropped \in Nat /\ MidiCap \in Nat
        /\ midiOut \in Seq(Item)
    BY PortsAssumption DEF MidiInv, MidiTypeInv, PortsAssumption
  <1>3. PICK p \in Nat : last = p * NFrames
    BY DEF MidiInv, MidiTypeInv
  <1>4. /\ q \in Seq(Message) /\ Ordered(q)
        /\ \A k \in 1 .. Len(q) : last <= q[k].time /\ q[k].time < last + NFrames + delay
        /\ in \in Seq(Item) /\ \A k \in 1 .. Len(midiIn) : in[k] = midiIn[k]
        /\ u \in Seq(Item) /\ done \in Nat /\ Len(in) = done + Len(u)
        /\ \A j \in 1 .. Len(u) : u[j].id = done + j /\ InTime(u[j], in[u[j].id])
    BY QueueAfterInput
  <1>5. /\ Len(midiOut) + dropped = done /\ Ordered(midiOut)
        /\ \A k \in 1 .. Len(midiOut) : /\ midiOut[k].time < last /\ midiOut[k].id \in 1 .. done
                                        /\ InTime(midiOut[k], midiIn[midiOut[k].id])
        /\ \A j, k \in 1 .. Len(midiOut) : j < k => midiOut[j].id < midiOut[k].id
    BY DEF MidiInv, MidiOutInv
  <1>6. done <= Len(midiIn) /\ Len(midiIn) \in Nat
    <2>1. midiIn \in Seq(Item) /\ midiQueue \in Seq(Message)
      BY DEF MidiInv, MidiTypeInv
    <2>2. w \in Seq(Item)
      BY <2>1, WritesTimes
    <2> QED  BY <2>1, <2>2
  <1> HIDE DEF q, in, Item, Message, w
  <1>7. \A k \in 1 .. Len(q) : q[k].time \in Int
    <2>1. \A k \in 1 .. Len(q) : q[k] \in Message
      BY <1>4
    <2> QED  BY <2>1 DEF Message
  <1>8. /\ due \in Seq(Message) /\ rest \in Seq(Message) /\ q = due \o rest
        /\ \A k \in 1 .. Len(due) : due[k] = q[k] /\ q[k].time < last + NFrames
        /\ Len(due) \in Nat /\ Len(due) <= Len(q) /\ Len(rest) = Len(q) - Len(due)
        /\ \A k \in 1 .. Len(rest) : rest[k] = q[Len(due) + k]
        /\ \A k \in 1 .. Len(rest) : rest[k].time >= last + NFrames
    BY <1>2, <1>4, <1>7, DueSplits
  <1> HIDE DEF due, rest
  <1>9. Ordered(due) /\ Ordered(rest)
    <2>1. Len(q) \in Nat
      BY <1>4
    <2>2. \A j, k \in 1 .. Len(q) : j <= k => q[j].time <= q[k].time
      BY <1>4 DEF Ordered
    <2>3. ASSUME NEW j \in 1 .. Len(due), NEW k \in 1 .. Len(due), j <= k
          PROVE  due[j].time <= due[k].time
      <3>1. j \in 1 .. Len(q) /\ k \in 1 .. Len(q)
        BY <1>8, <2>1
      <3> QED  BY <1>8, <2>2, <2>3, <3>1
    <2>4. ASSUME NEW j \in 1 .. Len(rest), NEW k \in 1 .. Len(rest), j <= k
          PROVE  rest[j].time <= rest[k].time
      <3> DEFINE a == Len(due) + j
                 b == Len(due) + k
      <3>1. a \in 1 .. Len(q) /\ b \in 1 .. Len(q) /\ a <= b
        BY <1>8, <2>1, <2>4
      <3>2. rest[j] = q[a] /\ rest[k] = q[b]
        BY <1>8
      <3> HIDE DEF a, b
      <3> QED  BY <2>2, <3>1, <3>2
    <2> QED  BY <2>3, <2>4 DEF Ordered
  <1>10. /\ y \in Seq(Item) /\ z \in Seq(Item) /\ Ordered(y) /\ u = y \o z
         /\ \A j \in 1 .. Len(y) : \E k \in 1 .. Len(due) : y[j].time = due[k].time
    BY <1>8, <1>9, WritesTimes, WritesConcat
  <1> HIDE DEF u, y, z
  <1>11. /\ Len(u) = Len(y) + Len(z) /\ Len(y) \in Nat /\ Len(z) \in Nat
         /\ \A j \in 1 .. Len(y) : u[j] = y[j]
         /\ \A j \in 1 .. Len(z) : u[Len(y) + j] = z[j]
    <2>1. y \in Seq(Item) /\ z \in Seq(Item)
      BY <1>10
    <2> DEFINE t == y \o z
    <2>2. /\ Len(t) = Len(y) + Len(z) /\ Len(y) \in Nat /\ Len(z) \in Nat
          /\ \A j \in 1 .. Len(y) : t[j] = y[j]
          /\ \A j \in 1 .. Len(z) : t[Len(y) + j] = z[j]
      BY <2>1, ConcatElements
    <2>3. t = u
      BY <1>10
    <2> HIDE DEF t
    <2> QED  BY <2>2, <2>3
  <1>12. ASSUME NEW j \in 1 .. Len(y) PROVE last <= y[j].time /\ y[j].time < last + NFrames
    <2>1. PICK k \in 1 .. Len(due) : y[j].time = due[k].time
      BY <1>10
    <2>2. due[k] = q[k] /\ q[k].time < last + NFrames
      BY <1>8
    <2>3. k \in 1 .. Len(q)
      <3>1. Len(q) \in Nat
        BY <1>4
      <3> QED  BY <1>8, <3>1
    <2> QED  BY <1>4, <2>1, <2>2, <2>3
  <1> DEFINE kept == IF Len(y) < MidiCap THEN Len(y) ELSE MidiCap
  <1>13. /\ out \in Seq(Item) /\ Len(out) = kept /\ kept \in Nat /\ kept <= Len(y)
         /\ \A k \in 1 .. kept : out[k] = y[k]
    <2>1. out = SubSeq(y, 1, kept)
      BY DEF MidiOut, y
    <2>2. kept \in Nat /\ kept <= Len(y)
      BY <1>2, <1>11
    <2> HIDE DEF out, kept
    <2> QED  BY <1>10, <2>1, <2>2, FirstElements
  <1> HIDE DEF out, kept
  <1>14. /\ outs \in Seq(Item) /\ Len(outs) = Len(midiOut) + kept /\ Len(midiOut) \in Nat
         /\ \A k \in 1 .. Len(midiOut) : outs[k] = midiOut[k]
         /\ \A k \in 1 .. kept : outs[Len(midiOut) + k] = out[k]
    <2>1. midiOut \in Seq(Item) /\ out \in Seq(Item)
      BY <1>2, <1>13
    <2>2. /\ outs \in Seq(Item) /\ Len(outs) = Len(midiOut) + Len(out) /\ Len(midiOut) \in Nat
          /\ \A k \in 1 .. Len(midiOut) : outs[k] = midiOut[k]
          /\ \A k \in 1 .. Len(out) : outs[Len(midiOut) + k] = out[k]
      BY <2>1, ConcatElements
    <2> HIDE DEF outs
    <2> QED  BY <1>13, <2>2
  <1>15. ASSUME NEW k \in 1 .. kept
         PROVE  /\ out[k] = y[k] /\ k \in 1 .. Len(y) /\ k \in 1 .. Len(u) /\ out[k] = u[k]
                /\ out[k].id = done + k /\ InTime(out[k], in[out[k].id])
                /\ last <= out[k].time /\ out[k].time < last + NFrames
    <2>1. k \in 1 .. Len(y) /\ k \in 1 .. Len(u)
      BY <1>11, <1>13
    <2>2. out[k] = y[k] /\ y[k] = u[k]
      BY <1>11, <1>13, <2>1
    <2>3. u[k].id = done + k /\ InTime(u[k], in[u[k].id])
      BY <1>4, <2>1
    <2> QED  BY <1>12, <2>1, <2>2, <2>3
  <1>16. Ordered(outs)
    <2>1. Ordered(out)
      <3>1. ASSUME NEW j \in 1 .. kept, NEW k \in 1 .. kept, j <= k PROVE out[j].time <= out[k].time
        <4>1. y[j].time <= y[k].time
          BY <1>10, <1>15, <3>1 DEF Ordered
        <4> QED  BY <1>15, <4>1
      <3> QED  BY <1>13, <3>1 DEF Ordered
    <2>2. ASSUME NEW i \in 1 .. Len(midiOut), NEW j \in 1 .. Len(out)
          PROVE  midiOut[i].time <= out[j].time
      <3>1. midiOut[i].time < last /\ last <= out[j].time
        BY <1>5, <1>13, <1>15
      <3>2. midiOut[i].time \in Int /\ out[j].time \in Int
        <4>1. midiOut[i] \in Item /\ out[j] \in Item
          BY <1>2, <1>13
        <4> QED  BY <4>1 DEF Item
      <3> QED  BY <1>2, <3>1, <3>2
    <2> QED  BY <1>2, <1>5, <1>13, <2>1, <2>2, OrderedConcat
  <1> HIDE DEF outs, done
  <1>17. ASSUME NEW k \in 1 .. Len(outs)
         PROVE  /\ outs[k].time < last + NFrames /\ outs[k].id \in 1 .. done + Len(y)
                /\ InTime(outs[k], in[outs[k].id])
                /\ k \in 1 .. Len(midiOut) => outs[k] = midiOut[k] /\ outs[k].id <= done
                /\ k \notin 1 .. Len(midiOut) => /\ outs[k].id = done + (k - Len(midiOut))
                                                 /\ k > Len(midiOut)
    <2>1. CASE k \in 1 .. Len(midiOut)
      <3>1. /\ outs[k] = midiOut[k] /\ midiOut[k].time < last /\ midiOut[k].id \in 1 .. done
            /\ InTime(midiOut[k], midiIn[midiOut[k].id])
        BY <1>5, <1>14, <2>1
      <3>2. midiOut[k].time \in Int
        <4>1. midiOut[k] \in Item
          BY <1>2, <2>1
        <4> QED  BY <4>1 DEF Item
      <3>3. midiOut[k].id \in 1 .. Len(midiIn)
        BY <1>4, <1>6, <3>1
      <3>4. in[midiOut[k].id] = midiIn[midiOut[k].id]
        BY <1>4, <3>3
      <3>5. outs[k].time < last + NFrames
        <4> DEFINE t == midiOut[k].time
        <4>1. t \in Int /\ t < last /\ outs[k].time = t
          BY <3>1, <3>2
        <4> HIDE DEF t
        <4> QED  BY <1>2, <4>1
      <3>6. outs[k].id \in 1 .. done + Len(y) /\ outs[k].id <= done
        <4> DEFINE i == midiOut[k].id
        <4>1. i \in 1 .. done /\ done \in Nat /\ Len(y) \in Nat /\ outs[k].id = i
          BY <1>4, <1>11, <3>1
        <4> HIDE DEF i
        <4> QED  BY <4>1
      <3>7. InTime(outs[k], in[outs[k].id])
        BY <3>1, <3>4
      <3> QED  BY <2>1, <3>1, <3>5, <3>6, <3>7
    <2>2. CASE k \notin 1 .. Len(midiOut)
      <3> DEFINE i == k - Len(midiOut)
      <3>1. i \in 1 .. kept /\ Len(midiOut) + i = k /\ k > Len(midiOut)
        <4> DEFINE l == Len(midiOut)
        <4>1. l \in Nat /\ kept \in Nat /\ k \in 1 .. l + kept /\ k \notin 1 .. l
          BY <1>13, <1>14, <2>2
        <4> HIDE DEF l
        <4>2. k - l \in 1 .. kept /\ l + (k - l) = k /\ k > l
          BY <4>1
        <4> QED  BY <4>2 DEF l
      <3>2. outs[k] = out[i]
        BY <1>14, <3>1
      <3> HIDE DEF i
      <3>3. /\ outs[k].time < last + NFrames /\ outs[k].id = done + i
            /\ InTime(outs[k], in[outs[k].id])
        BY <1>15, <3>1, <3>2
      <3>4. done + i \in 1 .. done + Len(y)
        BY <1>4, <1>11, <1>13, <3>1
      <3> QED  BY <2>2, <3>1, <3>3, <3>4 DEF i
    <2> QED  BY <2>1, <2>2
  <1>18. ASSUME NEW j \in 1 .. Len(outs), NEW k \in 1 .. Len(outs), j < k
         PROVE  outs[j].id < outs[k].id
    <2>1. CASE k \in 1 .. Len(midiOut)
      <3>1. j \in 1 .. Len(midiOut)
        BY <1>14, <1>18, <2>1
      <3>2. midiOut[j].id < midiOut[k].id
        BY <1>5, <1>18, <2>1, <3>1
      <3> QED  BY <1>17, <2>1, <3>1, <3>2
    <2>2. CASE k \notin 1 .. Len(midiOut)
      <3>1. outs[k].id = done + (k - Len(midiOut)) /\ k > Len(midiOut)
        BY <1>17, <2>2
      <3>2. CASE j \in 1 .. Len(midiOut)
        <4>1. outs[j].id <= done /\ outs[j].id \in Int
          BY <1>17, <3>2
        <4> QED  BY <1>4, <1>14, <3>1, <4>1
      <3>3. CASE j \notin 1 .. Len(midiOut)
        <4>1. outs[j].id = done + (j - Len(midiOut))
          BY <1>17, <3>3
        <4> QED  BY <1>4, <1>14, <1>18, <3>1, <4>1
      <3> QED  BY <3>2, <3>3
    <2> QED  BY <2>1, <2>2
  <1>19. Len(in) - Len(z) = done + Len(y) /\ Len(z) <= Len(in) /\ Len(in) \in Nat
    BY <1>4, <1>11
  <1>20. MidiTypeInv'
    <2>1. last' = (p + 1) * NFrames /\ p + 1 \in Nat
      BY <1>1, <1>2, <1>3
    <2>2. dropped' \in Nat
      BY <1>1, <1>2, <1>11, <1>13
    <2> QED  BY <1>1, <1>2, <1>4, <1>8, <1>14, <2>1, <2>2 DEF MidiTypeInv, outs
  <1>21. MidiQueueInv'
    <2>1. ASSUME NEW k \in 1 .. Len(rest)
          PROVE  last + NFrames <= rest[k].time /\ rest[k].time < last + NFrames + delay
      <3> DEFINE i == Len(due) + k
      <3>1. Len(q) \in Nat
        BY <1>4
      <3>2. i \in 1 .. Len(q)
        BY <1>8, <3>1
      <3>3. rest[k] = q[i] /\ rest[k].time >= last + NFrames
        BY <1>8
      <3> HIDE DEF i
      <3>4. q[i].time < last + NFrames + delay /\ q[i].time \in Int
        BY <1>4, <1>7, <3>2
      <3> QED  BY <1>2, <3>3, <3>4
    <2>2. ASSUME NEW j \in 1 .. Len(z)
          PROVE  z[j].id = Len(in) - Len(z) + j /\ InTime(z[j], in[z[j].id])
      <3> DEFINE i == Len(y) + j
      <3>1. i \in 1 .. Len(u) /\ u[i] = z[j] /\ Len(in) - Len(z) + j = done + i
        BY <1>4, <1>11, <1>19
      <3> HIDE DEF i
      <3> QED  BY <1>4, <3>1
    <2>3. MidiWrites(midiQueue)' = z
      BY <1>1 DEF z
    <2>4. \A j \in 1 .. Len(z) :
             z[j].time - delay \in in[z[j].id].time .. (in[z[j].id].time \div NFrames + 1) * NFrames - 1
      BY <2>2 DEF InTime
    <2>5. \A k \in 1 .. Len(midiQueue') : /\ last' <= midiQueue'[k].time
                                           /\ midiQueue'[k].time < last' + delay'
      BY <1>1, <1>2, <2>1
    <2>6. \A j \in 1 .. Len(z) :
             /\ z[j].id = Len(midiIn') - Len(z) + j
             /\ z[j].time - delay' \in midiIn'[z[j].id].time ..
                                          (midiIn'[z[j].id].time \div NFrames + 1) * NFrames - 1
      BY <1>1, <2>2, <2>4
    <2>7. Ordered(midiQueue)' /\ Len(z) <= Len(midiIn')
      <3>1. midiQueue' = rest
        BY <1>1
      <3>2. Ordered(midiQueue)'
        BY <1>9, <3>1 DEF Ordered
      <3> QED  BY <1>1, <1>19, <3>2
    <2> QED  BY <2>3, <2>5, <2>6, <2>7 DEF MidiQueueInv, InTime
  <1>22. MidiOutInv'
    <2>1. MidiWrites(midiQueue)' = z
      BY <1>1 DEF z
    <2>2. Len(midiIn') - Len(z) = done + Len(y)
      BY <1>1, <1>19
    <2>3. Len(midiOut') + dropped' = done + Len(y)
      BY <1>1, <1>2, <1>5, <1>11, <1>13, <1>14 DEF outs
    <2>4. midiOut' = outs
      BY <1>1 DEF outs
    <2>5. Ordered(midiOut)'
      BY <1>16, <2>4 DEF Ordered
    <2>6. \A k \in 1 .. Len(outs) :
             outs[k].time - delay \in in[outs[k].id].time ..
                                        (in[outs[k].id].time \div NFrames + 1) * NFrames - 1
      BY <1>17 DEF InTime
    <2>7. \A k \in 1 .. Len(midiOut') :
             /\ midiOut'[k].time < last' /\ midiOut'[k].id \in 1 .. done + Len(y)
             /\ midiOut'[k].time - delay' \in midiIn'[midiOut'[k].id].time ..
                                                (midiIn'[midiOut'[k].id].time \div NFrames + 1) * NFrames - 1
      BY <1>1, <1>17, <2>4, <2>6
    <2>8. \A j, k \in 1 .. Len(midiOut') : j < k => midiOut'[j].id < midiOut'[k].id
      BY <1>18, <2>4
    <2> QED  BY <2>1, <2>2, <2>3, <2>5, <2>7, <2>8 DEF MidiOutInv, InTime
  <1> QED  BY <1>20, <1>21, <1>22 DEF MidiInv

\* Neighbours in order: all in order.
LEMMA NeighboursOrdered ==
    ASSUME NEW n \in Nat, NEW s \in [1 .. n -> Int], \A k \in 2 .. n : s[k - 1] <= s[k],
           NEW j \in 1 .. n, NEW k \in j .. n
    PROVE  s[j] <= s[k]
  <1> DEFINE m == k - j
             T == {d \in 0 .. m : s[j] <= s[j + d]}
  <1>1. m \in Nat /\ j + m = k /\ \A d \in 0 .. m : j + d \in 1 .. n
    OBVIOUS
  <1>2. 0 \in T
    <2>1. j + 0 = j /\ s[j] \in Int /\ 0 \in 0 .. m
      BY <1>1
    <2> QED  BY <2>1
  <1>3. ASSUME NEW d \in 1 .. m, d - 1 \in T PROVE d \in T
    <2> DEFINE i == j + d
    <2>1. i \in 2 .. n /\ j + (d - 1) = i - 1 /\ i - 1 \in 1 .. n /\ d \in 0 .. m
      BY <1>1
    <2>2. s[j] <= s[i - 1]
      BY <1>3, <2>1
    <2> HIDE DEF i
    <2>3. s[i - 1] <= s[i] /\ s[i] \in Int /\ s[i - 1] \in Int /\ s[j] \in Int
      BY <2>1
    <2>4. s[j] <= s[i]
      BY <2>2, <2>3
    <2> QED  BY <2>1, <2>4 DEF i
  <1> HIDE DEF T, m
  <1>4. \A d \in 0 .. m : d \in T
    BY <1>1, <1>2, <1>3, UpTo
  <1>5. m \in T
    <2>1. m \in 0 .. m
      BY <1>1
    <2> QED  BY <1>4, <2>1
  <1> QED  BY <1>1, <1>5 DEF T

\* Whatever period comes, and nothing.
LEMMA MidiNextKeeps == MidiInv /\ [Next]_vars => MidiInv'
  <1> SUFFICES ASSUME MidiInv, [Next]_vars PROVE MidiInv'
    OBVIOUS
  <1>1. ASSUME NEW buf, Period(<< >>, buf) PROVE MidiInv'
    <2> DEFINE e == << >>
    <2>1. e \in Seq(Item) /\ Len(e) = 0
      OBVIOUS
    <2>2. Period(e, buf)
      BY <1>1
    <2> HIDE DEF e, Item
    <2>3. Arrived(e) /\ \A k \in 1 .. Len(e) : e[k].id = Len(midiIn) + k
      BY <2>1 DEF Arrived, Ordered
    <2> QED  BY <2>2, <2>3, MidiPeriodKeeps
  <1>2. CASE MidiPeriod
    <2>1. PICK times \in MidiPeriods :
             Period([k \in DOMAIN times |-> [time |-> times[k], id |-> Len(midiIn) + k]], Still)
      BY <1>2 DEF MidiPeriod
    <2>2. PICK n \in 1 .. MaxMidi : /\ times \in [1 .. n -> Frames]
                                    /\ \A k \in 2 .. n : times[k - 1] <= times[k]
      BY <2>1 DEF MidiPeriods
    <2> DEFINE evs == [k \in 1 .. n |-> [time |-> times[k], id |-> Len(midiIn) + k]]
    <2>3. DOMAIN times = 1 .. n /\ n \in Nat /\ Len(midiIn) \in Nat
      BY <2>2, PortsAssumption DEF MidiInv, MidiTypeInv, PortsAssumption
    <2>4. Period(evs, Still)
      BY <2>1, <2>3
    <2>5. ASSUME NEW k \in 1 .. n
          PROVE  times[k] \in Frames /\ times[k] \in Int /\ Len(midiIn) + k \in Nat
      BY <2>2, <2>3 DEF Frames
    <2>6. evs \in [1 .. n -> Item] /\ \A k \in 1 .. n : /\ evs[k].time = times[k]
                                                        /\ evs[k].id = Len(midiIn) + k
      BY <2>5 DEF Item
    <2>7. evs \in Seq(Item) /\ Len(evs) = n
      <3> HIDE DEF evs, Item
      <3> QED  BY <2>3, <2>6, FunctionIsSequence
    <2> HIDE DEF evs, Item
    <2>8. Ordered(evs)
      <3>1. ASSUME NEW j \in 1 .. n, NEW k \in 1 .. n, j <= k PROVE times[j] <= times[k]
        <4>1. times \in [1 .. n -> Int] /\ k \in j .. n
          BY <2>2, <2>5, <3>1
        <4> QED  BY <2>2, <2>3, <4>1, NeighboursOrdered
      <3> QED  BY <2>6, <2>7, <3>1 DEF Ordered
    <2>9. Arrived(evs)
      BY <2>5, <2>6, <2>7, <2>8 DEF Arrived
    <2> QED  BY <2>4, <2>6, <2>7, <2>9, MidiPeriodKeeps
  <1>3. CASE CvPeriod
    BY <1>1, <1>3 DEF CvPeriod
  <1>4. CASE UNCHANGED vars
    BY <1>4 DEF vars, MidiInv, MidiTypeInv, MidiQueueInv, MidiOutInv, Ordered, InTime
  <1> QED  BY <1>2, <1>3, <1>4 DEF Next

\* mod_midi_in.c:26-103, mod_midi_out.c:31-112: midi_out writes what midi_in read, once
\* and in order, no event early and none later than the end of its period; only
\* what does not fit is missing.  For any periods, delays and buffers.
THEOREM MidiPassesThrough == Spec => []MidiThrough
  <1>1. MidiInv => MidiThrough
    <2> SUFFICES ASSUME MidiInv PROVE MidiThrough
      OBVIOUS
    <2> DEFINE w == MidiWrites(midiQueue)
    <2>1. /\ midiIn \in Seq(Item) /\ midiOut \in Seq(Item) /\ midiQueue \in Seq(Message)
          /\ dropped \in Nat
      BY DEF MidiInv, MidiTypeInv
    <2>2. /\ Len(midiOut) + dropped = Len(midiIn) - Len(w) /\ Ordered(midiOut)
          /\ \A k \in 1 .. Len(midiOut) : InTime(midiOut[k], midiIn[midiOut[k].id])
          /\ \A j, k \in 1 .. Len(midiOut) : j < k => midiOut[j].id < midiOut[k].id
      BY DEF MidiInv, MidiOutInv
    <2> HIDE DEF w, Item, Message
    <2>3. Len(midiOut) \in Nat /\ DOMAIN midiOut = 1 .. Len(midiOut)
      BY <2>1
    <2>4. ASSUME NEW k \in 2 .. Len(midiOut)
          PROVE  midiOut[k - 1].id < midiOut[k].id /\ midiOut[k - 1].time <= midiOut[k].time
      <3> DEFINE j == k - 1
      <3>1. j \in 1 .. Len(midiOut) /\ k \in 1 .. Len(midiOut) /\ j < k /\ j <= k
        BY <2>3
      <3> HIDE DEF j
      <3>2. midiOut[j].id < midiOut[k].id /\ midiOut[j].time <= midiOut[k].time
        BY <2>2, <3>1 DEF Ordered
      <3> QED  BY <3>2 DEF j
    <2>5. \A k \in DOMAIN midiOut : InTime(midiOut[k], midiIn[midiOut[k].id])
      BY <2>2, <2>3
    <2> QED  BY <2>2, <2>4, <2>5 DEF MidiThrough, InTime, w
  <1> QED  BY <1>1, MidiStart, MidiNextKeeps, PTL DEF Spec
=============================================================================
