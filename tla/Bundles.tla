------------------------------- MODULE Bundles -------------------------------
(***************************************************************************)
(* tjost_lua.c:220-379: how the calls of a Lua script on an output are     *)
(* put together to packets.  A call is a message, which outside a bundle   *)
(* is scheduled at once, or the start or the end of a bundle; the outermost *)
(* end schedules the bundle.                                               *)
(*                                                                         *)
(* The buffer is a sequence of tokens: a bundle header, a message, and the *)
(* slot in front of every bundle item, which is to hold the length of the  *)
(* item and is filled in when the item ends.  The functions of libosc are  *)
(* external: an item or a bundle without content vanishes when it ends,    *)
(* what does not fit makes them return NULL, and NULL stays NULL.          *)
(***************************************************************************)
EXTENDS Integers, Sequences, SequencesExt

CONSTANTS Msg,        \* valid messages
          MaxDepth,   \* bound: how deep the script nests bundles
          AllowEmpty, \* the script ends bundles that have no content
          LongDepths, \* depths at which the script sends what exceeds the buffer
          MaxCalls    \* bound: calls

ASSUME BundleAssumption == /\ MaxDepth \in Nat /\ MaxCalls \in Nat
                           /\ AllowEmpty \in BOOLEAN
                           /\ LongDepths \subseteq 0..MaxDepth

VARIABLES buffer,   \* module->buffer
          ptr,      \* module->buf_ptr: tokens in use, or NULL
          bndls,    \* module->bndls, innermost first: where its header stands
          itm,      \* module->itm: the slot of an inner bundle
          packets,  \* what has been scheduled in module->queue, beside what was
                    \* asked for: the same packet correctly encoded
          open,     \* the contents of the script's open bundles, innermost first
          levels,   \* history: how deep the outermost bundle has been nested
          crashed,  \* the program has written through a NULL pointer
          calls     \* calls so far

bundleVars == <<buffer, ptr, bndls, itm, packets, open, levels, crashed, calls>>

NULL == -1
Header == [kind |-> "bundle"]
Slot(len) == [kind |-> "slot", len |-> len]
Message(m) == [kind |-> "message", what |-> m]
Stale == [kind |-> "stale"]

BundleInit ==
    /\ buffer = << >> /\ ptr = 0 /\ bndls = << >> /\ itm = 0
    /\ packets = << >> /\ open = << >> /\ levels = 0
    /\ crashed = FALSE /\ calls = 0

Depth == Len(bndls)

-----------------------------------------------------------------------------
(* libosc: what stands in the buffer up to p, extended, ended. *)

UpTo(p) == SubSeq(buffer, 1, p)

\* The text ends behind n tokens; where it had not come so far, it takes in what
\* happens to stand there.
Cut(b, n) == [i \in 1..n |-> IF i <= Len(b) THEN b[i] ELSE Stale]

\* osc_end_bundle_item, the item having its slot at i, in a buffer b.
EndItem(b, i) == IF Len(b) > i THEN [b EXCEPT ![i] = Slot(Len(b) - i)] ELSE Cut(b, i - 1)

\* osc_end_bundle, the header standing at h.
EndBundle(b, h) == IF Len(b) > h THEN b ELSE Cut(b, h - 1)

\* The buffer becomes b.
Written(b) == /\ buffer' = b
              /\ ptr' = Len(b)

\* tjost_module_schedule with the buffer up to the pointer, where b should be
\* what was asked for.  An empty text, which is not scheduled, is noted as well.
Schedule(b, asked, depth) ==
    packets' = Append(packets, [text |-> b, asked |-> asked, levels |-> depth])

-----------------------------------------------------------------------------
(* The calls. *)

Call == /\ ~crashed
        /\ calls < MaxCalls
        /\ calls' = calls + 1

\* Lines 236-247: a bundle starts, within another one as an item of it.
Push ==
    LET start == IF Depth = 0 THEN << >> ELSE Append(UpTo(ptr), Slot(0)) IN
    /\ Call /\ Depth < MaxDepth
    /\ IF Depth > 0 /\ ptr = NULL
       THEN /\ bndls' = <<NULL>> \o bndls
            /\ UNCHANGED <<buffer, ptr, itm>>
       ELSE /\ Written(Append(start, Header))
            /\ bndls' = <<Len(start) + 1>> \o bndls
            /\ itm' = IF Depth = 0 THEN itm ELSE Len(start)
    /\ open' = << << >> >> \o open
    /\ levels' = IF Depth = 0 \/ levels <= Depth THEN Depth + 1 ELSE levels
    /\ UNCHANGED <<packets, crashed>>

\* Mutant of InnerSlot: the slot is taken to be in front of the outermost bundle.
InnerSlotOfOuter == Last(bndls) + 1

\* The slot that the end of an inner bundle fills in.
InnerSlot == itm

\* Lines 248-265: the innermost bundle ends.
Pop ==
    LET b == EndBundle(UpTo(ptr), Head(bndls))
        empty == Head(open) = << >>
        whole == <<Header>> \o Head(open)
    IN
    /\ Call /\ Depth > 0 /\ ptr # NULL
    /\ empty => AllowEmpty
    /\ bndls' = Tail(bndls)
    /\ IF Depth = 1
       THEN /\ Written(b)
            /\ Schedule(b, IF empty THEN << >> ELSE whole, levels)
            /\ open' = << >>
       ELSE /\ Written(EndItem(b, InnerSlot))
            /\ open' = [Tail(open) EXCEPT ![1] =
                            IF empty THEN @ ELSE @ \o <<Slot(Len(whole))>> \o whole]
            /\ UNCHANGED packets
    /\ UNCHANGED <<itm, levels, crashed>>

\* The same when something in the bundles did not fit.  Line 258 has no test of
\* the pointer, as line 348 has it for a message: the size is the difference of
\* NULL and the buffer, for which there is no memory, and
\* tjost_module_schedule writes the event to where tjost_alloc returned: NULL.
PopLong ==
    /\ Call /\ Depth > 0 /\ ptr = NULL
    /\ bndls' = Tail(bndls)
    /\ open' = Tail(open)
    /\ crashed' = (Depth = 1)
    /\ UNCHANGED <<buffer, ptr, itm, packets, levels>>

\* Lines 266-353: a valid message.
Send(m) ==
    /\ Call
    /\ IF Depth = 0
       THEN /\ Written(<<Message(m)>>)
            /\ Schedule(<<Message(m)>>, <<Message(m)>>, 0)
            /\ UNCHANGED open
       ELSE /\ IF ptr = NULL THEN UNCHANGED <<buffer, ptr>>
               ELSE LET start == Append(UpTo(ptr), Slot(0)) IN
                    Written(EndItem(Append(start, Message(m)), Len(start)))
            /\ open' = [open EXCEPT ![1] = @ \o <<Slot(1), Message(m)>>]
            /\ UNCHANGED packets
    /\ UNCHANGED <<bndls, itm, levels, crashed>>

\* A message that exceeds the buffer: the writing functions return NULL.
SendLong ==
    /\ Call /\ Depth \in LongDepths
    /\ ptr' = NULL
    /\ UNCHANGED <<buffer, bndls, itm, packets, open, levels, crashed>>

\* Mutant of SendInvalid: the item that was begun stays in the buffer.
SendInvalidKeeps ==
    /\ Call
    /\ IF Depth = 0 \/ ptr = NULL THEN UNCHANGED <<buffer, ptr>>
       ELSE Written(Append(UpTo(ptr), Slot(0)))
    /\ UNCHANGED <<bndls, itm, packets, open, levels, crashed>>

\* Lines 276-287, and every luaL_check that raises an error: the call returns
\* before line 355, so that the pointer still stands where the call found it.
SendInvalid ==
    /\ Call
    /\ buffer' = IF Depth = 0 \/ ptr = NULL THEN buffer ELSE Append(UpTo(ptr), Slot(0))
    /\ UNCHANGED <<ptr, bndls, itm, packets, open, levels, crashed>>

BundleNext == Push \/ Pop \/ PopLong \/ (\E m \in Msg : Send(m)) \/ SendLong \/ SendInvalid

BundleSpec == BundleInit /\ [][BundleNext]_bundleVars

-----------------------------------------------------------------------------
(* Properties. *)

\* What is scheduled is what the script asked for, every bundle item with its own
\* length in front of it.
PacketsAsCalled == \A n \in 1..Len(packets) : packets[n].text = packets[n].asked

\* In any order of messages, bundles, empty bundles, invalid and overlong messages
\* that holds of every packet that is no bundle within a bundle within a bundle.
\* All levels share module->itm (tjost_lua.c:242, 262), so of the others nothing
\* can be said; but they leave nothing behind that spoils a later packet.
ShallowAsCalled ==
    \A n \in 1..Len(packets) : packets[n].levels <= 2 => packets[n].text = packets[n].asked

\* Between the calls the buffer holds the open bundles, outermost first, each
\* complete but for the slots of the bundles within it, unless a third level has
\* been begun.
BufferIsOpenBundles ==
    (Depth > 0 /\ ptr # NULL /\ levels <= 2) =>
        UpTo(ptr) = FoldLeft(LAMBDA text, items :
                                (IF text = << >> THEN << >> ELSE Append(text, Slot(0)))
                                \o <<Header>> \o items,
                             << >>, Reverse(open))
=============================================================================
