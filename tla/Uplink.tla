------------------------------- MODULE Uplink --------------------------------
(***************************************************************************)
(* tjost_uplink.c: scripts ask about JACK's graph and change it, and are   *)
(* told when it changes.                                                   *)
(*                                                                         *)
(* Three threads meet here.  The process thread takes the questions of the *)
(* uplink modules and delivers what comes back, the main loop dispatches   *)
(* the questions, and JACK's notification thread reports changes.  The     *)
(* last two both write into the one static buf_rx and both produce into    *)
(* the one pipe_uplink_rx, and nothing keeps them apart.  met becomes TRUE *)
(* when they overlap; from then on the buffer and the pipe, made for one   *)
(* producer, hold garbage.                                                 *)
(*                                                                         *)
(* The two pipes are sequences, as EventChannel allows; they may be full.  *)
(* A question is answered in three steps: the main loop lists what JACK    *)
(* has, puts the list into buf_rx, and pushes it.  Whole notifications may *)
(* pass between the first two.                                             *)
(***************************************************************************)
EXTENDS Integers, Sequences, FiniteSets, SequencesExt

CONSTANTS Uplinks,     \* the uplink modules
          Ports, Wires, \* the ports and the possible connections <<from, to>>
          TxCap, RxCap, MsgCap, \* events in the pipes, messages in rb_msg
          ListCap,       \* the longest list that fits into buf_rx
          MaxAsks, MaxChanges   \* bounds: questions, changes by other clients

Broadcast == "broadcast"  \* TJOST_MODULE_BROADCAST

\* "ports" stands for the list of all ports in what a script knows.
ASSUME UplinkAssumption ==
    /\ Wires \subseteq Ports \X Ports /\ "ports" \notin Ports /\ Broadcast \notin Uplinks
    /\ {TxCap, RxCap, MsgCap, ListCap, MaxAsks, MaxChanges} \subseteq Nat

VARIABLES graph,    \* JACK's: [ports, wires]
          notes,    \* changes JACK has yet to report
          tx,       \* pipe_uplink_tx: [from, ask]
          rx,       \* pipe_uplink_rx
          replying, \* the reply the main loop is about to give, <<>> or <<reply>>
          writing,  \* and it has it in buf_rx
          noting,   \* the notification JACK's thread has in buf_rx, <<>> or <<note>>
          view,     \* what the script of each module knows: [ports, wires, known]
          open,     \* questions of each module that wait for an answer
          msgs,     \* messages in rb_msg
          met,      \* the two writers of buf_rx have overlapped
          missed,   \* something was not reported: a pipe was full, a port gone
          unfit,    \* answers to each module that did not fit into buf_rx
          overtaken, \* what notifications told each module just before an older answer
                    \* told it otherwise
          asks, changes

vars == <<graph, notes, tx, rx, replying, writing, noting, view, open, msgs, met, missed, unfit,
          overtaken, asks, changes>>

Touching(S, p) == {w \in S : p \in {w[1], w[2]}}

Init == /\ graph \in [ports : {Ports}, wires : SUBSET Wires]
        /\ view = [m \in Uplinks |-> [ports |-> {}, wires |-> {}, known |-> {}]]
        /\ open = [m \in Uplinks |-> 0]
        /\ notes = <<>> /\ tx = <<>> /\ rx = <<>>
        /\ replying = <<>> /\ writing = FALSE /\ noting = <<>>
        /\ unfit = [m \in Uplinks |-> 0] /\ overtaken = [m \in Uplinks |-> {}]
        /\ msgs = 0 /\ met = FALSE /\ missed = FALSE /\ asks = 0 /\ changes = 0

-----------------------------------------------------------------------------
(* JACK (external): the graph and the order of its notifications. *)

Note(kind, what, on) == [to |-> Broadcast, path |-> kind, what |-> what, on |-> on]

\* What a notification is about; and that one is yet to come sets scripts right.
Item(e) == <<e.path, e.what>>
Announce(e) == /\ notes' = Append(notes, e)
               /\ overtaken' = [m \in Uplinks |-> overtaken[m] \ {Item(e)}]

\* Connect or disconnect w, if its ports are there and it is not already so.
Rewired(w, on) ==
    LET new == IF on THEN graph.wires \cup {w} ELSE graph.wires \ {w}
    IN IF {w[1], w[2]} \subseteq graph.ports /\ new # graph.wires
       THEN /\ graph' = [graph EXCEPT !.wires = new]
            /\ Announce(Note("connect", w, on))
       ELSE UNCHANGED <<graph, notes, overtaken>>

\* Another client makes or removes a port, or a connection.
PortChanges(p) ==
    /\ changes < MaxChanges /\ Touching(graph.wires, p) = {}
    /\ graph' = [graph EXCEPT !.ports = SymDiff(@, {p})]
    /\ Announce(Note("port", p, p \notin graph.ports))
    /\ changes' = changes + 1
    /\ UNCHANGED <<tx, rx, replying, writing, noting, view, open, msgs, met, missed, unfit, asks>>

WireChanges(w, on) ==
    /\ changes < MaxChanges
    /\ Rewired(w, on)
    /\ changes' = changes + 1
    /\ UNCHANGED <<tx, rx, replying, writing, noting, view, open, msgs, met, missed, unfit, asks>>

-----------------------------------------------------------------------------
(* The process thread. *)

\* tjost_host_message_push: a message that does not fit is lost.
MessagePush == msgs' = IF msgs < MsgCap THEN msgs + 1 ELSE msgs

Questions == [path : {"ports"}] \cup [path : {"connections"}, port : Ports]
             \cup [path : {"connect", "disconnect"}, wire : Wires]
IsAsked(q) == q.path \in {"ports", "connections"}

\* process_out and tjost_uplink_tx_push: the module is the one to answer to.
Ask(m, q) ==
    /\ asks < MaxAsks /\ asks' = asks + 1
    /\ IF Len(tx) < TxCap
       THEN /\ tx' = Append(tx, [from |-> m, ask |-> q])
            /\ open' = [open EXCEPT ![m] = @ + (IF IsAsked(q) THEN 1 ELSE 0)]
            /\ UNCHANGED msgs
       ELSE MessagePush /\ UNCHANGED <<tx, open>>
    /\ UNCHANGED <<graph, notes, rx, replying, writing, noting, view, met, missed, unfit,
                   overtaken, changes>>

\* What a script makes of an event.
Learn(pic, e) ==
    LET set(S, x, on) == IF on THEN S \cup {x} ELSE S \ {x}
    IN CASE e.path = "port"    -> [pic EXCEPT !.ports = set(@, e.what, e.on)]
         [] e.path = "connect" -> [pic EXCEPT !.wires = set(@, e.what, e.on)]
         [] e.path = "ports"   -> [pic EXCEPT !.ports = e.what, !.known = @ \cup {"ports"}]
         [] e.path = "connections" ->
              [pic EXCEPT !.wires = (@ \ Touching(@, e.port)) \cup e.what,
                          !.known = @ \cup {e.port}]
         [] OTHER -> pic

\* What the script of m makes of it, and what it knows after the events s.
Hears(m, pic, e) == IF e.to \in {m, Broadcast} THEN Learn(pic, e) ELSE pic
Told(m, s) == FoldLeft(LAMBDA pic, e : Hears(m, pic, e), view[m], s)
Answers(m, s) == Len(SelectSeq(s, LAMBDA e : e.to = m))

\* tjost_uplink_rx_drain and the cycle that follows: every event that is there
\* goes to its module, or to all of them.
RxDrain ==
    /\ rx # <<>> /\ rx' = <<>>
    /\ view' = [m \in Uplinks |-> Told(m, rx)]
    /\ open' = [m \in Uplinks |-> open[m] - Answers(m, rx)]
    /\ UNCHANGED <<graph, notes, tx, replying, writing, noting, msgs, met, missed, unfit,
                   overtaken, asks, changes>>

-----------------------------------------------------------------------------
(* The main loop. *)

Garbage == [to |-> "nobody", path |-> "garbage"]

\* tjost_uplink_rx_push: what does not fit is reported on the terminal only.
RxPush(e) == IF Len(rx) < RxCap
             THEN rx' = Append(rx, IF met THEN Garbage ELSE e) /\ UNCHANGED missed
             ELSE rx' = rx /\ missed' = TRUE

\* _connect and _disconnect.
Dispatch(path, on) ==
    /\ tx # <<>> /\ replying = <<>> /\ Head(tx).ask.path = path
    /\ Rewired(Head(tx).ask.wire, on)
    /\ tx' = Tail(tx)
    /\ UNCHANGED <<rx, replying, writing, noting, view, open, msgs, met, missed, unfit, asks,
                   changes>>
Connect    == Dispatch("connect", TRUE)
Disconnect == Dispatch("disconnect", FALSE)

\* A list that is too long for buf_rx is not sent, and nobody is told.
Answer(reply) == IF Cardinality(reply.what) <= ListCap
                 THEN reply ELSE [to |-> reply.to, path |-> "none"]

\* The module hears of the item from the answer r.
Lists(r, i) == \/ r.path = "ports" /\ i[1] = "port"
               \/ r.path = "connections" /\ i[1] = "connect" /\ r.port \in {i[2][1], i[2][2]}

\* Take a question and list what there is in JACK's graph.
Look(path, reply) ==
    /\ tx # <<>> /\ replying = <<>> /\ Head(tx).ask.path = path
    /\ replying' = <<Answer(reply)>>
    /\ overtaken' = [overtaken EXCEPT ![reply.to] = {i \in @ : ~Lists(Answer(reply), i)}]
    /\ tx' = Tail(tx)
    /\ UNCHANGED <<graph, notes, rx, writing, noting, view, open, msgs, met, missed, unfit, asks,
                   changes>>

\* _ports: all that there are, or none.
PortsReply ==
    Look("ports", [to |-> Head(tx).from, path |-> "ports", what |-> graph.ports])

\* Mutant of ConnectionsReply: no answer when there is nothing to tell.
ConnectionsReplyIfAny ==
    IF tx # <<>> /\ Head(tx).ask.path = "connections"
       /\ Touching(graph.wires, Head(tx).ask.port) = {}
    THEN /\ replying = <<>> /\ tx' = Tail(tx)
         /\ UNCHANGED <<graph, notes, rx, replying, writing, noting, view, open, msgs, met, missed,
                        unfit, overtaken, asks, changes>>
    ELSE Look("connections",
              [to |-> Head(tx).from, path |-> "connections", port |-> Head(tx).ask.port,
               what |-> Touching(graph.wires, Head(tx).ask.port)])

\* _connections: those of the port, or none.
ConnectionsReply ==
    Look("connections",
         [to |-> Head(tx).from, path |-> "connections", port |-> Head(tx).ask.port,
          what |-> Touching(graph.wires, Head(tx).ask.port)])

\* Put the answer together in buf_rx.
ReplyBuild ==
    /\ replying # <<>> /\ ~writing /\ writing' = TRUE
    /\ met' = (met \/ noting # <<>>)
    /\ UNCHANGED <<graph, notes, tx, rx, replying, noting, view, open, msgs, missed, unfit,
                   overtaken, asks, changes>>

\* Push it, if it is all there.
ReplyPush ==
    /\ writing /\ writing' = FALSE /\ replying' = <<>>
    /\ LET r == Head(replying)
       IN IF r.path = "none"
          THEN unfit' = [unfit EXCEPT ![r.to] = @ + 1] /\ UNCHANGED <<rx, missed>>
          ELSE RxPush(r) /\ UNCHANGED unfit
    /\ UNCHANGED <<graph, notes, tx, noting, view, open, msgs, met, overtaken, asks, changes>>

\* _msg: print all there are.
PrintMessages ==
         /\ msgs > 0 /\ msgs' = 0
         /\ UNCHANGED <<graph, notes, tx, rx, replying, writing, noting, view, open, met, missed,
                        unfit, overtaken, asks, changes>>

-----------------------------------------------------------------------------
(* JACK's notification thread. *)

\* Mutant of NoteBuild: the flag of a connection is the wrong way round.
NoteBuildFlipped ==
    /\ notes # <<>> /\ noting = <<>>
    /\ noting' = <<[Head(notes) EXCEPT !.on = IF Head(notes).path = "connect" THEN ~@ ELSE @]>>
    /\ met' = (met \/ writing)
    /\ notes' = Tail(notes)
    /\ UNCHANGED <<graph, tx, rx, replying, writing, view, open, msgs, missed, unfit, overtaken,
                   asks, changes>>

\* tjost_port_registration and tjost_port_connect put the message together.
NoteBuild ==
    /\ notes # <<>> /\ noting = <<>>
    /\ noting' = <<Head(notes)>>
    /\ met' = (met \/ writing)
    /\ notes' = Tail(notes)
    /\ UNCHANGED <<graph, tx, rx, replying, writing, view, open, msgs, missed, unfit, overtaken,
                   asks, changes>>

\* Line 262: the port is gone, and with it the name to report.
NoteSkipped ==
    /\ notes # <<>> /\ noting = <<>>
    /\ Head(notes).path = "port" /\ Head(notes).what \notin graph.ports
    /\ missed' = TRUE
    /\ notes' = Tail(notes)
    /\ UNCHANGED <<graph, tx, rx, replying, writing, noting, view, open, msgs, met, unfit,
                   overtaken, asks, changes>>

\* An answer that was listed before, and that tells otherwise, is still to come.
Contradicts(r, e) == Lists(r, Item(e)) /\ (e.what \in r.what) # e.on
Late(m, e) == \E i \in DOMAIN replying : replying[i].to = m /\ Contradicts(replying[i], e)

NotePush ==
    /\ noting # <<>> /\ noting' = <<>>
    /\ RxPush(Head(noting))
    /\ overtaken' = [m \in Uplinks |->
          IF Late(m, Head(noting)) THEN overtaken[m] \cup {Item(Head(noting))} ELSE overtaken[m]]
    /\ UNCHANGED <<graph, notes, tx, replying, writing, view, open, msgs, met, unfit, asks,
                   changes>>

-----------------------------------------------------------------------------
MainLoop == Connect \/ Disconnect \/ PortsReply \/ ConnectionsReply \/ ReplyBuild \/ ReplyPush
Notify == NoteBuild \/ NoteSkipped \/ NotePush

Next == \/ \E m \in Uplinks, q \in Questions : Ask(m, q)
        \/ \E p \in Ports : PortChanges(p)
        \/ \E w \in Wires, on \in BOOLEAN : WireChanges(w, on)
        \/ MainLoop \/ Notify \/ RxDrain \/ PrintMessages

Spec == Init /\ [][Next]_vars

\* The three threads run.
FairSpec == /\ Spec
            /\ WF_vars(MainLoop) /\ WF_vars(Notify) /\ WF_vars(RxDrain) /\ WF_vars(PrintMessages)

-----------------------------------------------------------------------------
(* Properties. *)

\* Unless the two writers met or something could not be reported, the events
\* that are under way bring every script to JACK's graph as far as it has asked
\* for it, and a script is wrong only about a port or a connection that changed
\* between the listing and the push of the last answer it got about it, with the
\* notification of the change pushed between the two.
ViewFollowsGraph ==
    ~met /\ ~missed =>
        \A m \in Uplinks :
            LET end == Told(m, rx \o replying \o noting \o notes)
            IN /\ "ports" \in end.known =>
                     \A p \in Ports : <<"port", p>> \notin overtaken[m] =>
                                         (p \in end.ports <=> p \in graph.ports)
               /\ \A p \in Ports : p \in end.known =>
                     \A w \in Touching(Wires, p) : <<"connect", w>> \notin overtaken[m] =>
                                         (w \in end.wires <=> w \in graph.wires)

\* Every question that got into the pipe is answered to the module that asked,
\* also when there is nothing to list, unless the list does not fit into the
\* buffer, and every report is printed.
AnsweredIfItFits ==
    <>[](msgs = 0 /\ (met \/ missed \/ \A m \in Uplinks : open[m] = unfit[m]))
=============================================================================
