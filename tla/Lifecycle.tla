------------------------------ MODULE Lifecycle ------------------------------
(***************************************************************************)
(* tjost.c: main, _tjost_init and _tjost_deinit, with the threads that are *)
(* about while the host starts and stops: JACK's process thread, JACK's    *)
(* shutdown callback, the signals, a session manager (tjost_nsm.c) and the *)
(* thread of a net module (mod_net_in.c, mod_net_out.c).                   *)
(*                                                                         *)
(* open holds what has been set up and not yet been torn down, named after *)
(* the field of the host.  libuv (external) runs the callback of a handle  *)
(* that is open, returns from uv_run when no handle is, and gives up with  *)
(* a failed assertion when a handle is closed that was never initialised.  *)
(***************************************************************************)
EXTENDS Integers, Sequences, FiniteSets, SequencesExt

CONSTANTS MayFail,     \* steps of _tjost_init that may fail
          HasNet,      \* the script makes a net module
          Sessions,    \* what NSM_URL may lead to: "off" (not set), "resolving",
                       \* "broken" (osc_stream_init fails)
          MaxSignals   \* bound: stop requests

\* Mutant of Steps: JACK is activated before the loop's handles are there.
StepsActiveEarly == <<"tlsf", "client", "process", "callbacks", "pipe_uplink_rx",
                      "pipe_uplink_tx", "asio", "rb_msg", "rb_rtmem", "arr", "active", "sigint",
                      "sigterm", "sigquit", "quit", "msg", "rtmem", "L", "script">>

\* The steps of _tjost_init in their order, each named for what it sets up;
\* "process" is _process and _shutdown, "callbacks" are those of the graph.
Steps == <<"tlsf", "client", "process", "callbacks", "pipe_uplink_rx", "pipe_uplink_tx",
           "asio", "rb_msg", "rb_rtmem", "arr", "sigint", "sigterm", "sigquit", "quit", "msg",
           "rtmem", "L", "script", "active">>

Signals == {"sigint", "sigterm", "sigquit"}
Handles == Signals \cup {"quit", "msg", "rtmem", "asio", "responder"}

\* What _process and the callbacks it makes work with.
UsedByProcess == {"tlsf", "client", "pipe_uplink_rx", "pipe_uplink_tx", "asio", "rb_msg",
                  "rb_rtmem", "msg", "rtmem", "L"}

ASSUME StepAssumption ==
    /\ MayFail \subseteq ToSet(Steps) /\ HasNet \in BOOLEAN
    /\ Sessions \subseteq {"off", "resolving", "broken"} /\ MaxSignals \in Nat

VARIABLES pc,         \* the main thread: "nsm", "init", "loop", "failed", "stop", "join",
                      \* "closed", "returned", "aborted", "crashed"
          step,       \* the next step of _tjost_init
          open,
          pending,    \* handles whose callback is due
          signals,    \* stop requests so far
          processing, \* _process is running
          net,        \* the net thread: "none", "running", "quit" (told to), "done"
          nsm,        \* the session: "off", "resolving", "announced", "refused", "open",
                      \* "broken"
          deinits     \* how often _tjost_deinit was entered

lifeVars == <<pc, step, open, pending, signals, processing, net, nsm, deinits>>

LifeInit == /\ pc = "nsm" /\ step = 1 /\ pending = {} /\ signals = 0
            /\ processing = FALSE /\ net = "none" /\ deinits = 0
            /\ nsm \in Sessions
            /\ open = IF nsm = "resolving" THEN {"responder"} ELSE {}

-----------------------------------------------------------------------------
(* tjost_nsm_init: the main thread runs the loop until the server has sent  *)
(* /nsm/client/open.                                                        *)

\* _nsm_resolve: the address of the server is known, announce to it.
NsmResolve == /\ pc = "nsm" /\ nsm = "resolving" /\ nsm' = "announced"
              /\ UNCHANGED <<pc, step, open, pending, signals, processing, net, deinits>>

\* _nsm_client_open: take the id and reply.
NsmClientOpen == /\ pc = "nsm" /\ nsm = "announced" /\ nsm' = "open"
                 /\ UNCHANGED <<pc, step, open, pending, signals, processing, net, deinits>>

\* _nsm_error: the server refuses.  It is printed; the wait goes on.
NsmError == /\ pc = "nsm" /\ nsm = "announced" /\ nsm' = "refused"
            /\ UNCHANGED <<pc, step, open, pending, signals, processing, net, deinits>>

\* Mutant of NsmDone: the wait is for an announcement that was never made.
NsmDoneAfterOpen == /\ pc = "nsm" /\ nsm = "open" /\ pc' = "init"
                    /\ UNCHANGED <<step, open, pending, signals, processing, net, nsm, deinits>>

\* Lines 152-154 and 178-181 of tjost_nsm.c.
NsmDone == /\ pc = "nsm" /\ nsm \in {"off", "open"} /\ pc' = "init"
           /\ UNCHANGED <<step, open, pending, signals, processing, net, nsm, deinits>>

-----------------------------------------------------------------------------
(* _tjost_init *)

\* add of a net module (mod_net_in.c and mod_net_out.c alike) in the script: its
\* thread runs, or one of its parts could not be set up.
NetAdd == IF HasNet THEN {"running", "none"} ELSE {"none"}

\* One step that succeeds.
InitStep ==
    /\ pc = "init" /\ step <= Len(Steps)
    /\ open' = open \cup {Steps[step]}
    /\ net' \in IF Steps[step] = "script" THEN NetAdd ELSE {net}
    /\ step' = step + 1
    /\ pc' = IF step = Len(Steps) THEN "loop" ELSE pc
    /\ UNCHANGED <<pending, signals, processing, nsm, deinits>>

\* FAIL: return -1, and main calls _tjost_deinit.  A script that fails has run
\* up to the error.
InitFail ==
    /\ pc = "init" /\ Steps[step] \in MayFail
    /\ pc' = "failed"
    /\ net' \in IF Steps[step] = "script" THEN NetAdd ELSE {net}
    /\ UNCHANGED <<step, open, pending, signals, processing, nsm, deinits>>

-----------------------------------------------------------------------------
(* The other threads. *)

\* JACK runs a cycle.
ProcessBegin == /\ "active" \in open /\ ~processing /\ processing' = TRUE
                /\ UNCHANGED <<pc, step, open, pending, signals, net, nsm, deinits>>
ProcessEnd == /\ processing /\ processing' = FALSE
              /\ UNCHANGED <<pc, step, open, pending, signals, net, nsm, deinits>>

\* A signal is caught by libuv.  Before the handler is there a signal ends the
\* program as it ends any other.
Request(h) == /\ h \in Signals \cap open /\ signals < MaxSignals
              /\ pending' = pending \cup {h} /\ signals' = signals + 1
              /\ UNCHANGED <<pc, step, open, processing, net, nsm, deinits>>

\* _shutdown: JACK goes down.  The callback is registered in the third step; until
\* host->quit is initialised, uv_async_send follows the null loop of a zeroed
\* handle.
JackShutdown ==
    /\ "process" \in open /\ pc \in {"init", "failed", "loop", "stop", "join"}
    /\ signals < MaxSignals /\ signals' = signals + 1
    /\ IF "quit" \in open THEN pending' = pending \cup {"quit"} /\ UNCHANGED pc
                           ELSE pc' = "crashed" /\ UNCHANGED pending
    /\ UNCHANGED <<step, open, processing, net, nsm, deinits>>

\* _thread: uv_run returns once _quit has called uv_stop.
NetThreadEnds == /\ net = "quit" /\ net' = "done"
                 /\ UNCHANGED <<pc, step, open, pending, signals, processing, nsm, deinits>>

-----------------------------------------------------------------------------
(* _tjost_deinit *)

\* _sig and _quit, run by the loop, after a first one too, and main after a
\* failed start: JACK begins no cycle after line 545.
DeinitBegin ==
    /\ \/ pc \in {"loop", "closed"} /\ \E h \in pending \cap open : pending' = pending \ {h}
       \/ pc = "failed" /\ UNCHANGED pending
    /\ pc' = "stop"
    /\ open' = open \ {"active"}
    /\ deinits' = deinits + 1
    /\ UNCHANGED <<step, signals, processing, net, nsm>>

\* Mutant of NetDel: the thread is not told.
NetDelSilently == net

\* del of a net module, called by lua_close: uv_async_send(&dat->quit).
NetDel == IF net = "running" THEN "quit" ELSE net

\* jack_deactivate returns when no cycle runs.  tjost_lua_deinit: lua_close
\* deletes the modules; uv_thread_join waits.
LuaClose == /\ pc = "stop" /\ ~processing /\ pc' = "join"
            /\ net' = NetDel
            /\ UNCHANGED <<step, open, pending, signals, processing, nsm, deinits>>

\* Mutant of UvClosed: one of the signals is forgotten.
UvClosedTwoSignals == {"rtmem", "msg", "quit", "sigint", "sigquit"}

\* Lines 551-562.
UvClosed == {"rtmem", "msg", "quit"} \cup Signals

\* Lines 573-630, and tjost_nsm_deinit.
Torn == {"L", "script", "arr", "rb_rtmem", "rb_msg", "asio", "pipe_uplink_tx", "pipe_uplink_rx",
         "client", "process", "callbacks", "tlsf", "responder"}

\* The rest of _tjost_deinit.  uv_close of a handle that is not open is where
\* libuv gives up; uv_signal_stop takes one that was never started.
DeinitEnd ==
    /\ pc = "join" /\ net \in {"none", "done"}
    /\ net' = "none"
    /\ IF UvClosed \cap {"rtmem", "msg", "quit"} \subseteq open
       THEN /\ open' = open \ (UvClosed \cup Torn)
            /\ pc' = IF step <= Len(Steps) THEN "returned" ELSE "closed"
       ELSE /\ open' = open /\ pc' = "aborted"
    /\ UNCHANGED <<step, pending, signals, processing, nsm, deinits>>

\* uv_run returns when no handle is left, and so does main.
LoopEnds == /\ pc = "closed" /\ open \cap Handles = {}
            /\ pc' = "returned"
            /\ UNCHANGED <<step, open, pending, signals, processing, net, nsm, deinits>>

-----------------------------------------------------------------------------
Main == \/ NsmDone \/ InitStep \/ InitFail \/ DeinitBegin \/ LuaClose \/ DeinitEnd \/ LoopEnds

LifeNext == \/ Main \/ NsmResolve \/ NsmClientOpen \/ NsmError \/ ProcessBegin \/ ProcessEnd \/ NetThreadEnds
            \/ JackShutdown \/ \E h \in Handles : Request(h)

LifeSpec == LifeInit /\ [][LifeNext]_lifeVars

\* The main thread and the net thread run, JACK's cycles end, and a session
\* manager answers.
LifeFairSpec == /\ LifeSpec
                /\ WF_lifeVars(Main) /\ WF_lifeVars(NetThreadEnds) /\ WF_lifeVars(ProcessEnd)
                /\ WF_lifeVars(NsmResolve) /\ WF_lifeVars(NsmClientOpen)

-----------------------------------------------------------------------------
(* Properties. *)

\* However many signals come and JACK shuts down besides, in whatever order,
\* the host is torn down once: what is still due when that happens belongs to a
\* handle that _tjost_deinit has closed or stopped.
DeinitAtMostOnce == deinits <= 1

\* JACK runs _process only while all that it works with is there: activation is
\* the last step of the start, deactivation the first of the stop.
ProcessHasWhatItUses == processing => UsedByProcess \subseteq open

\* A host that was asked to stop closes everything and returns: no handle that
\* is left open holds the loop, no thread that is joined runs on.
StopReturns == pc = "loop" /\ pending \cap open # {} ~> pc = "returned"

\* A start leads to the loop, or to a return of -1, unless it failed before the
\* handles that _tjost_deinit closes were initialised (tjost.c:551), JACK went
\* down before the handle that _shutdown signals was (tjost.c:431), or the session
\* manager cannot be reached or refuses (the FIXME of tjost_nsm.c:177).
StartSettles ==
    pc = "nsm" /\ nsm # "broken" ~>
                   \/ nsm = "refused"
                   \/ pc \in {"loop", "returned"}
                   \/ pc = "aborted" /\ step <= SelectInSeq(Steps, LAMBDA s : s = "rtmem")
                   \/ pc = "crashed" /\ step <= SelectInSeq(Steps, LAMBDA s : s = "quit")
=============================================================================
