------------------------------- MODULE Modules -------------------------------
(***************************************************************************)
(* tjost_lua.c and tjost.c: the life of a module instance.  A script makes *)
(* one with tjost.plugin, which puts it into a list of the host, and gives *)
(* it a responder function or another module as its child; tjost.chain     *)
(* adds children.  An event is handed to the children of the module it     *)
(* comes from, or of every uplink, and to their responders; what the       *)
(* script does while it runs it does in there.  A module the script no     *)
(* longer reaches is deleted by its __gc metamethod: at the end of a       *)
(* cycle, and also within a responder.  (tjost.c:529 stops the automatic   *)
(* collector; in LuaJIT and Lua 5.1 every LUA_GCSTEP starts it again, and  *)
(* a script may call collectgarbage.)  lua_close deletes the others when   *)
(* the host shuts down.  What a module owns is memory of the host, all of  *)
(* which must have been given back when tjost_free_memory removes the      *)
(* pools.                                                                  *)
(*                                                                         *)
(* Lua does not see the references C keeps: a child entry, the source of   *)
(* an event in the queue of the host, and where the main loop stands among *)
(* the uplinks.  The script may or may not keep what they refer to.        *)
(***************************************************************************)
EXTENDS Integers, Sequences, FiniteSets, SequencesExt

CONSTANTS Module,       \* modules a script may make, each once
          Kind,         \* "input", "output", "loopback", "inout" or "uplink"
          Failing,      \* modules whose add may fail
          MaxChildren,  \* bound: child entries of a module
          MaxEvents,    \* bound: events in the queue of the host
          Broadcast,    \* TJOST_MODULE_BROADCAST, the source of uplink messages
          None          \* no module

ASSUME KindAssumption ==
    /\ Kind \in [Module -> {"input", "output", "loopback", "inout", "uplink"}]
    /\ IsFiniteSet(Module) /\ Failing \subseteq Module
    /\ MaxChildren \in Nat /\ MaxEvents \in Nat
    /\ Broadcast \notin Module /\ None \notin Module

VARIABLES phase,      \* "load", "run", "close" (in lua_close) or "exit"
          status,     \* "new", "alive", "failed" (add failed), "late" (it failed late) or "dead"
          made,       \* the modules with a __gc metamethod, in order of creation
          held,       \* modules the script itself still reaches
          responder,  \* modules with a responder function: module->has_lua_callback
          registry,   \* the outputs a module's responder in Lua's registry refers to
          listed,     \* host->modules and host->uplinks
          children,   \* child entries, as modules
          queue,      \* whether events wait in module->queue
          bundling,      \* modules with open bundles in module->bndls
          dat,        \* modules whose own data is allocated
          hostq,      \* sources of the events in host->queue
          stage,      \* "idle", "deliver" (an event to the module at), "lua" (its responder runs)
          at,         \* the module the first event of host->queue is handed on for, or None
          running,    \* the outputs the responder that runs refers to
          misused,    \* history: dead modules that were read or written
          forgotten   \* history: modules deleted while C had a reference to them

script == <<phase, status, made, responder, registry, dat>>
handling == <<stage, at, running>>
vars == <<script, held, listed, children, queue, bundling, hostq, handling, misused, forgotten>>

IsInput(m) == Kind[m] \in {"input", "inout"}
IsOutput(m) == Kind[m] # "input"
Alive == {m \in Module : status[m] = "alive"}

Init == /\ phase = "load" /\ status = [m \in Module |-> "new"] /\ made = << >>
        /\ held = {} /\ responder = {} /\ registry = [m \in Module |-> {}]
        /\ listed = {} /\ children = [m \in Module |-> << >>]
        /\ queue = [m \in Module |-> FALSE] /\ bundling = {} /\ dat = {} /\ hostq = << >>
        /\ stage = "idle" /\ at = None /\ running = {}
        /\ misused = {} /\ forgotten = {}

-----------------------------------------------------------------------------
(* The script, which runs while it is loaded and in the responders. *)

Script == phase = "load" \/ stage = "lua"

\* What it can name: its variables, and what the running function refers to.
Named == held \cup running

\* The second argument of tjost.plugin: a function that calls the outputs in
\* targets, a module that is an output, or nothing.
SecondArgument(m) ==
    \/ \E targets \in SUBSET {t \in held : IsOutput(t)} :
         /\ registry' = [registry EXCEPT ![m] = targets]
         /\ responder' = responder \cup {m}
         /\ UNCHANGED children
    \/ \E t \in held : /\ children' = [children EXCEPT ![m] = IF IsOutput(t) THEN <<t>> ELSE << >>]
                       /\ UNCHANGED <<responder, registry>>
    \/ UNCHANGED <<responder, registry, children>>

\* _plugin, of a module whose add succeeds.
Plugin(m) ==
    /\ phase = "load" /\ status[m] = "new"
    /\ SecondArgument(m)
    /\ status' = [status EXCEPT ![m] = "alive"]
    /\ made' = Append(made, m)
    /\ held' = held \cup {m} /\ listed' = listed \cup {m} /\ dat' = dat \cup {m}
    /\ UNCHANGED <<phase, queue, bundling, hostq, handling, misused, forgotten>>

\* _plugin, of a module whose add fails: module->type is still 0, so it gets
\* into no list and has no __gc.  The script gets nil; nothing is given back.
PluginFails(m) ==
    /\ phase = "load" /\ status[m] = "new" /\ m \in Failing
    /\ SecondArgument(m)
    /\ status' = [status EXCEPT ![m] = "failed"]
    /\ dat' = dat \cup {m}
    /\ UNCHANGED <<phase, made, held, listed, queue, bundling, hostq, handling, misused, forgotten>>

\* _plugin, of a net module whose thread cannot be made (mod_net_in.c:173): the
\* type is set by then, so what Lua is about to collect gets into the list.
PluginFailsLate(m) ==
    /\ phase = "load" /\ status[m] = "new" /\ m \in Failing
    /\ SecondArgument(m)
    /\ status' = [status EXCEPT ![m] = "late"]
    /\ listed' = listed \cup {m} /\ dat' = dat \cup {m}
    /\ UNCHANGED <<phase, made, held, queue, bundling, hostq, handling, misused, forgotten>>

\* _chain: what is not an input chained to an output is refused.
Chain(m, t) ==
    /\ Script /\ {m, t} \subseteq Named
    /\ IsInput(m) /\ IsOutput(t) /\ Len(children[m]) < MaxChildren
    /\ children' = [children EXCEPT ![m] = Append(@, t)]
    /\ UNCHANGED <<script, held, listed, queue, bundling, hostq, handling, misused, forgotten>>

\* The script drops its last reference to m.
Drop(m) == /\ Script /\ m \in held
           /\ held' = held \ {m}
           /\ UNCHANGED <<script, listed, children, queue, bundling, hostq, handling, misused, forgotten>>

\* _call_output, _call_in_out and _call_uplink (Bundles has the details): a
\* message, the start of a bundle, or the end of the outermost one.
Put(m) ==
    /\ Script /\ m \in Named /\ IsOutput(m)
    /\ \/ m \notin bundling /\ queue' = [queue EXCEPT ![m] = TRUE] /\ UNCHANGED bundling
       \/ bundling' = bundling \cup {m} /\ UNCHANGED queue
       \/ m \in bundling /\ queue' = [queue EXCEPT ![m] = TRUE] /\ bundling' = bundling \ {m}
    /\ UNCHANGED <<script, held, listed, children, hostq, handling, misused, forgotten>>

\* _tjost_init after the script: no further plugins.
Loaded == /\ phase = "load" /\ phase' = "run"
          /\ UNCHANGED <<status, made, held, responder, registry, listed, children, queue, bundling,
                         dat, hostq, handling, misused, forgotten>>

-----------------------------------------------------------------------------
(* The real-time thread. *)

Cycle == phase = "run" /\ stage = "idle"

\* process_in of every input in the list, some of which put out an event.
ProcessIn ==
    /\ Cycle /\ Len(hostq) < MaxEvents
    /\ misused' = misused \cup {m \in listed : IsInput(m) /\ m \notin Alive}
    /\ \E m \in {n \in listed : IsInput(n)} : hostq' = Append(hostq, m)
    /\ UNCHANGED <<script, held, listed, children, queue, bundling, handling, forgotten>>

\* tjost_uplink_rx_drain
UplinkIn == /\ Cycle /\ Len(hostq) < MaxEvents
            /\ hostq' = Append(hostq, Broadcast)
            /\ UNCHANGED <<script, held, listed, children, queue, bundling, handling, misused, forgotten>>

\* host->uplinks, which is in the order of creation.
Uplinks == {m \in listed : Kind[m] = "uplink"}
Before(m, n) == \E i, j \in DOMAIN made : i < j /\ made[i] = m /\ made[j] = n

\* The main loop goes on with the first of the modules in rest, if there is one,
\* or has done with the event.
GoOn(rest) ==
    /\ running' = {}
    /\ IF rest = {} THEN stage' = "idle" /\ at' = None /\ hostq' = Tail(hostq)
       ELSE /\ stage' = "deliver" /\ at' \in rest /\ UNCHANGED hostq
            /\ \A n \in rest \ {at'} : Before(at', n)

\* Lines 338-349: an event that is due.
Take ==
    /\ Cycle /\ hostq # << >>
    /\ GoOn(IF Head(hostq) = Broadcast THEN Uplinks ELSE {Head(hostq)})
    /\ UNCHANGED <<script, held, listed, children, queue, bundling, misused, forgotten>>

\* What follows the module at in the walk.  The next pointer is the module's own:
\* when that is gone, the walk ends or goes on anywhere.
Followers == IF Head(hostq) # Broadcast THEN {{}}
         ELSE IF at \in Alive THEN {{n \in Uplinks : Before(at, n)}}
         ELSE SUBSET Uplinks

\* Lines 351-356 and 367-370: the children are written to as they are, and the
\* responder is called.
Deliver ==
    /\ stage = "deliver"
    /\ LET targets == ToSet(children[at]) IN
       /\ queue' = [m \in Module |-> queue[m] \/ m \in targets \cap Alive]
       /\ misused' = misused \cup (({at} \cup targets) \ Alive)
    /\ IF at \in responder \cap Alive
       THEN stage' = "lua" /\ running' = registry[at] /\ UNCHANGED <<at, hostq>>
       ELSE \E rest \in Followers : GoOn(rest)
    /\ UNCHANGED <<script, held, listed, children, bundling, forgotten>>

\* Lines 357-379: the responder returns.  If the packet has more messages, the
\* module is read for each of them (tjost_lua.c:143); the walk reads it too.
Return ==
    /\ stage = "lua"
    /\ \E more \in BOOLEAN :
         misused' = IF more \/ Head(hostq) = Broadcast THEN misused \cup ({at} \ Alive) ELSE misused
    /\ \E rest \in Followers : GoOn(rest)
    /\ UNCHANGED <<script, held, listed, children, queue, bundling, forgotten>>

\* process_out of every output in the lists; a loopback puts its events back
\* into the queue of the host.
ProcessOut ==
    /\ Cycle /\ \E m \in listed : queue[m]
    /\ Len(hostq) + Cardinality({m \in listed : queue[m] /\ Kind[m] = "loopback"}) <= MaxEvents
    /\ queue' = [m \in Module |-> queue[m] /\ m \notin listed]
    /\ hostq' = hostq \o SetToSeq({m \in listed : queue[m] /\ Kind[m] = "loopback"})
    /\ misused' = misused \cup {m \in listed : IsOutput(m) /\ m \notin Alive}
    /\ UNCHANGED <<script, held, listed, children, bundling, handling, forgotten>>

-----------------------------------------------------------------------------
(* The collector. *)

\* Mutant of Clear: the events are left in the queue.
ClearNothing(m) == queue

\* _clear
Clear(m) == [queue EXCEPT ![m] = FALSE]

\* _clear_output, _clear_in_out and _clear_uplink: the script asks for it.
ClearCall(m) == /\ Script /\ m \in Named /\ IsOutput(m) /\ queue[m]
                /\ queue' = Clear(m)
                /\ UNCHANGED <<script, held, listed, children, bundling, hostq, handling, misused, forgotten>>

\* Mutant of Reachable: the registry does not keep the responder functions.
ReachableFromScript(m) == m \in held

\* What Lua's collector finds.  The registry keeps a responder function (line
\* 667), the stack one that runs, and the function what it refers to.
Reachable(m) == m \in Named \/ \E n \in Module : m \in registry[n]

\* Mutant of Unlist: the module stays in the list of the host.
UnlistNone(m) == listed

Unlist(m) == listed \ {m}

\* C has a reference to m: a child entry, an event in the queue of the host, or
\* the walk over the uplinks.
Referred(m) == \/ \E n \in Module : m \in ToSet(children[n])
               \/ m \in ToSet(hostq) \cup {at}

\* _gc_input, _gc_output, _gc_in_out and _gc_uplink.  The first and the third
\* free the child entries, the others do not; all but the first clear the queue.
\* None frees the entries of open bundles.
Gc(m) ==
    /\ status' = [status EXCEPT ![m] = "dead"]
    /\ registry' = [registry EXCEPT ![m] = {}]
    /\ dat' = dat \ {m}
    /\ listed' = Unlist(m)
    /\ queue' = IF IsOutput(m) THEN Clear(m) ELSE queue
    /\ children' = IF IsInput(m) THEN [children EXCEPT ![m] = << >>] ELSE children
    /\ forgotten' = IF Referred(m) THEN forgotten \cup {m} ELSE forgotten

\* A step of the collector: of its own while the script runs, or at the end of
\* _process.
Collect(m) == /\ Script \/ Cycle
              /\ m \in Alive /\ ~Reachable(m)
              /\ Gc(m)
              /\ UNCHANGED <<phase, made, held, responder, bundling, hostq, handling, misused>>

-----------------------------------------------------------------------------
(* _tjost_deinit: JACK is deactivated, then Lua closed. *)
Close == /\ phase \in {"load", "run"} /\ stage = "idle" /\ phase' = "close"
         /\ UNCHANGED <<status, made, held, responder, registry, listed, children, queue, bundling,
                        dat, hostq, handling, misused, forgotten>>

\* lua_close calls the __gc metamethods, the last made first.
CloseModule ==
    /\ phase = "close" /\ made # << >>
    /\ IF Last(made) \in Alive THEN Gc(Last(made))
       ELSE UNCHANGED <<status, registry, listed, children, queue, dat, forgotten>>
    /\ made' = Front(made)
    /\ UNCHANGED <<phase, held, responder, bundling, hostq, handling, misused>>

\* Mutant of DrainQueue: the main queue is not drained.
DrainNothing == UNCHANGED hostq

\* Lines 564-570.
DrainQueue == hostq' = << >>

Exit == /\ phase = "close" /\ made = << >> /\ phase' = "exit"
        /\ DrainQueue
        /\ UNCHANGED <<status, made, held, responder, registry, listed, children, queue, bundling,
                       dat, handling, misused, forgotten>>

-----------------------------------------------------------------------------
Next == \/ \E m \in Module : Plugin(m) \/ PluginFails(m) \/ PluginFailsLate(m) \/ Drop(m) \/ Put(m)
                           \/ ClearCall(m) \/ Collect(m)
        \/ \E m, t \in Module : Chain(m, t)
        \/ Loaded \/ ProcessIn \/ UplinkIn \/ Take \/ Deliver \/ Return \/ ProcessOut
        \/ Close \/ CloseModule \/ Exit

Spec == Init /\ [][Next]_vars

-----------------------------------------------------------------------------
(* Properties. *)

\* Modules that never got to live.
Unborn == {m \in Module : status[m] \in {"failed", "late"}}

\* host->modules and host->uplinks hold the live modules: _process walks them
\* without asking.  The one thing that may be in them besides is a net module
\* whose thread could not be made.
ListsHoldTheLiving == /\ Alive \subseteq listed
                      /\ \A m \in listed \ Alive : status[m] = "late"

\* A responder function never calls a module that is gone, however little of
\* it the script keeps: the registry (lines 665-667) keeps the function, and with it
\* what it refers to, for as long as its own module lives, and while it runs even
\* longer.
RespondersHaveTargets ==
    phase \in {"load", "run"} => running \subseteq Alive /\ \A m \in Alive : registry[m] \subseteq Alive

\* Whatever the script drops and whenever the collector runs, _process reads and
\* writes a deleted module only if C had a reference to it when it was deleted:
\* it was chained to, an event of it was waiting, or the walk over the uplinks stood
\* at it.  (Lists, responders and new events never lead to one.)  So a script is
\* safe that keeps what it has chained, what puts out events, and its uplinks.
OnlyForgottenMisused == misused \subseteq Unborn \cup forgotten

\* Shutting down gives back all that the modules had: their own data, events
\* in their queues and in the host's, and child entries; except for what a
\* failed add leaves, the child entries of a module that is no input, which
\* tjost.plugin may make (lines 670-681) and no __gc frees, and the entries of open
\* bundles (243), which none frees either.
ShutdownGivesBack ==
    phase = "exit" =>
        /\ hostq = << >>
        /\ dat \subseteq Unborn
        /\ \A m \in Module : ~queue[m] /\ (IsInput(m) /\ status[m] = "dead" => children[m] = << >>)

\* tlsf.c:826: when tjost_free_memory removes a pool its "block should be
\* free": nothing that was allocated is left.
PoolsEmptyAtExit ==
    phase = "exit" => /\ dat = {} /\ hostq = << >> /\ bundling = {}
                      /\ \A m \in Module : ~queue[m] /\ children[m] = << >>
=============================================================================
