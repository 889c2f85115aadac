------------------------------ MODULE LuaProofs ------------------------------
(***************************************************************************)
(* Proofs about Modules: for any modules of any kinds, any failures, any   *)
(* script and collector, the lists of the host, the responders and the     *)
(* shutdown are right, and a deleted module is only used if C had a        *)
(* reference to it when it was deleted.                                    *)
(*                                                                         *)
(* Proofs about Bundles: for any messages, any number of calls and bundles *)
(* of any depth, a packet with at most two levels of bundles is what the   *)
(* script asked for, and the buffer holds the open bundles as long as      *)
(* there are at most two.  (Deeper it would not: all levels share one      *)
(* module->itm.)                                                           *)
(***************************************************************************)
EXTENDS Modules, Bundles, FiniteSetTheorems, SequenceTheorems, TLAPS

USE KindAssumption DEF KindAssumption

-----------------------------------------------------------------------------
(* The elements of a sequence. *)

\* ToSet of what the operators on sequences make.
LEMMA ToSetType == ASSUME NEW S, NEW s \in Seq(S) PROVE ToSet(s) \subseteq S
  BY DEF ToSet

\* Appending adds one element.
LEMMA ToSetAppend ==
    ASSUME NEW S, NEW s \in Seq(S), NEW e \in S
    PROVE  ToSet(Append(s, e)) = ToSet(s) \cup {e}
  <1>1. /\ DOMAIN s = 1..Len(s) /\ DOMAIN Append(s, e) = 1..Len(s) + 1
        /\ \A i \in 1..Len(s) : Append(s, e)[i] = s[i]
        /\ Append(s, e)[Len(s) + 1] = e /\ Len(s) \in Nat
    OBVIOUS
  <1>2. ToSet(Append(s, e)) \subseteq ToSet(s) \cup {e}
    BY <1>1 DEF ToSet
  <1>3. ToSet(s) \subseteq ToSet(Append(s, e)) /\ e \in ToSet(Append(s, e))
    BY <1>1 DEF ToSet
  <1> QED
    BY <1>2, <1>3

\* What is behind the head was in the sequence.
LEMMA ToSetTail ==
    ASSUME NEW S, NEW s \in Seq(S), s # << >>
    PROVE  Head(s) \in ToSet(s) /\ ToSet(Tail(s)) \subseteq ToSet(s) /\ Tail(s) \in Seq(S)
  <1>1. /\ DOMAIN s = 1..Len(s) /\ Len(s) \in Nat \ {0} /\ Head(s) = s[1]
        /\ DOMAIN Tail(s) = 1..Len(s) - 1 /\ Tail(s) \in Seq(S)
        /\ \A i \in 1..Len(s) - 1 : Tail(s)[i] = s[i + 1]
    OBVIOUS
  <1> QED
    BY <1>1 DEF ToSet

\* Every element is the last one or before it.
LEMMA ToSetFront ==
    ASSUME NEW S, NEW s \in Seq(S), s # << >>
    PROVE  /\ Front(s) \in Seq(S) /\ Last(s) \in S
           /\ ToSet(s) \subseteq ToSet(Front(s)) \cup {Last(s)}
  <1>1. DOMAIN s = 1..Len(s) /\ Len(s) \in Nat \ {0} /\ \A i \in 1..Len(s) : s[i] \in S
    OBVIOUS
  <1>2. /\ Front(s) \in Seq(S) /\ Len(Front(s)) = Len(s) - 1
        /\ \A i \in 1..Len(s) - 1 : Front(s)[i] = s[i]
    BY <1>1, SubSeqProperties DEF Front
  <1>3. DOMAIN Front(s) = 1..Len(s) - 1
    BY <1>2
  <1> QED
    BY <1>1, <1>2, <1>3 DEF ToSet, Last

\* A concatenation has the elements of both sequences.
LEMMA ToSetConcat ==
    ASSUME NEW S, NEW s \in Seq(S), NEW t \in Seq(S)
    PROVE  ToSet(s \o t) \subseteq ToSet(s) \cup ToSet(t) /\ s \o t \in Seq(S)
  <1>1. /\ s \o t \in Seq(S) /\ DOMAIN s = 1..Len(s) /\ DOMAIN t = 1..Len(t)
        /\ DOMAIN (s \o t) = 1..Len(s) + Len(t) /\ Len(s) \in Nat /\ Len(t) \in Nat
        /\ \A i \in 1..Len(s) + Len(t) : (s \o t)[i] = IF i <= Len(s) THEN s[i] ELSE t[i - Len(s)]
    BY ConcatProperties
  <1>2. ASSUME NEW i \in 1..Len(s) + Len(t) PROVE (s \o t)[i] \in ToSet(s) \cup ToSet(t)
    <2>1. CASE i <= Len(s)
      BY <1>1, <2>1 DEF ToSet
    <2>2. CASE i > Len(s)
      <3>1. i - Len(s) \in 1..Len(t)
        BY <1>1, <2>2
      <3> QED
        BY <1>1, <2>2, <3>1 DEF ToSet
    <2> QED
      BY <1>1, <2>1, <2>2
  <1> QED
    BY <1>1, <1>2 DEF ToSet

\* A finite set as a sequence has no other elements.
LEMMA SetToSeqType ==
    ASSUME NEW S, IsFiniteSet(S)
    PROVE  SetToSeq(S) \in Seq(S)
  <1>1. Cardinality(S) \in Nat /\ ExistsBijection(1..Cardinality(S), S)
    BY FS_CardinalityType
  <1>2. \E f \in [1..Cardinality(S) -> S] : IsInjective(f)
    BY <1>1 DEF ExistsBijection, Bijection, Injection
  <1>3. SetToSeq(S) \in [1..Cardinality(S) -> S]
    BY <1>2 DEF SetToSeq
  <1> QED
    BY <1>1, <1>3

-----------------------------------------------------------------------------
(* The inductive invariant. *)

Working == phase \in {"load", "run"}

\* What a reference of C may lead to.
Known == Alive \cup Unborn \cup forgotten

TypeInv ==
    /\ phase \in {"load", "run", "close", "exit"}
    /\ status \in [Module -> {"new", "alive", "failed", "late", "dead"}]
    /\ made \in Seq(Module) /\ held \subseteq Module /\ responder \subseteq Module
    /\ registry \in [Module -> SUBSET Module] /\ listed \subseteq Module
    /\ children \in [Module -> Seq(Module)] /\ queue \in [Module -> BOOLEAN]
    /\ bundling \subseteq Module /\ dat \subseteq Module /\ hostq \in Seq(Module \cup {Broadcast})
    /\ stage \in {"idle", "deliver", "lua"} /\ at \in Module \cup {None} /\ running \subseteq Module
    /\ misused \subseteq Module /\ forgotten \subseteq Module

\* The main loop is within an event only while the host runs and has the event.
StageInv ==
    /\ stage = "idle" => at = None /\ running = {}
    /\ stage # "idle" => phase = "run" /\ at \in Module /\ hostq # << >>

\* The script and its responders hold only what is alive.
HeldInv ==
    Working => held \subseteq Alive /\ running \subseteq Alive /\ \A n \in Module : registry[n] \subseteq Alive

\* Only outputs are children.
TargetsInv == \A n \in Module : \A t \in ToSet(children[n]) : IsOutput(t)

\* A module that was not made yet has no children.
FreshInv == \A m \in Module : status[m] = "new" => children[m] = << >>

\* What is to be given back belongs to a module that lua_close will delete.
OwnedInv ==
    /\ Alive \subseteq ToSet(made)
    /\ dat \subseteq Alive \cup Unborn
    /\ \A m \in Module : queue[m] => m \in Alive /\ IsOutput(m)
    /\ \A m \in Module : IsInput(m) /\ status[m] = "dead" => children[m] = << >>
    /\ phase = "exit" => made = << >> /\ hostq = << >>

\* No reference of C leads to a module that was deleted unnoticed.
KnownInv ==
    /\ misused \subseteq Unborn \cup forgotten
    /\ \A n \in Module : ToSet(children[n]) \subseteq Known
    /\ ToSet(hostq) \subseteq Known \cup {Broadcast}
    /\ at \in Known \cup {None}

ModulesInv == TypeInv /\ StageInv /\ ListsHoldTheLiving /\ HeldInv /\ TargetsInv /\ FreshInv
              /\ OwnedInv /\ KnownInv

\* Before the script runs there is no module.
LEMMA InitModules == Init => ModulesInv
  <1> SUFFICES ASSUME Init PROVE ModulesInv
    OBVIOUS
  <1>1. Alive = {}
    BY DEF Init, Alive
  <1>2. \A m \in Module : ToSet(children[m]) = {} /\ registry[m] = {} /\ queue[m] = FALSE
    BY DEF Init, ToSet
  <1>3. ToSet(hostq) = {} /\ ToSet(made) = {} /\ phase = "load"
    BY DEF Init, ToSet
  <1>4. TypeInv /\ StageInv
    BY DEF Init, TypeInv, StageInv
  <1>5. ListsHoldTheLiving
    BY <1>1 DEF Init, ListsHoldTheLiving
  <1>6. HeldInv /\ TargetsInv
    BY <1>1, <1>2 DEF Init, HeldInv, TargetsInv
  <1>7. OwnedInv
    BY <1>1, <1>2, <1>3 DEF Init, OwnedInv
  <1>8. KnownInv
    BY <1>2, <1>3 DEF Init, KnownInv
  <1>9. FreshInv
    BY DEF Init, FreshInv
  <1> QED
    BY <1>4, <1>5, <1>6, <1>7, <1>8, <1>9 DEF ModulesInv

-----------------------------------------------------------------------------
(* The script. *)

\* What becomes of the targets and children when m is made.
Given(m) ==
    /\ registry' \in [Module -> SUBSET Module] /\ children' \in [Module -> Seq(Module)]
    /\ responder' \subseteq Module
    /\ \A n \in Module \ {m} : registry'[n] = registry[n] /\ children'[n] = children[n]
    /\ registry'[m] \subseteq Alive /\ ToSet(children'[m]) \subseteq held
    /\ \A t \in ToSet(children'[m]) : IsOutput(t)

\* The second argument of tjost.plugin makes targets of held outputs only.
LEMMA SecondArgumentGives ==
    ASSUME ModulesInv, NEW m \in Module, status[m] = "new", Working, SecondArgument(m)
    PROVE  Given(m)
  <1>1. /\ registry \in [Module -> SUBSET Module] /\ children \in [Module -> Seq(Module)]
        /\ held \subseteq Module /\ held \subseteq Alive /\ registry[m] \subseteq Alive
        /\ children[m] = << >> /\ responder \subseteq Module
    BY DEF ModulesInv, TypeInv, HeldInv, FreshInv
  <1>2. ToSet(<< >>) = {}
    BY DEF ToSet
  <1>3. ASSUME NEW targets \in SUBSET {t \in held : IsOutput(t)},
               registry' = [registry EXCEPT ![m] = targets], children' = children,
               responder' = responder \cup {m}
        PROVE  Given(m)
    <2>1. registry'[m] = targets /\ targets \subseteq held
      BY <1>1, <1>3
    <2> QED
      BY <1>1, <1>2, <1>3, <2>1 DEF Given
  <1>4. ASSUME NEW t \in held, registry' = registry, responder' = responder,
               children' = [children EXCEPT ![m] = IF IsOutput(t) THEN <<t>> ELSE << >>]
        PROVE  Given(m)
    <2>1. t \in Module /\ <<t>> \in Seq(Module) /\ << >> \in Seq(Module)
      BY <1>1
    <2>2. ToSet(<<t>>) = {t}
      BY DEF ToSet
    <2>3. children'[m] = IF IsOutput(t) THEN <<t>> ELSE << >>
      BY <1>1, <1>4
    <2>4. ToSet(children'[m]) \subseteq held /\ \A u \in ToSet(children'[m]) : IsOutput(u)
      BY <1>2, <2>2, <2>3
    <2>5. children' \in [Module -> Seq(Module)]
      BY <1>1, <1>4, <2>1
    <2> QED
      BY <1>1, <1>4, <2>4, <2>5 DEF Given
  <1>5. CASE UNCHANGED <<responder, registry, children>>
    BY <1>1, <1>2, <1>5 DEF Given
  <1> QED
    BY <1>3, <1>4, <1>5 DEF SecondArgument

\* Making a module, whether its add succeeds or fails, keeps the invariant.
LEMMA PluginKeeps ==
    ASSUME ModulesInv, NEW m \in Module, Plugin(m)
    PROVE  ModulesInv'
  <1>1. Working /\ status[m] = "new" /\ Working' /\ phase' = phase
    BY DEF Plugin, Working
  <1>2. /\ registry' \in [Module -> SUBSET Module] /\ children' \in [Module -> Seq(Module)]
        /\ responder' \subseteq Module
        /\ \A n \in Module \ {m} : registry'[n] = registry[n] /\ children'[n] = children[n]
        /\ registry'[m] \subseteq Alive /\ ToSet(children'[m]) \subseteq held
        /\ \A t \in ToSet(children'[m]) : IsOutput(t)
    BY <1>1, SecondArgumentGives DEF Given, Plugin
  <1>3. /\ status' \in [Module -> {"new", "alive", "failed", "late", "dead"}]
        /\ status'[m] = "alive" /\ \A n \in Module \ {m} : status'[n] = status[n]
    BY DEF Plugin, ModulesInv, TypeInv
  <1>4. Alive' = Alive \cup {m} /\ Unborn' = Unborn /\ m \notin Alive /\ m \notin Unborn
    BY <1>1, <1>3 DEF Alive, Unborn
  <1>5. made' \in Seq(Module) /\ ToSet(made') = ToSet(made) \cup {m}
    BY ToSetAppend DEF Plugin, ModulesInv, TypeInv
  <1>6. /\ held' = held \cup {m} /\ listed' = listed \cup {m} /\ dat' = dat \cup {m}
        /\ queue' = queue /\ hostq' = hostq /\ misused' = misused /\ bundling' = bundling
        /\ forgotten' = forgotten /\ stage' = stage /\ at' = at /\ running' = running
    BY DEF Plugin, handling
  <1>t. TypeInv'
    BY <1>1, <1>2, <1>3, <1>5, <1>6 DEF TypeInv, ModulesInv
  <1>s. StageInv'
    BY <1>1, <1>6 DEF ModulesInv, StageInv
  <1>l. ListsHoldTheLiving'
    BY <1>3, <1>4, <1>6 DEF ModulesInv, TypeInv, ListsHoldTheLiving
  <1>h. HeldInv'
    BY <1>1, <1>2, <1>4, <1>6 DEF ModulesInv, HeldInv
  <1>g. TargetsInv'
    <2> SUFFICES ASSUME NEW n \in Module, NEW t \in ToSet(children'[n])
                 PROVE  IsOutput(t)
      BY DEF TargetsInv
    <2>1. CASE n = m
      BY <1>2, <2>1
    <2>2. CASE n # m
      BY <1>2, <2>2 DEF ModulesInv, TargetsInv
    <2> QED
      BY <2>1, <2>2
  <1>f. FreshInv'
    BY <1>2, <1>3 DEF ModulesInv, FreshInv
  <1>o. OwnedInv'
    BY <1>1, <1>2, <1>3, <1>4, <1>5, <1>6 DEF ModulesInv, OwnedInv, Working
  <1>k. KnownInv'
    <2>1. Known' = Known \cup {m}
      BY <1>4, <1>6 DEF Known
    <2>2. held \subseteq Known
      BY <1>1 DEF ModulesInv, HeldInv, Known
    <2>3. ASSUME NEW n \in Module PROVE ToSet(children'[n]) \subseteq Known
      BY <1>2, <2>2 DEF ModulesInv, KnownInv
    <2>4. misused \subseteq Unborn \cup forgotten /\ ToSet(hostq) \subseteq Known \cup {Broadcast}
          /\ at \in Known \cup {None}
      BY DEF ModulesInv, KnownInv
    <2> QED
      BY <1>4, <1>6, <2>1, <2>3, <2>4 DEF KnownInv
  <1> QED
    BY <1>t, <1>s, <1>l, <1>h, <1>g, <1>f, <1>o, <1>k DEF ModulesInv

\* An add that fails, early or late.
LEMMA PluginFailsKeeps ==
    ASSUME ModulesInv, NEW m \in Module, PluginFails(m) \/ PluginFailsLate(m)
    PROVE  ModulesInv'
  <1>1. Working /\ status[m] = "new" /\ Working' /\ phase' = phase
    BY DEF PluginFails, PluginFailsLate, Working
  <1>2. /\ registry' \in [Module -> SUBSET Module] /\ children' \in [Module -> Seq(Module)]
        /\ responder' \subseteq Module
        /\ \A n \in Module \ {m} : registry'[n] = registry[n] /\ children'[n] = children[n]
        /\ registry'[m] \subseteq Alive /\ ToSet(children'[m]) \subseteq held
        /\ \A t \in ToSet(children'[m]) : IsOutput(t)
    BY <1>1, SecondArgumentGives DEF Given, PluginFails, PluginFailsLate
  <1>3. /\ status' \in [Module -> {"new", "alive", "failed", "late", "dead"}]
        /\ status'[m] \in {"failed", "late"} /\ \A n \in Module \ {m} : status'[n] = status[n]
    BY DEF PluginFails, PluginFailsLate, ModulesInv, TypeInv
  <1>4. Alive' = Alive /\ Unborn' = Unborn \cup {m} /\ m \notin Alive
    BY <1>1, <1>3 DEF Alive, Unborn
  <1>5. listed' = listed \/ (listed' = listed \cup {m} /\ status'[m] = "late")
    BY DEF PluginFails, PluginFailsLate, ModulesInv, TypeInv
  <1>6. /\ held' = held /\ dat' = dat \cup {m} /\ made' = made
        /\ queue' = queue /\ hostq' = hostq /\ misused' = misused /\ bundling' = bundling
        /\ forgotten' = forgotten /\ stage' = stage /\ at' = at /\ running' = running
    BY DEF PluginFails, PluginFailsLate, handling
  <1>7. m \notin listed
    BY <1>1, <1>4 DEF ModulesInv, ListsHoldTheLiving
  <1>t. TypeInv'
    BY <1>1, <1>2, <1>3, <1>5, <1>6 DEF TypeInv, ModulesInv
  <1>s. StageInv'
    BY <1>1, <1>6 DEF ModulesInv, StageInv
  <1>l. ListsHoldTheLiving'
    BY <1>3, <1>4, <1>5, <1>7 DEF ModulesInv, ListsHoldTheLiving, TypeInv
  <1>h. HeldInv'
    BY <1>1, <1>2, <1>4, <1>6 DEF ModulesInv, HeldInv
  <1>g. TargetsInv'
    <2> SUFFICES ASSUME NEW n \in Module, NEW t \in ToSet(children'[n])
                 PROVE  IsOutput(t)
      BY DEF TargetsInv
    <2>1. CASE n = m
      BY <1>2, <2>1
    <2>2. CASE n # m
      BY <1>2, <2>2 DEF ModulesInv, TargetsInv
    <2> QED
      BY <2>1, <2>2
  <1>f. FreshInv'
    BY <1>2, <1>3 DEF ModulesInv, FreshInv
  <1>o. OwnedInv'
    BY <1>1, <1>2, <1>3, <1>4, <1>6 DEF ModulesInv, OwnedInv, Working
  <1>k. KnownInv'
    <2>1. Known' = Known \cup {m}
      BY <1>4, <1>6 DEF Known
    <2>2. held \subseteq Known
      BY <1>1 DEF ModulesInv, HeldInv, Known
    <2>3. ASSUME NEW n \in Module PROVE ToSet(children'[n]) \subseteq Known
      BY <1>2, <2>2 DEF ModulesInv, KnownInv
    <2>4. misused \subseteq Unborn \cup forgotten /\ ToSet(hostq) \subseteq Known \cup {Broadcast}
          /\ at \in Known \cup {None}
      BY DEF ModulesInv, KnownInv
    <2> QED
      BY <1>4, <1>6, <2>1, <2>3, <2>4 DEF KnownInv
  <1> QED
    BY <1>t, <1>s, <1>l, <1>h, <1>g, <1>f, <1>o, <1>k DEF ModulesInv

\* While the script runs the host works, and what it names is alive.
LEMMA ScriptNames ==
    ASSUME ModulesInv, Script
    PROVE  Working /\ Named \subseteq Alive /\ Named \subseteq Module
  BY DEF Script, Working, ModulesInv, TypeInv, StageInv, HeldInv, Named

\* tjost.chain adds an output to the children of an input.
LEMMA ChainKeeps ==
    ASSUME ModulesInv, NEW m \in Module, NEW t \in Module, Chain(m, t)
    PROVE  ModulesInv'
  <1>1. Working /\ m \in Alive /\ t \in Alive /\ IsInput(m) /\ IsOutput(t)
    BY ScriptNames DEF Chain
  <1>2. UNCHANGED <<phase, status, made, responder, registry, dat, held, listed, queue, bundling, hostq,
                    stage, at, running, misused, forgotten>>
    BY DEF Chain, script, handling
  <1>3. Alive' = Alive /\ Unborn' = Unborn /\ status[m] = "alive" /\ Known' = Known /\ Working' = Working
    BY <1>1, <1>2 DEF Alive, Unborn, Known, Working
  <1>4. /\ children' \in [Module -> Seq(Module)]
        /\ \A n \in Module \ {m} : children'[n] = children[n]
        /\ ToSet(children'[m]) = ToSet(children[m]) \cup {t}
    BY ToSetAppend DEF Chain, ModulesInv, TypeInv
  <1>t. TypeInv' /\ StageInv'
    BY <1>2, <1>4 DEF ModulesInv, TypeInv, StageInv
  <1>l. ListsHoldTheLiving' /\ HeldInv'
    BY <1>2, <1>3 DEF ModulesInv, ListsHoldTheLiving, HeldInv
  <1>c. \A n \in Module : \A u \in ToSet(children'[n]) : u \in ToSet(children[n]) \/ u = t
    BY <1>4
  <1>g. TargetsInv'
    BY <1>1, <1>c DEF ModulesInv, TargetsInv
  <1>f. FreshInv'
    BY <1>2, <1>3, <1>4 DEF ModulesInv, FreshInv
  <1>o. OwnedInv'
    BY <1>2, <1>3, <1>4 DEF ModulesInv, OwnedInv
  <1>k. KnownInv'
    <2>1. \A n \in Module : ToSet(children'[n]) \subseteq Known
      BY <1>1, <1>c DEF ModulesInv, KnownInv, Known
    <2> QED
      BY <1>2, <1>3, <2>1 DEF ModulesInv, KnownInv
  <1> QED
    BY <1>t, <1>l, <1>g, <1>f, <1>o, <1>k DEF ModulesInv

\* Whatever the script drops, it holds only what is alive.
LEMMA DropKeeps ==
    ASSUME ModulesInv, NEW m \in Module, Drop(m)
    PROVE  ModulesInv'
  <1>1. held' = held \ {m}
    BY DEF Drop
  <1>2. UNCHANGED <<phase, status, made, responder, registry, dat, listed, children, queue, bundling,
                    hostq, stage, at, running, misused, forgotten>>
    BY DEF Drop, script, handling
  <1>3. Alive' = Alive /\ Unborn' = Unborn /\ Known' = Known /\ Working' = Working
    BY <1>2 DEF Alive, Unborn, Known, Working
  <1>t. TypeInv' /\ StageInv'
    BY <1>1, <1>2 DEF ModulesInv, TypeInv, StageInv
  <1>l. ListsHoldTheLiving' /\ HeldInv' /\ TargetsInv' /\ FreshInv'
    BY <1>1, <1>2, <1>3 DEF ModulesInv, ListsHoldTheLiving, HeldInv, TargetsInv, FreshInv
  <1>o. OwnedInv'
    BY <1>2, <1>3 DEF ModulesInv, OwnedInv
  <1>k. KnownInv'
    BY <1>2, <1>3 DEF ModulesInv, KnownInv
  <1> QED
    BY <1>t, <1>l, <1>o, <1>k DEF ModulesInv

-----------------------------------------------------------------------------
(* The real-time thread. *)

\* A step that leaves the modules and who refers to them alone, misuses only what
\* C refers to, and fills only queues of live outputs.
LEMMA CycleKeeps ==
    ASSUME ModulesInv, Working,
           UNCHANGED <<phase, status, made, responder, registry, dat, held, listed, children, forgotten>>,
           hostq' \in Seq(Module \cup {Broadcast}), misused' \subseteq Module, bundling' \subseteq Module,
           queue' \in [Module -> BOOLEAN],
           \A m \in Module : queue'[m] => m \in Alive /\ IsOutput(m),
           stage' \in {"idle", "deliver", "lua"}, at' \in Module \cup {None}, StageInv',
           running' \subseteq Alive,
           misused' \subseteq misused \cup Unborn \cup forgotten,
           ToSet(hostq') \subseteq Known \cup {Broadcast}, at' \in Known \cup {None}
    PROVE  ModulesInv'
  <1>1. Alive' = Alive /\ Unborn' = Unborn /\ Known' = Known /\ Working' /\ phase' # "exit"
    BY DEF Alive, Unborn, Known, Working
  <1>2. running' \subseteq Module
    BY DEF Alive
  <1>t. TypeInv'
    BY <1>2 DEF ModulesInv, TypeInv
  <1>l. ListsHoldTheLiving' /\ HeldInv' /\ TargetsInv' /\ FreshInv'
    BY <1>1 DEF ModulesInv, ListsHoldTheLiving, HeldInv, TargetsInv, FreshInv
  <1>o. OwnedInv'
    BY <1>1 DEF ModulesInv, OwnedInv
  <1>k. KnownInv'
    BY <1>1 DEF ModulesInv, KnownInv
  <1> QED
    BY <1>t, <1>l, <1>o, <1>k DEF ModulesInv

\* What the invariant says of a step that does not change the variable.
LEMMA AsBefore ==
    ASSUME ModulesInv
    PROVE  /\ hostq \in Seq(Module \cup {Broadcast}) /\ misused \subseteq Module /\ bundling \subseteq Module
           /\ queue \in [Module -> BOOLEAN] /\ listed \subseteq Module
           /\ \A m \in Module : queue[m] => m \in Alive /\ IsOutput(m)
           /\ stage \in {"idle", "deliver", "lua"} /\ at \in Module \cup {None} /\ StageInv
           /\ Working => running \subseteq Alive
           /\ ToSet(hostq) \subseteq Known \cup {Broadcast} /\ at \in Known \cup {None}
           /\ \A m \in listed : m \in Alive \/ m \in Unborn
  BY DEF ModulesInv, TypeInv, OwnedInv, HeldInv, KnownInv, ListsHoldTheLiving, Unborn

\* Outside of an event nothing is at hand.
LEMMA IdleStays ==
    ASSUME ModulesInv, Cycle, UNCHANGED <<phase, stage, at, running>>
    PROVE  /\ stage' \in {"idle", "deliver", "lua"} /\ at' \in Module \cup {None} /\ StageInv'
           /\ running' \subseteq Alive /\ at' \in Known \cup {None} /\ Working
  BY DEF ModulesInv, TypeInv, StageInv, Cycle, Working

\* The turn of an input in a cycle keeps the invariant.
LEMMA ProcessInKeeps == ASSUME ModulesInv, ProcessIn PROVE ModulesInv'
  <1>1. /\ Cycle /\ UNCHANGED <<phase, status, made, responder, registry, dat, held, listed, children,
                               queue, bundling, stage, at, running, forgotten>>
    BY DEF ProcessIn, script, handling
  <1>2. PICK m \in {n \in listed : IsInput(n)} : hostq' = Append(hostq, m)
    BY DEF ProcessIn
  <1>3. listed \subseteq Module /\ misused \subseteq Module /\ hostq \in Seq(Module \cup {Broadcast})
        /\ ToSet(hostq) \subseteq Known \cup {Broadcast} /\ \A n \in listed : n \in Alive \/ n \in Unborn
    BY AsBefore
  <1>4. hostq' \in Seq(Module \cup {Broadcast}) /\ ToSet(hostq') = ToSet(hostq) \cup {m}
    BY <1>2, <1>3, ToSetAppend
  <1>5. ToSet(hostq') \subseteq Known \cup {Broadcast}
    BY <1>2, <1>3, <1>4 DEF Known
  <1>6. misused' = misused \cup {n \in listed : IsInput(n) /\ n \notin Alive}
    BY DEF ProcessIn
  <1>7. misused' \subseteq misused \cup Unborn \cup forgotten /\ misused' \subseteq Module
    BY <1>3, <1>6
  <1>8. /\ queue' \in [Module -> BOOLEAN] /\ bundling' \subseteq Module
        /\ \A n \in Module : queue'[n] => n \in Alive /\ IsOutput(n)
    BY <1>1, AsBefore
  <1>9. /\ stage' \in {"idle", "deliver", "lua"} /\ at' \in Module \cup {None} /\ StageInv'
        /\ running' \subseteq Alive /\ at' \in Known \cup {None} /\ Working
    BY <1>1, IdleStays
  <1> QED
    BY <1>1, <1>4, <1>5, <1>7, <1>8, <1>9, CycleKeeps

\* The turn of an uplink among the inputs keeps the invariant.
LEMMA UplinkInKeeps == ASSUME ModulesInv, UplinkIn PROVE ModulesInv'
  <1>1. /\ Cycle /\ UNCHANGED <<phase, status, made, responder, registry, dat, held, listed, children,
                               queue, bundling, stage, at, running, misused, forgotten>>
    BY DEF UplinkIn, script, handling
  <1>2. /\ hostq \in Seq(Module \cup {Broadcast}) /\ Broadcast \in Module \cup {Broadcast}
        /\ hostq' = Append(hostq, Broadcast) /\ ToSet(hostq) \subseteq Known \cup {Broadcast}
    BY AsBefore DEF UplinkIn
  <1>3. hostq' \in Seq(Module \cup {Broadcast}) /\ ToSet(hostq') = ToSet(hostq) \cup {Broadcast}
    BY <1>2, ToSetAppend
  <1>4. ToSet(hostq') \subseteq Known \cup {Broadcast}
    BY <1>2, <1>3
  <1>5. /\ queue' \in [Module -> BOOLEAN] /\ bundling' \subseteq Module /\ misused' \subseteq Module
        /\ \A n \in Module : queue'[n] => n \in Alive /\ IsOutput(n)
        /\ misused' \subseteq misused \cup Unborn \cup forgotten
    BY <1>1, AsBefore
  <1>6. /\ stage' \in {"idle", "deliver", "lua"} /\ at' \in Module \cup {None} /\ StageInv'
        /\ running' \subseteq Alive /\ at' \in Known \cup {None} /\ Working
    BY <1>1, IdleStays
  <1> QED
    BY <1>1, <1>3, <1>4, <1>5, <1>6, CycleKeeps

\* The loop goes on within what C refers to, or is done with the event.
LEMMA GoesOn ==
    ASSUME ModulesInv, phase = "run", phase' = phase, hostq # << >>,
           NEW rest, rest \subseteq Known, rest \subseteq Module, GoOn(rest)
    PROVE  /\ stage' \in {"idle", "deliver", "lua"} /\ at' \in Module \cup {None} /\ StageInv'
           /\ running' \subseteq Alive /\ at' \in Known \cup {None}
           /\ hostq' \in Seq(Module \cup {Broadcast}) /\ ToSet(hostq') \subseteq Known \cup {Broadcast}
  <1>1. /\ hostq \in Seq(Module \cup {Broadcast}) /\ ToSet(hostq) \subseteq Known \cup {Broadcast}
    BY AsBefore
  <1>2. Tail(hostq) \in Seq(Module \cup {Broadcast}) /\ ToSet(Tail(hostq)) \subseteq ToSet(hostq)
    BY <1>1, ToSetTail
  <1>3. CASE rest = {}
    <2>1. running' = {} /\ stage' = "idle" /\ at' = None /\ hostq' = Tail(hostq)
      BY <1>3 DEF GoOn
    <2>2. StageInv'
      BY <2>1 DEF StageInv
    <2> QED
      BY <1>1, <1>2, <2>1, <2>2
  <1>4. CASE rest # {}
    <2>1. running' = {} /\ stage' = "deliver" /\ at' \in rest /\ hostq' = hostq
      BY <1>4 DEF GoOn
    <2>2. StageInv'
      BY <2>1 DEF StageInv
    <2> QED
      BY <1>1, <2>1, <2>2
  <1> QED
    BY <1>3, <1>4

\* What follows in the walk is in the list.
LEMMA FollowersKnown ==
    ASSUME ModulesInv, NEW rest \in Followers
    PROVE  rest \subseteq Known /\ rest \subseteq Module
  <1>1. rest \subseteq Uplinks
    BY DEF Followers
  <1>2. Uplinks \subseteq listed
    BY DEF Uplinks
  <1> QED
    BY <1>1, <1>2, AsBefore DEF Known

\* The head of the queue of the host.
LEMMA HeadKnown ==
    ASSUME ModulesInv, hostq # << >>, Head(hostq) # Broadcast
    PROVE  Head(hostq) \in Known /\ Head(hostq) \in Module
  <1>1. /\ hostq \in Seq(Module \cup {Broadcast}) /\ ToSet(hostq) \subseteq Known \cup {Broadcast}
    BY AsBefore
  <1>2. Head(hostq) \in ToSet(hostq) /\ ToSet(hostq) \subseteq Module \cup {Broadcast}
    BY <1>1, ToSetTail, ToSetType
  <1> QED
    BY <1>1, <1>2

\* Taking an event from the queue keeps the invariant.
LEMMA TakeKeeps == ASSUME ModulesInv, Take PROVE ModulesInv'
  <1> DEFINE rest == IF Head(hostq) = Broadcast THEN Uplinks ELSE {Head(hostq)}
  <1>1. /\ phase = "run" /\ hostq # << >> /\ GoOn(rest) /\ Working
        /\ UNCHANGED <<phase, status, made, responder, registry, dat, held, listed, children, queue,
                       bundling, misused, forgotten>>
    BY DEF Take, Cycle, script, Working
  <1>2. rest \subseteq Known /\ rest \subseteq Module
    <2>1. Uplinks \subseteq listed
      BY DEF Uplinks
    <2> QED
      BY <1>1, <2>1, AsBefore, HeadKnown DEF Known
  <1> HIDE DEF rest
  <1>3. /\ stage' \in {"idle", "deliver", "lua"} /\ at' \in Module \cup {None} /\ StageInv'
        /\ running' \subseteq Alive /\ at' \in Known \cup {None}
        /\ hostq' \in Seq(Module \cup {Broadcast}) /\ ToSet(hostq') \subseteq Known \cup {Broadcast}
    BY <1>1, <1>2, GoesOn
  <1>4. /\ queue' \in [Module -> BOOLEAN] /\ bundling' \subseteq Module /\ misused' \subseteq Module
        /\ \A n \in Module : queue'[n] => n \in Alive /\ IsOutput(n)
        /\ misused' \subseteq misused \cup Unborn \cup forgotten
    BY <1>1, AsBefore
  <1> QED
    BY <1>1, <1>3, <1>4, CycleKeeps

\* Handing an event to the children and the responder keeps the invariant.
LEMMA DeliverKeeps == ASSUME ModulesInv, Deliver PROVE ModulesInv'
  <1> DEFINE targets == ToSet(children[at])
  <1>1. /\ stage = "deliver"
        /\ queue' = [m \in Module |-> queue[m] \/ m \in targets \cap Alive]
        /\ misused' = misused \cup (({at} \cup targets) \ Alive)
        /\ UNCHANGED <<phase, status, made, responder, registry, dat, held, listed, children, bundling,
                       forgotten>>
    BY DEF Deliver, script
  <1>2. /\ phase = "run" /\ Working /\ at \in Module /\ hostq # << >> /\ at \in Known
    BY <1>1 DEF ModulesInv, StageInv, Working, KnownInv
  <1>3. targets \subseteq Module /\ targets \subseteq Known /\ \A t \in targets : IsOutput(t)
    <2>1. children[at] \in Seq(Module)
      BY <1>2 DEF ModulesInv, TypeInv
    <2> QED
      BY <1>2, <2>1, ToSetType DEF ModulesInv, KnownInv, TargetsInv
  <1> HIDE DEF targets
  <1>4. misused' \subseteq Module /\ misused' \subseteq misused \cup Unborn \cup forgotten
    BY <1>1, <1>2, <1>3, AsBefore DEF Known
  <1>5. /\ queue' \in [Module -> BOOLEAN] /\ bundling' \subseteq Module
        /\ \A n \in Module : queue'[n] => n \in Alive /\ IsOutput(n)
    BY <1>1, <1>3, AsBefore
  <1>6. /\ stage' \in {"idle", "deliver", "lua"} /\ at' \in Module \cup {None} /\ StageInv'
        /\ running' \subseteq Alive /\ at' \in Known \cup {None}
        /\ hostq' \in Seq(Module \cup {Broadcast}) /\ ToSet(hostq') \subseteq Known \cup {Broadcast}
    <2>1. CASE at \in responder \cap Alive
      <3>1. stage' = "lua" /\ running' = registry[at] /\ at' = at /\ hostq' = hostq
        BY <2>1 DEF Deliver
      <3>2. registry[at] \subseteq Alive
        BY <1>2 DEF ModulesInv, HeldInv
      <3>3. StageInv'
        BY <1>1, <1>2, <3>1 DEF StageInv
      <3> QED
        BY <1>2, <3>1, <3>2, <3>3, AsBefore
    <2>2. CASE at \notin responder \cap Alive
      <3>1. PICK rest \in Followers : GoOn(rest)
        BY <2>2 DEF Deliver
      <3>2. rest \subseteq Known /\ rest \subseteq Module
        BY <3>1, FollowersKnown
      <3> QED
        BY <1>1, <1>2, <3>1, <3>2, GoesOn
    <2> QED
      BY <2>1, <2>2
  <1> QED
    BY <1>1, <1>2, <1>4, <1>5, <1>6, CycleKeeps

\* The return of a responder keeps the invariant.
LEMMA ReturnKeeps == ASSUME ModulesInv, Return PROVE ModulesInv'
  <1>1. /\ stage = "lua"
        /\ misused' = misused \/ misused' = misused \cup ({at} \ Alive)
        /\ UNCHANGED <<phase, status, made, responder, registry, dat, held, listed, children, queue,
                       bundling, forgotten>>
    BY DEF Return, script
  <1>2. /\ phase = "run" /\ Working /\ at \in Module /\ hostq # << >> /\ at \in Known
    BY <1>1 DEF ModulesInv, StageInv, Working, KnownInv
  <1>3. misused' \subseteq Module /\ misused' \subseteq misused \cup Unborn \cup forgotten
    BY <1>1, <1>2, AsBefore DEF Known
  <1>4. /\ queue' \in [Module -> BOOLEAN] /\ bundling' \subseteq Module
        /\ \A n \in Module : queue'[n] => n \in Alive /\ IsOutput(n)
    BY <1>1, AsBefore
  <1>5. PICK rest \in Followers : GoOn(rest)
    BY DEF Return
  <1>6. rest \subseteq Known /\ rest \subseteq Module
    BY <1>5, FollowersKnown
  <1>7. /\ stage' \in {"idle", "deliver", "lua"} /\ at' \in Module \cup {None} /\ StageInv'
        /\ running' \subseteq Alive /\ at' \in Known \cup {None}
        /\ hostq' \in Seq(Module \cup {Broadcast}) /\ ToSet(hostq') \subseteq Known \cup {Broadcast}
    BY <1>1, <1>2, <1>5, <1>6, GoesOn
  <1> QED
    BY <1>1, <1>2, <1>3, <1>4, <1>7, CycleKeeps

\* The turn of an output in a cycle keeps the invariant.
LEMMA ProcessOutKeeps == ASSUME ModulesInv, ProcessOut PROVE ModulesInv'
  <1> DEFINE loops == {m \in listed : queue[m] /\ Kind[m] = "loopback"}
  <1>1. /\ Cycle /\ UNCHANGED <<phase, status, made, responder, registry, dat, held, listed, children,
                               bundling, stage, at, running, forgotten>>
        /\ queue' = [m \in Module |-> queue[m] /\ m \notin listed]
        /\ hostq' = hostq \o SetToSeq(loops)
        /\ misused' = misused \cup {m \in listed : IsOutput(m) /\ m \notin Alive}
    BY DEF ProcessOut, script, handling
  <1>2. /\ listed \subseteq Module /\ misused \subseteq Module
        /\ hostq \in Seq(Module \cup {Broadcast}) /\ queue \in [Module -> BOOLEAN]
    BY DEF ModulesInv, TypeInv
  <1>3. IsFiniteSet(loops)
    BY <1>2, FS_Subset
  <1>4. SetToSeq(loops) \in Seq(loops)
    BY <1>3, SetToSeqType
  <1>5. /\ ToSet(SetToSeq(loops)) \subseteq loops
        /\ SetToSeq(loops) \in Seq(Module \cup {Broadcast})
    <2>1. ToSet(SetToSeq(loops)) \subseteq loops
      BY <1>4, ToSetType
    <2> HIDE DEF loops
    <2>2. loops \subseteq Module \cup {Broadcast}
      BY <1>2 DEF loops
    <2>3. SetToSeq(loops) \in [1..Len(SetToSeq(loops)) -> Module \cup {Broadcast}]
      BY <1>4, <2>2
    <2>4. Len(SetToSeq(loops)) \in Nat
      BY <1>4
    <2> QED
      BY <2>1, <2>3, <2>4
  <1>6. /\ hostq' \in Seq(Module \cup {Broadcast})
        /\ ToSet(hostq') \subseteq ToSet(hostq) \cup loops
    <2> HIDE DEF loops
    <2> QED
      BY <1>1, <1>2, <1>5, ToSetConcat
  <1>8. ToSet(hostq') \subseteq Known \cup {Broadcast}
    BY <1>6, AsBefore DEF Known
  <1>9. misused' \subseteq misused \cup Unborn \cup forgotten /\ misused' \subseteq Module
    BY <1>1, <1>2, AsBefore
  <1>a. /\ queue' \in [Module -> BOOLEAN] /\ bundling' \subseteq Module
        /\ \A n \in Module : queue'[n] => n \in Alive /\ IsOutput(n)
    BY <1>1, <1>2, AsBefore
  <1>b. /\ stage' \in {"idle", "deliver", "lua"} /\ at' \in Module \cup {None} /\ StageInv'
        /\ running' \subseteq Alive /\ at' \in Known \cup {None} /\ Working
    BY <1>1, IdleStays
  <1> QED
    BY <1>1, <1>6, <1>8, <1>9, <1>a, <1>b, CycleKeeps

\* The script runs on in its responder, if that is where it runs.
LEMMA ScriptStays ==
    ASSUME ModulesInv, Script, UNCHANGED <<phase, stage, at, running, hostq>>
    PROVE  /\ stage' \in {"idle", "deliver", "lua"} /\ at' \in Module \cup {None} /\ StageInv'
           /\ running' \subseteq Alive /\ at' \in Known \cup {None} /\ Working
           /\ hostq' \in Seq(Module \cup {Broadcast}) /\ ToSet(hostq') \subseteq Known \cup {Broadcast}
  <1>1. Working
    BY ScriptNames
  <1>2. StageInv'
    BY DEF ModulesInv, StageInv
  <1> QED
    BY <1>1, <1>2, AsBefore

\* A call of an output by the script keeps the invariant, and so does clearing one.
LEMMA PutKeeps ==
    ASSUME ModulesInv, NEW m \in Module, Put(m) \/ ClearCall(m)
    PROVE  ModulesInv'
  <1>1. /\ Script /\ m \in Named /\ IsOutput(m)
        /\ UNCHANGED <<phase, status, made, responder, registry, dat, held, listed, children, hostq,
                       stage, at, running, misused, forgotten>>
    BY DEF Put, ClearCall, script, handling
  <1>2. m \in Alive
    BY <1>1, ScriptNames
  <1>3. /\ queue' = queue \/ queue' = [queue EXCEPT ![m] = TRUE] \/ queue' = [queue EXCEPT ![m] = FALSE]
        /\ bundling' = bundling \/ bundling' = bundling \cup {m} \/ bundling' = bundling \ {m}
    BY DEF Put, ClearCall, Clear
  <1>4. /\ queue' \in [Module -> BOOLEAN] /\ bundling' \subseteq Module /\ misused' \subseteq Module
        /\ \A n \in Module : queue'[n] => n \in Alive /\ IsOutput(n)
        /\ misused' \subseteq misused \cup Unborn \cup forgotten
    BY <1>1, <1>2, <1>3, AsBefore
  <1>5. /\ stage' \in {"idle", "deliver", "lua"} /\ at' \in Module \cup {None} /\ StageInv'
        /\ running' \subseteq Alive /\ at' \in Known \cup {None} /\ Working
        /\ hostq' \in Seq(Module \cup {Broadcast}) /\ ToSet(hostq') \subseteq Known \cup {Broadcast}
    BY <1>1, ScriptStays
  <1> QED
    BY <1>1, <1>4, <1>5, CycleKeeps

-----------------------------------------------------------------------------
(* The collector and the shutdown. *)

\* The end of a live module that nothing Lua knows of refers to, or that is
\* collected when nothing works any more.
LEMMA GcKeeps ==
    ASSUME ModulesInv, NEW m \in Alive, Gc(m),
           UNCHANGED <<phase, held, responder, bundling, hostq, stage, at, running, misused>>,
           Working => ~Reachable(m), phase # "exit", made' \in Seq(Module),
           ToSet(made) \subseteq ToSet(made') \cup {m}
    PROVE  ModulesInv'
  <1>1. m \in Module /\ status[m] = "alive"
    BY DEF Alive
  <1>2. /\ status' = [status EXCEPT ![m] = "dead"] /\ registry' = [registry EXCEPT ![m] = {}]
        /\ dat' = dat \ {m} /\ listed' = listed \ {m}
        /\ queue' = IF IsOutput(m) THEN [queue EXCEPT ![m] = FALSE] ELSE queue
        /\ children' = IF IsInput(m) THEN [children EXCEPT ![m] = << >>] ELSE children
        /\ forgotten' = IF Referred(m) THEN forgotten \cup {m} ELSE forgotten
    BY DEF Gc, Unlist, Clear
  <1>3. TypeInv
    BY DEF ModulesInv
  <1>4. /\ status'[m] = "dead" /\ \A n \in Module \ {m} : status'[n] = status[n]
        /\ registry'[m] = {} /\ \A n \in Module \ {m} : registry'[n] = registry[n]
    BY <1>1, <1>2, <1>3 DEF TypeInv
  <1>5. /\ \A n \in Module \ {m} : queue'[n] = queue[n] /\ children'[n] = children[n]
        /\ IsInput(m) => children'[m] = << >>
        /\ ~IsInput(m) => children' = children
        /\ IsOutput(m) => queue'[m] = FALSE
        /\ ~IsOutput(m) => queue' = queue
    BY <1>1, <1>2, <1>3 DEF TypeInv
  <1>6. Alive' = Alive \ {m} /\ Unborn' = Unborn /\ m \notin Unborn
    BY <1>1, <1>4 DEF Alive, Unborn
  <1>7. Working' = Working
    BY DEF Working
  <1>8. ToSet(<< >>) = {}
    BY DEF ToSet
  <1>9. \A n \in Module : ToSet(children'[n]) \subseteq ToSet(children[n])
    BY <1>5, <1>8
  <1>t. TypeInv'
    <2>1. registry' \in [Module -> SUBSET Module] /\ children' \in [Module -> Seq(Module)]
      <3>1. << >> \in Seq(Module)
        OBVIOUS
      <3> QED
        BY <1>2, <1>3, <3>1 DEF TypeInv
    <2>2. queue' \in [Module -> BOOLEAN]
      BY <1>2, <1>3 DEF TypeInv
    <2>3. status' \in [Module -> {"new", "alive", "failed", "late", "dead"}]
      BY <1>2, <1>3 DEF TypeInv
    <2> QED
      BY <1>2, <1>3, <2>1, <2>2, <2>3 DEF TypeInv
  <1>l. ListsHoldTheLiving'
    BY <1>2, <1>3, <1>4, <1>6 DEF ModulesInv, TypeInv, ListsHoldTheLiving
  <1>h. HeldInv'
    <2> SUFFICES ASSUME Working
                 PROVE  held \subseteq Alive \ {m} /\ running \subseteq Alive \ {m}
                        /\ \A n \in Module : registry'[n] \subseteq Alive \ {m}
      BY <1>6, <1>7 DEF HeldInv
    <2>1. m \notin held /\ m \notin running /\ \A n \in Module : m \notin registry[n]
      BY DEF Reachable, Named
    <2> QED
      BY <1>4, <2>1 DEF ModulesInv, HeldInv
  <1>s. StageInv'
    BY DEF ModulesInv, StageInv
  <1>g. TargetsInv'
    BY <1>4, <1>9 DEF ModulesInv, TargetsInv
  <1>f. FreshInv'
    BY <1>4, <1>5 DEF ModulesInv, FreshInv
  <1>o. OwnedInv'
    <2>1. Alive' \subseteq ToSet(made')
      BY <1>6 DEF ModulesInv, OwnedInv
    <2>2. dat' \subseteq Alive' \cup Unborn'
      BY <1>2, <1>6 DEF ModulesInv, OwnedInv
    <2>3. ASSUME NEW n \in Module, queue'[n] PROVE n \in Alive' /\ IsOutput(n)
      <3>1. CASE n = m
        BY <1>5, <2>3, <3>1 DEF ModulesInv, OwnedInv
      <3>2. CASE n # m
        BY <1>5, <1>6, <2>3, <3>2 DEF ModulesInv, OwnedInv
      <3> QED
        BY <3>1, <3>2
    <2>4. ASSUME NEW n \in Module, IsInput(n), status'[n] = "dead" PROVE children'[n] = << >>
      BY <1>4, <1>5, <2>4 DEF ModulesInv, OwnedInv
    <2> QED
      BY <2>1, <2>2, <2>3, <2>4 DEF OwnedInv
  <1>k. KnownInv'
    <2>1. forgotten \subseteq forgotten'
      BY <1>2
    <2>2. Known \ {m} \subseteq Known' /\ (Referred(m) => m \in Known')
      BY <1>2, <1>6, <2>1 DEF Known
    <2>3. misused' \subseteq Unborn' \cup forgotten'
      BY <1>6, <2>1 DEF ModulesInv, KnownInv
    <2>4. ASSUME NEW n \in Module PROVE ToSet(children'[n]) \subseteq Known'
      <3>1. m \in ToSet(children[n]) => Referred(m)
        BY DEF Referred
      <3> QED
        BY <1>9, <2>2, <3>1 DEF ModulesInv, KnownInv
    <2>5. ToSet(hostq) \subseteq Known' \cup {Broadcast}
      <3>1. m \in ToSet(hostq) => Referred(m)
        BY DEF Referred
      <3> QED
        BY <2>2, <3>1 DEF ModulesInv, KnownInv
    <2>6. at \in Known' \cup {None}
      <3>1. m = at => Referred(m)
        BY DEF Referred
      <3> QED
        BY <2>2, <3>1 DEF ModulesInv, KnownInv
    <2> QED
      BY <2>3, <2>4, <2>5, <2>6 DEF KnownInv
  <1> QED
    BY <1>t, <1>s, <1>l, <1>h, <1>g, <1>f, <1>o, <1>k DEF ModulesInv

\* The collection of a module keeps the invariant.
LEMMA CollectKeeps == ASSUME ModulesInv, NEW m \in Module, Collect(m) PROVE ModulesInv'
  <1>1. /\ m \in Alive /\ Gc(m) /\ ~Reachable(m) /\ Working
        /\ UNCHANGED <<phase, made, held, responder, bundling, hostq, stage, at, running, misused>>
    BY ScriptNames DEF Collect, handling, Cycle, Working
  <1>3. phase # "exit"
    BY <1>1 DEF Working
  <1>2. made' \in Seq(Module) /\ ToSet(made) \subseteq ToSet(made') \cup {m}
    BY <1>1 DEF ModulesInv, TypeInv
  <1> QED
    BY <1>1, <1>2, <1>3, GcKeeps

\* Deleting one module after another at the shutdown keeps the invariant.
LEMMA CloseModuleKeeps == ASSUME ModulesInv, CloseModule PROVE ModulesInv'
  <1>1. /\ phase = "close" /\ made # << >> /\ made' = Front(made) /\ ~Working
        /\ UNCHANGED <<phase, held, responder, bundling, hostq, stage, at, running, misused>>
    BY DEF CloseModule, Working, handling
  <1>2. /\ made' \in Seq(Module) /\ Last(made) \in Module
        /\ ToSet(made) \subseteq ToSet(made') \cup {Last(made)}
    BY <1>1, ToSetFront DEF ModulesInv, TypeInv
  <1>3. CASE Last(made) \in Alive
    <2>1. Gc(Last(made))
      BY <1>3 DEF CloseModule
    <2> QED
      BY <1>1, <1>2, <1>3, <2>1, GcKeeps
  <1>4. CASE Last(made) \notin Alive
    <2>1. UNCHANGED <<status, registry, listed, children, queue, dat, forgotten>>
      BY <1>4 DEF CloseModule
    <2>2. Alive' = Alive /\ Unborn' = Unborn /\ Known' = Known /\ ~Working'
      BY <1>1, <2>1 DEF Alive, Unborn, Known, Working
    <2>3. TypeInv' /\ StageInv'
      BY <1>1, <1>2, <2>1 DEF ModulesInv, TypeInv, StageInv
    <2>4. ListsHoldTheLiving' /\ HeldInv' /\ TargetsInv' /\ FreshInv' /\ KnownInv'
      BY <1>1, <2>1, <2>2
      DEF ModulesInv, ListsHoldTheLiving, HeldInv, TargetsInv, FreshInv, KnownInv
    <2>5. OwnedInv'
      BY <1>1, <1>2, <1>4, <2>1, <2>2 DEF ModulesInv, OwnedInv
    <2> QED
      BY <2>3, <2>4, <2>5 DEF ModulesInv
  <1> QED
    BY <1>3, <1>4

\* The end of loading, the start of closing and the exit.
LEMMA PhaseKeeps == ASSUME ModulesInv, Loaded \/ Close \/ Exit PROVE ModulesInv'
  <1>1. /\ UNCHANGED <<status, made, held, responder, registry, listed, children, queue, bundling, dat,
                       stage, at, running, misused, forgotten>>
        /\ phase' \in {"load", "run", "close", "exit"} /\ (Working' => Working)
    BY DEF Loaded, Close, Exit, Working, handling
  <1>2. hostq' = hostq \/ hostq' = << >>
    BY DEF Loaded, Close, Exit, DrainQueue
  <1>3. /\ phase' = "exit" => made' = << >> /\ hostq' = << >>
        /\ Working' => hostq' = hostq
    BY DEF Loaded, Close, Exit, DrainQueue, Working
  <1>4. Alive' = Alive /\ Unborn' = Unborn /\ Known' = Known
    BY <1>1 DEF Alive, Unborn, Known
  <1>i. stage = "idle"
    BY DEF Loaded, Close, Exit, ModulesInv, TypeInv, StageInv
  <1>s. StageInv'
    BY <1>1, <1>i DEF ModulesInv, StageInv
  <1>5. TypeInv'
    <2>1. << >> \in Seq(Module \cup {Broadcast})
      OBVIOUS
    <2>2. hostq' \in Seq(Module \cup {Broadcast})
      BY <1>2, <2>1 DEF ModulesInv, TypeInv
    <2> QED
      BY <1>1, <2>2 DEF ModulesInv, TypeInv
  <1>6. ListsHoldTheLiving' /\ HeldInv' /\ TargetsInv' /\ FreshInv'
    BY <1>1, <1>4 DEF ModulesInv, ListsHoldTheLiving, HeldInv, TargetsInv, FreshInv
  <1>7. OwnedInv'
    BY <1>1, <1>3, <1>4 DEF ModulesInv, OwnedInv
  <1>8. KnownInv'
    <2>1. ToSet(hostq') \subseteq ToSet(hostq)
      BY <1>2 DEF ToSet
    <2> QED
      BY <1>1, <1>4, <2>1 DEF ModulesInv, KnownInv
  <1> QED
    BY <1>5, <1>6, <1>7, <1>8, <1>s DEF ModulesInv

\* A stuttering step keeps the invariant.
LEMMA StutterKeeps == ASSUME ModulesInv, UNCHANGED vars PROVE ModulesInv'
  <1>1. UNCHANGED <<phase, status, made, held, responder, registry, listed, children, queue, bundling,
                    dat, hostq, stage, at, running, misused, forgotten>>
    BY DEF vars, script, handling
  <1>2. Alive' = Alive /\ Unborn' = Unborn /\ Known' = Known /\ Working' = Working
    BY <1>1 DEF Alive, Unborn, Known, Working
  <1>3. TypeInv' /\ StageInv'
    BY <1>1 DEF ModulesInv, TypeInv, StageInv
  <1>4. ListsHoldTheLiving' /\ HeldInv' /\ TargetsInv' /\ FreshInv' /\ OwnedInv' /\ KnownInv'
    BY <1>1, <1>2 DEF ModulesInv, ListsHoldTheLiving, HeldInv, TargetsInv, FreshInv, OwnedInv, KnownInv
  <1> QED
    BY <1>3, <1>4 DEF ModulesInv

\* Every step of the script, of the cycle, of the collector and of the shutdown keeps the invariant.
LEMMA NextKeeps == ModulesInv /\ [Next]_vars => ModulesInv'
  <1> SUFFICES ASSUME ModulesInv, [Next]_vars PROVE ModulesInv'
    OBVIOUS
  <1>1. ASSUME NEW m \in Module, Plugin(m) PROVE ModulesInv'
    BY <1>1, PluginKeeps
  <1>2. ASSUME NEW m \in Module, PluginFails(m) \/ PluginFailsLate(m) PROVE ModulesInv'
    BY <1>2, PluginFailsKeeps
  <1>3. ASSUME NEW m \in Module, Drop(m) PROVE ModulesInv'
    BY <1>3, DropKeeps
  <1>4. ASSUME NEW m \in Module, Collect(m) PROVE ModulesInv'
    BY <1>4, CollectKeeps
  <1>5. ASSUME NEW m \in Module, Put(m) \/ ClearCall(m) PROVE ModulesInv'
    BY <1>5, PutKeeps
  <1>6. ASSUME NEW m \in Module, NEW t \in Module, Chain(m, t) PROVE ModulesInv'
    BY <1>6, ChainKeeps
  <1>7. CASE ProcessIn
    BY <1>7, ProcessInKeeps
  <1>8. CASE UplinkIn
    BY <1>8, UplinkInKeeps
  <1>9. CASE Take
    BY <1>9, TakeKeeps
  <1>e. CASE Deliver
    BY <1>e, DeliverKeeps
  <1>f. CASE Return
    BY <1>f, ReturnKeeps
  <1>a. CASE ProcessOut
    BY <1>a, ProcessOutKeeps
  <1>b. CASE CloseModule
    BY <1>b, CloseModuleKeeps
  <1>c. CASE Loaded \/ Close \/ Exit
    BY <1>c, PhaseKeeps
  <1>d. CASE UNCHANGED vars
    BY <1>d, StutterKeeps
  <1> QED
    BY <1>1, <1>2, <1>3, <1>4, <1>5, <1>6, <1>7, <1>8, <1>9, <1>a, <1>b, <1>c, <1>d, <1>e, <1>f DEF Next

-----------------------------------------------------------------------------
(* The theorems. *)

\* In every behaviour, whatever the script, the collector and the failures of
\* add do, the lists, references and possessions of the modules are in order.
THEOREM ModulesInvariant == Spec => []ModulesInv
  BY InitModules, NextKeeps, PTL DEF Spec

\* What _process walks is alive: host->modules and host->uplinks hold each
\* live module, and beside them only a net module whose thread failed.
THEOREM ListsAreAlive == Spec => []ListsHoldTheLiving
  <1>1. ModulesInv => ListsHoldTheLiving
    BY DEF ModulesInv
  <1> QED
    BY <1>1, ModulesInvariant, PTL

\* A responder function never calls a module that the collector has deleted,
\* because Lua's registry keeps the function and the function its outputs.
THEOREM RespondersAreSafe == Spec => []RespondersHaveTargets
  <1>1. ModulesInv => RespondersHaveTargets
    BY DEF ModulesInv, HeldInv, RespondersHaveTargets, Working, Alive
  <1> QED
    BY <1>1, ModulesInvariant, PTL

\* Whatever the script drops and whenever the collector runs, _process reads and
\* writes a deleted module only if it was chained to, the source of a waiting event
\* or where the walk over the uplinks stood, when it was deleted.
THEOREM OnlyReferencesMislead == Spec => []OnlyForgottenMisused
  <1>1. ModulesInv => OnlyForgottenMisused
    BY DEF ModulesInv, KnownInv, OnlyForgottenMisused
  <1> QED
    BY <1>1, ModulesInvariant, PTL

\* At the exit all data, queues and the child entries of inputs are given back.
THEOREM ShutdownIsComplete == Spec => []ShutdownGivesBack
  <1>1. ASSUME ModulesInv, phase = "exit"
        PROVE  /\ hostq = << >> /\ dat \subseteq Unborn
               /\ \A m \in Module : ~queue[m] /\ (IsInput(m) /\ status[m] = "dead" => children[m] = << >>)
    <2>1. made = << >> /\ hostq = << >>
      BY <1>1 DEF ModulesInv, OwnedInv
    <2>2. ToSet(made) = {}
      BY <2>1 DEF ToSet
    <2>3. Alive = {}
      BY <1>1, <2>2 DEF ModulesInv, OwnedInv
    <2> QED
      BY <1>1, <2>1, <2>3 DEF ModulesInv, OwnedInv
  <1>2. ModulesInv => ShutdownGivesBack
    BY <1>1 DEF ShutdownGivesBack
  <1> QED
    BY <1>2, ModulesInvariant, PTL
-----------------------------------------------------------------------------
(* Bundles: the text in the buffer. *)

HIDE KindAssumption DEF KindAssumption

Token == {Header, Stale} \cup {Slot(n) : n \in Nat} \cup {Message(m) : m \in Msg}

\* A bundle with these items, and one in which another one begins.
Whole(a) == <<Header>> \o a
Inner(a) == Append(Append(Whole(a), Slot(0)), Header)

\* What the calls write are tokens.
LEMMA Tokens ==
    /\ Header \in Token /\ Stale \in Token /\ \A n \in Nat : Slot(n) \in Token
    /\ \A m \in Msg : Message(m) \in Token
BY DEF Token

\* How long bundles are.
LEMMA BundleLengths ==
    ASSUME NEW a \in Seq(Token)
    PROVE  /\ Whole(a) \in Seq(Token) /\ Len(Whole(a)) = Len(a) + 1 /\ Len(a) \in Nat
           /\ Inner(a) \in Seq(Token) /\ Len(Inner(a)) = Len(a) + 3
           /\ Inner(a) # << >> /\ Whole(a) # << >>
<1>1. Header \in Token /\ Slot(0) \in Token
  BY Tokens
<1> HIDE DEF Header, Slot, Token
<1>2. Whole(a) \in Seq(Token) /\ Len(Whole(a)) = Len(a) + 1 /\ Len(a) \in Nat
  BY <1>1 DEF Whole
<1>3. Append(Whole(a), Slot(0)) \in Seq(Token) /\ Len(Append(Whole(a), Slot(0))) = Len(a) + 2
  <2> HIDE DEF Whole
  <2> QED  BY <1>1, <1>2
<1>4. Inner(a) \in Seq(Token) /\ Len(Inner(a)) = Len(a) + 3
  <2> HIDE DEF Whole
  <2> QED  BY <1>1, <1>3 DEF Inner
<1> QED  BY <1>2, <1>4

\* What is written first stays what it is.
LEMMA FrontOfAppend ==
    ASSUME NEW s \in Seq(Token), NEW x \in Token
    PROVE  SubSeq(Append(s, x), 1, Len(s)) = s
OBVIOUS

\* All of a text is the text.
LEMMA AllOfText ==
    ASSUME NEW s \in Seq(Token)
    PROVE  SubSeq(s, 1, Len(s)) = s
OBVIOUS

\* One element replaced, or none.
LEMMA OneReplaced ==
    ASSUME NEW S, NEW s \in Seq(S), NEW n \in Int, NEW x \in S
    PROVE  [s EXCEPT ![n] = x] \in Seq(S)
<1> DEFINE t == [s EXCEPT ![n] = x]
<1>1. /\ Len(s) \in Nat /\ DOMAIN s = 1 .. Len(s) /\ DOMAIN t = DOMAIN s
      /\ \A i \in 1 .. Len(s) : s[i] \in S
  BY LenProperties, ElementOfSeq
<1>2. t = [i \in 1 .. Len(s) |-> IF i = n THEN x ELSE s[i]]
  BY <1>1
<1>3. \A i \in 1 .. Len(s) : (IF i = n THEN x ELSE s[i]) \in S
  BY <1>1
<1>4. t \in [1 .. Len(s) -> S]
  BY <1>2, <1>3
<1> HIDE DEF t
<1>5. t \in Seq(S)
  BY <1>1, <1>4
<1> QED  BY <1>5 DEF t

\* A text that is cut within its length.
LEMMA CutIsFront ==
    ASSUME NEW s \in Seq(Token), NEW n \in 0 .. Len(s)
    PROVE  Cut(s, n) = SubSeq(s, 1, n)
<1> HIDE DEF Token
<1>1. \A i \in 1 .. n : i <= Len(s)
  OBVIOUS
<1>2. SubSeq(s, 1, n) = [i \in 1 .. n |-> s[i]]
  OBVIOUS
<1> QED  BY <1>1, <1>2 DEF Cut

\* Whatever the end of an item or of a bundle takes for its beginning, it leaves a
\* text.
LEMMA EndsType ==
    ASSUME NEW s \in Seq(Token), NEW n \in Int
    PROVE  EndItem(s, n) \in Seq(Token) /\ EndBundle(s, n) \in Seq(Token)
<1>1. \A k \in Int : Cut(s, k) \in Seq(Token)
  <2> TAKE k \in Int
  <2>1. Stale \in Token
    BY Tokens
  <2> HIDE DEF Token, Stale
  <2>2. CASE k \in Nat
    <3>1. \A i \in 1 .. k : (IF i <= Len(s) THEN s[i] ELSE Stale) \in Token
      BY <2>1, <2>2
    <3>2. Cut(s, k) \in [1 .. k -> Token]
      BY <3>1 DEF Cut
    <3> QED  BY <2>2, <3>2
  <2>3. CASE k \notin Nat
    <3>1. 1 .. k = {}
      BY <2>3
    <3>2. Cut(s, k) = << >>
      BY <3>1 DEF Cut
    <3> QED  BY <3>2
  <2> QED  BY <2>2, <2>3
<1>2. Len(s) > n => Len(s) - n \in Nat
  <2> HIDE DEF Token
  <2> QED  OBVIOUS
<1>3. ASSUME Len(s) > n PROVE [s EXCEPT ![n] = Slot(Len(s) - n)] \in Seq(Token)
  <2> DEFINE x == Slot(Len(s) - n)
  <2>1. x \in Token
    BY <1>2, <1>3, Tokens
  <2> HIDE DEF x, Token
  <2>2. [s EXCEPT ![n] = x] \in Seq(Token)
    BY <2>1, OneReplaced
  <2> QED  BY <2>2 DEF x
<1>4. n - 1 \in Int
  OBVIOUS
<1> HIDE DEF Token
<1> QED  BY <1>1, <1>3, <1>4 DEF EndItem, EndBundle

\* One text behind the other.
LEMMA Joined ==
    ASSUME NEW s \in Seq(Token), NEW t \in Seq(Token)
    PROVE  /\ s \o t \in Seq(Token) /\ Len(s \o t) = Len(s) + Len(t)
           /\ \A i \in 1 .. Len(s) : (s \o t)[i] = s[i]
           /\ \A i \in 1 .. Len(t) : (s \o t)[Len(s) + i] = t[i]
<1> HIDE DEF Token
<1> QED  OBVIOUS

\* A header in front of a text.
LEMMA Headed ==
    ASSUME NEW s \in Seq(Token)
    PROVE  /\ <<Header>> \o s \in Seq(Token) /\ Len(<<Header>> \o s) = Len(s) + 1
           /\ (<<Header>> \o s)[1] = Header
           /\ \A i \in 1 .. Len(s) : (<<Header>> \o s)[i + 1] = s[i]
<1>1. Header \in Token
  BY Tokens
<1> HIDE DEF Token, Header
<1> QED  BY <1>1

\* A message as an item: the slot in front of it gets its length.
LEMMA ItemWritten ==
    ASSUME NEW s \in Seq(Token), NEW x \in Token
    PROVE  /\ EndItem(Append(Append(s, Slot(0)), x), Len(Append(s, Slot(0)))) = s \o <<Slot(1), x>>
           /\ s \o <<Slot(1), x>> \in Seq(Token)
<1>1. Slot(0) \in Token /\ Slot(1) \in Token
  BY Tokens
<1> DEFINE u == Append(Append(s, Slot(0)), x)
           n == Len(s) + 1
<1>2. /\ Len(Append(s, Slot(0))) = n /\ Len(u) = n + 1 /\ u \in Seq(Token) /\ n \in 1 .. Len(u)
      /\ Len(s) \in Nat /\ u[n + 1] = x /\ \A i \in 1 .. Len(s) : u[i] = s[i]
  <2> HIDE DEF Token, Slot
  <2> QED  BY <1>1
<1> HIDE DEF u
<1>3. EndItem(u, n) = [u EXCEPT ![n] = Slot(1)]
  <2>1. Len(u) > n /\ Len(u) - n = 1
    BY <1>2
  <2> QED  BY <2>1 DEF EndItem
<1> DEFINE v == [u EXCEPT ![n] = Slot(1)]
           w == s \o <<Slot(1), x>>
<1>4. v \in Seq(Token) /\ Len(v) = n + 1 /\ v[n] = Slot(1) /\ v[n + 1] = x
      /\ \A i \in 1 .. Len(s) : v[i] = s[i]
  <2> HIDE DEF Token, Slot
  <2> QED  BY <1>1, <1>2
<1>5. w \in Seq(Token) /\ Len(w) = n + 1 /\ w[n] = Slot(1) /\ w[n + 1] = x
      /\ \A i \in 1 .. Len(s) : w[i] = s[i]
  <2> HIDE DEF Token, Slot
  <2> QED  BY <1>1, <1>2
<1>6. v = w
  <2> HIDE DEF v, w, Token, Slot, n
  <2>1. ASSUME NEW i \in 1 .. n + 1 PROVE v[i] = w[i]
    <3>1. i \in 1 .. Len(s) \/ i = n \/ i = n + 1
      BY <1>2 DEF n
    <3> QED  BY <1>4, <1>5, <3>1
  <2>2. n \in Nat
    BY <1>2 DEF n
  <2> QED  BY <1>4, <1>5, <2>1, <2>2, SeqEqual
<1> QED  BY <1>2, <1>3, <1>5, <1>6 DEF u

\* Sequences of one and of two elements.
LEMMA ShortSequences ==
    ASSUME NEW x, NEW y
    PROVE  /\ Len(<<x>>) = 1 /\ Head(<<x>>) = x /\ Tail(<<x>>) = << >>
           /\ Len(<<x, y>>) = 2 /\ Head(<<x, y>>) = x /\ Tail(<<x, y>>) = <<y>>
           /\ <<x>> \o <<y>> = <<x, y>> /\ <<x>> \o << >> = <<x>>
           /\ [<<x>> EXCEPT ![1] = y] = <<y>>
           /\ [<<x, y>> EXCEPT ![1] = x] = <<x, y>>
           /\ <<x>>[1] = x /\ <<x, y>>[1] = x
<1>1. Head(<<x>>) = x /\ Head(<<x, y>>) = x /\ <<x>>[1] = x /\ <<x, y>>[1] = x
  OBVIOUS
<1>2. Tail(<<x>>) = << >>
  OBVIOUS
<1>3. Tail(<<x, y>>) = <<y>>
  OBVIOUS
<1>4. <<x>> \o <<y>> = <<x, y>>
  <2> DEFINE s == <<x>>
             t == <<y>>
             u == s \o t
             v == <<x, y>>
  <2>1. /\ s \in Seq({x, y}) /\ t \in Seq({x, y}) /\ Len(s) = 1 /\ Len(t) = 1
        /\ s[1] = x /\ t[1] = y
    OBVIOUS
  <2>2. v \in Seq({x, y}) /\ Len(v) = 2 /\ v[1] = x /\ v[2] = y
    OBVIOUS
  <2> HIDE DEF s, t, v
  <2>3. u \in Seq({x, y}) /\ Len(u) = 2 /\ u[1] = s[1] /\ u[2] = t[1]
    <3> DEFINE S == {x, y}
    <3>1. s \in Seq(S) /\ t \in Seq(S)
      BY <2>1
    <3> HIDE DEF S
    <3>2. /\ u \in Seq(S) /\ Len(u) = Len(s) + Len(t)
          /\ \A i \in 1 .. Len(s) + Len(t) : u[i] = IF i <= Len(s) THEN s[i] ELSE t[i - Len(s)]
      BY <3>1, ConcatProperties
    <3>3. 1 \in 1 .. Len(s) + Len(t) /\ 2 \in 1 .. Len(s) + Len(t) /\ ~(2 <= Len(s)) /\ 2 - Len(s) = 1
      BY <2>1
    <3> HIDE DEF u
    <3> QED  BY <2>1, <3>2, <3>3 DEF S
  <2> HIDE DEF u
  <2>4. \A i \in 1 .. 2 : u[i] = v[i]
    <3> HIDE DEF u
    <3> QED  BY <2>1, <2>2, <2>3
  <2>5. u = v
    BY <2>2, <2>3, <2>4, SeqEqual
  <2> QED  BY <2>5 DEF s, t, u, v
<1>5. <<x>> \o << >> = <<x>>
  OBVIOUS
<1>6. [<<x>> EXCEPT ![1] = y] = <<y>>
  OBVIOUS
<1>7. [<<x, y>> EXCEPT ![1] = x] = <<x, y>>
  OBVIOUS
<1> QED  BY <1>1, <1>2, <1>3, <1>4, <1>5, <1>6, <1>7

\* Sequences of numbers, of one and of two elements.
LEMMA ShortNumbers ==
    ASSUME NEW x \in Int, NEW y \in Int
    PROVE  << >> \in Seq(Int) /\ <<x>> \in Seq(Int) /\ <<x, y>> \in Seq(Int)
OBVIOUS

\* One number in front of one.
LEMMA NumberInFront ==
    ASSUME NEW x \in Int, NEW s \in Seq(Int), Len(s) = 1
    PROVE  <<x>> \o s \in Seq(Int) /\ Len(<<x>> \o s) = 2
OBVIOUS

\* One bundle more, and the last one less.
LEMMA OneMore ==
    ASSUME NEW s \in Seq(Int), NEW n
    PROVE  Len(<<n>> \o s) = Len(s) + 1 /\ Len(s) \in Nat
<1> DEFINE S == Int \cup {n}
<1>1. s \in Seq(S) /\ <<n>> \in Seq(S) /\ Len(<<n>>) = 1
  OBVIOUS
<1> HIDE DEF S
<1> QED  BY <1>1

LEMMA TailOfOne ==
    ASSUME NEW s \in Seq(Int), Len(s) = 1
    PROVE  Tail(s) = << >>
<1>1. s # << >>
  BY EmptySeq
<1>2. Tail(s) \in Seq(Int) /\ Len(Tail(s)) = Len(s) - 1
  BY <1>1, HeadTailProperties
<1>3. Tail(s) # << >> => Len(Tail(s)) # 0
  BY <1>2, EmptySeq
<1>4. Len(Tail(s)) = 0
  BY <1>2
<1> QED  BY <1>3, <1>4

\* The type of a concatenation.
LEMMA ConcatType ==
    ASSUME NEW S, NEW s \in Seq(S), NEW t \in Seq(S)
    PROVE  s \o t \in Seq(S)
OBVIOUS

\* Three sequences in a row.
LEMMA Regrouped ==
    ASSUME NEW S, NEW s \in Seq(S), NEW t \in Seq(S), NEW u \in Seq(S)
    PROVE  (s \o t) \o u = s \o (t \o u)
BY ConcatAssociative

\* More content in a bundle.
LEMMA Grown ==
    ASSUME NEW a \in Seq(Token), NEW b \in Seq(Token), NEW t \in Seq(Token)
    PROVE  /\ Whole(a) \o t = Whole(a \o t) /\ a \o t \in Seq(Token)
           /\ (Inner(a) \o b) \o t = Inner(a) \o (b \o t) /\ b \o t \in Seq(Token)
           /\ Inner(a) \o b \in Seq(Token) /\ Inner(a) \o << >> = Inner(a)
<1> DEFINE h == <<Header>>
           u == Inner(a)
           S == Token
<1>1. /\ h \in Seq(S) /\ u \in Seq(S) /\ a \in Seq(S) /\ b \in Seq(S) /\ t \in Seq(S)
  BY Tokens, BundleLengths
<1> HIDE DEF h, u, S
<1>2. (h \o a) \o t = h \o (a \o t)
  <2>1. h \in Seq(S) /\ a \in Seq(S) /\ t \in Seq(S)
    BY <1>1
  <2> QED  BY <2>1, Regrouped
<1>3. (u \o b) \o t = u \o (b \o t)
  <2>1. u \in Seq(S) /\ b \in Seq(S) /\ t \in Seq(S)
    BY <1>1
  <2> QED  BY <2>1, Regrouped
<1>4. a \o t \in Seq(S)
  BY <1>1, ConcatType
<1>5. b \o t \in Seq(S)
  BY <1>1, ConcatType
<1>6. u \o b \in Seq(S)
  BY <1>1, ConcatType
<1>7. u \o << >> = u
  BY <1>1, ConcatEmptySeq
<1>8. Whole(a) = h \o a /\ Whole(a \o t) = h \o (a \o t)
  BY DEF Whole, h
<1> QED  BY <1>2, <1>3, <1>4, <1>5, <1>6, <1>7, <1>8 DEF u, S

\* The end of an outermost bundle: one without content vanishes.
LEMMA OutermostEnded ==
    ASSUME NEW a \in Seq(Token)
    PROVE  EndBundle(Whole(a), 1) = IF a = << >> THEN << >> ELSE Whole(a)
<1>1. Len(Whole(a)) = Len(a) + 1 /\ Whole(a) \in Seq(Token) /\ (a = << >> <=> Len(a) = 0) /\ Len(a) \in Nat
  BY BundleLengths
<1>2. SubSeq(Whole(a), 1, 0) = << >>
  <2> HIDE DEF Whole, Token
  <2> QED  BY <1>1
<1>3. CASE a = << >>
  <2>1. EndBundle(Whole(a), 1) = Cut(Whole(a), 0)
    BY <1>1, <1>3 DEF EndBundle
  <2>2. 0 \in 0 .. Len(Whole(a))
    BY <1>1
  <2> QED  BY <1>1, <1>2, <1>3, <2>1, <2>2, CutIsFront
<1>4. CASE a # << >>
  <2>1. Len(Whole(a)) > 1
    BY <1>1, <1>4
  <2> QED  BY <1>4, <2>1 DEF EndBundle
<1> QED  BY <1>3, <1>4

\* The end of an inner bundle without content: its header and its slot vanish.
LEMMA InnerEmptyEnded ==
    ASSUME NEW a \in Seq(Token)
    PROVE  EndItem(EndBundle(Inner(a), Len(a) + 3), Len(a) + 2) = Whole(a)
<1> DEFINE u == Append(Whole(a), Slot(0))
<1>1. Slot(0) \in Token /\ Header \in Token
  BY Tokens
<1>2. Len(Inner(a)) = Len(a) + 3 /\ Len(a) \in Nat /\ Whole(a) \in Seq(Token) /\ Len(Whole(a)) = Len(a) + 1
  BY BundleLengths
<1>3. u \in Seq(Token) /\ Len(u) = Len(a) + 2
  <2> HIDE DEF Whole, Token, Slot
  <2> QED  BY <1>1, <1>2
<1>4. EndBundle(Inner(a), Len(a) + 3) = u
  <2>1. SubSeq(Append(u, Header), 1, Len(u)) = u
    <3> HIDE DEF u
    <3> QED  BY <1>1, <1>3, FrontOfAppend
  <2>2. EndBundle(Inner(a), Len(a) + 3) = SubSeq(Inner(a), 1, Len(a) + 2)
    <3>1. EndBundle(Inner(a), Len(a) + 3) = Cut(Inner(a), Len(a) + 2)
      BY <1>2 DEF EndBundle
    <3>2. Len(a) + 2 \in 0 .. Len(Inner(a)) /\ Inner(a) \in Seq(Token)
      BY <1>2, BundleLengths
    <3> QED  BY <3>1, <3>2, CutIsFront
  <2> QED  BY <1>3, <2>1, <2>2 DEF Inner
<1>5. EndItem(u, Len(a) + 2) = SubSeq(u, 1, Len(a) + 1)
  <2>1. EndItem(u, Len(a) + 2) = Cut(u, Len(a) + 1)
    BY <1>2, <1>3 DEF EndItem
  <2>2. Len(a) + 1 \in 0 .. Len(u)
    BY <1>2, <1>3
  <2> QED  BY <1>3, <2>1, <2>2, CutIsFront
<1>6. SubSeq(Append(Whole(a), Slot(0)), 1, Len(Whole(a))) = Whole(a)
  BY <1>1, <1>2, FrontOfAppend
<1> QED  BY <1>2, <1>4, <1>5, <1>6

\* The end of an inner bundle with content: its slot gets its length, and it is an
\* item of the outer one.
LEMMA InnerEnded ==
    ASSUME NEW a \in Seq(Token), NEW b \in Seq(Token), b # << >>
    PROVE  /\ EndBundle(Inner(a) \o b, Len(a) + 3) = Inner(a) \o b
           /\ EndItem(Inner(a) \o b, Len(a) + 2)
                 = Whole(a \o <<Slot(Len(Whole(b)))>> \o Whole(b))
           /\ a \o <<Slot(Len(Whole(b)))>> \o Whole(b) \in Seq(Token)
<1> DEFINE u == Inner(a) \o b
           n == Len(a) + 2
           sl == Slot(Len(Whole(b)))
           c == a \o <<sl>>
           v == [u EXCEPT ![n] = sl]
           w == <<Header>> \o (c \o (<<Header>> \o b))
<1>1. /\ Len(a) \in Nat /\ Len(b) \in Nat \ {0} /\ Len(Whole(b)) = Len(b) + 1
      /\ Inner(a) \in Seq(Token) /\ Len(Inner(a)) = Len(a) + 3
      /\ Header \in Token /\ Slot(0) \in Token /\ sl \in Token
  BY BundleLengths, Tokens
<1> HIDE DEF sl, Header, Token
<1>2. u \in Seq(Token) /\ Len(u) = Len(a) + 3 + Len(b)
  <2> HIDE DEF Inner
  <2> QED  BY <1>1
<1>3. EndBundle(u, Len(a) + 3) = u
  <2> HIDE DEF u
  <2> QED  BY <1>1, <1>2 DEF EndBundle
<1>4. EndItem(u, n) = v
  <2>1. Len(u) > n /\ Len(u) - n = Len(Whole(b))
    BY <1>1, <1>2
  <2> HIDE DEF u, n
  <2> QED  BY <2>1 DEF EndItem, sl
<1>5. /\ \A i \in 1 .. Len(a) : u[i + 1] = a[i]
      /\ u[1] = Header /\ u[Len(a) + 3] = Header
      /\ \A i \in 1 .. Len(b) : u[Len(a) + 3 + i] = b[i]
  <2> DEFINE x == Whole(a)
             y == Append(x, Slot(0))
             z == Append(y, Header)
  <2>1. x \in Seq(Token) /\ Len(x) = Len(a) + 1 /\ x[1] = Header /\ \A i \in 1 .. Len(a) : x[i + 1] = a[i]
    BY <1>1 DEF Whole
  <2> HIDE DEF x
  <2>2. y \in Seq(Token) /\ Len(y) = Len(a) + 2 /\ \A i \in 1 .. Len(a) + 1 : y[i] = x[i]
    <3> HIDE DEF Slot
    <3> QED  BY <1>1, <2>1
  <2> HIDE DEF y
  <2>3. /\ z \in Seq(Token) /\ Len(z) = Len(a) + 3 /\ z[Len(a) + 3] = Header
        /\ \A i \in 1 .. Len(a) + 2 : z[i] = y[i]
    BY <1>1, <2>2
  <2> HIDE DEF z
  <2>4. /\ \A i \in 1 .. Len(a) + 3 : (z \o b)[i] = z[i]
        /\ \A i \in 1 .. Len(b) : (z \o b)[Len(a) + 3 + i] = b[i]
    BY <1>1, <2>3
  <2>5. u = z \o b
    BY DEF x, y, z, Inner
  <2>6. \A i \in 1 .. Len(a) : i + 1 \in 1 .. Len(a) + 1 /\ i + 1 \in 1 .. Len(a) + 2 /\ i + 1 \in 1 .. Len(a) + 3
    BY <1>1
  <2>7. 1 \in 1 .. Len(a) + 1 /\ 1 \in 1 .. Len(a) + 2 /\ 1 \in 1 .. Len(a) + 3 /\ Len(a) + 3 \in 1 .. Len(a) + 3
    BY <1>1
  <2> HIDE DEF u
  <2> QED  BY <2>1, <2>2, <2>3, <2>4, <2>5, <2>6, <2>7
<1>6. /\ v \in Seq(Token) /\ Len(v) = Len(a) + 3 + Len(b)
      /\ v[n] = sl /\ \A i \in 1 .. Len(v) : i # n => v[i] = u[i]
  <2> HIDE DEF u
  <2> QED  BY <1>1, <1>2
<1>7. /\ w \in Seq(Token) /\ Len(w) = Len(a) + 3 + Len(b)
      /\ w[n] = sl /\ w[1] = Header /\ w[Len(a) + 3] = Header
      /\ \A i \in 1 .. Len(a) : w[i + 1] = a[i]
      /\ \A i \in 1 .. Len(b) : w[Len(a) + 3 + i] = b[i]
  <2> DEFINE d == <<Header>> \o b
             e == c \o d
  <2>1. d \in Seq(Token) /\ Len(d) = Len(b) + 1 /\ d[1] = Header /\ \A i \in 1 .. Len(b) : d[i + 1] = b[i]
    BY <1>1
  <2>2. c \in Seq(Token) /\ Len(c) = Len(a) + 1 /\ c[Len(a) + 1] = sl /\ \A i \in 1 .. Len(a) : c[i] = a[i]
    BY <1>1
  <2> HIDE DEF d, c
  <2>3. /\ e \in Seq(Token) /\ Len(e) = Len(a) + Len(b) + 2
        /\ \A i \in 1 .. Len(a) + 1 : e[i] = c[i]
        /\ \A i \in 1 .. Len(b) + 1 : e[Len(a) + 1 + i] = d[i]
    <3>1. /\ e \in Seq(Token) /\ Len(e) = Len(c) + Len(d)
          /\ \A i \in 1 .. Len(c) : e[i] = c[i]
          /\ \A i \in 1 .. Len(d) : e[Len(c) + i] = d[i]
      BY <2>1, <2>2, Joined
    <3> HIDE DEF e
    <3> QED  BY <1>1, <2>1, <2>2, <3>1
  <2> HIDE DEF e
  <2>4. /\ <<Header>> \o e \in Seq(Token) /\ Len(<<Header>> \o e) = Len(a) + 3 + Len(b)
        /\ (<<Header>> \o e)[1] = Header /\ \A i \in 1 .. Len(e) : (<<Header>> \o e)[i + 1] = e[i]
    <3>1. /\ <<Header>> \o e \in Seq(Token) /\ Len(<<Header>> \o e) = Len(e) + 1
          /\ (<<Header>> \o e)[1] = Header
          /\ \A i \in 1 .. Len(e) : (<<Header>> \o e)[i + 1] = e[i]
      BY <2>3, Headed
    <3> QED  BY <1>1, <2>3, <3>1
  <2>5. w = <<Header>> \o e
    BY DEF d, e
  <2> HIDE DEF w
  <2>6. w[n] = sl
    <3>1. Len(a) + 1 \in 1 .. Len(e) /\ Len(a) + 1 \in 1 .. Len(a) + 1 /\ n = (Len(a) + 1) + 1
      BY <1>1, <2>3
    <3> QED  BY <2>2, <2>3, <2>4, <2>5, <3>1
  <2>7. w[Len(a) + 3] = Header
    <3>1. Len(a) + 2 \in 1 .. Len(e) /\ 1 \in 1 .. Len(b) + 1 /\ Len(a) + 3 = (Len(a) + 2) + 1
          /\ Len(a) + 2 = Len(a) + 1 + 1
      BY <1>1, <2>3
    <3>2. w[Len(a) + 3] = e[Len(a) + 2] /\ e[Len(a) + 1 + 1] = d[1]
      BY <2>3, <2>4, <2>5, <3>1
    <3> QED  BY <2>1, <3>1, <3>2
  <2>8. ASSUME NEW i \in 1 .. Len(a) PROVE w[i + 1] = a[i]
    <3>1. i \in 1 .. Len(e) /\ i \in 1 .. Len(a) + 1
      BY <1>1, <2>3
    <3> QED  BY <2>2, <2>3, <2>4, <2>5, <3>1
  <2>9. ASSUME NEW i \in 1 .. Len(b) PROVE w[Len(a) + 3 + i] = b[i]
    <3>1. /\ Len(a) + 2 + i \in 1 .. Len(e) /\ i + 1 \in 1 .. Len(b) + 1
          /\ Len(a) + 3 + i = (Len(a) + 2 + i) + 1 /\ Len(a) + 2 + i = Len(a) + 1 + (i + 1)
      BY <1>1, <2>3
    <3>2. w[Len(a) + 3 + i] = e[Len(a) + 2 + i] /\ e[Len(a) + 1 + (i + 1)] = d[i + 1]
      BY <2>3, <2>4, <2>5, <3>1
    <3> QED  BY <2>1, <3>1, <3>2
  <2> QED  BY <2>4, <2>5, <2>6, <2>7, <2>8, <2>9
<1> HIDE DEF v, w, u
<1>8. ASSUME NEW i \in 1 .. Len(v) PROVE v[i] = w[i]
  <2>1. \/ i = 1 \/ i = n \/ i = Len(a) + 3
        \/ i - 1 \in 1 .. Len(a) /\ i = (i - 1) + 1 /\ i # n
        \/ i - (Len(a) + 3) \in 1 .. Len(b) /\ i = Len(a) + 3 + (i - (Len(a) + 3)) /\ i # n
    BY <1>1, <1>6
  <2>2. CASE i = 1 \/ i = n \/ i = Len(a) + 3
    <3>1. 1 # n /\ Len(a) + 3 # n
      BY <1>1
    <3> HIDE DEF n
    <3> QED  BY <1>5, <1>6, <1>7, <2>2, <3>1
  <2>3. CASE i - 1 \in 1 .. Len(a) /\ i = (i - 1) + 1 /\ i # n
    <3> HIDE DEF n
    <3>1. u[(i - 1) + 1] = a[i - 1] /\ w[(i - 1) + 1] = a[i - 1]
      BY <1>5, <1>7, <2>3
    <3> QED  BY <1>6, <2>3, <3>1
  <2>4. CASE i - (Len(a) + 3) \in 1 .. Len(b) /\ i = Len(a) + 3 + (i - (Len(a) + 3)) /\ i # n
    <3> HIDE DEF n
    <3>1. /\ u[Len(a) + 3 + (i - (Len(a) + 3))] = b[i - (Len(a) + 3)]
          /\ w[Len(a) + 3 + (i - (Len(a) + 3))] = b[i - (Len(a) + 3)]
      BY <1>5, <1>7, <2>4
    <3> QED  BY <1>6, <2>4, <3>1
  <2> QED  BY <2>1, <2>2, <2>3, <2>4
<1>9. v = w
  BY <1>6, <1>7, <1>8, SeqEqual
<1>10. c \o Whole(b) \in Seq(Token)
  <2>1. c \in Seq(Token) /\ Whole(b) \in Seq(Token)
    BY <1>1, BundleLengths
  <2> HIDE DEF c, Whole
  <2> QED  BY <2>1
<1> QED  BY <1>3, <1>4, <1>9, <1>10 DEF u, w, sl, Whole

-----------------------------------------------------------------------------
(* Bundles: the invariant. *)

\* No bundle is open, or one with the items a, or one with the items b in one with
\* the items a; unless something did not fit, the buffer holds just that.  Or a
\* third level has been begun, of which nothing is said.
NoneOpen == bndls = << >> /\ open = << >>
OneOpen(a) ==
    /\ Len(bndls) = 1 /\ open = <<a>> /\ levels \in {1, 2}
    /\ ptr # NULL => bndls = <<1>> /\ UpTo(ptr) = Whole(a)
TwoOpen(a, b) ==
    /\ Len(bndls) = 2 /\ open = <<b, a>> /\ levels = 2
    /\ ptr # NULL => /\ bndls = <<Len(a) + 3, 1>> /\ itm = Len(a) + 2
                     /\ UpTo(ptr) = Inner(a) \o b

DeepOpen == Depth > 0 /\ levels \in Nat /\ levels > 2

BufferInv == /\ buffer \in Seq(Token) /\ ptr \in Int /\ bndls \in Seq(Int) /\ itm \in Int
             /\ ptr # NULL => ptr \in 0 .. Len(buffer)
OpenInv == \/ NoneOpen
           \/ \E a \in Seq(Token) : OneOpen(a)
           \/ \E a, b \in Seq(Token) : TwoOpen(a, b)
           \/ DeepOpen
Noted == (\E S : packets \in Seq(S)) /\ ShallowAsCalled
BundlesInv == BufferInv /\ Noted /\ (crashed \/ OpenInv)

\* What has been written stands up to the pointer.
LEMMA WrittenIs ==
    ASSUME NEW b \in Seq(Token), Written(b)
    PROVE  /\ buffer' \in Seq(Token) /\ ptr' \in Int /\ ptr' # NULL /\ ptr' \in 0 .. Len(buffer')
           /\ UpTo(ptr)' = b
<1>1. buffer' = b /\ ptr' = Len(b) /\ Len(b) \in Nat
  BY DEF Written
<1>2. SubSeq(b, 1, Len(b)) = b
  BY AllOfText
<1> HIDE DEF Token
<1> QED  BY <1>1, <1>2 DEF UpTo, NULL

\* The text up to the pointer.
LEMMA UpToType ==
    ASSUME BufferInv, ptr # NULL
    PROVE  UpTo(ptr) \in Seq(Token) /\ Len(UpTo(ptr)) = ptr
<1>1. buffer \in Seq(Token) /\ ptr \in 0 .. Len(buffer)
  BY DEF BufferInv
<1> HIDE DEF Token
<1> QED  BY <1>1 DEF UpTo

\* One packet more, as it was asked for unless it has a third level.
LEMMA PacketNoted ==
    ASSUME Noted, NEW text, NEW asked, NEW depth, Schedule(text, asked, depth),
           depth <= 2 => text = asked
    PROVE  Noted'
<1> DEFINE e == [text |-> text, asked |-> asked, levels |-> depth]
<1>1. PICK S : packets \in Seq(S)
  BY DEF Noted
<1>2. packets' = Append(packets, e)
  BY DEF Schedule
<1>3. e.text = text /\ e.asked = asked /\ e.levels = depth
  OBVIOUS
<1> HIDE DEF e
<1> DEFINE R == S \cup {e}
<1>4. packets \in Seq(R) /\ e \in R
  BY <1>1
<1> HIDE DEF R
<1>5. /\ packets' \in Seq(R) /\ Len(packets') = Len(packets) + 1 /\ packets'[Len(packets) + 1] = e
      /\ \A n \in 1 .. Len(packets) : packets'[n] = packets[n]
      /\ Len(packets) \in Nat
  BY <1>2, <1>4
<1>6. ASSUME NEW n \in 1 .. Len(packets') PROVE packets'[n].levels <= 2 => packets'[n].text = packets'[n].asked
  <2>1. CASE n \in 1 .. Len(packets)
    BY <1>5, <2>1 DEF Noted, ShallowAsCalled
  <2>2. CASE n = Len(packets) + 1
    BY <1>3, <1>5, <2>2
  <2> QED  BY <1>5, <2>1, <2>2
<1> QED  BY <1>5, <1>6 DEF Noted, ShallowAsCalled

\* No packet more.
LEMMA NotedStays ==
    ASSUME Noted, packets' = packets
    PROVE  Noted'
BY DEF Noted, ShallowAsCalled

\* Whatever the call and however deep the bundles, the buffer holds a text.
LEMMA BufferKeeps ==
    ASSUME BufferInv, BundleNext
    PROVE  BufferInv'
<1>1. /\ buffer \in Seq(Token) /\ ptr \in Int /\ bndls \in Seq(Int) /\ itm \in Int
      /\ ptr # NULL => ptr \in 0 .. Len(buffer)
  BY DEF BufferInv
<1>t. << >> \in Seq(Token) /\ Header \in Token /\ Slot(0) \in Token
      /\ \A m \in Msg : Message(m) \in Token /\ <<Message(m)>> \in Seq(Token)
  BY Tokens
<1>s. ASSUME NEW s \in Seq(Token), NEW x \in Token
      PROVE  Append(s, x) \in Seq(Token) /\ Len(s) \in Nat
  <2> HIDE DEF Token
  <2> QED  OBVIOUS
<1>b. ASSUME NEW x \in Int PROVE <<x>> \o bndls \in Seq(Int)
  BY <1>1
<1>h. bndls # << >> => Tail(bndls) \in Seq(Int) /\ Head(bndls) \in Int
  BY <1>1
<1>d. Depth > 0 => bndls # << >>
  BY <1>1 DEF Depth
<1>2. CASE Push
  <2> DEFINE start == IF Depth = 0 THEN << >> ELSE Append(UpTo(ptr), Slot(0))
  <2>1. IF Depth > 0 /\ ptr = NULL
        THEN bndls' = <<NULL>> \o bndls /\ UNCHANGED <<buffer, ptr, itm>>
        ELSE /\ Written(Append(start, Header)) /\ bndls' = <<Len(start) + 1>> \o bndls
             /\ itm' = IF Depth = 0 THEN itm ELSE Len(start)
    BY <1>2 DEF Push
  <2>2. CASE Depth > 0 /\ ptr = NULL
    <3>1. NULL \in Int
      BY DEF NULL
    <3>2. <<NULL>> \o bndls \in Seq(Int)
      BY <1>b, <3>1
    <3>3. bndls' = <<NULL>> \o bndls /\ UNCHANGED <<buffer, ptr, itm>>
      BY <2>1, <2>2
    <3>4. bndls' \in Seq(Int)
      BY <3>2, <3>3
    <3> QED  BY <1>1, <3>3, <3>4 DEF BufferInv
  <2>3. CASE ~(Depth > 0 /\ ptr = NULL)
    <3>1. Depth \in Nat
      BY <1>1 DEF Depth
    <3>2. start \in Seq(Token)
      BY <1>s, <1>t, <2>3, <3>1, UpToType
    <3> HIDE DEF start
    <3>3. Append(start, Header) \in Seq(Token) /\ Len(start) \in Int /\ Len(start) + 1 \in Int
      BY <1>s, <1>t, <3>2
    <3>4. bndls' \in Seq(Int) /\ itm' \in Int /\ Written(Append(start, Header))
      BY <1>1, <1>b, <2>1, <2>3, <3>3
    <3> QED  BY <3>3, <3>4, WrittenIs DEF BufferInv
  <2> QED  BY <2>2, <2>3
<1>3. CASE Pop
  <2> DEFINE b == EndBundle(UpTo(ptr), Head(bndls))
             e == EndItem(b, itm)
  <2>1. /\ Depth > 0 /\ ptr # NULL /\ bndls' = Tail(bndls) /\ itm' = itm
        /\ Written(b) \/ Written(e)
    BY <1>3 DEF Pop, InnerSlot
  <2>2. UpTo(ptr) \in Seq(Token) /\ Head(bndls) \in Int /\ bndls' \in Seq(Int)
    BY <1>d, <1>h, <2>1, UpToType
  <2>3. b \in Seq(Token)
    BY <2>2, EndsType
  <2> HIDE DEF b
  <2>4. e \in Seq(Token)
    BY <1>1, <2>3, EndsType
  <2> HIDE DEF e
  <2> QED  BY <1>1, <2>1, <2>2, <2>3, <2>4, WrittenIs DEF BufferInv
<1>4. CASE PopLong
  <2>1. /\ Depth > 0 /\ ptr = NULL /\ bndls' = Tail(bndls) /\ UNCHANGED <<buffer, ptr, itm>>
    BY <1>4 DEF PopLong
  <2> QED  BY <1>1, <1>d, <1>h, <2>1 DEF BufferInv
<1>5. ASSUME NEW m \in Msg, Send(m) PROVE BufferInv'
  <2> DEFINE start == Append(UpTo(ptr), Slot(0))
             e == EndItem(Append(start, Message(m)), Len(start))
  <2>1. /\ bndls' = bndls /\ itm' = itm
        /\ \/ Written(<<Message(m)>>)
           \/ ptr = NULL /\ UNCHANGED <<buffer, ptr>>
           \/ ptr # NULL /\ Written(e)
    BY <1>5 DEF Send
  <2>2. ptr # NULL => e \in Seq(Token)
    <3> SUFFICES ASSUME ptr # NULL PROVE e \in Seq(Token)
      OBVIOUS
    <3>1. start \in Seq(Token) /\ Len(start) \in Int
      BY <1>s, <1>t, UpToType
    <3> HIDE DEF start
    <3>2. Append(start, Message(m)) \in Seq(Token)
      BY <1>s, <1>t, <3>1
    <3> QED  BY <3>1, <3>2, EndsType
  <2> HIDE DEF e
  <2> QED  BY <1>1, <1>t, <2>1, <2>2, WrittenIs DEF BufferInv
<1>6. CASE SendLong
  <2>1. ptr' = NULL /\ UNCHANGED <<buffer, bndls, itm>>
    BY <1>6 DEF SendLong
  <2> QED  BY <1>1, <2>1 DEF BufferInv, NULL
<1>7. CASE SendInvalid
  <2>1. /\ buffer' = (IF Depth = 0 \/ ptr = NULL THEN buffer ELSE Append(UpTo(ptr), Slot(0)))
        /\ UNCHANGED <<ptr, bndls, itm>>
    BY <1>7 DEF SendInvalid
  <2>2. CASE Depth = 0 \/ ptr = NULL
    BY <1>1, <2>1, <2>2 DEF BufferInv
  <2>3. CASE ~(Depth = 0 \/ ptr = NULL)
    <3> DEFINE s == UpTo(ptr)
               x == Slot(0)
    <3>1. buffer' = Append(s, x) /\ s \in Seq(Token) /\ Len(s) = ptr /\ x \in Token
      BY <1>t, <2>1, <2>3, UpToType
    <3> HIDE DEF s, x, Token
    <3>2. buffer' \in Seq(Token) /\ ptr \in 0 .. Len(buffer')
      BY <1>1, <3>1
    <3> QED  BY <1>1, <2>1, <3>2 DEF BufferInv
  <2> QED  BY <2>2, <2>3
<1> QED  BY <1>2, <1>3, <1>4, <1>5, <1>6, <1>7 DEF BundleNext

\* Within a third level the script calls on, up to the end of the outermost bundle.
LEMMA DeepStays ==
    ASSUME BundlesInv, BundleNext, DeepOpen
    PROVE  BundlesInv'
<1>1. BufferInv'
  BY BufferKeeps DEF BundlesInv
<1>2. bndls \in Seq(Int) /\ Depth = Len(bndls) /\ Depth > 0 /\ levels \in Nat /\ levels > 2 /\ Depth \in Nat
  BY DEF BundlesInv, BufferInv, Depth, DeepOpen
<1>n. Noted
  BY DEF BundlesInv
<1>3. ASSUME Len(bndls') > 0, levels' = levels, packets' = packets PROVE BundlesInv'
  <2>1. Noted'
    BY <1>3, <1>n, NotedStays
  <2>2. DeepOpen'
    BY <1>2, <1>3 DEF DeepOpen, Depth
  <2> QED  BY <1>1, <2>1, <2>2 DEF BundlesInv, OpenInv
<1>4. CASE Push
  <2>1. bndls' = <<NULL>> \o bndls \/ \E n : bndls' = <<n>> \o bndls
    BY <1>4 DEF Push
  <2>2. \A n : Len(<<n>> \o bndls) > 0
    <3>1. \A n : Len(<<n>> \o bndls) = Len(bndls) + 1 /\ Len(bndls) \in Nat
      BY <1>2, OneMore
    <3> QED  BY <3>1
  <2>3. packets' = packets /\ levels' = IF Depth = 0 \/ levels <= Depth THEN Depth + 1 ELSE levels
    BY <1>4 DEF Push
  <2>4. levels' \in Nat /\ levels' > 2 /\ Len(bndls') > 0
    <3>1. Len(bndls') > 0
      BY <2>1, <2>2
    <3>2. levels' = levels \/ (levels' = Depth + 1 /\ levels <= Depth)
      BY <1>2, <2>3
    <3>3. levels' \in Nat /\ levels' > 2
      BY <1>2, <3>2
    <3> QED  BY <3>1, <3>3
  <2>5. Noted'
    BY <1>n, <2>3, NotedStays
  <2>6. DeepOpen'
    BY <2>4 DEF DeepOpen, Depth
  <2> QED  BY <1>1, <2>5, <2>6 DEF BundlesInv, OpenInv
<1>5. CASE Pop \/ PopLong
  <2>1. bndls' = Tail(bndls) /\ levels' = levels
    BY <1>5 DEF Pop, PopLong
  <2>2. CASE Depth # 1
    <3>1. Len(bndls') > 0
      BY <1>2, <2>1, <2>2
    <3>2. packets' = packets
      BY <1>5, <2>2 DEF Pop, PopLong
    <3> QED  BY <1>3, <2>1, <3>1, <3>2
  <2>3. CASE Depth = 1
    <3>1. bndls' = << >>
      <4>1. Len(bndls) = 1
        BY <1>2, <2>3
      <4> QED  BY <1>2, <2>1, <4>1, TailOfOne
    <3>2. open' = << >> \/ crashed'
      BY <1>5, <2>3 DEF Pop, PopLong
    <3>3. Noted'
      <4>1. CASE Pop
        <5> DEFINE b == EndBundle(UpTo(ptr), Head(bndls))
                   w == IF Head(open) = << >> THEN << >> ELSE <<Header>> \o Head(open)
        <5>1. Schedule(b, w, levels)
          BY <2>3, <4>1 DEF Pop
        <5> HIDE DEF b, w
        <5> QED  BY <1>2, <1>n, <5>1, PacketNoted
      <4>2. CASE PopLong
        <5>1. packets' = packets
          BY <4>2 DEF PopLong
        <5> QED  BY <1>n, <5>1 DEF Noted, ShallowAsCalled
      <4> QED  BY <1>5, <4>1, <4>2
    <3> QED  BY <1>1, <3>1, <3>2, <3>3 DEF BundlesInv, OpenInv, NoneOpen
  <2> QED  BY <2>2, <2>3
<1>6. CASE SendLong \/ SendInvalid \/ \E m \in Msg : Send(m)
  <2>1. bndls' = bndls /\ levels' = levels /\ packets' = packets
    <3>1. CASE SendLong
      BY <3>1 DEF SendLong
    <3>2. CASE SendInvalid
      BY <3>2 DEF SendInvalid
    <3>3. ASSUME NEW m \in Msg, Send(m) PROVE UNCHANGED <<bndls, levels, packets>>
      BY <1>2, <3>3 DEF Send
    <3> QED  BY <1>6, <3>1, <3>2, <3>3
  <2>2. Len(bndls') > 0
    BY <1>2, <2>1
  <2> QED  BY <1>3, <2>1, <2>2
<1> QED  BY <1>4, <1>5, <1>6 DEF BundleNext

\* When the program has crashed, nothing had fitted.
CrashedLong == crashed => ptr = NULL

LEMMA CrashedLongKeeps ==
    ASSUME CrashedLong, [BundleNext]_bundleVars
    PROVE  CrashedLong'
<1>1. CASE PopLong
  BY <1>1 DEF PopLong, CrashedLong
<1>2. CASE Push \/ Pop \/ SendLong \/ SendInvalid
  BY <1>2 DEF Push, Pop, SendLong, SendInvalid, Call, CrashedLong
<1>3. ASSUME NEW m \in Msg, Send(m) PROVE CrashedLong'
  BY <1>3 DEF Send, Call, CrashedLong
<1>4. CASE UNCHANGED bundleVars
  BY <1>4 DEF bundleVars, CrashedLong
<1> QED  BY <1>1, <1>2, <1>3, <1>4 DEF BundleNext

\* A bundle starts.
LEMMA PushKeeps ==
    ASSUME BundlesInv, Push, ~DeepOpen
    PROVE  BundlesInv'
<1> DEFINE start == IF Depth = 0 THEN << >> ELSE Append(UpTo(ptr), Slot(0))
<1>1. /\ open' = << << >> >> \o open /\ packets' = packets
      /\ levels' = IF Depth = 0 \/ levels <= Depth THEN Depth + 1 ELSE levels
      /\ IF Depth > 0 /\ ptr = NULL
         THEN bndls' = <<NULL>> \o bndls /\ UNCHANGED <<buffer, ptr, itm>>
         ELSE /\ Written(Append(start, Header)) /\ bndls' = <<Len(start) + 1>> \o bndls
              /\ itm' = IF Depth = 0 THEN itm ELSE Len(start)
  BY DEF Push
<1>t. BufferInv /\ OpenInv /\ Noted /\ BufferInv'
  BY BufferKeeps DEF BundlesInv, BundleNext, Call, Push
<1>2. Depth \in Nat /\ Depth <= 2 /\ bndls \in Seq(Int)
  <2>1. bndls \in Seq(Int)
    BY <1>t DEF BufferInv
  <2>2. NoneOpen => Len(bndls) = 0
    BY DEF NoneOpen
  <2>3. \A a : OneOpen(a) => Len(bndls) = 1
    BY DEF OneOpen
  <2>4. \A a, b : TwoOpen(a, b) => Len(bndls) = 2
    BY DEF TwoOpen
  <2>5. Len(bndls) \in {0, 1, 2}
    BY <1>t, <2>2, <2>3, <2>4 DEF OpenInv
  <2>6. Depth \in {0, 1, 2}
    BY <2>5 DEF Depth
  <2>7. Depth \in Nat /\ Depth <= 2
    BY <2>6
  <2> QED  BY <2>1, <2>7
<1>3. Noted'
  BY <1>1, <1>t, NotedStays
<1>4. << >> \in Seq(Token) /\ << >> \o << >> = << >> /\ Header \in Token /\ Slot(0) \in Token
  BY Tokens
<1>5. CASE Depth = 0
  <2>1. NoneOpen
    BY <1>t, <1>5 DEF OpenInv, OneOpen, TwoOpen, Depth
  <2>2. Written(<<Header>>) /\ bndls' = <<1>> /\ open' = << << >> >> /\ levels' = 1
    BY <1>1, <1>5, <2>1 DEF NoneOpen
  <2>3. <<Header>> \in Seq(Token) /\ Whole(<< >>) = <<Header>>
    BY <1>4 DEF Whole
  <2>4. BufferInv' /\ ptr' # NULL /\ UpTo(ptr)' = Whole(<< >>)
    <3>1. <<1>> \in Seq(Int)
      BY ShortNumbers
    <3> DEFINE h == <<Header>>
    <3> HIDE DEF h
    <3>2. Written(h) /\ h \in Seq(Token)
      BY <2>2, <2>3 DEF h
    <3>3. /\ buffer' \in Seq(Token) /\ ptr' \in Int /\ ptr' # NULL /\ ptr' \in 0 .. Len(buffer')
          /\ UpTo(ptr)' = h
      BY <3>2, WrittenIs
    <3> QED  BY <1>t, <2>3, <3>3 DEF h
  <2>5. OneOpen(<< >>)'
    <3>1. Len(bndls') = 1
      BY <2>2
    <3> QED  BY <2>2, <2>4, <3>1 DEF OneOpen
  <2> QED  BY <1>3, <1>4, <2>4, <2>5 DEF BundlesInv, OpenInv
<1>6. CASE Depth = 1
  <2>1. PICK a \in Seq(Token) : OneOpen(a)
    BY <1>t, <1>6 DEF OpenInv, NoneOpen, TwoOpen, Depth
  <2>2. open' = << << >>, a >> /\ levels' = 2
    <3>1. open = <<a>> /\ levels \in {1, 2}
      BY <2>1 DEF OneOpen
    <3> QED  BY <1>1, <1>6, <3>1, ShortSequences
  <2>3. CASE ptr = NULL
    <3>1. bndls' = <<NULL>> \o bndls /\ UNCHANGED <<buffer, ptr>>
      BY <1>1, <1>6, <2>3
    <3>2. bndls' \in Seq(Int) /\ Len(bndls') = 2
      <4>1. bndls \in Seq(Int) /\ Len(bndls) = 1 /\ NULL \in Int
        BY <1>t, <1>6 DEF BufferInv, Depth, NULL
      <4> QED  BY <3>1, <4>1, NumberInFront
    <3>3. TwoOpen(a, << >>)'
      BY <2>2, <2>3, <3>1, <3>2 DEF TwoOpen
    <3> QED  BY <1>3, <1>4, <1>t, <3>3 DEF BundlesInv, OpenInv
  <2>4. CASE ptr # NULL
    <3>1. bndls = <<1>> /\ UpTo(ptr) = Whole(a)
      BY <2>1, <2>4 DEF OneOpen
    <3>2. /\ Inner(a) \in Seq(Token) /\ Len(Append(Whole(a), Slot(0))) = Len(a) + 2
          /\ Len(a) \in Nat
      <4>1. Whole(a) \in Seq(Token) /\ Len(Whole(a)) = Len(a) + 1 /\ Len(a) \in Nat
        BY BundleLengths
      <4> HIDE DEF Whole
      <4> QED  BY <4>1, BundleLengths
    <3>3. start = Append(Whole(a), Slot(0))
      BY <1>6, <3>1
    <3>4. Written(Inner(a)) /\ bndls' = <<Len(a) + 3>> \o <<1>> /\ itm' = Len(a) + 2
      BY <1>1, <1>6, <2>4, <3>1, <3>2, <3>3 DEF Inner
    <3>5. bndls' = <<Len(a) + 3, 1>> /\ bndls' \in Seq(Int) /\ Len(bndls') = 2
      <4> DEFINE n == Len(a) + 3
      <4>1. n \in Int /\ 1 \in Int
        BY <3>2
      <4>2. bndls' = <<n>> \o <<1>>
        BY <3>4
      <4> HIDE DEF n
      <4>3. <<n>> \o <<1>> = <<n, 1>> /\ Len(<<n, 1>>) = 2
        BY ShortSequences
      <4>4. <<n, 1>> \in Seq(Int)
        BY <4>1, ShortNumbers
      <4> QED  BY <4>2, <4>3, <4>4 DEF n
    <3>6. BufferInv' /\ ptr' # NULL /\ UpTo(ptr)' = Inner(a)
      BY <1>t, <3>2, <3>4, WrittenIs
    <3>7. Inner(a) \o << >> = Inner(a)
      BY <1>4, Grown
    <3>8. TwoOpen(a, << >>)'
      BY <2>2, <3>4, <3>5, <3>6, <3>7 DEF TwoOpen
    <3> QED  BY <1>3, <1>4, <3>6, <3>8 DEF BundlesInv, OpenInv
  <2> QED  BY <2>3, <2>4
<1>7. CASE Depth = 2
  <2>1. bndls' = <<NULL>> \o bndls \/ bndls' = <<Len(start) + 1>> \o bndls
    BY <1>1
  <2>2. \A n : Len(<<n>> \o bndls) = 3
    <3>1. Len(bndls) = 2
      BY <1>7 DEF Depth
    <3>2. \A n : Len(<<n>> \o bndls) = Len(bndls) + 1
      BY <1>2, OneMore
    <3> QED  BY <3>1, <3>2
  <2>3. Depth' = 3
    BY <2>1, <2>2 DEF Depth
  <2>4. levels = 2
    BY <1>t, <1>7 DEF OpenInv, NoneOpen, OneOpen, TwoOpen, Depth
  <2>5. levels' = 3
    BY <1>1, <1>7, <2>4
  <2> QED  BY <1>3, <1>t, <2>3, <2>5 DEF BundlesInv, OpenInv, DeepOpen
<1> QED  BY <1>2, <1>5, <1>6, <1>7

\* The outermost bundle ends: it is scheduled just as the script asked for it.
LEMMA PopOutermostKeeps ==
    ASSUME BundlesInv, Pop, Depth = 1, ~DeepOpen
    PROVE  BundlesInv'
<1> DEFINE b == EndBundle(UpTo(ptr), Head(bndls))
<1>1. /\ ptr # NULL /\ bndls' = Tail(bndls) /\ Written(b) /\ open' = << >>
      /\ Schedule(b, IF Head(open) = << >> THEN << >> ELSE <<Header>> \o Head(open), levels)
  BY DEF Pop
<1>t. BufferInv /\ OpenInv /\ Noted /\ BufferInv'
  BY BufferKeeps DEF BundlesInv, BundleNext, Call, Pop
<1>2. PICK a \in Seq(Token) : OneOpen(a)
  BY <1>t DEF OpenInv, NoneOpen, TwoOpen, Depth
<1>3. bndls = <<1>> /\ UpTo(ptr) = Whole(a) /\ Head(open) = a /\ Head(bndls) = 1 /\ Tail(bndls) = << >>
  <2>1. bndls = <<1>> /\ UpTo(ptr) = Whole(a) /\ open = <<a>>
    BY <1>1, <1>2 DEF OneOpen
  <2> QED  BY <2>1, ShortSequences
<1>4. b = IF a = << >> THEN << >> ELSE Whole(a)
  BY <1>3, OutermostEnded
<1>5. Whole(a) \in Seq(Token) /\ Whole(a) # << >> /\ << >> \in Seq(Token)
  BY BundleLengths
<1>6. b \in Seq(Token)
  BY <1>4, <1>5
<1> HIDE DEF b
<1>8. NoneOpen'
  BY <1>1, <1>3 DEF NoneOpen
<1>9. Noted'
  <2> DEFINE w == IF a = << >> THEN << >> ELSE Whole(a)
  <2>1. Schedule(b, w, levels) /\ b = w
    BY <1>1, <1>3, <1>4 DEF Whole
  <2> HIDE DEF w
  <2> QED  BY <1>t, <2>1, PacketNoted
<1> QED  BY <1>t, <1>8, <1>9 DEF BundlesInv, OpenInv

\* An inner bundle ends: it is an item of the outer one, with its own length.
LEMMA PopInnerKeeps ==
    ASSUME BundlesInv, Pop, Depth # 1, ~DeepOpen
    PROVE  BundlesInv'
<1> DEFINE e == EndItem(EndBundle(UpTo(ptr), Head(bndls)), itm)
           whole == <<Header>> \o Head(open)
<1>1. /\ ptr # NULL /\ Depth > 0 /\ bndls' = Tail(bndls) /\ Written(e)
      /\ packets' = packets /\ levels' = levels
      /\ open' = [Tail(open) EXCEPT ![1] =
                     IF Head(open) = << >> THEN @ ELSE @ \o <<Slot(Len(whole))>> \o whole]
  BY DEF Pop, InnerSlot
<1>t. BufferInv /\ OpenInv /\ Noted /\ BufferInv'
  BY BufferKeeps DEF BundlesInv, BundleNext, Call, Pop
<1>2. PICK a \in Seq(Token), b \in Seq(Token) : TwoOpen(a, b)
  BY <1>1, <1>t DEF OpenInv, NoneOpen, OneOpen, Depth
<1> DEFINE c == IF b = << >> THEN a ELSE a \o <<Slot(Len(Whole(b)))>> \o Whole(b)
<1>3. /\ bndls = <<Len(a) + 3, 1>> /\ itm = Len(a) + 2 /\ UpTo(ptr) = Inner(a) \o b
      /\ open = <<b, a>> /\ levels = 2
  BY <1>1, <1>2 DEF TwoOpen
<1>4. Head(bndls) = Len(a) + 3 /\ Tail(bndls) = <<1>> /\ Head(open) = b /\ Tail(open) = <<a>>
  BY <1>3
<1>5. open' = <<c>>
  <2>1. open' = [<<a>> EXCEPT ![1] = IF b = << >> THEN @ ELSE @ \o <<Slot(Len(Whole(b)))>> \o Whole(b)]
    BY <1>1, <1>4 DEF Whole
  <2>2. \A x : [<<a>> EXCEPT ![1] = x] = <<x>>
    OBVIOUS
  <2>3. open' = [<<a>> EXCEPT ![1] = c]
    BY <2>1
  <2> HIDE DEF c
  <2> QED  BY <2>2, <2>3
<1>6. e = Whole(c) /\ c \in Seq(Token)
  <2>1. CASE b = << >>
    <3>1. UpTo(ptr) = Inner(a)
      BY <1>3, <2>1, Grown
    <3> QED  BY <1>3, <1>4, <2>1, <3>1, InnerEmptyEnded
  <2>2. CASE b # << >>
    <3>1. c = a \o <<Slot(Len(Whole(b)))>> \o Whole(b)
      BY <2>2
    <3>2. e = EndItem(EndBundle(Inner(a) \o b, Len(a) + 3), Len(a) + 2)
      BY <1>3, <1>4
    <3> HIDE DEF c, e
    <3>3. /\ EndBundle(Inner(a) \o b, Len(a) + 3) = Inner(a) \o b
          /\ EndItem(Inner(a) \o b, Len(a) + 2)
                 = Whole(a \o <<Slot(Len(Whole(b)))>> \o Whole(b))
          /\ a \o <<Slot(Len(Whole(b)))>> \o Whole(b) \in Seq(Token)
      BY <2>2, InnerEnded
    <3> QED  BY <3>1, <3>2, <3>3
  <2> QED  BY <2>1, <2>2
<1> HIDE DEF c, e
<1>7. Whole(c) \in Seq(Token)
  BY <1>6, BundleLengths
<1>8. ptr' # NULL /\ UpTo(ptr)' = Whole(c)
  BY <1>1, <1>6, <1>7, WrittenIs
<1>9. OneOpen(c)'
  <2>1. Len(bndls') = 1 /\ bndls' = <<1>>
    BY <1>1, <1>4
  <2> QED  BY <1>1, <1>3, <1>5, <1>8, <2>1 DEF OneOpen
<1>10. Noted'
  BY <1>1, <1>t, NotedStays
<1> QED  BY <1>6, <1>9, <1>10, <1>t DEF BundlesInv, OpenInv

\* A bundle in which something did not fit ends.
LEMMA PopLongKeeps ==
    ASSUME BundlesInv, PopLong, ~DeepOpen
    PROVE  BundlesInv'
<1>1. /\ Depth > 0 /\ ptr = NULL /\ bndls' = Tail(bndls) /\ open' = Tail(open)
      /\ UNCHANGED <<buffer, ptr, itm, packets, levels>>
  BY DEF PopLong
<1>t. BufferInv /\ OpenInv /\ Noted /\ BufferInv'
  BY BufferKeeps DEF BundlesInv, BundleNext, Call, PopLong
<1>2. bndls \in Seq(Int) /\ bndls # << >>
  BY <1>1, <1>t DEF BufferInv, Depth
<1>3. bndls' \in Seq(Int) /\ Len(bndls') = Len(bndls) - 1
  BY <1>1, <1>2
<1>4. BufferInv' /\ Noted'
  BY <1>1, <1>t, NotedStays
<1>5. CASE NoneOpen
  BY <1>2, <1>5 DEF NoneOpen
<1>6. ASSUME NEW a \in Seq(Token), OneOpen(a) PROVE OpenInv'
  <2>1. Len(bndls') = 0 /\ open' = << >>
    <3>1. open = <<a>> /\ Len(bndls) = 1
      BY <1>6 DEF OneOpen
    <3> QED  BY <1>1, <1>3, <3>1, ShortSequences
  <2>2. bndls' = << >>
    BY <1>3, <2>1
  <2> QED  BY <2>1, <2>2 DEF OpenInv, NoneOpen
<1>7. ASSUME NEW a \in Seq(Token), NEW b \in Seq(Token), TwoOpen(a, b) PROVE OpenInv'
  <2>1. Len(bndls') = 1 /\ open' = <<a>>
    <3>1. open = <<b, a>> /\ Len(bndls) = 2
      BY <1>7 DEF TwoOpen
    <3> QED  BY <1>1, <1>3, <3>1, ShortSequences
  <2>2. OneOpen(a)'
    BY <1>1, <1>7, <2>1 DEF OneOpen, TwoOpen
  <2> QED  BY <2>2 DEF OpenInv
<1> QED  BY <1>4, <1>5, <1>6, <1>7, <1>t DEF BundlesInv, OpenInv

\* A message outside bundles: it is scheduled as it is.
LEMMA SendAloneKeeps ==
    ASSUME BundlesInv, NEW m \in Msg, Send(m), Depth = 0, ~DeepOpen
    PROVE  BundlesInv'
<1> DEFINE p == <<Message(m)>>
<1>1. Written(p) /\ Schedule(p, p, 0) /\ open' = open /\ bndls' = bndls
  BY DEF Send
<1>t. BufferInv /\ OpenInv /\ Noted /\ BufferInv'
  BY BufferKeeps DEF BundlesInv, BundleNext, Call, Send
<1>2. p \in Seq(Token) /\ p # << >>
  <2>1. Message(m) \in Token
    BY Tokens
  <2> HIDE DEF Token, Message
  <2> QED  BY <2>1
<1> HIDE DEF p
<1>4. Noted'
  BY <1>1, <1>t, PacketNoted
<1>5. NoneOpen
  BY <1>t DEF OpenInv, OneOpen, TwoOpen, Depth
<1> QED  BY <1>1, <1>4, <1>5, <1>t DEF BundlesInv, OpenInv, NoneOpen

\* A message within a bundle: it is an item of the innermost one.
LEMMA SendItemKeeps ==
    ASSUME BundlesInv, NEW m \in Msg, Send(m), Depth # 0, ~DeepOpen
    PROVE  BundlesInv'
<1> DEFINE t == <<Slot(1), Message(m)>>
           start == Append(UpTo(ptr), Slot(0))
<1>1. /\ IF ptr = NULL THEN UNCHANGED <<buffer, ptr>>
         ELSE Written(EndItem(Append(start, Message(m)), Len(start)))
      /\ open' = [open EXCEPT ![1] = @ \o t]
      /\ bndls' = bndls /\ itm' = itm /\ packets' = packets /\ levels' = levels
  BY DEF Send
<1>t. BufferInv /\ OpenInv /\ Noted /\ BufferInv'
  BY BufferKeeps DEF BundlesInv, BundleNext, Call, Send
<1>2. Message(m) \in Token /\ Slot(1) \in Token
  BY Tokens
<1>3. t \in Seq(Token)
  <2> HIDE DEF Token, Message, Slot
  <2> QED  BY <1>2
<1>4. ptr # NULL => Written(UpTo(ptr) \o t) /\ UpTo(ptr) \o t \in Seq(Token)
  <2> SUFFICES ASSUME ptr # NULL PROVE Written(UpTo(ptr) \o t) /\ UpTo(ptr) \o t \in Seq(Token)
    OBVIOUS
  <2> DEFINE s == UpTo(ptr)
             x == Message(m)
  <2>1. s \in Seq(Token) /\ x \in Token
    BY <1>2, <1>t, UpToType
  <2>2. Written(EndItem(Append(Append(s, Slot(0)), x), Len(Append(s, Slot(0)))))
    BY <1>1
  <2> HIDE DEF s, x, Token
  <2>3. /\ EndItem(Append(Append(s, Slot(0)), x), Len(Append(s, Slot(0)))) = s \o <<Slot(1), x>>
        /\ s \o <<Slot(1), x>> \in Seq(Token)
    BY <2>1, ItemWritten
  <2>4. Written(s \o <<Slot(1), x>>)
    BY <2>2, <2>3
  <2> QED  BY <2>3, <2>4 DEF s, x
<1> HIDE DEF t, start
<1>5. /\ BufferInv' /\ (ptr' # NULL => ptr # NULL)
      /\ ptr # NULL => ptr' # NULL /\ UpTo(ptr)' = UpTo(ptr) \o t
  <2>1. CASE ptr = NULL
    BY <1>1, <1>t, <2>1
  <2>2. CASE ptr # NULL
    <3> DEFINE w == UpTo(ptr) \o t
    <3>1. Written(w) /\ w \in Seq(Token)
      BY <1>4, <2>2
    <3> HIDE DEF w
    <3>2. /\ buffer' \in Seq(Token) /\ ptr' \in Int /\ ptr' # NULL /\ ptr' \in 0 .. Len(buffer')
          /\ UpTo(ptr)' = w
      BY <3>1, WrittenIs
    <3> QED  BY <1>t, <2>2, <3>2 DEF w
  <2> QED  BY <2>1, <2>2
<1>6. Noted'
  BY <1>1, <1>t, NotedStays
<1>7. CASE NoneOpen
  BY <1>7 DEF NoneOpen, Depth
<1>8. ASSUME NEW a \in Seq(Token), OneOpen(a) PROVE OpenInv'
  <2> DEFINE c == a \o t
  <2>1. Whole(a) \o t = Whole(c) /\ c \in Seq(Token)
    BY <1>3, Grown
  <2>2. open' = <<c>>
    <3>1. open = <<a>>
      BY <1>8 DEF OneOpen
    <3>2. open' = [<<a>> EXCEPT ![1] = c]
      BY <1>1, <3>1
    <3> HIDE DEF c
    <3> QED  BY <3>2, ShortSequences
  <2> HIDE DEF c
  <2>3. OneOpen(c)'
    BY <1>1, <1>5, <1>8, <2>1, <2>2 DEF OneOpen
  <2> QED  BY <2>1, <2>3 DEF OpenInv
<1>9. ASSUME NEW a \in Seq(Token), NEW b \in Seq(Token), TwoOpen(a, b) PROVE OpenInv'
  <2> DEFINE c == b \o t
  <2>1. (Inner(a) \o b) \o t = Inner(a) \o c /\ c \in Seq(Token)
    <3> HIDE DEF Token
    <3>1. a \in Seq(Token) /\ b \in Seq(Token) /\ t \in Seq(Token)
      BY <1>3
    <3>2. (Inner(a) \o b) \o t = Inner(a) \o (b \o t)
      BY <3>1, Grown
    <3>3. b \o t \in Seq(Token)
      BY <3>1, ConcatType
    <3> QED  BY <3>2, <3>3
  <2>2. open' = <<c, a>>
    <3>1. open = <<b, a>>
      BY <1>9 DEF TwoOpen
    <3>2. open' = [<<b, a>> EXCEPT ![1] = c]
      BY <1>1, <3>1
    <3> HIDE DEF c
    <3>3. [<<b, a>> EXCEPT ![1] = c] = <<c, a>>
      OBVIOUS
    <3> QED  BY <3>2, <3>3
  <2> HIDE DEF c
  <2>3. TwoOpen(a, c)'
    BY <1>1, <1>5, <1>9, <2>1, <2>2 DEF TwoOpen
  <2> QED  BY <2>1, <2>3 DEF OpenInv
<1> QED  BY <1>6, <1>7, <1>8, <1>9, <1>t DEF BundlesInv, OpenInv

\* A message that does not fit.
LEMMA SendLongKeeps ==
    ASSUME BundlesInv, SendLong, ~DeepOpen
    PROVE  BundlesInv'
<1>1. ptr' = NULL /\ UNCHANGED <<buffer, bndls, itm, packets, open, levels>>
  BY DEF SendLong
<1>t. BufferInv /\ OpenInv /\ Noted /\ BufferInv'
  BY BufferKeeps DEF BundlesInv, BundleNext, Call, SendLong
<1>2. BufferInv' /\ Noted'
  BY <1>1, <1>t, NotedStays
<1>3. CASE NoneOpen
  BY <1>1, <1>2, <1>3 DEF BundlesInv, OpenInv, NoneOpen
<1>4. ASSUME NEW a \in Seq(Token), OneOpen(a) PROVE BundlesInv'
  <2>1. OneOpen(a)'
    BY <1>1, <1>4 DEF OneOpen
  <2> QED  BY <1>2, <2>1 DEF BundlesInv, OpenInv
<1>5. ASSUME NEW a \in Seq(Token), NEW b \in Seq(Token), TwoOpen(a, b) PROVE BundlesInv'
  <2>1. TwoOpen(a, b)'
    BY <1>1, <1>5 DEF TwoOpen
  <2> QED  BY <1>2, <2>1 DEF BundlesInv, OpenInv
<1> QED  BY <1>3, <1>4, <1>5, <1>t DEF OpenInv

\* What is open and scheduled, and the text up to the pointer, stay.
LEMMA SameText ==
    ASSUME BundlesInv, BufferInv', UNCHANGED <<ptr, bndls, itm, packets, open, levels, crashed>>,
           ptr # NULL => UpTo(ptr)' = UpTo(ptr)
    PROVE  BundlesInv'
<1>t. BufferInv /\ Noted /\ (crashed \/ OpenInv)
  BY DEF BundlesInv
<1>1. Noted'
  BY <1>t, NotedStays
<1>5. CASE DeepOpen \/ crashed
  BY <1>1, <1>5 DEF BundlesInv, OpenInv, DeepOpen, Depth
<1>2. CASE NoneOpen
  BY <1>1, <1>2 DEF BundlesInv, OpenInv, NoneOpen
<1>3. ASSUME NEW a \in Seq(Token), OneOpen(a) PROVE BundlesInv'
  <2>1. OneOpen(a)'
    BY <1>3 DEF OneOpen
  <2> QED  BY <1>1, <2>1 DEF BundlesInv, OpenInv
<1>4. ASSUME NEW a \in Seq(Token), NEW b \in Seq(Token), TwoOpen(a, b) PROVE BundlesInv'
  <2>1. TwoOpen(a, b)'
    BY <1>4 DEF TwoOpen
  <2> QED  BY <1>1, <2>1 DEF BundlesInv, OpenInv
<1> QED  BY <1>2, <1>3, <1>4, <1>5, <1>t DEF OpenInv

\* An invalid message: the item that it began is behind the pointer.
LEMMA SendInvalidStays ==
    ASSUME BundlesInv, SendInvalid
    PROVE  BundlesInv'
<1>1. /\ buffer' = (IF Depth = 0 \/ ptr = NULL THEN buffer ELSE Append(UpTo(ptr), Slot(0)))
      /\ UNCHANGED <<ptr, bndls, itm, packets, open, levels, crashed>>
  BY DEF SendInvalid
<1>t. BufferInv
  BY DEF BundlesInv
<1>2. CASE Depth = 0 \/ ptr = NULL
  <2>1. buffer' = buffer
    BY <1>1, <1>2
  <2>2. UpTo(ptr)' = UpTo(ptr)
    BY <1>1, <2>1 DEF UpTo
  <2>3. BufferInv'
    BY <1>1, <1>t, <2>1 DEF BufferInv
  <2> QED  BY <1>1, <2>2, <2>3, SameText
<1>3. CASE ~(Depth = 0 \/ ptr = NULL)
  <2> DEFINE s == UpTo(ptr)
             x == Slot(0)
  <2>1. buffer' = Append(s, x)
    BY <1>1, <1>3
  <2>2. s \in Seq(Token) /\ Len(s) = ptr /\ x \in Token
    BY <1>3, <1>t, UpToType, Tokens
  <2> HIDE DEF s, x, Token
  <2>3. Append(s, x) \in Seq(Token) /\ ptr \in 0 .. Len(Append(s, x))
    BY <2>2
  <2>4. SubSeq(Append(s, x), 1, Len(s)) = s
    BY <2>2, FrontOfAppend
  <2>5. UpTo(ptr)' = s
    BY <1>1, <2>1, <2>2, <2>4 DEF UpTo
  <2>6. BufferInv'
    BY <1>1, <1>t, <2>1, <2>3 DEF BufferInv
  <2> QED  BY <1>1, <2>5, <2>6, SameText DEF s
<1> QED  BY <1>2, <1>3

\* Nothing happens.
LEMMA BundleStutter ==
    ASSUME BundlesInv, UNCHANGED bundleVars
    PROVE  BundlesInv'
<1>1. UNCHANGED <<buffer, ptr, bndls, itm, packets, open, levels, crashed>>
  BY DEF bundleVars
<1>2. UpTo(ptr)' = UpTo(ptr)
  BY <1>1 DEF UpTo
<1>3. BufferInv'
  BY <1>1 DEF BundlesInv, BufferInv
<1> QED  BY <1>1, <1>2, <1>3, SameText

\* Every call keeps the invariant.
LEMMA CallKeeps ==
    ASSUME BundlesInv, BundleNext
    PROVE  BundlesInv'
<1> SUFFICES ASSUME ~DeepOpen PROVE BundlesInv'
  BY DeepStays
<1>1. CASE Push
  BY <1>1, PushKeeps
<1>2. CASE Pop
  BY <1>2, PopOutermostKeeps, PopInnerKeeps
<1>3. CASE PopLong
  BY <1>3, PopLongKeeps
<1>4. ASSUME NEW m \in Msg, Send(m) PROVE BundlesInv'
  BY <1>4, SendAloneKeeps, SendItemKeeps
<1>5. CASE SendLong
  BY <1>5, SendLongKeeps
<1>6. CASE SendInvalid
  BY <1>6, SendInvalidStays
<1> QED  BY <1>1, <1>2, <1>3, <1>4, <1>5, <1>6 DEF BundleNext

\* At the start no bundle is open.
LEMMA BundlesStart == BundleInit => BundlesInv
<1> SUFFICES ASSUME BundleInit PROVE BundlesInv
  OBVIOUS
<1>1. /\ buffer = << >> /\ ptr = 0 /\ bndls = << >> /\ itm = 0 /\ open = << >>
      /\ packets = << >>
  BY DEF BundleInit
<1>2. << >> \in Seq(Token) /\ Len(<< >>) = 0 /\ << >> \in Seq(Int)
  <2> HIDE DEF Token
  <2> QED  OBVIOUS
<1>3. BufferInv
  BY <1>1, <1>2 DEF BufferInv
<1>4. Noted
  BY <1>1, <1>2 DEF Noted, ShallowAsCalled
<1> QED  BY <1>1, <1>3, <1>4 DEF BundlesInv, OpenInv, NoneOpen

\* tjost_lua.c:220-379: whatever the order of messages, bundles at any depth, empty
\* bundles, invalid and overlong messages on an output: a packet that is not nested
\* three levels deep is what the script asked for, also after one that is.
THEOREM PacketsRight == BundleSpec => []ShallowAsCalled
<1>1. BundlesInv /\ [BundleNext]_bundleVars => BundlesInv'
  BY CallKeeps, BundleStutter
<1>2. BundlesInv => ShallowAsCalled
  BY DEF BundlesInv, Noted
<1> QED  BY <1>1, <1>2, BundlesStart, PTL DEF BundleSpec

-----------------------------------------------------------------------------
(* Bundles: the text of the open bundles, as the property folds it. *)

\* A bundle is begun behind the text of those that are open.
Opened(text, items) == (IF text = << >> THEN << >> ELSE Append(text, Slot(0))) \o <<Header>> \o items
TextOf(s) == FoldLeft(LAMBDA text, items : Opened(text, items), << >>, s)
TextStep(s, g, t) == IF t = {} THEN << >> ELSE Opened(g[t \ {Max(t)}], s[Max(t)])

\* The largest of the places of a sequence of one or two elements.
LEMMA LastPlace ==
    /\ Max({1}) = 1 /\ Max({2}) = 2 /\ Max({1, 2}) = 2
    /\ {1} \ {Max({1})} = {} /\ {2} \ {Max({2})} = {} /\ {1, 2} \ {Max({1, 2})} = {1}
<1>1. Max({1}) = 1
  BY DEF Max
<1>2. Max({2}) = 2
  BY DEF Max
<1>3. Max({1, 2}) = 2
  <2>1. \A x \in {1, 2} : (\A y \in {1, 2} : x >= y) <=> x = 2
    OBVIOUS
  <2> QED  BY <2>1 DEF Max
<1> QED  BY <1>1, <1>2, <1>3

\* The text of one bundle.
LEMMA TextOfOne ==
    ASSUME NEW a
    PROVE  TextOf(<<a>>) = Opened(<< >>, a)
<1> DEFINE s == <<a>>
           S == {1}
           iter == CHOOSE g : g = [t \in SUBSET S |-> TextStep(s, g, t)]
           h == [t \in SUBSET S |-> IF t = {} THEN << >> ELSE Opened(<< >>, a)]
<1>1. s[1] = a /\ DOMAIN s = S
  OBVIOUS
<1> HIDE DEF s
<1>2. \A t \in SUBSET S : h[t] = TextStep(s, h, t)
  <2>1. ASSUME NEW t \in SUBSET S PROVE h[t] = TextStep(s, h, t)
    <3>1. CASE t = {}
      BY <3>1 DEF TextStep
    <3>2. CASE t = {1}
      <4>1. h[{}] = << >> /\ h[t] = Opened(<< >>, a)
        BY <3>2
      <4> HIDE DEF h
      <4> QED  BY <1>1, <3>2, <4>1, LastPlace DEF TextStep
    <3> QED  BY <3>1, <3>2
  <2> QED  BY <2>1
<1>3. h = [t \in SUBSET S |-> TextStep(s, h, t)]
  <2>1. DOMAIN h = SUBSET S /\ h = [t \in SUBSET S |-> h[t]]
    OBVIOUS
  <2> HIDE DEF h, S
  <2> QED  BY <1>2, <2>1
<1>4. iter = [t \in SUBSET S |-> TextStep(s, iter, t)]
  <2> HIDE DEF h, S
  <2>1. \E k : k = [t \in SUBSET S |-> TextStep(s, k, t)]
    BY <1>3
  <2> QED  BY <2>1
<1>5. TextOf(s) = iter[S]
  <2> HIDE DEF S
  <2> QED  BY <1>1 DEF TextOf, FoldLeft, MapThenFoldSet, TextStep
<1> HIDE DEF iter
<1>6. {} \in SUBSET S /\ {1} \in SUBSET S
  OBVIOUS
<1>7. iter[{}] = TextStep(s, iter, {}) /\ iter[{1}] = TextStep(s, iter, {1})
  <2> HIDE DEF S
  <2> QED  BY <1>4, <1>6
<1>8. iter[{1}] = Opened(<< >>, a)
  BY <1>1, <1>7, LastPlace DEF TextStep
<1> QED  BY <1>5, <1>8 DEF s

\* The text of a bundle in another one.
LEMMA TextOfTwo ==
    ASSUME NEW a, NEW b
    PROVE  TextOf(<<a, b>>) = Opened(Opened(<< >>, a), b)
<1> DEFINE s == <<a, b>>
           S == {1, 2}
           iter == CHOOSE g : g = [t \in SUBSET S |-> TextStep(s, g, t)]
           one == Opened(<< >>, a)
           h == [t \in SUBSET S |-> IF t = {} THEN << >>
                                    ELSE IF t = {1} THEN one
                                    ELSE IF t = {2} THEN Opened(<< >>, b)
                                    ELSE Opened(one, b)]
<1>1. s[1] = a /\ s[2] = b /\ DOMAIN s = S
  OBVIOUS
<1>e. {1} # {} /\ {2} # {} /\ {1, 2} # {} /\ {1} # {2} /\ {1, 2} # {1} /\ {1, 2} # {2}
  <2>1. 1 \in {1} /\ 2 \in {2} /\ 1 \in {1, 2} /\ 2 \in {1, 2} /\ ~(2 \in {1}) /\ ~(1 \in {2})
    OBVIOUS
  <2> QED  BY <2>1
<1>6. {} \in SUBSET S /\ {1} \in SUBSET S /\ {2} \in SUBSET S /\ {1, 2} \in SUBSET S
  OBVIOUS
<1> HIDE DEF s, one
<1>h. /\ h[{}] = << >> /\ h[{1}] = one /\ h[{2}] = Opened(<< >>, b) /\ h[{1, 2}] = Opened(one, b)
      /\ DOMAIN h = SUBSET S /\ h = [t \in SUBSET S |-> h[t]]
  <2> HIDE DEF S
  <2> QED  BY <1>6, <1>e
<1>k. \A t \in SUBSET S : t = {} \/ t = {1} \/ t = {2} \/ t = {1, 2}
  OBVIOUS
<1> HIDE DEF h, S
<1>2. \A t \in SUBSET S : h[t] = TextStep(s, h, t)
  <2>1. ASSUME NEW t \in SUBSET S PROVE h[t] = TextStep(s, h, t)
    <3>1. CASE t = {}
      BY <1>h, <3>1 DEF TextStep
    <3>2. CASE t = {1}
      BY <1>h, <1>1, <1>e, <3>2, LastPlace DEF TextStep, one
    <3>3. CASE t = {2}
      BY <1>h, <1>1, <1>e, <3>3, LastPlace DEF TextStep
    <3>4. CASE t = {1, 2}
      BY <1>h, <1>1, <1>e, <3>4, LastPlace DEF TextStep
    <3> QED  BY <1>k, <3>1, <3>2, <3>3, <3>4
  <2> QED  BY <2>1
<1>3. h = [t \in SUBSET S |-> TextStep(s, h, t)]
  BY <1>2, <1>h
<1>4. iter = [t \in SUBSET S |-> TextStep(s, iter, t)]
  <2>1. \E k : k = [t \in SUBSET S |-> TextStep(s, k, t)]
    BY <1>3
  <2> QED  BY <2>1
<1>5. TextOf(s) = iter[{1, 2}]
  <2>1. TextOf(s) = iter[S]
    BY <1>1 DEF TextOf, FoldLeft, MapThenFoldSet, TextStep
  <2> QED  BY <2>1 DEF S
<1> HIDE DEF iter
<1>7. /\ iter[{}] = TextStep(s, iter, {}) /\ iter[{1}] = TextStep(s, iter, {1})
      /\ iter[{1, 2}] = TextStep(s, iter, {1, 2})
  BY <1>4, <1>6
<1>8. iter[{1}] = one
  BY <1>1, <1>7, <1>e, LastPlace DEF TextStep, one
<1>9. iter[{1, 2}] = Opened(one, b)
  BY <1>1, <1>7, <1>8, <1>e, LastPlace DEF TextStep
<1> QED  BY <1>5, <1>9 DEF s, one

\* Backwards.
LEMMA ReverseShort ==
    ASSUME NEW a \in Seq(Token), NEW b \in Seq(Token)
    PROVE  Reverse(<<a>>) = <<a>> /\ Reverse(<<b, a>>) = <<a, b>>
<1> HIDE DEF Token
<1>1. Reverse(<<a>>) = <<a>>
  BY DEF Reverse
<1>2. Reverse(<<b, a>>) = <<a, b>>
  BY DEF Reverse
<1> QED  BY <1>1, <1>2

\* What the open bundles make of the buffer.
LEMMA OpenText ==
    ASSUME NEW a \in Seq(Token), NEW b \in Seq(Token)
    PROVE  /\ Opened(<< >>, a) = Whole(a)
           /\ Opened(Whole(a), b) = Inner(a) \o b
<1>1. Opened(<< >>, a) = Whole(a)
  <2>1. << >> \o <<Header>> = <<Header>>
    OBVIOUS
  <2>2. Opened(<< >>, a) = (<< >> \o <<Header>>) \o a
    BY DEF Opened
  <2> QED  BY <2>1, <2>2 DEF Whole
<1>2. Opened(Whole(a), b) = Inner(a) \o b
  <2> DEFINE u == Append(Whole(a), Slot(0))
  <2>1. Whole(a) # << >> /\ Whole(a) \in Seq(Token) /\ Slot(0) \in Token /\ Header \in Token
    BY BundleLengths, Tokens
  <2>2. u \in Seq(Token)
    <3> HIDE DEF Whole, Token, Slot
    <3> QED  BY <2>1
  <2>3. u \o <<Header>> = Append(u, Header)
    <3> HIDE DEF u, Token
    <3> QED  BY <2>1, <2>2, AppendIsConcat
  <2>4. Opened(Whole(a), b) = (u \o <<Header>>) \o b
    BY <2>1 DEF Opened
  <2> QED  BY <2>3, <2>4 DEF Inner
<1> QED  BY <1>1, <1>2

\* The invariant implies what the run checks of the buffer.
LEMMA OpenBundlesInBuffer == BundlesInv /\ CrashedLong => BufferIsOpenBundles
<1> SUFFICES ASSUME BundlesInv, CrashedLong, Depth > 0, ptr # NULL, levels <= 2
             PROVE  UpTo(ptr) = TextOf(Reverse(open))
  BY DEF BufferIsOpenBundles, TextOf, Opened
<1>1. CASE NoneOpen
  BY <1>1 DEF NoneOpen, Depth
<1>2. ASSUME NEW a \in Seq(Token), OneOpen(a) PROVE UpTo(ptr) = TextOf(Reverse(open))
  <2>1. UpTo(ptr) = Whole(a) /\ open = <<a>>
    BY <1>2 DEF OneOpen
  <2> QED  BY <2>1, ReverseShort, TextOfOne, OpenText
<1>3. ASSUME NEW a \in Seq(Token), NEW b \in Seq(Token), TwoOpen(a, b)
      PROVE  UpTo(ptr) = TextOf(Reverse(open))
  <2>1. UpTo(ptr) = Inner(a) \o b /\ open = <<b, a>>
    BY <1>3 DEF TwoOpen
  <2>2. Reverse(open) = <<a, b>>
    BY <2>1, ReverseShort
  <2>3. TextOf(<<a, b>>) = Opened(Opened(<< >>, a), b)
    BY TextOfTwo
  <2>4. Opened(Opened(<< >>, a), b) = Inner(a) \o b
    BY OpenText
  <2> QED  BY <2>1, <2>2, <2>3, <2>4
<1>4. ~DeepOpen
  BY DEF DeepOpen
<1>5. OpenInv
  BY DEF BundlesInv, CrashedLong
<1> QED  BY <1>1, <1>2, <1>3, <1>4, <1>5 DEF OpenInv

\* tjost_lua.c:220-379: between the calls the buffer holds the open bundles,
\* outermost first, each complete but for the slots of the bundles within it,
\* in every behaviour, unless a third level has been begun in them.
THEOREM BufferRight == BundleSpec => []BufferIsOpenBundles
<1>1. BundlesInv /\ [BundleNext]_bundleVars => BundlesInv'
  BY CallKeeps, BundleStutter
<1>2. CrashedLong /\ [BundleNext]_bundleVars => CrashedLong'
  BY CrashedLongKeeps
<1>3. BundleInit => CrashedLong
  BY DEF BundleInit, CrashedLong
<1> QED  BY <1>1, <1>2, <1>3, OpenBundlesInBuffer, BundlesStart, PTL DEF BundleSpec
=============================================================================
