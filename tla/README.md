# Verification of Tjost

TLA+ specifications of Tjost, the host that routes Open Sound Control events
between JACK ports, sockets, devices, files and Lua scripts, with the TLC
configurations that check them and the theorems TLAPS proves. Line numbers
refer to the files under `src/`.

## The system

| Component | Source | State | Operations | What makes it correct |
|---|---|---|---|---|
| Process cycle and queues | `tjost.c` 87-136, 308-399; the `process_in`/`process_out` of the modules | `host->queue`, `module->queue`, frame time, uplink counter | schedule, dispatch, `process_in`, `process_out` | events keep their order, are executed in the period they belong to, none is lost or doubled |
| Event pipe | `tjost_pipe.c` | ring, `uv_async_t` | produce, flush, consume | one producer and one consumer in different threads: lossless, ordered, whole, no lost wakeup |
| Real-time memory | `tjost.c` 180-306 | pools, `used`, `rtmem_sum`, `rtmem_flag`, `rb_rtmem` | alloc, realloc, free, request, add | one request at a time, answered; the counters tell the truth |
| TLSF allocator | `tlsf-3.0/tlsf.c` | blocks, free lists, two levels of bitmaps | malloc, memalign, realloc, free, add and remove a pool | blocks tile the pools, what is live is nobody else's, what is freed is found again |
| Net modules | `modules/mod_net*.c` | `rb_tx`, `pipe_rx`, stream, clock pair | send loop, receive, clock sync, start and stop of a thread | packets leave whole, once and in order; time stamps agree |
| Message ring | `tjost.c` 138-178 | `rb_msg` | push, pull | messages whole, the reader woken |
| Uplink | `tjost_uplink.c`, `modules/mod_uplink.c` | two pipes, `buf_rx` | JACK notifications, queries and replies | scripts end up with JACK's graph but for what an answer told too late, every question is answered if it fits |
| Lua layer | `tjost_lua.c` | module lists, children, registry, serializer | plugin, chain, call, clear, collect | lists, responders and new events lead to no collected module; packets as called for; all is given back |
| Start and shutdown | `tjost.c` 407-659, `mod_net_in.c`, `mod_net_out.c` | all handles, threads | init, deinit, signals | shutdown fits what was started and comes to an end |
| Session manager | `tjost_nsm.c` | id, responder | announce, open, save | the handshake ends |
| Ports | `modules/mod_midi_*.c`, `mod_cv_*.c`, `mod_osc_*.c`, `mod_transport.c` | last value, last time | once per period | frames preserved, signals reproduced |
| Files | `modules/mod_read.c`, `mod_write.c` | file, pipe, time offset | record, replay | intervals survive, nothing but what the reader refuses is missing |
| Devices, console, timer | `modules/mod_serial.c`, `mod_seq_*.c`, `mod_rtmidi_*.c`, `mod_dump.c`, `mod_send.c`, `mod_timer.c` | pipe, device | forward | order kept |

Four kinds of threads meet: JACK's real-time thread (`_process`), the main loop
of libuv, the thread of each net module, and JACK's notification thread (plus
the callback thread of RtMidi). They share no locks. All they share is ring
buffers with one reader and one writer, and `uv_async_send`, which wakes a loop
and coalesces. What is hard is therefore the order in which bytes become
visible, wakeups, full rings, two writers where one was meant, and, inside the
real-time thread, the order of events when some are late and some immediate and
the life of modules that Lua collects while C refers to them.

## The modules

`EventChannel` is the abstract promise of a pipe: a first-in first-out channel.
`Allocator` is that of `tlsf.h`: every block a region of its own, changed by its
own calls only.

`Pipe` is `tjost_pipe.c`. The ring is a stream of bytes, `wptr` and `rptr` count
what was ever written and read; `log` remembers which event was laid out where.
`ProduceAccept`/`ProduceReject` are the check of line 62; `Publish` makes any
part of the two writes visible, because JACK's ring moves its write pointer
once or twice in a write. The consumer has a program counter: `ConsumeStart`
(someone calls it), `ConsumeLoop` (89, 91), `ConsumeCheck` (94), `ConsumeRead`
(98-105). `Flush` is `uv_async_send`, `wake` the coalesced signal. With
`Listening` the consumer is `_asio`, without it a `process_in` polls.

`RtMem` is the memory of the real-time thread. What TLSF does is reduced to what
it gives out: a block if the pools have room, and possibly nothing as soon as
one live block may fragment them. `used` is an integer that may become
negative; `AsSize` is the unsigned value the code compares.

`Tlsf` is the allocator itself. The heap is a function from addresses to words
together with the lists and bitmaps of the control structure; every helper of
`tlsf.c` that writes is an operator from a heap to the heap it leaves, named as
in the source (`block_split`, `block_absorb`, `block_merge_prev`, ...), and the
actions `Malloc`, `Memalign`, `Realloc`, `Free`, `AddPool`, `RemovePool` compose
them in the source's order. Header fields lie in the words callers get, as in
the source, so a wrong split or merge shows in a caller's contents. Its
refinement mapping to `Allocator` gives every owner the words of its block.

`Host` is the cycle of `_process`. `phase` says where the cycle is: the inputs
(`Arrive`), the loop over the host queue (`TakeEvent`, `FanOut` for one source
with its children and its Lua callback, `DropEvent`), and the outputs one after
the other (`WritePort`, `LoopBack`, `PushUplink`, `OutputDone`); `CycleDone`
flushes the uplink and starts the next cycle. The children of an event are
served in one step: no other thread looks at these queues. A Lua callback
schedules at most one message per event, immediate or relative to the event. The
order of the inputs within a cycle is left open, which allows more than the
code. `osc_out` stands for all outputs that write a port: `midi_out`, `cv_out`
and the outputs with a pipe have the same loop around another call. Allocation
succeeds; modules neither come nor go (that is `Modules`).

`NetTx` is the transmit side of the net modules: `TakeFromQueue`, `Publish` and
`AsyncSend` in the real-time thread, `Asio` and `SendCb` in the module's thread,
both with the whole of `_next` (`NextPacket`). What a header at a wrong place
decodes to is any of `GarbageSizes`. In the code nothing prevents a wakeup from
meeting a packet on its way, so nothing does in the model; `doubled` remembers that
one did and took bytes off the ring, so that two rounds of the loop are
under way. From then on nothing bounds what the loop takes off, and `MaxRead` is
where a behaviour is given up. The stream is external: it sends in order and calls
back once per packet.

`Bundles` is `_serialize_packet` of `tjost_lua.c`: what the calls of a script on
an output write to `module->buffer`, as tokens (a bundle header, a message, the
slot for the length of a bundle item). `Push`, `Pop` and `Send` are the three
branches; `SendInvalid` is every return and Lua error before line 355,
`SendLong` what does not fit, `PopLong` the end of a bundle that did not fit.
Each packet is kept with `asked`, what a correct encoder would have made of the same
calls, and with `levels`, how deep its bundles went. libosc is
not part of the repository; the module states in `EndItem`, `EndBundle` and in
its heading what it takes from it (that an empty bundle vanishes, for one, is
what line 258 tests for). Scripts end only bundles they began.

`Modules` is the life of module instances. The script makes them, successfully
or not (`Plugin`, `PluginFails`, and the net module whose thread cannot be made:
`PluginFailsLate`), chains, drops and clears them, and puts messages and bundles
into outputs (`Put`; `bundling` are the outputs with entries in `module->bndls`). The
real-time thread hands an event on in steps: `Take` takes it from the queue and
stands at the first module of the walk (`at`), `Deliver` writes to the children and
enters the responder, whose calls are the script's actions again, and `Return` goes
on to what follows. The collector (`Collect`) runs between any two actions of a
script, as well as at the end of a cycle: `tjost.c` 529 stops the automatic one, but in
Lua 5.1 and in LuaJIT, which `README.md` 26 of the repository suggests, each
`LUA_GCSTEP` of line 396 sets its threshold again. What it
deletes may therefore be the uplink the walk stands at; `Followers` says that its
next pointer then leads anywhere. `Reachable` is what Lua sees, which is less than
what C refers to (`Referred`); `forgotten` are modules that were deleted all the
same. `_tjost_deinit` closes Lua and frees the queues.

`Lifecycle` is `main`. `Steps` lists the steps of `_tjost_init` in their order;
each may succeed or fail. `open` is the set of what is set up. Signals (`Request`), JACK's
shutdown callback (`JackShutdown`, from the step that registers it on, which is long
before that of the handle it signals), JACK's process thread, the thread of a net module with its
`quit` and join, and the handshake of the session manager run beside it.
`_tjost_deinit` is several actions (`DeinitBegin`, `LuaClose`, `DeinitEnd`, and
`LoopEnds` for the loop that is left), because other threads run on between them.
libuv is external: it aborts when a handle that was never initialised is closed,
and returns from `uv_run` when no handle is left.

`Uplink` is the traffic between scripts and JACK's graph: questions and changes
through `pipe_uplink_tx`, answers and notifications through `pipe_uplink_rx`, and
reports through `rb_msg`. The pipes are the sequences that `EventChannel` allows;
they may be full. A question is answered in three steps: `PortsReply` and
`ConnectionsReply` list what JACK has, `ReplyBuild` begins to write it into
`buf_rx`, and `ReplyPush` pushes it, or does not when it is longer than the buffer
(`ListCap`, counted in `unfit`). A whole notification may pass between the first two
and be contradicted by the answer behind it; `overtaken` notes what it was about, until
JACK has something newer to tell about it or a newer answer lists it. The main loop
and JACK's notification thread both write the static `buf_rx` and produce into one
pipe: `met` is set when they overlap, and from then on nothing is claimed. `missed`
is set when something is lost on a full pipe.

`Ports` is one period of `midi_in`, `midi_out`, `cv_in` and `cv_out` in a script that
passes what it gets on after some frames. `Files` is `mod_write` and `mod_read`:
recording messages and bundles into a pipe, the file, reading it back with the check
of what was read and the space of the player's pipe counted in bytes, and replay.

The `*Proofs` modules hold the theorems, the `MC*` modules the constants for TLC;
`MCDevices` checks `Ports` and `Files`, and `MCLua` `Modules` and `Bundles`, which have
nothing in common, in one run: every behavior is one of the one or one of the other. Operators commented
"Mutant of X" are faulty variants of X: putting one in X's place makes TLC
report the property it is listed with in `PROJECT.json`, which shows that the
property can fail.

How the pieces fit: `Host` and `Modules` look at the same cycle from two sides,
events with fixed modules and modules with few events. `Files` and `Uplink` use
a pipe as the sequence that `Pipe` is shown to implement. `RtMem` uses TLSF as
far as `Tlsf` is shown to keep its promise.

## The runs

| Run | Shows | Bounds |
|---|---|---|
| `pipe_listen` | `InOrderAndIntact`, `NoShortCopy`, `NoLostWakeup`, `SpinEnds`, `AcceptedIsDelivered`, the refinement of `EventChannel` (`ImplementsChannel`), and the inductive invariant `PipeInv` | four events of one or two bytes, two-byte header, ring of seven |
| `rtmem` | `OneRequestUnderWay`, `RequestAnswered`, and what `used` counts (`UsedAccounts`) | three blocks, chunks of four units, four chunks, two failed reallocations |
| `tlsf` | `PoolsPhysical` (what `tlsf_check_pool` checks), `ListsAccurate` (`tlsf_check`), `ContentsKept`, `RefusedOnlyWhenFull`, the refinement of `Allocator` (`ImplementsAllocator`) | three owners (symmetric), pools of fourteen and five words, requests of two and five words, alignment two |
| `host` | `PortBufferInOrder`, `SourceOrderKept`, `ExactlyOnce`, `NothingDueLeft`, `UplinkFlushed` | three events, three cycles of two frames, time stamps before, in and after them, a port buffer of two |
| `net_tx` | `InOrderUntilDoubled`, `InFlightKept`, `AllSent`: a second round of the send loop is all that can go wrong | four events, ring of seven, wakeups at any time; a doubled loop is followed for eight bytes |
| `lua` | of `Modules`: `ListsHoldTheLiving`, `RespondersHaveTargets`, `OnlyForgottenMisused`, `ShutdownGivesBack`; of `Bundles`: `ShallowAsCalled`, `BufferIsOpenBundles`, whatever call is invalid or too long | an input whose `add` may fail, a loopback and an uplink, or two uplinks, so that the walk over them has somewhere to go on to; one child entry each, two events in the host queue; bundles of three levels, nine calls, two messages |
| `lifecycle` | `DeinitAtMostOnce`, `ProcessHasWhatItUses`, `StopReturns`, `StartSettles` | every step but those of `asio` and the array may fail, a net module, three requests to stop or shutdowns of JACK, with and without a session manager |
| `uplink` | `ViewFollowsGraph`, `AnsweredIfItFits` | two uplinks, two ports, one connection, pipes of one question and two answers, a list of two does not fit, two questions, two changes by other clients |
| `devices` | `CvThrough`, `MidiThrough`; `ReplayKeepsIntervals`, `OnlyRefusedMissing` | three periods of three frames, delays of none, two and four frames, three MIDI events; three recorded events of three or four bytes, messages and bundles, two periods each, a player's pipe of ten bytes that a large record does not fit into behind another |
| `net_tx_load`, `bundles_deep`, `modules_exit` | disagreements, below | the smallest that show them |

The bounds are enough for what they are to show. A ring of seven holds two small
events but not two large ones, so it is full, wraps around within an event and
refuses events; four events let the ring wrap and a burst meet a backlog. Three
chunks beyond the first let the request be made, answered and made again, with
failures between. Three owners can hold the blocks before, at and behind the one
that is freed or grown, so that merging takes place with neither, either and
both neighbours; fourteen words reach size classes that hold more than one size,
and the small pool can be filled and removed while the other has live blocks.
Three events are needed for two that are queued and a third that overtakes them
(late, immediate, from a callback, or looped back); three cycles let an event be
scheduled, looped back and written. Nine calls are three nested bundles with a
message in the innermost, an invalid call and one behind them. A loopback is both
target and source of events, so that with an input and an uplink every pair of an
event's source and target occurs, collected in every order; a second uplink gives
the walk a module that is before the one it stands at and one that is after it. A
list that fits has one entry, so that the list of all ports is answered after one
of them has gone, and not before. Three requests to stop are any of the signals
and JACK's shutdown, before and after the first of them is served. Delays of four
frames reach over a whole period of three.

Deadlock is not checked: bounded runs end where their bounds are used up, a host
that has returned stops, and the one wait that is a hazard, the consumer's loop
in `Pipe`, is the subject of `SpinEnds`.

### Fairness

Fairness is assumed where the code's scheduling gives it: a thread inside
`produce` or `consume` runs on, `process_out` reaches its flush, libuv calls the
callback of a signalled handle, JACK calls the process callback again, the
stream calls back. In `Lifecycle` the main thread and the net thread run, a cycle
of JACK ends, and a session manager answers (whether it opens or refuses is
its choice; `StartSettles` excepts a refusal, which the code prints and then waits on,
the FIXME of `tjost_nsm.c:177`). In `Uplink` the three threads run. All of it is
weak fairness.

One of these assumptions deserves a warning. `SpinEnds` needs that the
producer gets to run while the consumer spins in lines 89-107. When the consumer
is the real-time thread, with real-time priority on a single core, and it has
preempted a main thread between lines 66 and 68, nothing in the code justifies
that. No fairness is assumed for allocation, for new events, for changes of the
graph or for failures.

### What the runs refute

* `net_tx_load`: a wakeup that meets a packet on its way reads the payload of that
  packet as a header (`mod_net.c` 130, 141, 244). `process_out` even wakes the
  sender when the events in its queue are all due later (296).
* `bundles_deep`: one `module->itm` serves all levels of bundles (`tjost_lua.c` 242,
  262). With three of them the end of the middle one fills the slot of the innermost
  again, with a length that is too long, and leaves its own empty.
* `modules_exit`: the entry of a bundle that was begun and not ended (`tjost_lua.c`
  243), and the child entry of an output or an uplink, which `tjost.plugin`
  makes when its second argument is a module (677-679), are given
  back by no `__gc` (436-440, 484-488), so that a pool is removed with a block
  in use, against the assertion of `tlsf.c` 826.

## Deviations the models contain

The models follow the code where it does something its author can hardly have
meant. The properties except these cases by name, or their assumptions do.

* `tjost.c` 188, 243: `mmap` is tested against NULL, but failure is `MAP_FAILED`.
  `RtMem` has it as a mapping that yields no memory (`MapFaults`).
* `tjost.c` 285: `tjost_realloc` does not restore the count of a block that
  could not be resized. `UsedAccounts` allows exactly this error.
* `tjost.c` 337: in the period before the frame time wraps around (a day at 48 kHz)
  nothing is due, immediate events included; events stamped in that last period
  are then late by the whole range. What a port holds from that period on waits
  until its frame comes round again, an immediate event too, and is then behind
  events that were made after it. The `host` run does not reach the wrap; the
  theorems about `Host` include it, and where they must except it they say so.
* `mod_loopback.c` 42, 45: the period is added twice for a late event.
* `mod_net.c` 244: once a wakeup has met a packet on its way, `InOrderUntilDoubled`,
  `InFlightKept` and `AllSent` say nothing of what follows (`doubled`).
* `tjost_lua.c` 242, 262: nothing is said of packets with three levels of bundles
  (`ShallowAsCalled`), only that they spoil no other.
* `tjost.c` 349-379: children, events in the queue and the place in the walk are
  references that Lua does not see; what is collected while one of them leads to it
  is read and written after its end (`OnlyForgottenMisused`).
* `tjost_lua.c` 243, 677-679: what `modules_exit` shows. `ShutdownGivesBack`
  excepts it, and what a failed `add` leaves behind (687-691).
* `mod_net_in.c` 173: a net module whose thread cannot be made gets into the host's
  list although Lua is about to collect it; `ListsHoldTheLiving` excepts it.
* `mod_write.c` 151: what is still in the recorder's pipe when the module is deleted
  does not get into the file (`StartPlaying`).
* `mod_write.c` 91, `mod_read.c` 91: the recorder writes any packet, the reader
  takes messages only. `OnlyRefusedMissing` excepts bundles, and records of nearly
  the largest size, which are lost because the header was not counted (`RoomForAny`).
* `mod_read.c` 77: the turn that finds the end of the file uses a time and a size
  that were not assigned (`ReadEnd`).
* `tjost_uplink.c` 73, 131: an answer is listed before and pushed after a notification
  that it contradicts. `ViewFollowsGraph` excepts the port or connection that
  changed, for the script that asked (`overtaken`).
* `tjost_uplink.c` 99, 110, 159, 171: an answer that exceeds the buffer is not sent
  (`AnsweredIfItFits` counts it).
* `tjost_uplink.c` 247: two threads write to `buf_rx` (`met`).
* `tjost_uplink.c` 262: a port that is gone before its name is looked up is not
  reported (`missed`).
* `tjost.c` 551: a start that fails early makes the shutdown close handles that were
  never initialised; libuv gives up (`StartSettles` excepts it).
* `tjost.c` 431: JACK's shutdown callback is registered before the handle it signals
  is initialised (497); JACK going down in between ends the program (`crashed`, which
  `StartSettles` excepts).

Seen in the same reading, and in no model: `mod_timer.c` 117 stops its timer and
never closes it; several `del` free the memory of a handle right after
`uv_close` (`mod_send.c` 304); `mod_write.c` 99-103 reports that a
flush failed after every flush; `mod_rtmidi_out.c` 58 and `mod_seq_out.c` fall through to
`osc_skip` after a MIDI argument, so that the next one is lost; `mod_serial.c` 159
uses its send buffer again while a write may be under way; `mod_net.c` 147-170
computes a time stamp that is never sent; `mod_send.c` 113 uses the last token
again for a missing argument; `tjost_uplink.c` 83-95 builds a format string
without a bound; `mod_midi_in.c` 88-90 copies three bytes whatever the size.

## The proofs

For every value of the constants, TLAPS proves:

**`PipeProofs`.** `PipeInvariant`: `Spec => []PipeInv`. `InOrderAndIntact` is not
inductive by itself: that the consumer finds a header where it looks for one
depends on where the producer puts headers. `PipeInv` adds `Layout` (accepted
events lie one behind the other in the stream), `Room` (what is still to be
written fits) and `ReaderAt` (where the consumer stands for each program counter,
and that the bytes it has checked for are still there).
`PipeInOrderAndIntact` and `PipeNoShortCopy` follow. `PipeNoLostWakeup` needs one
more invariant: that a sleeping consumer, without signal or due flush, faces
less than a header; a complete stream with less than a header left is empty.
`PipeImplementsChannel`: publishing the last byte of an event is `Send`, the end
of `ConsumeRead` is `Receive`, every other step is a stutter. All of it holds for
the polled pipe (`Listening` false) as well, which no run instantiates.

**`RtMemProofs`.** `RtMemOneRequest`: flag, signal and ring stay in step, so that no burst of allocations asks twice and `rb_rtmem` cannot
overflow, with failing `mmap` and `tjost_realloc` included. The inductive invariant is
`RequestInv`, which adds no more than the types. `RtMemAccounts` (`UsedAccounts`) compares a counter with a sum
over all blocks, which `RtMem` writes as a fold; a first part of the module shows
of such folds that they exist, do not depend on the order of the elements, and
change by the difference when the value of one element changes. It needs that the
blocks are finitely many (`BlockAssumption`): memory is.

**`HostProofs`.** `HostInvariant` establishes `HostInv`, from which `PortsInOrder`
(`PortBufferInOrder`) and `UplinkIsFlushed` (`UplinkFlushed`) follow. That a port's
frames ascend is not inductive: the next frame comes from the queue, after late
events have been moved to the start of the period. `QueuesInv` says that the
queues ascend, and rests on the lemmas about `SortedInsert`, whose place is the
maximum of a set of indices (`Largest`); `PortsInv` that what a port has
written in this cycle is not behind anything that waits in its queue, once both
are clamped; `UplinkInv` that the counter of a cycle counts what is in the pipe.
The wrap of the frame time is included.

Four theorems follow events through all queues. `EntriesAreEvents`: every entry of
a queue or a buffer is an event that was made (`IdsInv`). `EventsOnce`
(`ExactlyOnce`) counts the copies of an event in the host's queue, the port's
queue, its buffer and its overflows: `Next` takes one copy from one place and puts
it into another, which the lemmas about `SortedInsert`, `Head` and `Tail` say of
the cardinalities, and while a fan-out is under way those children that are
still to get the event are those in `pend`. `NothingDueIsLeft` (`NothingDueLeft`)
relates how far the walk through the outputs has come to what can be left behind
it: a loopback puts its events into the queue only for a later cycle, and what is
broadcast reaches ports behind the walk only late. `EventsInOrder` has a hypothesis,
`Spec /\ []Unwrapped => []SourceOrderKept`: `Unwrapped` says that the period does
not end behind the last frame time. Without it the property is false of the
model and of the code: TLC finds an immediate event in the period of the wrap that
is overtaken (`Period` 3, `TimeMod` 7, start at 5). With it, events of one source lie in
the order of their making wherever their times do not say otherwise, and a time
that was clamped is that of the cycle in which the event left the host's queue.

The last part of the module is about `Lifecycle`. `LifecycleInv` relates the program
counter to what is open: during the start the steps that are done are a prefix of
`Steps` and JACK is active only in the loop (`StartInv`), the teardown is entered once
and leaves no handle whose callback would enter it again (`TornInv`), and a cycle
runs only until `jack_deactivate` returns (`ProcessInv`). `DeinitAtMostOnce` and
`ProcessHasWhatItUses` follow, whichever steps fail and however many signals come.

**`NetTxProofs`.** `NetTxInvariant`: as long as no wakeup has met a packet on its way
and taken bytes off the ring, reader and writer agree on where headers are
(`LayoutInv`, `WriterInv`, `ReaderInv`), and what has left is a prefix of what was
accepted (`SentInv`). Nothing is assumed about wakeups: `UntilDoubled` is inductive
because every step either keeps these or sets `doubled`, which nothing clears; the
work is in showing that a wakeup at a packet on its way that takes nothing off does
no harm. `NetTxInOrder` (`InOrderUntilDoubled`) and `NetTxInFlightKept` (`InFlightKept`)
follow, and with the run `net_tx_load` say that the second round of the loop
is the only way to lose the order, and that it is one.

**`LuaProofs`.** `ModulesInv` is the type invariant with `ListsHoldTheLiving` and
what the others rest on: the main loop is within an event only while there is one
(`StageInv`), what the script, its responders and the one that runs hold is alive
(`HeldInv`), targets are outputs (`TargetsInv`), a module not yet made has no
children (`FreshInv`), what is to be given back belongs to a module that
`lua_close` will delete (`OwnedInv`), and every reference of C leads to what is alive,
what failed, or what was deleted while C had a reference to it (`KnownInv`). The four
properties of the run `lua` about it follow, for any number of modules and any kinds, any
script, and a collector that runs at any step of one. `OnlyReferencesMislead`
(`OnlyForgottenMisused`) has no hypothesis about scripts: that a script is safe which keeps
its uplinks, what it chained and what puts out events is a consequence of it.

The second half of the module is about `Bundles`. `BundlesInv` says which texts are in
the buffer: nothing, one bundle with the items `a` (`Whole(a)`), or in it, behind
its items, a slot and a second bundle with the items `b` (`Inner(a) \o b`), with
`bndls` and `itm` where those headers and that slot are, unless `ptr` is NULL; or a
third level has been begun (`DeepOpen`), of which it says nothing until the outermost
bundle ends. That an end turns the one text into the other, its slot filled with the
right length, are the lemmas `OutermostEnded`, `InnerEmptyEnded`, `InnerEnded`.
`PacketsRight` (`ShallowAsCalled`) and `BufferRight` (`BufferIsOpenBundles`) follow for
any messages, any number of calls and any depth: packets of up to two levels are
right, also when deeper ones came before them.

**`TlsfProofs`.** All four invariants of the run `tlsf` and the refinement, for any memory,
pools, owners, requests, alignments and number of size classes. None of them is
inductive: each asks the heap a question through a walk or a list that another
word of the heap may lead astray. `TlsfInv` says instead what is there. There are
blocks `S` with sizes `Z`, those of `F` free (`Holds`), such that

* `Tiles`: the first block of a pool begins where the pool does, every block ends
  where the next one or the pool's sentinel begins, and `S` is nothing else;
* `Tags`: every size word says the size, whether the block is free and whether the
  one before is; behind a free block is the link back to it;
* `Lists`: heads, links and both levels of bitmaps agree, every listed block is in
  the list of its class, and a number `R[b]` falls along each list, so that
  no list runs in a circle;
* `Kept`: the words that owners have written are still theirs and still there;
* no two free blocks are neighbours, and the blocks in use are those that the owners
  hold, each by one owner (`Owned`);
* if the last call was refused, no free block reached the class it asked for.

The first four make up `Rep`, which is also what holds *within* a call, where some
of it is not so: its parameters say which blocks are flagged free, which ones the
next block takes for free, which ones have a link back, and which ones are in a
list. Between calls all four are `F` (`Good`); while a block is merged and split
one is in no list (`Loose`). One lemma per operator of `Tlsf` says how it changes
these sets (`RepMarkFree`, `RepRemove`, `RepInsert`, `LooseMergePrev`, `Divide`, ...), and
the lemmas about the calls (`MallocHeap`, `MemalignHeap`, `FreeHeap`, `ReallocHeap`,
`AddPoolHeap`, `RemovePoolHeap`) compose them in the order of the source. Below are lemmas about
writes (`WritesOnly`), about distances between blocks (`Spaced`), and
about the arithmetic of classes: `tlsf_fls` finds the highest bit, `mapping_insert` stays in
`Class`, and a block of the class that `mapping_search` rounds up to, or of a higher one, is
large enough (`Search`).

`TlsfInvariant` is that `TlsfInv` is inductive. No run evaluates it, for `S`, `Z`, `F` and `R` cannot
be enumerated; what TLC checks is what follows. `ContentsAreKept` and `RefusedWhenFull` are
read off it. For `PoolsArePhysical` the walk, a recursive function, is shown to exist
and to visit the blocks one after the other; as every step either moves on or
stays at the sentinel, it has arrived after as many steps as the pool has words.
For `ListsAreAccurate`, `Listed` is shown to be the blocks of the class (`ListVisits`):
what it meets is of the class because links stay in it; it comes to an end
because `R` falls and there are no more blocks than addresses; and it misses none
because a missed block with the highest `R` would have a `prev_free` that is not missed.
`AllocatorImplemented`: each call changes the block of at most one owner (`StepHolds`),
blocks lie apart, so that a region is always given from words nobody holds.

Three assumptions carry it. `HeapAssumption` gives the constants their types and puts pools
inside the memory; alignments are powers of two. `PoolAssumption`: pools do not overlap.
`RequestAssumption`: requests, rounded up, stay below `block_size_max`.

**`UplinkProofs`.** `ScriptsFollowGraph`: `Spec => []ViewFollowsGraph`. `UplinkInv` has two
parts besides the types. The notifications under way are *settled* (`NotesInv`):
the last one about a port or a connection says what is so in the graph. And a
script that hears, in this order, all that is under way to it (`End`, a fold)
*agrees* with the graph on whatever it has asked about (`ViewInv`), but for what was
`overtaken`, and as long as the two writers of the buffer have not met and no message
was missed. The events under way include the answer that is listed and not yet
pushed: an answer may be listed while older notifications are still to come; they are
settled, so that hearing them after the answer leaves a script where the answer
brought it (`SettledLeads`, `PortsHeard`, `WiresHeard`). A notification pushed before an
answer that is under way changes places with it: a script may then hear the two the
other way round, and the pictures are *alike* but for the one item, if the answer
lists it and tells otherwise (`Alike`).

**`DevicesProofs`.** For `Files`, `FilesInv`: the recorder's pipe goes on where the file ends, each
record with the interval of what was executed (`RecorderInv`); the player takes
each record of the file once and in order, except those it refuses (`TakenInv`); what
has been played and what waits in the player's pipe is what was taken, and perhaps
what the last turn of the reader makes up (`PlayedInv`). `ReplayIsFaithful`
(`ReplayKeepsIntervals`) and `OthersAreTaken` (`OnlyRefusedMissing`) follow for any sizes,
headers and pipes that are large enough or not: the room that the reader's loop asks
for is what makes a record of moderate size fit.

For `Ports`, two theorems about any period, samples, events, delay and buffer. They
rest on lemmas about functions defined by recursion over numbers (`RecursionExists`,
`UpTo`): the loops of `cv_in`, `midi_in` and `midi_out` are written that way. A queue in
the order of its times is split by the walk of `process_out` into what is due
and what is not before the next period (`DueSplits`).
`CvPassesThrough` (`CvThrough`): a queue *plays* a value at a frame, that of its last
event by then (`Playing`). What `cv_in` makes of a period plays the samples of the period
(`CvInHeard`), and `CvInv` says that the queue of `cv_out`, which begins with `cvOut`, plays
the samples that came in `delay` frames before, from `last` on (`CvQueueInv`).
`MidiPassesThrough` (`MidiThrough`): `midi_in` puts every event of a period into a message
not before its time and not after the period (`Grouped` is the loop's
invariant, `MidiInGroups` what it comes to); what the queue of `midi_out` will write
are the events that came in last, one after the other (`MidiQueueInv`), and what has been
written are events before those (`MidiOutInv`).

The assumptions are the named `ASSUME`s of the modules: sizes are naturals, the
header is not empty, wires connect ports, pools do not overlap, requests are less
than `block_size_max`, and so on. TLC evaluates them in the runs.

Only model-checked: the liveness properties (`SpinEnds`, `AcceptedIsDelivered`,
`RequestAnswered`, `AllSent`, `StopReturns`, `StartSettles`, `AnsweredIfItFits`),
which need fairness. Every other property of a passing run is a theorem here,
`SourceOrderKept` under the condition stated above.

## Not modelled

* The clocks of the net modules. Sending, the time stamp is computed and thrown
  away; receiving, `osc_unroll_packet` of libosc takes a packet apart, and its
  time becomes a frame by floating point arithmetic over three clocks.
* Payloads of the net pipe that are no OSC packets (`mod_net.c` 231): no input
  of the host makes one.
* `mod_transport`: a comparison and five assignments in a period. What it compares
  with at first was never initialised (line 55): a first state that happens to
  be equal is not told.
* Devices (`mod_serial`, `mod_seq_*`, `mod_rtmidi_*`), console and timer (`mod_dump`,
  `mod_send`, `mod_timer`): their pipes are instances of `Pipe`, their
  `process_out` is the loop `Host` has; the rest is drivers, formatting and a
  tokenizer for terminal input.
* `inlist/inlist.h`: no source file includes it; the program uses Eina's list.
* Conversion of arguments between Lua and OSC, the text of messages (including
  the buffer that all writers of `rb_msg` share), errors of the file system.
* Notifications of JACK's clients, which take the way of those of its ports.
* Allocation failure outside `RtMem` and `Tlsf`: `tjost.c` 104 writes through
  what `tjost_alloc` returned.
* Requests near `block_size_max` (4 GB), which `tlsf.c` 299-308 turns to 0 and
  `mapping_search` may round past the last class: `RequestAssumption` of `Tlsf`
  keeps requests below, as the program's are. Nor a pool of exactly that size, which
  `tlsf_add_pool` takes though the bitmaps have no class for it (`PoolAssumption`).
* The example patches, which are users of the program.
