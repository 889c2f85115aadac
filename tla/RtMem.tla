-------------------------------- MODULE RtMem --------------------------------
(***************************************************************************)
(* tjost.c:180-306: the real-time memory of the host.  The real-time       *)
(* thread allocates from TLSF pools and, when more than half of its memory *)
(* is in use, asks the main thread for another chunk: uv_async_send wakes  *)
(* tjost_request_memory, which maps a chunk and hands it back through the  *)
(* ring rb_rtmem; tjost_add_memory adds it at the start of a later cycle.  *)
(*                                                                         *)
(* TLSF itself is abstracted to what it gives out: a block of some size    *)
(* that fits into what the pools have left, or nothing, which may happen   *)
(* as soon as one live block fragments a pool.                             *)
(***************************************************************************)
EXTENDS Integers, Sequences, FiniteSets, FiniteSetsExt, Functions

CONSTANTS Block,       \* names of the blocks that may be live at a time
          BlockSizes,  \* what tlsf_block_size may say of a block
          AreaSize,    \* area_size, the bytes of one chunk
          RingSlots,   \* chunk pointers that fit into rb_rtmem
          SizeMax,     \* 2^64: size_t wraps around there
          MapFaults,   \* mmap may fail
          MaxSum,      \* bound: rtmem_sum at which no further chunk is asked for
          MaxFails     \* bound: failed calls of tjost_realloc

ASSUME SizesAssumption == BlockSizes \subseteq Nat \ {0} /\ AreaSize \in Nat \ {0}
ASSUME BlockAssumption == IsFiniteSet(Block)
ASSUME RingAssumption == RingSlots \in Nat \ {0}
ASSUME LimitAssumption == /\ SizeMax \in Nat \ {0} /\ MaxSum \in Nat /\ MaxFails \in Nat
                          /\ MapFaults \in BOOLEAN

VARIABLES size,   \* tlsf_block_size of every block, 0 when it is not live
          used,   \* the static counter used; negative: size_t has wrapped
          sum,    \* host->rtmem_sum
          pool,   \* bytes the TLSF pools really have
          flag,   \* host->rtmem_flag
          async,  \* host->rtmem is signalled
          ring,   \* chunks in rb_rtmem; TRUE: its area was really mapped
          lost,   \* bytes of live blocks that used no longer counts
          fails   \* failed calls of tjost_realloc

vars == <<size, used, sum, pool, flag, async, ring, lost, fails>>

LiveBytes == FoldFunction(+, 0, size)
Live == {b \in Block : size[b] > 0}

AsSize(u) == IF u < 0 THEN u + SizeMax ELSE u

\* _tjost_init maps the first chunk and makes it the first pool.
Init == /\ size = [b \in Block |-> 0] /\ used = 0
        /\ sum = AreaSize /\ pool = AreaSize
        /\ flag = 0 /\ async = FALSE /\ ring = << >>
        /\ lost = 0 /\ fails = 0

-----------------------------------------------------------------------------
(* The real-time thread. *)

\* Mutant of NeedsMore: a second request may go out before the first is answered.
NeedsMoreNoFlag(u) == AsSize(u) > sum \div 2

\* Lines 271 and 292: more than half in use, and no request under way.
NeedsMore(u) == flag = 0 /\ AsSize(u) > sum \div 2

\* The common end of tjost_alloc and tjost_realloc, used having become u.
Account(u) ==
    /\ NeedsMore(u) => sum < MaxSum
    /\ used' = u
    /\ flag' = IF NeedsMore(u) THEN 1 ELSE flag
    /\ async' = (async \/ NeedsMore(u))

\* tlsf_malloc finds room for n bytes besides the blocks in Live \ B.
Fits(n, B) == MapThenSumSet(LAMBDA b : size[b], Live \ B) + n <= pool

MayFail(B) == Live \ B # {} \/ \E n \in BlockSizes : ~Fits(n, B)

\* tjost_alloc
Alloc(b, n) == /\ size[b] = 0 /\ Fits(n, {})
               /\ size' = [size EXCEPT ![b] = n]
               /\ Account(used + n)
               /\ UNCHANGED <<sum, pool, ring, lost, fails>>

\* tjost_alloc without memory: the caller is told and gets NULL.
AllocFail == /\ MayFail({})
             /\ Account(used)
             /\ UNCHANGED <<size, sum, pool, ring, lost, fails>>

\* Mutant of Realloc: the old size of the block stays counted.
ReallocTwice(b, n) ==
    /\ size[b] > 0 /\ (n <= size[b] \/ Fits(n, {b}))
    /\ size' = [size EXCEPT ![b] = n]
    /\ Account(used + n)
    /\ UNCHANGED <<sum, pool, ring, lost, fails>>

\* tjost_realloc, in place or by moving the block.
Realloc(b, n) == /\ size[b] > 0 /\ (n <= size[b] \/ Fits(n, {b}))
                 /\ size' = [size EXCEPT ![b] = n]
                 /\ Account((used - size[b]) + n)
                 /\ UNCHANGED <<sum, pool, ring, lost, fails>>

\* tjost_realloc without memory: tlsf_realloc keeps the old block, whose size
\* line 285 has already subtracted.
ReallocFail(b) == /\ size[b] > 0 /\ fails < MaxFails /\ MayFail({b})
                  /\ Account(used - size[b])
                  /\ lost' = lost + size[b]
                  /\ fails' = fails + 1
                  /\ UNCHANGED <<size, sum, pool, ring>>

\* tjost_free
Free(b) == /\ size[b] > 0
           /\ used' = used - size[b]
           /\ size' = [size EXCEPT ![b] = 0]
           /\ UNCHANGED <<sum, pool, flag, async, ring, lost, fails>>

\* Mutant of AddMemory: the flag is not reset.
AddMemoryKeepFlag ==
    /\ ring # << >>
    /\ ring' = Tail(ring)
    /\ pool' = pool + (IF Head(ring) THEN AreaSize ELSE 0)
    /\ sum' = sum + AreaSize
    /\ UNCHANGED <<size, used, flag, async, lost, fails>>

\* tjost_add_memory, at the start of _process.  tlsf_add_pool refuses the area
\* of a failed mmap, (void *)-1, which is not aligned; its result goes unread.
AddMemory ==
    /\ ring # << >>
    /\ ring' = Tail(ring)
    /\ pool' = pool + (IF Head(ring) THEN AreaSize ELSE 0)
    /\ sum' = sum + AreaSize
    /\ flag' = 0
    /\ UNCHANGED <<size, used, async, lost, fails>>

-----------------------------------------------------------------------------
(* The main thread. *)

\* tjost_request_memory.  A failed mmap returns MAP_FAILED, which the test for
\* NULL in tjost_map_memory_chunk takes for a mapping: the chunk is passed on.
RequestMemory(mapped) ==
    /\ async
    /\ async' = FALSE
    /\ ring' = IF Len(ring) < RingSlots THEN Append(ring, mapped) ELSE ring
    /\ UNCHANGED <<size, used, sum, pool, flag, lost, fails>>

-----------------------------------------------------------------------------
Outcomes == IF MapFaults THEN BOOLEAN ELSE {TRUE}

Request == \E mapped \in Outcomes : RequestMemory(mapped)

Next == \/ \E b \in Block, n \in BlockSizes : Alloc(b, n) \/ Realloc(b, n)
        \/ AllocFail
        \/ \E b \in Block : ReallocFail(b) \/ Free(b)
        \/ AddMemory
        \/ Request

Spec == Init /\ [][Next]_vars

\* libuv runs the callback of a signalled handle, JACK calls _process.
FairSpec == Spec /\ WF_vars(Request) /\ WF_vars(AddMemory)

-----------------------------------------------------------------------------
(* Properties. *)

\* The types of the variables.
TypeOK == /\ size \in [Block -> Nat] /\ used \in Int
          /\ sum \in Nat /\ pool \in Nat /\ lost \in Nat /\ fails \in Nat
          /\ flag \in {0, 1} /\ async \in BOOLEAN /\ ring \in Seq(BOOLEAN)

\* rtmem_flag is raised exactly while one request is under way, as a signal or
\* as a chunk in the ring, never both and never twice: a burst of allocations
\* between two cycles asks once, and rb_rtmem cannot overflow.
OneRequestUnderWay ==
    /\ flag = 0 => ~async /\ ring = << >>
    /\ flag = 1 => (async /\ ring = << >>) \/ (~async /\ Len(ring) = 1)

\* used counts the live bytes but for those of blocks whose tjost_realloc failed.
UsedAccounts == used + lost = LiveBytes

\* Every request for memory is answered and the flag lowered again.
RequestAnswered == flag = 1 ~> flag = 0

-----------------------------------------------------------------------------
(* The invariant behind OneRequestUnderWay. *)
RequestInv == TypeOK /\ OneRequestUnderWay
=============================================================================
