-------------------------------- MODULE Tlsf ---------------------------------
(***************************************************************************)
(* tlsf.c: the allocator under tjost_alloc, word by word.  The memory is a *)
(* function from addresses to words, and every helper of the source that   *)
(* writes to it is an operator from a heap to the heap it leaves behind.   *)
(* Sizes and addresses are counted in words of ALIGN_SIZE bytes, which     *)
(* every size and address in the source is a multiple of; the lower two    *)
(* bits of a size word are the flags.  A block at b has                    *)
(*   b      prev_phys_block, the last word of the block before             *)
(*   b + 1  size and flags                                                 *)
(*   b + 2  next_free, or the first word the caller gets                   *)
(*   b + 3  prev_free                                                      *)
(* so a caller's words may turn into any of the fields, and what they held *)
(* before is what the source finds there.                                  *)
(***************************************************************************)
EXTENDS Integers, FiniteSets, FiniteSetsExt

CONSTANTS Owner,      \* who may hold a block
          Pool,       \* pools tlsf_add_pool may be called with
          PoolAt,     \* the first address of every pool
          PoolWords,  \* its length
          Top,        \* the last address of the memory
          SlLog2,     \* SL_INDEX_COUNT_LOG2
          FlMax,      \* the last first-level index, FL_INDEX_COUNT - 1
          Requests,   \* lengths asked for
          Aligns      \* alignments asked for of tlsf_memalign

\* Powers of two, which the source makes by shifting.
pow2[i \in Nat] == IF i = 0 THEN 1 ELSE 2 * pow2[i - 1]

ASSUME HeapAssumption ==
    /\ SlLog2 \in Nat /\ FlMax \in Nat /\ Top \in Nat
    /\ Requests \subseteq Nat /\ Aligns \subseteq {pow2[i] : i \in 0..Top}
    /\ PoolAt \in [Pool -> 4..Top] /\ PoolWords \in [Pool -> Nat]
    /\ \A p \in Pool : PoolAt[p] + PoolWords[p] <= Top + 1

VARIABLES heap,    \* the words, the heads of the free lists and the bitmaps
          added,   \* pools that are in use
          block,   \* the block of every owner, Null when it has none
          filled,  \* how many of its words the owner has written
          refused  \* the words the last call could not be given, 0 if it was served

vars == <<heap, added, block, filled, refused>>

Null == 0          \* control->block_null
SlCount == pow2[SlLog2]
Class == (0..FlMax) \X (0..SlCount - 1)

Overhead == 1      \* block_header_overhead
Header == 4        \* sizeof(block_header_t)
MinSize == 3       \* block_size_min
BlockMax == pow2[FlMax + SlLog2]   \* block_size_max

\* Pools are areas of their own, and none is of block_size_max exactly, which
\* tlsf_add_pool takes but the bitmaps have no class for: 4 GB.
ASSUME PoolAssumption ==
    /\ \A p, q \in Pool : p # q =>
         PoolAt[p] + PoolWords[p] <= PoolAt[q] \/ PoolAt[q] + PoolWords[q] <= PoolAt[p]
    /\ \A p \in Pool : PoolWords[p] - 2 * Overhead # BlockMax

Data == 0 - 1      \* a word an owner has written: all its bits are set

-----------------------------------------------------------------------------
(* Fields of a block. *)

Put(h, a, w) == [h EXCEPT !.mem[a] = w]

block_size(h, b) == h.mem[b + 1] \div 4
block_is_free(h, b) == h.mem[b + 1] % 2 = 1
block_is_prev_free(h, b) == (h.mem[b + 1] \div 2) % 2 = 1

Flags(h, b) == h.mem[b + 1] % 4
WithFlags(h, b, free, prevFree) ==
    Put(h, b + 1, 4 * block_size(h, b) + (IF free THEN 1 ELSE 0) + (IF prevFree THEN 2 ELSE 0))

block_set_size(h, b, n) == Put(h, b + 1, 4 * n + Flags(h, b))
block_set_free(h, b) == WithFlags(h, b, TRUE, block_is_prev_free(h, b))
block_set_used(h, b) == WithFlags(h, b, FALSE, block_is_prev_free(h, b))
block_set_prev_free(h, b) == WithFlags(h, b, block_is_free(h, b), TRUE)
block_set_prev_used(h, b) == WithFlags(h, b, block_is_free(h, b), FALSE)

block_next(h, b) == b + 2 + (block_size(h, b) - Overhead)

block_link_next(h, b) == Put(h, block_next(h, b), b)

\* Mutant of block_mark_as_free: the next block is not told.
MarkFreeSilently(h, b) == block_set_free(block_link_next(h, b), b)

block_mark_as_free(h, b) ==
    LET linked == block_link_next(h, b)
    IN  block_set_free(block_set_prev_free(linked, block_next(h, b)), b)

block_mark_as_used(h, b) == block_set_used(block_set_prev_used(h, block_next(h, b)), b)

-----------------------------------------------------------------------------
(* Size classes and free lists. *)

align_up(n, align) == ((n + align - 1) \div align) * align

adjust_request_size(n, align) ==
    IF n = 0 \/ n >= BlockMax THEN 0 ELSE Max({align_up(n, align), MinSize})

tlsf_fls(n) == CHOOSE i \in 0..n : pow2[i] <= n /\ n < pow2[i + 1]

mapping_insert(n) ==
    IF n < SlCount THEN <<0, n>>
    ELSE LET fl == tlsf_fls(n)
         IN  <<fl - (SlLog2 - 1), n \div pow2[fl - SlLog2] - SlCount>>

\* A request is rounded up to the next class, all of whose blocks suffice.
RoundUp(n) == IF n < SlCount THEN n ELSE n + pow2[tlsf_fls(n) - SlLog2] - 1

mapping_search(n) == mapping_insert(RoundUp(n))

\* What tlsf_memalign looks for, so that n words fit behind an aligned address.
Widened(n, align) == adjust_request_size(adjust_request_size(n, 1) + align + Header, align)

\* Requests are far below block_size_max, and their class is one the bitmaps have.
ASSUME RequestAssumption ==
    /\ \A n \in Requests : n < BlockMax /\ RoundUp(adjust_request_size(n, 1)) < BlockMax
    /\ \A n \in Requests, align \in Aligns :
         /\ adjust_request_size(n, 1) + align + Header < BlockMax
         /\ RoundUp(Widened(n, align)) < BlockMax

\* Mutant of search_suitable_class: the next first-level list is skipped.
SearchSkipsOne(h, c) ==
    LET sl_map == {s \in h.sl[c[1]] : s >= c[2]}
        fl_map == {f \in h.fl : f > c[1] + 1}
    IN  IF sl_map # {} THEN {<<c[1], Min(sl_map)>>}
        ELSE IF fl_map # {} THEN {<<Min(fl_map), Min(h.sl[Min(fl_map)])>>}
        ELSE {}

\* The first class from c on whose bit is set, by the two levels of bitmaps.
search_suitable_class(h, c) ==
    LET sl_map == {s \in h.sl[c[1]] : s >= c[2]}
        fl_map == {f \in h.fl : f > c[1]}
    IN  IF sl_map # {} THEN {<<c[1], Min(sl_map)>>}
        ELSE IF fl_map # {} THEN {<<Min(fl_map), Min(h.sl[Min(fl_map)])>>}
        ELSE {}

\* Mutant of remove_free_block: the bit of an emptied list stays set.
RemoveKeepBit(h, b, c) ==
    LET prev == h.mem[b + 3]
        next == h.mem[b + 2]
        back == IF next = Null THEN h ELSE Put(h, next + 3, prev)
        unlinked == IF prev = Null THEN back ELSE Put(back, prev + 2, next)
    IN  IF h.head[c] # b THEN unlinked ELSE [unlinked EXCEPT !.head[c] = next]

\* The links of block_null are written in the source too, and never read.
remove_free_block(h, b, c) ==
    LET prev == h.mem[b + 3]
        next == h.mem[b + 2]
        back == IF next = Null THEN h ELSE Put(h, next + 3, prev)
        unlinked == IF prev = Null THEN back ELSE Put(back, prev + 2, next)
        sl == h.sl[c[1]] \ {c[2]}
    IN  IF h.head[c] # b THEN unlinked
        ELSE IF next # Null THEN [unlinked EXCEPT !.head[c] = next]
        ELSE [unlinked EXCEPT !.head[c] = next, !.sl[c[1]] = sl,
                              !.fl = IF sl = {} THEN @ \ {c[1]} ELSE @]

insert_free_block(h, b, c) ==
    LET current == h.head[c]
        linked == Put(Put(h, b + 2, current), b + 3, Null)
        back == IF current = Null THEN linked ELSE Put(linked, current + 3, b)
    IN  [back EXCEPT !.head[c] = b, !.fl = @ \cup {c[1]}, !.sl[c[1]] = @ \cup {c[2]}]

block_remove(h, b) == remove_free_block(h, b, mapping_insert(block_size(h, b)))
block_insert(h, b) == insert_free_block(h, b, mapping_insert(block_size(h, b)))

-----------------------------------------------------------------------------
(* Splitting and merging. *)

block_can_split(h, b, n) == block_size(h, b) >= Header + n

SplitAt(b, n) == b + 2 + (n - Overhead)

\* The remainder is at SplitAt(b, n).
block_split(h, b, n) ==
    LET r == SplitAt(b, n)
        sized == block_set_size(h, r, block_size(h, b) - (n + Overhead))
    IN  block_mark_as_free(block_set_size(sized, b, n), r)

block_absorb(h, prev, b) ==
    LET grown == block_set_size(h, prev, block_size(h, prev) + block_size(h, b) + Overhead)
    IN  block_link_next(grown, prev)

\* The block that is left starts at MergedAt(h, b).
MergedAt(h, b) == IF block_is_prev_free(h, b) THEN h.mem[b] ELSE b

block_merge_prev(h, b) ==
    IF block_is_prev_free(h, b) THEN block_absorb(block_remove(h, h.mem[b]), h.mem[b], b) ELSE h

block_merge_next(h, b) ==
    LET next == block_next(h, b)
    IN  IF block_is_free(h, next) THEN block_absorb(block_remove(h, next), b, next) ELSE h

block_trim_free(h, b, n) ==
    IF ~block_can_split(h, b, n) THEN h
    ELSE LET r == SplitAt(b, n)
             split == block_link_next(block_split(h, b, n), b)
         IN  block_insert(block_set_prev_free(split, r), r)

block_trim_used(h, b, n) ==
    IF ~block_can_split(h, b, n) THEN h
    ELSE LET r == SplitAt(b, n)
             split == block_set_prev_used(block_split(h, b, n), r)
         IN  block_insert(block_merge_next(split, r), r)

\* The block behind the gap is at SplitAt(b, n - Overhead).
block_trim_free_leading(h, b, n) ==
    IF ~block_can_split(h, b, n) THEN h
    ELSE LET r == SplitAt(b, n - Overhead)
             split == block_set_prev_free(block_split(h, b, n - Overhead), r)
         IN  block_insert(block_link_next(split, b), b)

-----------------------------------------------------------------------------
(* The interface.  A result is the heap and the block in it, Null if none. *)

\* block_locate_free: the block is out of its free list, but not yet in use.
block_locate_free(h, n) ==
    LET found == IF n = 0 THEN {} ELSE search_suitable_class(h, mapping_search(n))
    IN  IF found = {} THEN [heap |-> h, block |-> Null]
        ELSE LET c == CHOOSE d \in found : TRUE
             IN  [heap |-> remove_free_block(h, h.head[c], c), block |-> h.head[c]]

\* Mutant of block_prepare_used: the block is given out without being marked.
PrepareStillFree(h, b, n) ==
    [heap |-> IF b = Null THEN h ELSE block_trim_free(h, b, n), block |-> b]

block_prepare_used(h, b, n) ==
    [heap |-> IF b = Null THEN h ELSE block_mark_as_used(block_trim_free(h, b, n), b), block |-> b]

tlsf_malloc(h, n) ==
    LET adjust == adjust_request_size(n, 1)
        found == block_locate_free(h, adjust)
    IN  block_prepare_used(found.heap, found.block, adjust)

\* The words in front of an aligned address: none, or enough for a block.
Gap(b, align) ==
    LET aligned == align_up(b + 2, align)
        gap == aligned - (b + 2)
    IN  IF gap > 0 /\ gap < Header
        THEN align_up(aligned + Max({Header - gap, align}), align) - (b + 2)
        ELSE gap

tlsf_memalign(h, align, n) ==
    LET adjust == adjust_request_size(n, 1)
        found == block_locate_free(h, IF align <= 1 THEN adjust ELSE Widened(n, align))
        gap == Gap(found.block, align)
        lead == block_trim_free_leading(found.heap, found.block, gap)
    IN  IF found.block = Null \/ gap = 0
        THEN block_prepare_used(found.heap, found.block, adjust)
        ELSE block_prepare_used(lead, SplitAt(found.block, gap - Overhead), adjust)

tlsf_free(h, b) ==
    LET freed == block_mark_as_free(h, b)
        at == MergedAt(freed, b)
    IN  block_insert(block_merge_next(block_merge_prev(freed, b), at), at)

\* memcpy of n words from the block at b to the block at to.
Copy(h, b, to, n) ==
    [h EXCEPT !.mem = [a \in DOMAIN h.mem |->
        IF a \in to + 2..to + 1 + n THEN h.mem[a - to + b] ELSE h.mem[a]]]

\* Mutant of Moved: the old block is given back before its words are copied.
MovedLate(h, b, n) ==
    LET new == tlsf_malloc(tlsf_free(h, b), n)
    IN  IF new.block = Null THEN [heap |-> h, block |-> Null]
        ELSE [heap |-> Copy(new.heap, b, new.block, Min({block_size(h, b), n})), block |-> new.block]

\* Lines 1023-1029 of tlsf_realloc.
Moved(h, b, n) ==
    LET new == tlsf_malloc(h, n)
        copied == Copy(new.heap, b, new.block, Min({block_size(h, b), n}))
    IN  IF new.block = Null THEN new
        ELSE [heap |-> tlsf_free(copied, b), block |-> new.block]

\* tlsf_realloc of a live block to a length other than 0.
tlsf_realloc(h, b, n) ==
    LET next == block_next(h, b)
        cursize == block_size(h, b)
        combined == cursize + block_size(h, next) + Overhead
        adjust == adjust_request_size(n, 1)
        grown == IF adjust > cursize THEN block_mark_as_used(block_merge_next(h, b), b) ELSE h
    IN  IF adjust > cursize /\ (~block_is_free(h, next) \/ adjust > combined)
        THEN Moved(h, b, n)
        ELSE [heap |-> block_trim_used(grown, b, adjust), block |-> b]

\* tlsf_add_pool: one free block and the sentinel of size 0 behind it.
tlsf_add_pool(h, p) ==
    LET b == PoolAt[p] - Overhead
        words == PoolWords[p] - 2 * Overhead
        main == block_set_prev_used(block_set_free(block_set_size(h, b, words), b), b)
        linked == block_link_next(block_insert(main, b), b)
        next == block_next(linked, b)
    IN  block_set_prev_free(block_set_used(block_set_size(linked, next, 0), next), next)

tlsf_remove_pool(h, p) == block_remove(h, PoolAt[p] - Overhead)

-----------------------------------------------------------------------------
Init == /\ heap = [mem |-> [a \in 1..Top |-> 0], head |-> [c \in Class |-> Null],
                   fl |-> {}, sl |-> [f \in 0..FlMax |-> {}]]
        /\ added = {}
        /\ block = [o \in Owner |-> Null] /\ filled = [o \in Owner |-> 0] /\ refused = 0

\* A pool too small for a block, or too large, is refused: tlsf_add_pool returns 0.
AddPool(p) == /\ p \notin added
              /\ PoolWords[p] - 2 * Overhead \in MinSize..BlockMax
              /\ heap' = tlsf_add_pool(heap, p)
              /\ added' = added \cup {p} /\ refused' = 0
              /\ UNCHANGED <<block, filled>>

InPool(b, p) == b + 1 \in PoolAt[p]..PoolAt[p] + PoolWords[p] - 1

\* tlsf_remove_pool is for a pool in which no block is live.
RemovePool(p) == /\ p \in added
                 /\ \A o \in Owner : ~InPool(block[o], p)
                 /\ heap' = tlsf_remove_pool(heap, p)
                 /\ added' = added \ {p} /\ refused' = 0
                 /\ UNCHANGED <<block, filled>>

\* The owner writes the n words it has asked for.
Fill(h, b, n) ==
    [h EXCEPT !.mem = [a \in DOMAIN h.mem |-> IF a \in b + 2..b + 1 + n THEN Data ELSE h.mem[a]]]

\* What becomes of o's block after a call for n words that returned result.
Serve(o, n, result) ==
    /\ heap' = IF result.block = Null THEN result.heap ELSE Fill(result.heap, result.block, n)
    /\ block' = [block EXCEPT ![o] = result.block]
    /\ filled' = [filled EXCEPT ![o] = IF result.block = Null THEN 0 ELSE n]
    /\ UNCHANGED added

Malloc(o, n) == LET result == tlsf_malloc(heap, n) IN
    /\ added # {} /\ block[o] = Null
    /\ Serve(o, n, result)
    /\ refused' = IF result.block = Null THEN adjust_request_size(n, 1) ELSE 0

Memalign(o, align, n) == LET result == tlsf_memalign(heap, align, n) IN
    /\ added # {} /\ block[o] = Null /\ n > 0
    /\ Serve(o, n, result)
    /\ refused' = 0

\* tlsf_realloc; the owner has not yet written what is new to it.
Realloc(o, n) == LET result == tlsf_realloc(heap, block[o], n) IN
    /\ block[o] # Null /\ n > 0
    /\ heap' = result.heap
    /\ IF result.block = Null
       THEN refused' = adjust_request_size(n, 1) /\ UNCHANGED <<block, filled>>
       ELSE /\ refused' = 0
            /\ block' = [block EXCEPT ![o] = result.block]
            /\ filled' = [filled EXCEPT ![o] = Min({filled[o], n})]
    /\ UNCHANGED added

\* tlsf_free, and tlsf_realloc to length 0.
Free(o) == /\ block[o] # Null
           /\ heap' = tlsf_free(heap, block[o])
           /\ block' = [block EXCEPT ![o] = Null]
           /\ filled' = [filled EXCEPT ![o] = 0]
           /\ refused' = 0 /\ UNCHANGED added

Next == \/ \E p \in Pool : AddPool(p) \/ RemovePool(p)
        \/ \E o \in Owner, n \in Requests : Malloc(o, n) \/ Realloc(o, n)
        \/ \E o \in Owner, n \in Requests, align \in Aligns : Memalign(o, align, n)
        \/ \E o \in Owner : Free(o)

Spec == Init /\ [][Next]_vars

-----------------------------------------------------------------------------
(* Properties. *)

\* The blocks tlsf_walk_pool visits, and the sentinel, as b -> the block before.
Walk(p) ==
    LET first == PoolAt[p] - Overhead
        at[i \in 0..PoolWords[p]] ==
            IF i = 0 THEN first
            ELSE LET b == at[i - 1]
                 IN  IF b \notin 1..Top - 1 \/ block_size(heap, b) <= 0 THEN b ELSE block_next(heap, b)
    IN  at

Visited(p) == LET at == Walk(p) IN {at[i] : i \in DOMAIN at}
Sentinel(p) == PoolAt[p] - Overhead + 1 + (PoolWords[p] - 2)
Blocks == UNION {Visited(p) \ {Sentinel(p)} : p \in added}

\* The blocks in the free list of class c.
Listed(c) ==
    LET at[i \in 0..Top] ==
            IF i = 0 THEN heap.head[c]
            ELSE LET b == at[i - 1] IN IF b \in 1..Top - 2 THEN heap.mem[b + 2] ELSE Null
    IN  {at[i] : i \in 0..Top} \ {Null}

\* tlsf_check_pool (integrity_walker, line 618): walking a pool block by block
\* ends at its sentinel, the flag for the block before agrees with that block,
\* and a block that may be merged backwards knows where that block is.  The
\* blocks in use are those that callers hold.
PoolsPhysical ==
    /\ \A p \in added : LET at == Walk(p) IN
         /\ at[PoolWords[p]] = Sentinel(p)
         /\ ~block_is_free(heap, Sentinel(p)) /\ ~block_is_prev_free(heap, at[0])
         /\ \A i \in 1..PoolWords[p] : at[i] # at[i - 1] =>
              /\ block_is_prev_free(heap, at[i]) = block_is_free(heap, at[i - 1])
              /\ block_is_free(heap, at[i - 1]) =>
                   heap.mem[at[i]] = at[i - 1] /\ ~block_is_free(heap, at[i])
    /\ {b \in Blocks : ~block_is_free(heap, b)} = {block[o] : o \in Owner} \ {Null}

\* tlsf_check (line 634): a bit is set exactly when its list is not empty, and
\* every free block is in the list of its size and can be taken out of it.
ListsAccurate ==
    /\ heap.fl = {f \in 0..FlMax : heap.sl[f] # {}}
    /\ \A c \in Class :
         /\ c[2] \in heap.sl[c[1]] <=> Listed(c) # {}
         /\ Listed(c) = {b \in Blocks : block_is_free(heap, b) /\ mapping_insert(block_size(heap, b)) = c}
         /\ \A b \in Listed(c) :
              /\ block_size(heap, b) >= MinSize
              /\ IF heap.head[c] = b THEN heap.mem[b + 3] = Null
                 ELSE heap.mem[b + 3] \in Listed(c) /\ heap.mem[heap.mem[b + 3] + 2] = b

\* No call writes into the words of a live block, though the links and sizes
\* of its neighbours begin where they end, and tlsf_realloc brings along what
\* the old block held (memcpy, line 1031).
ContentsKept ==
    \A o \in Owner : block[o] # Null =>
        /\ filled[o] <= block_size(heap, block[o])
        /\ \A a \in block[o] + 2..block[o] + 1 + filled[o] : heap.mem[a] = Data

\* A call is refused only when no free block is as large as the request rounded
\* up to its class: what was freed is found again, however it was split.
RefusedOnlyWhenFull ==
    refused > 0 => \A b \in Blocks :
        block_is_free(heap, b) => block_size(heap, b) < RoundUp(refused)

\* The calls implement the allocator of tlsf.h: a region of its own for every
\* caller, changed by the caller's own calls only.
Region(o) == IF block[o] = Null THEN {}
             ELSE block[o] + 2..block[o] + 1 + block_size(heap, block[o])

Abstract == INSTANCE Allocator WITH Word <- 1..Top, region <- [o \in Owner |-> Region(o)]
ImplementsAllocator == Abstract!Spec
=============================================================================
