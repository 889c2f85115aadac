------------------------------ MODULE Allocator ------------------------------
(* What tlsf.h promises its caller: every block is a region of the memory of *)
(* its own.  A call changes the region of one block, never another's, and a  *)
(* block that is given out or resized gets words nobody else holds.          *)
EXTENDS FiniteSets

CONSTANTS Owner,  \* who may hold a block
          Word    \* the addresses of the memory

VARIABLE region   \* the words of every owner's block, {} when it has none

Init == region = [o \in Owner |-> {}]

HeldByOthers(o) == UNION {region[p] : p \in Owner \ {o}}

\* tlsf_malloc, tlsf_memalign, tlsf_realloc and tlsf_free on behalf of o.
Call(o) == /\ region' \in [Owner -> SUBSET Word]
           /\ \A p \in Owner \ {o} : region'[p] = region[p]
           /\ region'[o] \cap HeldByOthers(o) = {}

Next == \E o \in Owner : Call(o)

Spec == Init /\ [][Next]_region
=============================================================================
