-------------------------------- MODULE KHeap --------------------------------
(***************************************************************************)
(* The kernel heap in use: callers of the allocators of NewMem hold the    *)
(* blocks they were granted and give them back in any order.  A caller     *)
(* only gives back a block it was granted (kfree looks it up in the table  *)
(* of granted blocks, see KAlloc).                                         *)
(***************************************************************************)
EXTENDS NewMem

CONSTANTS Holders,    \* who may hold a block: the entries of kalloc_list
          Sizes,      \* the sizes callers ask for; kmalloc turns 0 away
          Requests    \* the allocators callers use, a subset of Allocators

ASSUME SizesAssumption == Sizes \subseteq Nat \ {0}
ASSUME RequestsAssumption == Requests \subseteq Allocators

VARIABLES heap,       \* the heap value, see NewMem
          granted     \* granted[s]: the block s holds, or NoBlock

vars == <<heap, granted>>

Init ==
  /\ heap = NewHeap
  /\ granted = [s \in Holders |-> NoBlock]

Get(s, allocator, n, align) ==
  /\ granted[s] = NoBlock
  /\ LET r == Allocate(allocator, heap, n, align)
     IN  /\ heap' = r.heap
         /\ granted' = [granted EXCEPT ![s] = r.block]

GiveBack(s) ==
  /\ granted[s] # NoBlock
  /\ heap' = kheap_free_mem2(heap, granted[s])
  /\ granted' = [granted EXCEPT ![s] = NoBlock]

Next ==
  \/ \E s \in Holders, allocator \in Requests, n \in Sizes, align \in Alignments :
       Get(s, allocator, n, align)
  \/ \E s \in Holders : GiveBack(s)

Spec == Init /\ [][Next]_vars

-----------------------------------------------------------------------------
BytesOf(b) == IF b = NoBlock THEN {} ELSE Span(b.ptr, b.size)

\* Types of the heap value and of the blocks; in particular the hint never
\* leaves the header, the condition for KPANIC("somebody fucked up the stack").
TypeOK ==
  /\ heap \in Heap
  /\ granted \in [Holders -> Block \cup {NoBlock}]

\* Blocks held at the same time share no byte, whatever was granted and given
\* back before: two callers of kmalloc never write to each other's memory.
Disjoint ==
  \A r, s \in Holders : r # s => BytesOf(granted[r]) \cap BytesOf(granted[s]) = {}

\* A set bit of the header means a held byte and the reverse: no byte is lost
\* for good when a block is given back, none can be granted twice.
HeaderExact == heap.header = UNION {BytesOf(granted[s]) : s \in Holders}

\* free_memory, which turns requests away before any search, counts exactly
\* the clear bits: it neither drifts nor underflows over any history.
FreeMemoryExact == heap.free_memory = Total - Cardinality(heap.header)

\* All three: the header, free_memory and the blocks callers hold agree after
\* any history of kmalloc and kfree.
HeapIsExact == Disjoint /\ HeaderExact /\ FreeMemoryExact

\* Both searches start in the middle of the header, yet a request is refused
\* only when no run of free bytes could hold it (one that starts a bitfield,
\* for the aligned search): the second search from bitfield 0 misses nothing.
RefusedOnlyWhenFull ==
  \A n \in Sizes :
    n <= heap.free_memory =>
      /\ kheap_get_free_mem2(heap, n).block = NoBlock =>
           \A p \in Bytes : ~IsFree(heap, p, n)
      /\ \A align \in Alignments :
           kheap_get_free_aligned(heap, n, align).block = NoBlock =>
             \A f \in Fields : ~IsFree(heap, BitsPerField * f, n)

\* What kheap_get_free_mem2 logs when it grants a block: "found %d bytes free
\* at block" (newmem.c:210).  The bytes of the block are free.
Mem2GrantsFreeBytes ==
  \A n \in Sizes :
    LET b == kheap_get_free_mem2(heap, n).block
    IN  b # NoBlock => IsFree(heap, b.ptr, b.size)

Promise == INSTANCE ByteRegions WITH Capacity <- Total, None <- NoBlock
\* The allocator as its callers see it: every grant is one that ByteRegions
\* allows, whatever the hint and the header were, and every kfree gives back
\* one block and disturbs no other.
KeepsPromise == Promise!Spec
=============================================================================
