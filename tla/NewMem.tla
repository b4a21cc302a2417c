------------------------------- MODULE NewMem -------------------------------
(***************************************************************************)
(* The byte allocator of kernel/src/sys/newmem.c as operators on a heap    *)
(* value.  The heap is one region of memory with a header that has one bit *)
(* for every byte of it, eight to a bitfield.  A byte of the region is     *)
(* named by its offset from heap->memory: byte b has bit b % 8 of bitfield *)
(* b \div 8, and a bit is set exactly when its byte is in `header'.        *)
(*                                                                         *)
(* A heap is [header, free_memory, last]; `last' is the global             *)
(* kheap_last_free_mem_bitfield, the bitfield where a search starts.  A    *)
(* block is [ptr, size]; ptr is the offset of its first byte, that is      *)
(* bitfield * 8 + bit.  Every operation runs under task_lock (or during    *)
(* boot), so each is one step.                                             *)
(***************************************************************************)
EXTENDS Integers, FiniteSets

CONSTANTS HeaderSize,   \* bitfields in the header: HEAP_HEADER_SIZE * n_block
          MemBase       \* the address heap->memory, modulo 8

ASSUME HeaderSizeAssumption == HeaderSize \in Nat \ {0}
ASSUME MemBaseAssumption == MemBase \in 0 .. 7

BitsPerField == 8

\* n_block * HEAP_BLOCK_SIZE: the header has a bit for each of these bytes.
Total == BitsPerField * HeaderSize
Bytes == 0 .. Total - 1
Fields == 0 .. HeaderSize - 1

\* The n bytes from byte p on.
Span(p, n) == p .. p + n - 1

\* The block {0, 0, 0, 0, 0} that a refused request returns.  Offset -1 stands
\* for the address 0, which is not in the heap.
NoBlock == [ptr |-> -1, size |-> 0]
Block == [ptr : Bytes, size : 1 .. Total]

Heap == [header : SUBSET Bytes, free_memory : Int, last : 0 .. HeaderSize]

\* kheap_init and kheap_add_blocks on a region that has room for the header.
NewHeap == [header |-> {}, free_memory |-> Total, last |-> 0]

\* The least member of a set of naturals.
Least(S) == CHOOSE x \in S : \A y \in S : x <= y

-----------------------------------------------------------------------------
\* kheap_set_used_bytes2: n bits from p's bit on, or up to the end of the header.
SetUsed(header, p, n) == header \cup (Span(p, n) \cap Bytes)
\* Mutant: the last bit stays set.
UnsetUsedOneShort(header, p, n) == header \ Span(p, n - 1)
\* kheap_unset_used_bytes2, likewise.
UnsetUsed(header, p, n) == header \ Span(p, n)

\* The requests both searches turn away before they look at the header.
Rejected(h, n) == n > Total \/ n > h.free_memory

IsFree(h, p, n) == Span(p, n) \subseteq Bytes /\ Span(p, n) \cap h.header = {}

\* Mutant: the hint is moved behind the block, in bytes instead of bitfields.
GrantHintInBytes(h, field, p, ptr, n) ==
  [heap  |-> [header      |-> SetUsed(h.header, p, n),
              free_memory |-> h.free_memory - n,
              last        |-> field + n],
   block |-> [ptr |-> ptr, size |-> n]]

\* Mark n bytes used from byte p on, make `field' the hint, and hand out the
\* block that starts at byte ptr.
Grant(h, field, p, ptr, n) ==
  [heap  |-> [header      |-> SetUsed(h.header, p, n),
              free_memory |-> h.free_memory - n,
              last        |-> field],
   block |-> [ptr |-> ptr, size |-> n]]

\* A search that reached the end of the header twice: the hint is back at 0.
Refuse(h) == [heap |-> [h EXCEPT !.last = 0], block |-> NoBlock]
Reject(h) == [heap |-> h, block |-> NoBlock]

-----------------------------------------------------------------------------
(***************************************************************************)
(* kheap_get_free_aligned, for the alignments the Rust allocator asks for. *)
(* The search abandons a start as soon as it meets a used byte and goes on *)
(* from the next bitfield, so it ends at the first bitfield, from the hint *)
(* on, whose first byte starts n free bytes.  The loop that moves          *)
(* start_bit to an aligned address adds the same skew in every bitfield;   *)
(* the block starts after the skew, the bytes marked used start before it. *)
(***************************************************************************)
Alignments == {1, 2, 4, 8}
Skew(align) == (align - (MemBase % align)) % align

\* Mutant: only the bitfield where a run starts is looked at.
AlignedStartsOneField(h, from, n) ==
  {f \in Fields : from <= f /\ BitsPerField * f + n <= Total
                          /\ IsFree(h, BitsPerField * f, 8)}

AlignedStarts(h, from, n) ==
  {f \in Fields : from <= f /\ IsFree(h, BitsPerField * f, n)}

SearchAligned(h, from, n, align) ==
  LET f == Least(AlignedStarts(h, from, n))
  IN  Grant(h, f, BitsPerField * f, BitsPerField * f + Skew(align), n)

\* Mutant: no second search from the beginning of the header.
kheap_get_free_aligned_once(h, n, align) ==
  IF Rejected(h, n) THEN Reject(h)
  ELSE IF AlignedStarts(h, h.last, n) # {} THEN SearchAligned(h, h.last, n, align)
  ELSE Refuse(h)

kheap_get_free_aligned(h, n, align) ==
  IF Rejected(h, n) THEN Reject(h)
  ELSE IF AlignedStarts(h, h.last, n) # {} THEN SearchAligned(h, h.last, n, align)
  ELSE IF AlignedStarts(h, 0, n) # {} THEN SearchAligned(h, 0, n, align)
  ELSE Refuse(h)

-----------------------------------------------------------------------------
(***************************************************************************)
(* kheap_get_free_mem2.  The search counts free bytes one by one from the  *)
(* first bit of the hint and stops at the first byte that completes a run  *)
(* of n.  The place it returns is what start_bitfield and start_bit hold   *)
(* then.  They start at 0 (not at the hint) and are only assigned when a   *)
(* used byte is met; for a used byte 7 of a bitfield that is not full they *)
(* are set to the first bit of that same bitfield, not of the next.        *)
(***************************************************************************)
RunStarts(h, from, n) ==
  {p \in Bytes : BitsPerField * from <= p /\ IsFree(h, p, n)}

FieldIsFull(h, f) == Span(BitsPerField * f, BitsPerField) \subseteq h.header

\* Mutant: a used byte 7 moves the start to the next bitfield.
RecordedStartNextField(h, from, p) ==
  IF p = BitsPerField * from THEN 0 ELSE p

RecordedStart(h, from, p) ==
  IF p = BitsPerField * from THEN 0
  ELSE IF p % BitsPerField = 0 /\ ~FieldIsFull(h, (p \div BitsPerField) - 1)
       THEN p - BitsPerField
       ELSE p

SearchMem2(h, from, n) ==
  LET p == RecordedStart(h, from, Least(RunStarts(h, from, n)))
  IN  Grant(h, p \div BitsPerField, p, p, n)

kheap_get_free_mem2(h, n) ==
  IF Rejected(h, n) THEN Reject(h)
  ELSE IF RunStarts(h, h.last, n) # {} THEN SearchMem2(h, h.last, n)
  ELSE IF RunStarts(h, 0, n) # {} THEN SearchMem2(h, 0, n)
  ELSE Refuse(h)

-----------------------------------------------------------------------------
\* Mutant: free_memory is not given back.
kheap_free_mem2_unaccounted(h, b) ==
  [h EXCEPT !.header = UnsetUsed(@, b.ptr, b.size)]

\* kheap_free_mem2: the hint stays where it is.
kheap_free_mem2(h, b) ==
  [h EXCEPT !.header = UnsetUsed(@, b.ptr, b.size),
            !.free_memory = @ + b.size]

\* The allocator argument of _kmalloc.
Allocators == {"aligned", "mem2"}
Allocate(allocator, h, n, align) ==
  IF allocator = "aligned" THEN kheap_get_free_aligned(h, n, align)
                           ELSE kheap_get_free_mem2(h, n)
=============================================================================
