---------------------------- MODULE NewMemProofs ----------------------------
(***************************************************************************)
(* What the two searches of NewMem return, for every size of the header.   *)
(***************************************************************************)
EXTENDS NewMem, NatRecursion, FiniteSetTheorems, TLAPS

\* Least, which is how the searches pick a place, names the least member of every
\* nonempty set of naturals.
LEMMA LeastIsLeast ==
  ASSUME NEW S, S \subseteq Nat, S # {}
  PROVE  Least(S) \in S /\ \A y \in S : Least(S) <= y
BY LeastExists DEF Least

-----------------------------------------------------------------------------
(***************************************************************************)
(* A request is turned away, or refused with the hint back at 0, or it is  *)
(* granted n bytes inside the heap.  The aligned search only grants bytes  *)
(* that are free; no more than free_memory is granted.                     *)
(***************************************************************************)
LEMMA AlignedResult ==
  ASSUME NEW h \in Heap, NEW n \in Nat \ {0}, NEW align \in Alignments
  PROVE  LET r == kheap_get_free_aligned(h, n, align)
         IN  \/ r \in {Reject(h), Refuse(h)}
             \/ /\ n <= Total /\ n <= h.free_memory
                /\ \E f \in Fields :
                     /\ IsFree(h, BitsPerField * f, n)
                     /\ r = Grant(h, f, BitsPerField * f,
                                  BitsPerField * f + Skew(align), n)
<1> DEFINE Granted == \E f \in Fields :
                /\ IsFree(h, BitsPerField * f, n)
                /\ kheap_get_free_aligned(h, n, align)
                     = Grant(h, f, BitsPerField * f, BitsPerField * f + Skew(align), n)
<1>1. ASSUME NEW from \in Nat, AlignedStarts(h, from, n) # {},
             kheap_get_free_aligned(h, n, align) = SearchAligned(h, from, n, align)
      PROVE  Granted
  <2>1. AlignedStarts(h, from, n) \subseteq Nat
    BY HeaderSizeAssumption DEF AlignedStarts, Fields
  <2>2. Least(AlignedStarts(h, from, n)) \in AlignedStarts(h, from, n)
    BY <1>1, <2>1, LeastIsLeast
  <2> QED
    BY <1>1, <2>2 DEF SearchAligned, AlignedStarts
<1>2. h.last \in Nat
  BY HeaderSizeAssumption DEF Heap
<1>3. ~Rejected(h, n) => n <= Total /\ n <= h.free_memory
  BY HeaderSizeAssumption DEF Rejected, Heap, Total, BitsPerField
<1> QED
  BY <1>1, <1>2, <1>3 DEF kheap_get_free_aligned

LEMMA Mem2Result ==
  ASSUME NEW h \in Heap, NEW n \in Nat \ {0}
  PROVE  LET r == kheap_get_free_mem2(h, n)
         IN  \/ r \in {Reject(h), Refuse(h)}
             \/ /\ n <= Total /\ n <= h.free_memory
                /\ \E p \in Bytes : r = Grant(h, p \div BitsPerField, p, p, n)
<1> DEFINE Granted == \E p \in Bytes :
                kheap_get_free_mem2(h, n) = Grant(h, p \div BitsPerField, p, p, n)
<1>1. ASSUME NEW from \in Nat, RunStarts(h, from, n) # {},
             kheap_get_free_mem2(h, n) = SearchMem2(h, from, n)
      PROVE  Granted
  <2> DEFINE q == Least(RunStarts(h, from, n))
  <2>0. RunStarts(h, from, n) \subseteq Nat
    BY HeaderSizeAssumption DEF RunStarts, Bytes, Total, BitsPerField
  <2>1. q \in Bytes /\ BitsPerField * from <= q
    <3>1. q \in RunStarts(h, from, n)
      BY <1>1, <2>0, LeastIsLeast
    <3> QED
      BY <3>1 DEF RunStarts
  <2>2. RecordedStart(h, from, q) \in Bytes
    BY <2>1, HeaderSizeAssumption DEF RecordedStart, Bytes, Total, BitsPerField
  <2> QED
    BY <1>1, <2>2 DEF SearchMem2
<1>2. h.last \in Nat
  BY HeaderSizeAssumption DEF Heap
<1>3. ~Rejected(h, n) => n <= Total /\ n <= h.free_memory
  BY HeaderSizeAssumption DEF Rejected, Heap, Total, BitsPerField
<1> QED
  BY <1>1, <1>2, <1>3 DEF kheap_get_free_mem2

LEMMA SkewIsSmall ==
  ASSUME NEW align \in Alignments
  PROVE  Skew(align) \in 0 .. 7 /\ (MemBase = 0 => Skew(align) = 0)
<1>1. CASE align = 1 BY <1>1, MemBaseAssumption DEF Skew
<1>2. CASE align = 2 BY <1>2, MemBaseAssumption DEF Skew
<1>3. CASE align = 4 BY <1>3, MemBaseAssumption DEF Skew
<1>4. CASE align = 8 BY <1>4, MemBaseAssumption DEF Skew
<1> QED
  BY <1>1, <1>2, <1>3, <1>4 DEF Alignments

LEMMA GrantType ==
  ASSUME NEW h \in Heap, NEW f \in Fields, NEW p \in Bytes, NEW ptr \in Bytes,
         NEW n \in 1 .. Total
  PROVE  /\ Grant(h, f, p, ptr, n).heap \in Heap
         /\ Grant(h, f, p, ptr, n).block \in Block
<1>1. SetUsed(h.header, p, n) \in SUBSET Bytes
  BY DEF SetUsed, Heap
<1>2. h.free_memory - n \in Int /\ f \in 0 .. HeaderSize
  BY HeaderSizeAssumption DEF Heap, Fields, Total, BitsPerField
<1> QED
  BY <1>1, <1>2 DEF Grant, Heap, Block

LEMMA RefuseType ==
  ASSUME NEW h \in Heap, NEW r \in {Reject(h), Refuse(h)}
  PROVE  /\ r.heap \in Heap
         /\ r.heap.header = h.header
         /\ r.heap.free_memory = h.free_memory
         /\ r.block = NoBlock
BY HeaderSizeAssumption DEF Reject, Refuse, Heap

LEMMA AllocateType ==
  ASSUME NEW h \in Heap, NEW a \in Allocators, NEW n \in Nat \ {0},
         NEW align \in Alignments
  PROVE  /\ Allocate(a, h, n, align).heap \in Heap
         /\ Allocate(a, h, n, align).block \in Block \cup {NoBlock}
         /\ \/ Allocate(a, h, n, align).block = NoBlock
            \/ Allocate(a, h, n, align).block.size = n
<1>1. CASE a = "aligned"
  <2> DEFINE r == kheap_get_free_aligned(h, n, align)
  <2>1. CASE r \in {Reject(h), Refuse(h)}
    BY <1>1, <2>1, RefuseType DEF Allocate
  <2>2. CASE ~(r \in {Reject(h), Refuse(h)})
    <3>1. PICK f \in Fields :
            r = Grant(h, f, BitsPerField * f, BitsPerField * f + Skew(align), n)
      BY <2>2, AlignedResult
    <3>2. n \in 1 .. Total
      BY <2>2, AlignedResult, HeaderSizeAssumption DEF Total, BitsPerField
    <3>3. BitsPerField * f \in Bytes /\ BitsPerField * f + Skew(align) \in Bytes
      BY SkewIsSmall, HeaderSizeAssumption DEF Fields, Bytes, Total, BitsPerField
    <3>4. r.block.size = n
      BY <3>1 DEF Grant
    <3> QED
      BY <1>1, <3>1, <3>2, <3>3, <3>4, GrantType DEF Allocate
  <2> QED
    BY <2>1, <2>2
<1>2. CASE a = "mem2"
  <2> DEFINE r == kheap_get_free_mem2(h, n)
  <2>1. CASE r \in {Reject(h), Refuse(h)}
    BY <1>2, <2>1, RefuseType DEF Allocate
  <2>2. CASE ~(r \in {Reject(h), Refuse(h)})
    <3>1. PICK p \in Bytes : r = Grant(h, p \div BitsPerField, p, p, n)
      BY <2>2, Mem2Result
    <3>2. n \in 1 .. Total
      BY <2>2, Mem2Result, HeaderSizeAssumption DEF Total, BitsPerField
    <3>3. p \div BitsPerField \in Fields
      BY HeaderSizeAssumption DEF Fields, Bytes, Total, BitsPerField
    <3>4. r.block.size = n
      BY <3>1 DEF Grant
    <3> QED
      BY <1>2, <3>1, <3>2, <3>3, <3>4, GrantType DEF Allocate
  <2> QED
    BY <2>1, <2>2
<1> QED
  BY <1>1, <1>2 DEF Allocators

-----------------------------------------------------------------------------
(***************************************************************************)
(* Bytes and how many of them there are: free_memory counts the clear bits *)
(* of the header, through grants of free bytes and returns of used ones.   *)
(***************************************************************************)
Accounted(h) == h.free_memory = Total - Cardinality(h.header)

\* A run of bytes has as many members as its length says.
LEMMA SpanSize ==
  ASSUME NEW p \in Int, NEW n \in Nat
  PROVE  IsFiniteSet(Span(p, n)) /\ Cardinality(Span(p, n)) = n
BY FS_Interval DEF Span

LEMMA BytesAreFinite ==
  ASSUME NEW S \in SUBSET Bytes
  PROVE  IsFiniteSet(S) /\ Cardinality(S) \in Nat
<1>1. IsFiniteSet(Bytes)
  BY FS_Interval, HeaderSizeAssumption DEF Bytes, Total, BitsPerField
<1> QED
  BY <1>1, FS_Subset, FS_CardinalityType

LEMMA MarkAccounted ==
  ASSUME NEW h \in Heap, Accounted(h), NEW g \in Heap, NEW p \in Int, NEW n \in Nat,
         Span(p, n) \cap h.header = {}, g.header = h.header \cup Span(p, n),
         g.free_memory = h.free_memory - n
  PROVE  Accounted(g)
<1>1. IsFiniteSet(h.header) /\ Cardinality(h.header) \in Nat
  BY BytesAreFinite DEF Heap
<1>2. IsFiniteSet(Span(p, n)) /\ Cardinality(Span(p, n)) = n
  BY SpanSize
<1>3. Cardinality(h.header \cap Span(p, n)) = 0
  BY FS_EmptySet
<1>4. Cardinality(h.header \cup Span(p, n))
        = Cardinality(h.header) + Cardinality(Span(p, n)) - Cardinality(h.header \cap Span(p, n))
  BY <1>1, <1>2, FS_Union
<1> QED
  BY <1>1, <1>2, <1>3, <1>4, HeaderSizeAssumption DEF Accounted, Total, BitsPerField

\* kheap_free_mem2 gives a heap, whatever it frees; the count stays right if all
\* the bytes were in use.
LEMMA FreeType ==
  ASSUME NEW h \in Heap, NEW b, b.size \in Int
  PROVE  /\ kheap_free_mem2(h, b) \in Heap
         /\ kheap_free_mem2(h, b).header = h.header \ Span(b.ptr, b.size)
         /\ kheap_free_mem2(h, b).free_memory = h.free_memory + b.size
<1> DEFINE g == kheap_free_mem2(h, b)
           used == h.header \ Span(b.ptr, b.size)
<1>1. PICK hd \in SUBSET Bytes, fm \in Int, la \in 0 .. HeaderSize :
        h = [header |-> hd, free_memory |-> fm, last |-> la]
  BY DEF Heap
<1>2. g = [header |-> used, free_memory |-> fm + b.size, last |-> la]
  <2>1. g = [h EXCEPT !.header = used, !.free_memory = h.free_memory + b.size]
    BY DEF kheap_free_mem2, UnsetUsed
  <2> HIDE DEF g, used
  <2> QED
    BY <1>1, <2>1
<1>3. used \in SUBSET Bytes /\ fm + b.size \in Int /\ h.free_memory = fm
  BY <1>1
<1> HIDE DEF g, used
<1>4. g \in Heap /\ g.header = used /\ g.free_memory = h.free_memory + b.size
  BY <1>1, <1>2, <1>3 DEF Heap
<1> QED
  BY <1>4 DEF g, used

LEMMA FreeAccounted ==
  ASSUME NEW h \in Heap, Accounted(h), NEW b, b.ptr \in Int, b.size \in Nat,
         Span(b.ptr, b.size) \subseteq h.header
  PROVE  Accounted(kheap_free_mem2(h, b))
<1> DEFINE S == Span(b.ptr, b.size)
<1>1. IsFiniteSet(h.header) /\ Cardinality(h.header) \in Nat
  BY BytesAreFinite DEF Heap
<1>2. Cardinality(S) = b.size
  BY SpanSize
<1>3. h.header \cap S = S
  OBVIOUS
<1>4. Cardinality(h.header \ S) = Cardinality(h.header) - Cardinality(h.header \cap S)
  BY <1>1, FS_Difference
<1>5. Cardinality(h.header \ S) = Cardinality(h.header) - b.size
  BY <1>2, <1>3, <1>4
<1>6. h.free_memory \in Int /\ Total \in Int
  BY HeaderSizeAssumption DEF Heap, Total, BitsPerField
<1>7. /\ kheap_free_mem2(h, b).header = h.header \ S
      /\ kheap_free_mem2(h, b).free_memory = h.free_memory + b.size
  BY FreeType
<1> HIDE DEF S
<1> QED
  BY <1>1, <1>5, <1>6, <1>7 DEF Accounted

\* What a request of the aligned allocator does on an aligned heap.
LEMMA AlignedGrant ==
  ASSUME MemBase = 0, NEW h \in Heap, Accounted(h), NEW n \in Nat \ {0},
         NEW align \in Alignments
  PROVE  LET r == Allocate("aligned", h, n, align)
         IN  /\ r.heap \in Heap /\ Accounted(r.heap)
             /\ \/ r.block = NoBlock /\ r.heap.header = h.header
                \/ /\ r.block \in Block /\ r.block.size = n
                   /\ Span(r.block.ptr, n) \subseteq Bytes
                   /\ Span(r.block.ptr, n) \cap h.header = {}
                   /\ r.heap.header = h.header \cup Span(r.block.ptr, n)
<1> DEFINE r == kheap_get_free_aligned(h, n, align)
<1>0. Allocate("aligned", h, n, align) = r /\ "aligned" \in Allocators
  BY DEF Allocate, Allocators
<1>1. CASE r \in {Reject(h), Refuse(h)}
  <2>1. /\ r.heap \in Heap /\ r.heap.header = h.header
        /\ r.heap.free_memory = h.free_memory /\ r.block = NoBlock
    BY <1>1, RefuseType
  <2> QED
    BY <1>0, <2>1 DEF Accounted
<1>2. CASE ~(r \in {Reject(h), Refuse(h)})
  <2>1. PICK f \in Fields :
          /\ IsFree(h, BitsPerField * f, n)
          /\ r = Grant(h, f, BitsPerField * f, BitsPerField * f + Skew(align), n)
    BY <1>2, AlignedResult
  <2>2. n \in 1 .. Total
    BY <1>2, AlignedResult, HeaderSizeAssumption DEF Total, BitsPerField
  <2>3. BitsPerField * f \in Bytes /\ BitsPerField * f + Skew(align) = BitsPerField * f
    BY SkewIsSmall, HeaderSizeAssumption DEF Fields, Bytes, Total, BitsPerField
  <2>4. SetUsed(h.header, BitsPerField * f, n) = h.header \cup Span(BitsPerField * f, n)
    BY <2>1 DEF IsFree, SetUsed
  <2>5. /\ r.heap.header = h.header \cup Span(BitsPerField * f, n)
        /\ r.heap.free_memory = h.free_memory - n
        /\ r.block.ptr = BitsPerField * f /\ r.block.size = n
    BY <2>1, <2>3, <2>4 DEF Grant
  <2>6. r.heap \in Heap /\ r.block \in Block
    BY <2>1, <2>2, <2>3, GrantType
  <2>7. BitsPerField * f \in Int /\ n \in Nat
    BY <2>2, HeaderSizeAssumption DEF Fields, Total, BitsPerField
  <2>8. /\ Span(BitsPerField * f, n) \subseteq Bytes
        /\ Span(BitsPerField * f, n) \cap h.header = {}
    BY <2>1 DEF IsFree
  <2>9. Accounted(r.heap)
    BY <2>5, <2>6, <2>7, <2>8, MarkAccounted
  <2> QED
    BY <1>0, <2>5, <2>6, <2>8, <2>9
<1> QED
  BY <1>1, <1>2
=============================================================================
