----------------------------- MODULE KHeapProofs -----------------------------
(***************************************************************************)
(* What holds of the kernel heap for every size of the header, every set   *)
(* of holders and every set of sizes, and of the loops of its two searches *)
(* for every header, hint and size.                                        *)
(***************************************************************************)
EXTENDS NewMemLoops, NewMemProofs

-----------------------------------------------------------------------------
\* The heap value and every block keep their types, whichever allocators are
\* used on the heap: the hint stays in the header, blocks start in the heap.
THEOREM TypeCorrect == Spec => []TypeOK
<1>1. Init => TypeOK
  BY HeaderSizeAssumption DEF Init, TypeOK, NewHeap, Heap, Total, BitsPerField
<1>2. TypeOK /\ [Next]_vars => TypeOK'
  <2> SUFFICES ASSUME TypeOK, [Next]_vars PROVE TypeOK'
    OBVIOUS
  <2>1. ASSUME NEW s \in Holders, NEW a \in Requests, NEW n \in Sizes,
               NEW align \in Alignments, Get(s, a, n, align)
        PROVE  TypeOK'
    <3>1. a \in Allocators /\ n \in Nat \ {0} /\ heap \in Heap
      BY RequestsAssumption, SizesAssumption DEF TypeOK
    <3> QED
      BY <2>1, <3>1, AllocateType DEF TypeOK, Get
  <2>2. ASSUME NEW s \in Holders, GiveBack(s)
        PROVE  TypeOK'
    <3>1. granted[s] \in Block
      BY <2>2 DEF GiveBack, TypeOK
    <3>2. kheap_free_mem2(heap, granted[s]) \in Heap
      <4>1. UnsetUsed(heap.header, granted[s].ptr, granted[s].size) \in SUBSET Bytes
        BY DEF TypeOK, Heap, UnsetUsed
      <4>2. heap.free_memory + granted[s].size \in Int
        BY <3>1, HeaderSizeAssumption DEF TypeOK, Heap, Block, Total, BitsPerField
      <4> QED
        BY <4>1, <4>2 DEF TypeOK, Heap, kheap_free_mem2
    <3> QED
      BY <2>2, <3>2 DEF TypeOK, GiveBack
  <2>3. CASE UNCHANGED vars
    BY <2>3 DEF vars, TypeOK
  <2> QED
    BY <2>1, <2>2, <2>3 DEF Next
<1> QED
  BY <1>1, <1>2, PTL DEF Spec

-----------------------------------------------------------------------------
(***************************************************************************)
(* Exactness.  It holds when the aligned search is the only one in use, as *)
(* it is for kmalloc and the Rust allocator, and heap->memory is aligned:  *)
(* with a skew the block does not start where its bits do, and with        *)
(* kheap_get_free_mem2 it may start on used bytes.                         *)
(***************************************************************************)
AlignedOnly == MemBase = 0 /\ Requests = {"aligned"}

\* What a request does to the heap and to its caller, in these terms.
LEMMA GetCases ==
  ASSUME AlignedOnly, TypeOK,
         NEW s \in Holders, NEW a \in Requests, NEW n \in Sizes,
         NEW align \in Alignments, Get(s, a, n, align)
  PROVE  \/ /\ UNCHANGED granted
            /\ heap'.header = heap.header
            /\ heap'.free_memory = heap.free_memory
         \/ \E p \in Bytes :
              /\ IsFree(heap, p, n)
              /\ n \in 1 .. Total
              /\ heap'.header = heap.header \cup Span(p, n)
              /\ heap'.free_memory = heap.free_memory - n
              /\ granted' = [granted EXCEPT ![s] = [ptr |-> p, size |-> n]]
<1> DEFINE r == kheap_get_free_aligned(heap, n, align)
<1>1. heap \in Heap /\ n \in Nat \ {0} /\ granted[s] = NoBlock
  BY SizesAssumption DEF TypeOK, Get
<1>2. heap' = r.heap /\ granted' = [granted EXCEPT ![s] = r.block]
  BY DEF AlignedOnly, Get, Allocate
<1>3. CASE r \in {Reject(heap), Refuse(heap)}
  <2>1. r.block = NoBlock /\ r.heap.header = heap.header
                          /\ r.heap.free_memory = heap.free_memory
    BY <1>1, <1>3, RefuseType
  <2>2. granted' = granted
    BY <1>1, <1>2, <2>1 DEF TypeOK
  <2> QED
    BY <1>2, <2>1, <2>2
<1>4. CASE ~(r \in {Reject(heap), Refuse(heap)})
  <2>1. PICK f \in Fields :
          /\ IsFree(heap, BitsPerField * f, n)
          /\ r = Grant(heap, f, BitsPerField * f, BitsPerField * f + Skew(align), n)
    BY <1>1, <1>4, AlignedResult
  <2>2. n \in 1 .. Total
    BY <1>1, <1>4, AlignedResult, HeaderSizeAssumption DEF Total, BitsPerField
  <2>3. BitsPerField * f \in Bytes /\ BitsPerField * f + Skew(align) = BitsPerField * f
    BY SkewIsSmall, HeaderSizeAssumption
    DEF AlignedOnly, Fields, Bytes, Total, BitsPerField
  <2>4. SetUsed(heap.header, BitsPerField * f, n)
          = heap.header \cup Span(BitsPerField * f, n)
    BY <2>1 DEF IsFree, SetUsed
  <2>5. /\ r.heap.header = heap.header \cup Span(BitsPerField * f, n)
        /\ r.heap.free_memory = heap.free_memory - n
        /\ r.block = [ptr |-> BitsPerField * f, size |-> n]
    BY <2>1, <2>3, <2>4 DEF Grant
  <2> QED
    BY <1>2, <2>1, <2>2, <2>3, <2>5
<1> QED
  BY <1>3, <1>4

LEMMA HeaderIsFinite ==
  ASSUME TypeOK
  PROVE  IsFiniteSet(heap.header) /\ Cardinality(heap.header) \in Nat
BY BytesAreFinite DEF TypeOK, Heap

LEMMA GetStaysExact ==
  ASSUME AlignedOnly, TypeOK, HeapIsExact,
         NEW s \in Holders, NEW a \in Requests, NEW n \in Sizes,
         NEW align \in Alignments, Get(s, a, n, align)
  PROVE  HeapIsExact'
<1>1. CASE /\ UNCHANGED granted
           /\ heap'.header = heap.header
           /\ heap'.free_memory = heap.free_memory
  BY <1>1 DEF HeapIsExact, Disjoint, HeaderExact, FreeMemoryExact
<1>2. ASSUME NEW p \in Bytes, IsFree(heap, p, n), n \in 1 .. Total,
             heap'.header = heap.header \cup Span(p, n),
             heap'.free_memory = heap.free_memory - n,
             granted' = [granted EXCEPT ![s] = [ptr |-> p, size |-> n]]
      PROVE  HeapIsExact'
  <2>1. p \in Int /\ n \in Nat
    BY <1>2, HeaderSizeAssumption DEF Bytes, Total, BitsPerField
  <2>2. /\ granted[s] = NoBlock
        /\ BytesOf(granted'[s]) = Span(p, n)
        /\ \A t \in Holders \ {s} : granted'[t] = granted[t]
    BY <1>2, <2>1 DEF Get, TypeOK, BytesOf, NoBlock, Bytes
  <2>3. Span(p, n) \cap heap.header = {}
    BY <1>2 DEF IsFree
  <2>4. \A t \in Holders : BytesOf(granted[t]) \subseteq heap.header
    BY DEF HeapIsExact, HeaderExact
  <2>5. Disjoint'
    BY <2>2, <2>3, <2>4 DEF HeapIsExact, Disjoint
  <2>6. HeaderExact'
    <3>1. BytesOf(granted[s]) = {}
      BY <2>2 DEF BytesOf
    <3>2. UNION {BytesOf(granted'[t]) : t \in Holders}
            = (UNION {BytesOf(granted[t]) : t \in Holders}) \cup Span(p, n)
      BY <2>2, <3>1
    <3> QED
      BY <1>2, <3>2 DEF HeapIsExact, HeaderExact
  <2>7. FreeMemoryExact'
    <3>1. Cardinality(heap'.header) = Cardinality(heap.header) + n
      <4>1. Cardinality(heap.header \cap Span(p, n)) = 0
        BY <2>3, FS_EmptySet
      <4>2. IsFiniteSet(Span(p, n)) /\ Cardinality(Span(p, n)) = n
        BY <2>1, SpanSize
      <4>3. Cardinality(heap.header \cup Span(p, n))
              = Cardinality(heap.header) + Cardinality(Span(p, n))
                  - Cardinality(heap.header \cap Span(p, n))
        BY <4>2, HeaderIsFinite, FS_Union
      <4> QED
        BY <1>2, <2>1, <4>1, <4>2, <4>3, HeaderIsFinite
    <3> QED
      BY <1>2, <2>1, <3>1, HeaderIsFinite, HeaderSizeAssumption
      DEF HeapIsExact, FreeMemoryExact, Total, BitsPerField
  <2> QED
    BY <2>5, <2>6, <2>7 DEF HeapIsExact
<1> QED
  BY <1>1, <1>2, GetCases

LEMMA GiveBackStaysExact ==
  ASSUME TypeOK, HeapIsExact, NEW s \in Holders, GiveBack(s)
  PROVE  HeapIsExact'
<1> DEFINE b == granted[s]
<1>1. /\ b \in Block
      /\ BytesOf(b) = Span(b.ptr, b.size)
      /\ granted' = [granted EXCEPT ![s] = NoBlock]
      /\ heap'.header = heap.header \ Span(b.ptr, b.size)
      /\ heap'.free_memory = heap.free_memory + b.size
  BY DEF GiveBack, TypeOK, BytesOf, kheap_free_mem2, UnsetUsed, Heap
<1>2. b.ptr \in Int /\ b.size \in Nat
  BY <1>1, HeaderSizeAssumption DEF Block, Bytes, Total, BitsPerField
<1>3. BytesOf(granted'[s]) = {} /\ \A t \in Holders \ {s} : granted'[t] = granted[t]
  BY <1>1 DEF TypeOK, BytesOf
<1>4. Disjoint'
  BY <1>3 DEF HeapIsExact, Disjoint
<1>5. HeaderExact'
  <2>1. \A t \in Holders \ {s} : BytesOf(granted[t]) \cap BytesOf(b) = {}
    BY DEF HeapIsExact, Disjoint
  <2>2. UNION {BytesOf(granted'[t]) : t \in Holders}
          = (UNION {BytesOf(granted[t]) : t \in Holders}) \ BytesOf(b)
    BY <1>3, <2>1
  <2> QED
    BY <1>1, <2>2 DEF HeapIsExact, HeaderExact
<1>6. FreeMemoryExact'
  <2>1. Span(b.ptr, b.size) \subseteq heap.header
    BY <1>1 DEF HeapIsExact, HeaderExact
  <2>2. Cardinality(heap'.header) = Cardinality(heap.header) - b.size
    <3>1. heap.header \cap Span(b.ptr, b.size) = Span(b.ptr, b.size)
      BY <2>1
    <3>2. Cardinality(Span(b.ptr, b.size)) = b.size
      BY <1>2, SpanSize
    <3>3. Cardinality(heap.header \ Span(b.ptr, b.size))
            = Cardinality(heap.header)
                - Cardinality(heap.header \cap Span(b.ptr, b.size))
      BY HeaderIsFinite, FS_Difference
    <3> QED
      BY <1>1, <3>1, <3>2, <3>3
  <2> QED
    BY <1>1, <1>2, <2>2, HeaderIsFinite, HeaderSizeAssumption
    DEF HeapIsExact, FreeMemoryExact, Total, BitsPerField
<1> QED
  BY <1>4, <1>5, <1>6 DEF HeapIsExact

\* Live blocks never overlap, the header is exactly the bytes they hold, and
\* free_memory exactly the rest: for every heap, any number of holders and any
\* order of requests and returns.
THEOREM ExactHeap ==
  ASSUME AlignedOnly
  PROVE  Spec => []HeapIsExact
<1>1. Init => HeapIsExact
  <2> SUFFICES ASSUME Init PROVE HeapIsExact
    OBVIOUS
  <2>1. \A s \in Holders : BytesOf(granted[s]) = {}
    BY DEF Init, BytesOf
  <2>2. heap.header = {} /\ heap.free_memory = Total /\ Cardinality(heap.header) = 0
    BY FS_EmptySet DEF Init, NewHeap
  <2> QED
    BY <2>1, <2>2, HeaderSizeAssumption
    DEF HeapIsExact, Disjoint, HeaderExact, FreeMemoryExact, Total, BitsPerField
<1>2. TypeOK /\ HeapIsExact /\ [Next]_vars => HeapIsExact'
  <2> SUFFICES ASSUME TypeOK, HeapIsExact, [Next]_vars PROVE HeapIsExact'
    OBVIOUS
  <2>1. CASE UNCHANGED vars
    BY <2>1 DEF vars, HeapIsExact, Disjoint, HeaderExact, FreeMemoryExact
  <2> QED
    BY <2>1, GetStaysExact, GiveBackStaysExact DEF Next
<1> QED
  BY <1>1, <1>2, TypeCorrect, PTL DEF Spec

-----------------------------------------------------------------------------
\* The heap implements the allocator its callers see: what they hold only
\* changes by a block given that touches no other, or by a block taken back.
THEOREM ImplementsPromise ==
  ASSUME AlignedOnly
  PROVE  Spec => KeepsPromise
<1>1. Init => Promise!Init
  BY DEF Init, Promise!Init
<1>2. TypeOK /\ HeapIsExact /\ [Next]_vars => [Promise!Next]_granted
  <2> SUFFICES ASSUME TypeOK, HeapIsExact, [Next]_vars
               PROVE  Promise!Next \/ UNCHANGED granted
    OBVIOUS
  <2>1. ASSUME NEW s \in Holders, NEW a \in Requests, NEW n \in Sizes,
               NEW align \in Alignments, Get(s, a, n, align)
        PROVE  Promise!Give(s) \/ UNCHANGED granted
    <3>1. CASE UNCHANGED granted
      BY <3>1
    <3>2. CASE ~(UNCHANGED granted)
      <4>1. PICK p \in Bytes :
              /\ IsFree(heap, p, n)
              /\ n \in 1 .. Total
              /\ granted' = [granted EXCEPT ![s] = [ptr |-> p, size |-> n]]
        BY <2>1, <3>2, GetCases
      <4>2. \A r \in Holders : Promise!BytesOf(granted[r]) \subseteq heap.header
        BY DEF HeapIsExact, HeaderExact, BytesOf, Promise!BytesOf, Span
      <4>3. p + n <= Total
        <5>1. p + n - 1 \in Span(p, n)
          BY <4>1, HeaderSizeAssumption DEF Span, Bytes, Total, BitsPerField
        <5> QED
          BY <4>1, <5>1, HeaderSizeAssumption DEF IsFree, Bytes, Total, BitsPerField
      <4>4. \A r \in Holders :
              Promise!BytesOf(granted[r]) \cap (p .. p + n - 1) = {}
        BY <4>1, <4>2 DEF IsFree, Span
      <4>5. granted[s] = NoBlock
        BY <2>1 DEF Get
      <4> QED
        BY <4>1, <4>3, <4>4, <4>5 DEF Promise!Give, Bytes
    <3> QED
      BY <3>1, <3>2
  <2>2. ASSUME NEW s \in Holders, GiveBack(s)
        PROVE  Promise!TakeBack(s)
    BY <2>2 DEF GiveBack, Promise!TakeBack
  <2>3. CASE UNCHANGED vars
    BY <2>3 DEF vars
  <2> QED
    BY <2>1, <2>2, <2>3 DEF Next, Promise!Next
<1> QED
  BY <1>1, <1>2, TypeCorrect, ExactHeap, PTL DEF Spec, KeepsPromise, Promise!Spec

-----------------------------------------------------------------------------
\* Wherever the hint stands, a search fails only if there is no place for the
\* request in the whole header; both allocators, any alignment of the heap.
THEOREM NoFalseRefusal == Spec => []RefusedOnlyWhenFull
<1>1. TypeOK => RefusedOnlyWhenFull
  <2> SUFFICES ASSUME TypeOK, NEW n \in Sizes, n <= heap.free_memory
               PROVE  /\ kheap_get_free_mem2(heap, n).block = NoBlock =>
                           \A p \in Bytes : ~IsFree(heap, p, n)
                      /\ \A align \in Alignments :
                           kheap_get_free_aligned(heap, n, align).block = NoBlock =>
                             \A f \in Fields : ~IsFree(heap, BitsPerField * f, n)
    BY DEF RefusedOnlyWhenFull
  <2>1. n \in Nat \ {0} /\ heap \in Heap
    BY SizesAssumption DEF TypeOK
  <2>2. \A h, f, p, ptr : ptr \in Nat => Grant(h, f, p, ptr, n).block # NoBlock
    BY DEF Grant, NoBlock
  <2>3. ASSUME n > Total
        PROVE  \A p \in Bytes : ~IsFree(heap, p, n)
    <3> SUFFICES ASSUME NEW p \in Bytes, IsFree(heap, p, n) PROVE FALSE
      OBVIOUS
    <3>1. p + n - 1 \in Span(p, n)
      BY <2>1, HeaderSizeAssumption DEF Span, Bytes, Total, BitsPerField
    <3> QED
      BY <2>1, <2>3, <3>1, HeaderSizeAssumption DEF IsFree, Bytes, Total, BitsPerField
  <2>4. ASSUME kheap_get_free_mem2(heap, n).block = NoBlock
        PROVE  \A p \in Bytes : ~IsFree(heap, p, n)
    <3>1. CASE n > Total
      BY <2>3, <3>1
    <3>2. CASE ~(n > Total)
      <4>1. ~Rejected(heap, n)
        BY <2>1, <3>2, HeaderSizeAssumption DEF Rejected, Heap, Total, BitsPerField
      <4>2. ASSUME NEW from \in Nat, RunStarts(heap, from, n) # {}
            PROVE  SearchMem2(heap, from, n).block # NoBlock
        <5>1. RunStarts(heap, from, n) \subseteq Nat
          BY HeaderSizeAssumption DEF RunStarts, Bytes, Total, BitsPerField
        <5>2. Least(RunStarts(heap, from, n)) \in RunStarts(heap, from, n)
          BY <4>2, <5>1, LeastIsLeast
        <5>3. RecordedStart(heap, from, Least(RunStarts(heap, from, n))) \in Nat
          BY <5>2, HeaderSizeAssumption
          DEF RunStarts, RecordedStart, Bytes, Total, BitsPerField
        <5> QED
          BY <2>2, <5>3 DEF SearchMem2
      <4>3. RunStarts(heap, 0, n) = {}
        BY <2>1, <2>4, <4>1, <4>2 DEF kheap_get_free_mem2, Heap
      <4> QED
        BY <4>3 DEF RunStarts, Bytes, BitsPerField
    <3> QED
      BY <3>1, <3>2
  <2>5. ASSUME NEW align \in Alignments,
               kheap_get_free_aligned(heap, n, align).block = NoBlock
        PROVE  \A f \in Fields : ~IsFree(heap, BitsPerField * f, n)
    <3>1. CASE n > Total
      <4>1. \A f \in Fields : BitsPerField * f \in Bytes
        BY HeaderSizeAssumption DEF Fields, Bytes, Total, BitsPerField
      <4> QED
        BY <2>3, <3>1, <4>1
    <3>2. CASE ~(n > Total)
      <4>1. ~Rejected(heap, n)
        BY <2>1, <3>2, HeaderSizeAssumption DEF Rejected, Heap, Total, BitsPerField
      <4>2. ASSUME NEW from \in Nat, AlignedStarts(heap, from, n) # {}
            PROVE  SearchAligned(heap, from, n, align).block # NoBlock
        <5>1. AlignedStarts(heap, from, n) \subseteq Nat
          BY HeaderSizeAssumption DEF AlignedStarts, Fields
        <5>2. Least(AlignedStarts(heap, from, n)) \in Nat
          BY <4>2, <5>1, LeastIsLeast
        <5>3. BitsPerField * Least(AlignedStarts(heap, from, n)) + Skew(align) \in Nat
          BY <5>2, SkewIsSmall DEF BitsPerField
        <5> QED
          BY <2>2, <5>3 DEF SearchAligned
      <4>3. AlignedStarts(heap, 0, n) = {}
        BY <2>1, <2>5, <4>1, <4>2 DEF kheap_get_free_aligned, Heap
      <4> QED
        BY <4>3, HeaderSizeAssumption DEF AlignedStarts, Fields
    <3> QED
      BY <3>1, <3>2
  <2> QED
    BY <2>4, <2>5
<1> QED
  BY <1>1, TypeCorrect, PTL

-----------------------------------------------------------------------------
(***************************************************************************)
(* The closed forms of NewMem against the loops of the code.               *)
(***************************************************************************)
Counters == [count : Nat, place : Nat, done : BOOLEAN]

LEMMA BitType ==
  ASSUME NEW h, NEW n, NEW c \in Counters, NEW b \in Nat
  PROVE  Mem2Bit(h, n, c, b) \in Counters
<1> DEFINE f == b \div BitsPerField
<1>1. f \in Nat /\ BitsPerField * (f + 1) \in Nat /\ BitsPerField * f \in Nat
  BY DEF BitsPerField
<1>2. c.count + 1 \in Nat /\ (c.count + 1 = n) \in BOOLEAN
  BY DEF Counters
<1>3. CASE c.done
  BY <1>3 DEF Mem2Bit
<1>4. CASE ~c.done /\ FieldIsFull(h, f)
  <2>1. Mem2Bit(h, n, c, b) = [count |-> 0, place |-> BitsPerField * (f + 1), done |-> FALSE]
    BY <1>4 DEF Mem2Bit
  <2> QED
    BY <1>1, <2>1 DEF Counters
<1>5. CASE ~c.done /\ ~FieldIsFull(h, f) /\ b \in h.header
  <2> DEFINE place == IF (b % BitsPerField) + 1 < BitsPerField THEN b + 1 ELSE BitsPerField * f
  <2>1. Mem2Bit(h, n, c, b) = [count |-> 0, done |-> FALSE, place |-> place]
    BY <1>5 DEF Mem2Bit
  <2>2. place \in Nat
    BY <1>1
  <2> QED
    BY <2>1, <2>2 DEF Counters
<1>6. CASE ~c.done /\ ~FieldIsFull(h, f) /\ b \notin h.header
  <2>1. Mem2Bit(h, n, c, b) = [c EXCEPT !.count = c.count + 1, !.done = (c.count + 1 = n)]
    BY <1>6 DEF Mem2Bit
  <2> QED
    BY <1>2, <2>1 DEF Counters
<1> QED
  BY <1>3, <1>4, <1>5, <1>6

\* scan[k] are the counters once k bytes from the hint on were looked at.
LEMMA Mem2Scan ==
  ASSUME NEW h, NEW n, NEW from \in 0 .. HeaderSize
  PROVE  LET First == BitsPerField * from
             N == Total - First
         IN  \E scan \in [0 .. N -> Counters] :
               /\ scan[0] = [count |-> 0, place |-> 0, done |-> FALSE]
               /\ \A k \in 0 .. N - 1 : scan[k + 1] = Mem2Bit(h, n, scan[k], First + k)
               /\ scan[N] = Mem2Loop(h, n, from)
<1> DEFINE First == BitsPerField * from
           N == Total - First
           base == [count |-> 0, place |-> 0, done |-> FALSE]
           step == [k \in 0 .. N - 1 |->
                      [c \in Counters |-> Mem2Bit(h, n, c, First + k)]]
           Once(g) == [b \in First - 1 .. Total - 1 |->
                         IF b = First - 1 THEN base ELSE Mem2Bit(h, n, g[b - 1], b)]
           Scan[b \in First - 1 .. Total - 1] ==
             IF b = First - 1 THEN base ELSE Mem2Bit(h, n, Scan[b - 1], b)
<1>0. First \in Nat /\ N \in Nat /\ Total \in Nat /\ Total = First + N
  BY HeaderSizeAssumption DEF Total, BitsPerField
<1>1. base \in Counters /\ step \in [0 .. N - 1 -> [Counters -> Counters]]
  <2>1. base \in Counters
    BY DEF Counters
  <2>2. ASSUME NEW k \in 0 .. N - 1, NEW c \in Counters
        PROVE  Mem2Bit(h, n, c, First + k) \in Counters
    <3>1. First + k \in Nat
      BY <1>0
    <3> HIDE DEF First
    <3> QED
      BY <3>1, BitType
  <2> HIDE DEF Counters, First, N
  <2> QED
    BY <2>1, <2>2
<1> HIDE DEF First, N
<1>2. PICK scan : Unrolls(scan, N, Counters, base, step)
  <2> HIDE DEF base, step
  <2> QED
    BY <1>0, <1>1, UnrollingExists
<1>3. scan \in [0 .. N -> Counters] /\ scan[0] = base
  BY <1>2 DEF Unrolls
<1>4. ASSUME NEW k \in 0 .. N - 1 PROVE scan[k + 1] = Mem2Bit(h, n, scan[k], First + k)
  <2>1. scan[k + 1] = step[k][scan[k]] /\ scan[k] \in Counters
    BY <1>0, <1>2, <1>3 DEF Unrolls
  <2> HIDE DEF Counters
  <2> QED
    BY <2>1
<1> DEFINE g == [b \in First - 1 .. Total - 1 |-> scan[b - First + 1]]
<1>5. g = Once(g)
  <2>1. ASSUME NEW b \in First - 1 .. Total - 1
        PROVE  g[b] = IF b = First - 1 THEN base ELSE Mem2Bit(h, n, g[b - 1], b)
    <3>1. CASE b = First - 1
      <4>1. b - First + 1 = 0
        BY <1>0, <3>1
      <4> QED
        BY <1>3, <3>1, <4>1
    <3>2. CASE b # First - 1
      <4>1. /\ b - 1 \in First - 1 .. Total - 1 /\ b - First \in 0 .. N - 1
            /\ (b - 1) - First + 1 = b - First /\ First + (b - First) = b
        BY <1>0, <3>2
      <4>2. g[b - 1] = scan[b - First] /\ g[b] = scan[(b - First) + 1]
        BY <4>1
      <4> QED
        BY <1>4, <3>2, <4>1, <4>2
    <3> QED
      BY <3>1, <3>2
  <2> HIDE DEF base
  <2> QED
    BY <2>1
<1>6. Scan = Once(Scan)
  <2>1. Scan = CHOOSE s : s = Once(s)
    OBVIOUS
  <2> HIDE DEF g
  <2> QED
    BY <1>5, <2>1
<1>7. Mem2Loop(h, n, from) = Scan[Total - 1]
  BY DEF Mem2Loop, First
<1> HIDE DEF Scan
<1>8. 0 .. N \subseteq {k \in 0 .. N : Scan[First - 1 + k] = scan[k]}
  <2> DEFINE S == {k \in 0 .. N : Scan[First - 1 + k] = scan[k]}
  <2>0. \A b \in First - 1 .. Total - 1 :
          Scan[b] = IF b = First - 1 THEN base ELSE Mem2Bit(h, n, Scan[b - 1], b)
    BY <1>6
  <2>1. 0 \in S
    <3>1. First - 1 + 0 = First - 1 /\ First - 1 \in First - 1 .. Total - 1
      BY <1>0
    <3>2. Scan[First - 1] = base
      BY <2>0, <3>1
    <3>3. Scan[First - 1 + 0] = scan[0] /\ 0 \in 0 .. N
      <4> HIDE DEF base
      <4> QED
        BY <1>0, <1>3, <3>1, <3>2
    <3> QED
      BY <3>3
  <2>2. ASSUME NEW k \in 0 .. N - 1, k \in S PROVE k + 1 \in S
    <3>1. /\ k + 1 \in 0 .. N /\ First - 1 + (k + 1) = First + k
          /\ First + k \in First - 1 .. Total - 1 /\ First + k # First - 1
          /\ (First + k) - 1 = First - 1 + k
      BY <1>0
    <3>2. Scan[First - 1 + k] = scan[k]
      BY <2>2
    <3> QED
      BY <1>4, <2>0, <3>1, <3>2
  <2> HIDE DEF S
  <2>3. 0 .. N \subseteq S
    BY <1>0, <2>1, <2>2, BoundedInduction
  <2> QED
    BY <2>3 DEF S
<1>9. scan[N] = Mem2Loop(h, n, from)
  <2>1. N \in 0 .. N /\ First - 1 + N = Total - 1
    BY <1>0
  <2> QED
    BY <1>7, <1>8, <2>1
<1> QED
  BY <1>3, <1>4, <1>9 DEF First, N

\* The counters of kheap_get_free_mem2 before it looks at byte b.  As long as it
\* goes on, the count bytes before b are free, no run begins earlier, and the place
\* is the one for a run that begins with them.
PlaceFor(h, from, p) ==
  IF p = BitsPerField * from THEN 0
  ELSE IF FieldIsFull(h, (p - 1) \div BitsPerField)
       THEN BitsPerField * ((p - 1) \div BitsPerField + 1)
       ELSE IF p % BitsPerField # 0 THEN p ELSE p - BitsPerField

Counting(h, n, from, c, b) ==
  /\ c.count < n /\ BitsPerField * from <= b - c.count
  /\ Span(b - c.count, c.count) \cap h.header = {}
  /\ \A q \in RunStarts(h, from, n) : b - c.count <= q
  /\ c.place = PlaceFor(h, from, b - c.count)
Found(h, n, from, c) ==
  \E p \in RunStarts(h, from, n) :
    /\ \A q \in RunStarts(h, from, n) : p <= q
    /\ c.place = PlaceFor(h, from, p)
Mem2Inv(h, n, from, c, b) ==
  IF c.done THEN Found(h, n, from, c) ELSE Counting(h, n, from, c, b)

\* A run cannot begin before a used byte unless it ends there.
LEMMA RunsAvoidUsed ==
  ASSUME NEW h \in Heap, NEW n \in Nat \ {0}, NEW from \in 0 .. HeaderSize,
         NEW c \in Counters, NEW b \in Bytes, Counting(h, n, from, c, b), b \in h.header
  PROVE  \A q \in RunStarts(h, from, n) : b + 1 <= q
<1> SUFFICES ASSUME NEW q \in RunStarts(h, from, n), ~(b + 1 <= q) PROVE FALSE
  OBVIOUS
<1>1. q \in Nat /\ b \in Nat /\ c.count \in Nat /\ c.count < n /\ b - c.count <= q
  BY HeaderSizeAssumption
  DEF RunStarts, Counting, Counters, Bytes, Total, BitsPerField
<1>2. q <= b /\ b < q + n
  BY <1>1
<1>3. b \in Span(q, n)
  BY <1>1, <1>2 DEF Span
<1> QED
  BY <1>3 DEF RunStarts, IsFree

LEMMA Mem2Step ==
  ASSUME NEW h \in Heap, NEW n \in Nat \ {0}, NEW from \in 0 .. HeaderSize,
         NEW c \in Counters, NEW b \in Bytes, BitsPerField * from <= b,
         Mem2Inv(h, n, from, c, b)
  PROVE  Mem2Inv(h, n, from, Mem2Bit(h, n, c, b), b + 1)
<1> DEFINE f == b \div BitsPerField
           d == Mem2Bit(h, n, c, b)
<1>0. /\ b \in Nat /\ f \in Nat /\ b < Total /\ Total \in Nat /\ from \in Nat
      /\ BitsPerField * f <= b /\ b < BitsPerField * f + BitsPerField
      /\ b % BitsPerField = b - BitsPerField * f
  BY HeaderSizeAssumption DEF Bytes, Total, BitsPerField
<1>1. CASE c.done
  BY <1>1 DEF Mem2Bit, Mem2Inv
<1> DEFINE place == IF FieldIsFull(h, f) THEN BitsPerField * (f + 1)
                    ELSE IF (b % BitsPerField) + 1 < BitsPerField
                         THEN b + 1 ELSE BitsPerField * f
<1>2. CASE ~c.done /\ b \in h.header
  <2>1. d = [count |-> 0, place |-> place, done |-> FALSE]
    BY <1>2 DEF Mem2Bit
  <2>2. place = PlaceFor(h, from, b + 1)
    <3>1. (b + 1) - 1 = b /\ b + 1 # BitsPerField * from
      BY <1>0 DEF BitsPerField
    <3>2. PlaceFor(h, from, b + 1)
            = IF FieldIsFull(h, f) THEN BitsPerField * (f + 1)
              ELSE IF (b + 1) % BitsPerField # 0 THEN b + 1 ELSE (b + 1) - BitsPerField
      BY <3>1 DEF PlaceFor
    <3>3. /\ (b % BitsPerField) + 1 < BitsPerField <=> (b + 1) % BitsPerField # 0
          /\ (b + 1) % BitsPerField = 0 => (b + 1) - BitsPerField = BitsPerField * f
      BY <1>0 DEF BitsPerField
    <3> QED
      BY <3>2, <3>3
  <2>3. Counting(h, n, from, c, b)
    BY <1>2 DEF Mem2Inv
  <2>4. \A q \in RunStarts(h, from, n) : b + 1 <= q
    BY <1>2, <2>3, RunsAvoidUsed
  <2> HIDE DEF place, d, f
  <2>5. d.count = 0 /\ d.place = place /\ d.done = FALSE
    BY <2>1
  <2>6. Span((b + 1) - 0, 0) = {} /\ (b + 1) - 0 = b + 1
    BY <1>0 DEF Span
  <2>7. Counting(h, n, from, d, b + 1)
    BY <1>0, <2>2, <2>4, <2>5, <2>6 DEF Counting, BitsPerField
  <2> QED
    BY <2>5, <2>7 DEF Mem2Inv, d
<1>3. CASE ~c.done /\ b \notin h.header
  <2>0. Counting(h, n, from, c, b) /\ c.count \in Nat /\ c.place \in Nat
    BY <1>3 DEF Mem2Inv, Counters
  <2>1. ~FieldIsFull(h, f)
    <3>1. b \in Span(BitsPerField * f, BitsPerField)
      BY <1>0 DEF Span, BitsPerField
    <3> QED
      BY <1>3, <3>1 DEF FieldIsFull
  <2>2. d = [c EXCEPT !.count = c.count + 1, !.done = (c.count + 1 = n)]
    BY <1>3, <2>1 DEF Mem2Bit
  <2> HIDE DEF d
  <2>3. d.count = c.count + 1 /\ d.place = c.place /\ d.done = (c.count + 1 = n)
    BY <2>2 DEF Counters
  <2> DEFINE p == b - c.count
  <2>4. (b + 1) - (c.count + 1) = p /\ p \in Int /\ BitsPerField * from <= p
    BY <1>0, <2>0 DEF Counting, BitsPerField
  <2>5. Span(p, c.count + 1) \cap h.header = {}
    <3>1. \A x \in Span(p, c.count + 1) : x = b \/ x \in Span(p, c.count)
      BY <1>0, <2>0 DEF Span
    <3> QED
      BY <1>3, <2>0, <3>1 DEF Counting
  <2>6. CASE c.count + 1 = n
    <3>1. p \in RunStarts(h, from, n)
      <4>1. p \in Nat /\ p <= b /\ p + n = b + 1
        BY <1>0, <2>0, <2>4, <2>6 DEF BitsPerField
      <4>2. Span(p, n) \subseteq Bytes /\ p \in Bytes
        BY <1>0, <4>1 DEF Span, Bytes
      <4> QED
        BY <2>4, <2>5, <2>6, <4>2 DEF RunStarts, IsFree
    <3>2. Found(h, n, from, d)
      BY <2>0, <2>3, <3>1 DEF Found, Counting
    <3> QED
      BY <2>3, <2>6, <3>2 DEF Mem2Inv, d
  <2>7. CASE c.count + 1 # n
    <3>1. c.count + 1 < n
      BY <2>0, <2>7 DEF Counting
    <3>2. Counting(h, n, from, d, b + 1)
      BY <2>0, <2>3, <2>4, <2>5, <3>1 DEF Counting
    <3> QED
      BY <2>3, <2>7, <3>2 DEF Mem2Inv, d
  <2> QED
    BY <2>6, <2>7
<1> QED
  BY <1>1, <1>2, <1>3

\* kheap_get_free_mem2's loop and its closed form.
LEMMA Mem2Agrees ==
  ASSUME NEW h \in Heap, NEW n \in Nat \ {0}, NEW from \in 0 .. HeaderSize
  PROVE  /\ Mem2Loop(h, n, from).done <=> RunStarts(h, from, n) # {}
         /\ RunStarts(h, from, n) # {} =>
              Mem2Loop(h, n, from).place = SearchMem2(h, from, n).block.ptr
<1> DEFINE First == BitsPerField * from
           N == Total - First
           end == Mem2Loop(h, n, from)
<1>0. First \in Nat /\ N \in Nat /\ Total \in Nat /\ Total = First + N
  BY HeaderSizeAssumption DEF Total, BitsPerField
<1>1. PICK scan \in [0 .. N -> Counters] :
        /\ scan[0] = [count |-> 0, place |-> 0, done |-> FALSE]
        /\ \A k \in 0 .. N - 1 : scan[k + 1] = Mem2Bit(h, n, scan[k], First + k)
        /\ scan[N] = end
  BY Mem2Scan
<1> HIDE DEF end
<1>r. \A q \in RunStarts(h, from, n) : q \in Nat /\ First <= q /\ q + n <= Total
                                      /\ q \notin h.header
  <2> SUFFICES ASSUME NEW q \in RunStarts(h, from, n)
               PROVE  q \in Nat /\ First <= q /\ q + n <= Total /\ q \notin h.header
    OBVIOUS
  <2>1. q \in Nat /\ First <= q /\ Span(q, n) \subseteq Bytes /\ Span(q, n) \cap h.header = {}
    BY <1>0 DEF RunStarts, IsFree, Bytes
  <2>2. q \in Span(q, n) /\ q + n - 1 \in Span(q, n)
    BY <2>1 DEF Span
  <2>3. q + n - 1 < Total
    BY <1>0, <2>1, <2>2 DEF Bytes
  <2> QED
    BY <1>0, <2>1, <2>2, <2>3
<1>2. 0 .. N \subseteq {k \in 0 .. N : Mem2Inv(h, n, from, scan[k], First + k)}
  <2> DEFINE S == {k \in 0 .. N : Mem2Inv(h, n, from, scan[k], First + k)}
  <2>1. 0 \in S
    <3>1. /\ scan[0].count = 0 /\ scan[0].place = 0 /\ scan[0].done = FALSE
          /\ 0 \in 0 .. N /\ First + 0 = First /\ First - 0 = First
      BY <1>0, <1>1
    <3>2. Span(First, 0) = {}
      BY <1>0 DEF Span
    <3>3. Counting(h, n, from, scan[0], First)
      BY <1>0, <1>r, <3>1, <3>2 DEF Counting, PlaceFor
    <3> QED
      BY <3>1, <3>3 DEF Mem2Inv
  <2>2. ASSUME NEW k \in 0 .. N - 1, k \in S PROVE k + 1 \in S
    <3>1. /\ k \in 0 .. N /\ k + 1 \in 0 .. N /\ First + k \in Bytes
          /\ (First + k) + 1 = First + (k + 1) /\ First <= First + k
      BY <1>0 DEF Bytes
    <3>2. scan[k] \in Counters /\ scan[k + 1] = Mem2Bit(h, n, scan[k], First + k)
      BY <1>1, <3>1
    <3>3. Mem2Inv(h, n, from, scan[k], First + k)
      BY <2>2
    <3>4. Mem2Inv(h, n, from, scan[k + 1], First + (k + 1))
      BY <3>1, <3>2, <3>3, Mem2Step
    <3> QED
      BY <3>1, <3>4
  <2> HIDE DEF S
  <2>3. 0 .. N \subseteq S
    BY <1>0, <2>1, <2>2, BoundedInduction
  <2> QED
    BY <2>3 DEF S
<1>3. Mem2Inv(h, n, from, end, Total) /\ end \in Counters
  BY <1>0, <1>1, <1>2
<1>4. CASE ~end.done
  <2>1. Counting(h, n, from, end, Total) /\ end.count \in Nat
    BY <1>3, <1>4 DEF Mem2Inv, Counters
  <2>2. ASSUME NEW q \in RunStarts(h, from, n) PROVE FALSE
    <3>1. Total - end.count <= q /\ end.count < n
      BY <2>1 DEF Counting
    <3> QED
      BY <1>0, <1>r, <2>1, <3>1
  <2> QED
    BY <1>4, <2>2 DEF end
<1>5. CASE end.done
  <2>1. PICK p \in RunStarts(h, from, n) :
          /\ \A q \in RunStarts(h, from, n) : p <= q
          /\ end.place = PlaceFor(h, from, p)
    BY <1>3, <1>5 DEF Mem2Inv, Found
  <2>2. Least(RunStarts(h, from, n)) = p
    <3> DEFINE x == Least(RunStarts(h, from, n))
    <3>1. RunStarts(h, from, n) \subseteq Nat
      BY <1>r
    <3>2. x \in RunStarts(h, from, n) /\ x <= p
      BY <2>1, <3>1, LeastIsLeast
    <3> HIDE DEF x
    <3>3. x \in Nat /\ p \in Nat /\ p <= x
      BY <2>1, <3>1, <3>2
    <3>4. x = p
      BY <3>2, <3>3
    <3> QED
      BY <3>4 DEF x
  <2>3. PlaceFor(h, from, p) = RecordedStart(h, from, p)
    <3>1. p \in Nat /\ First <= p /\ p \notin h.header
      BY <1>r
    <3>2. CASE p = First
      BY <3>2 DEF PlaceFor, RecordedStart
    <3>3. CASE p # First /\ p % BitsPerField = 0
      <4>1. /\ (p - 1) \div BitsPerField = p \div BitsPerField - 1
            /\ BitsPerField * ((p \div BitsPerField - 1) + 1) = p
        <5> DEFINE g == p \div BitsPerField
        <5>0. p > 0
          <6> HIDE DEF First
          <6> QED
            BY <1>0, <3>1, <3>3
        <5>1. p > 0 /\ g \in Nat /\ p = BitsPerField * g
          <6>1. p \in Nat /\ p % 8 = 0
            BY <3>1, <3>3 DEF BitsPerField
          <6> QED
            BY <5>0, <6>1 DEF BitsPerField
        <5> HIDE DEF g
        <5>2. p - 1 = BitsPerField * (g - 1) + 7 /\ g - 1 \in Nat
          BY <3>1, <5>1 DEF BitsPerField
        <5>3. (p - 1) \div BitsPerField = g - 1
          BY <3>1, <5>2 DEF BitsPerField
        <5>4. BitsPerField * ((g - 1) + 1) = p
          BY <5>1
        <5> QED
          BY <5>3, <5>4 DEF g
      <4> QED
        BY <3>3, <4>1 DEF PlaceFor, RecordedStart
    <3>4. CASE p # First /\ p % BitsPerField # 0
      <4> DEFINE f == p \div BitsPerField
      <4>1. (p - 1) \div BitsPerField = f /\ BitsPerField * f <= p
            /\ p < BitsPerField * f + BitsPerField /\ f \in Nat
        <5>1. p \in Nat /\ p % 8 # 0
          BY <3>1, <3>4 DEF BitsPerField
        <5> DEFINE r == p % 8
        <5>2. f \in Nat /\ r \in 1 .. 7 /\ p = 8 * f + r
          BY <5>1 DEF BitsPerField
        <5> HIDE DEF f, r
        <5>3. p - 1 = 8 * f + (r - 1) /\ r - 1 \in 0 .. 7
          BY <5>1, <5>2
        <5>4. (p - 1) \div 8 = f
          BY <5>1, <5>2, <5>3
        <5> QED
          BY <5>1, <5>2, <5>4 DEF BitsPerField
      <4>2. p \in Span(BitsPerField * f, BitsPerField)
        BY <3>1, <4>1 DEF Span, BitsPerField
      <4>3. ~FieldIsFull(h, f)
        BY <3>1, <4>2 DEF FieldIsFull
      <4> QED
        BY <3>4, <4>1, <4>3 DEF PlaceFor, RecordedStart
    <3> QED
      BY <3>2, <3>3, <3>4
  <2>4. SearchMem2(h, from, n).block.ptr = RecordedStart(h, from, p)
    BY <2>2 DEF SearchMem2, Grant
  <2> QED
    BY <1>5, <2>1, <2>3, <2>4 DEF end
<1> QED
  BY <1>4, <1>5

\* The bitfields of the aligned search, likewise.
LEMMA FieldType ==
  ASSUME NEW h, NEW n \in Nat, NEW c \in Counters, NEW f \in Nat
  PROVE  AlignedField(h, n, c, f) \in Counters
<1> DEFINE used == Span(BitsPerField * f, BitsPerField) \cap h.header
           before == Least(used) - BitsPerField * f
<1>1. f \in Nat /\ BitsPerField * (f + 1) \in Nat /\ c.count + 8 \in Nat
  BY DEF BitsPerField, Counters
<1>2. CASE c.done
  BY <1>2 DEF AlignedField
<1>3. CASE ~c.done /\ used = {}
  <2> DEFINE reached == c.count + 8 >= n
  <2>1. AlignedField(h, n, c, f) = [c EXCEPT !.count = c.count + 8, !.done = reached]
    BY <1>3 DEF AlignedField
  <2>2. reached \in BOOLEAN
    OBVIOUS
  <2> HIDE DEF reached, used, before
  <2> QED
    BY <1>1, <2>1, <2>2 DEF Counters
<1>4. CASE ~c.done /\ used # {} /\ c.count + before >= n
  <2>1. AlignedField(h, n, c, f) = [c EXCEPT !.count = n, !.done = TRUE]
    BY <1>4 DEF AlignedField
  <2> QED
    BY <2>1 DEF Counters
<1>5. CASE ~c.done /\ used # {} /\ ~(c.count + before >= n)
  <2>1. AlignedField(h, n, c, f)
          = [count |-> 0, place |-> BitsPerField * (f + 1), done |-> FALSE]
    BY <1>5 DEF AlignedField
  <2> QED
    BY <1>1, <2>1 DEF Counters
<1> DEFINE enough == c.count + before >= n
           type == AlignedField(h, n, c, f) \in Counters
<1> HIDE DEF used, before, enough, type
<1>6. ~c.done /\ used # {} /\ enough => type
  BY <1>4 DEF enough, type
<1>7. ~c.done /\ used # {} /\ ~enough => type
  BY <1>5 DEF enough, type
<1>8. type
  BY <1>2, <1>3, <1>6, <1>7 DEF type
<1> QED
  BY <1>8 DEF type

\* scan[k] are the counters once k bitfields from the hint on were looked at.
LEMMA AlignedScan ==
  ASSUME NEW h, NEW n \in Nat, NEW from \in 0 .. HeaderSize
  PROVE  LET N == HeaderSize - from
         IN  \E scan \in [0 .. N -> Counters] :
               /\ scan[0] = [count |-> 0, place |-> BitsPerField * from, done |-> FALSE]
               /\ \A k \in 0 .. N - 1 : scan[k + 1] = AlignedField(h, n, scan[k], from + k)
               /\ scan[N] = AlignedLoop(h, n, from)
<1> DEFINE N == HeaderSize - from
           base == [count |-> 0, place |-> BitsPerField * from, done |-> FALSE]
           step == [k \in 0 .. N - 1 |->
                      [c \in Counters |-> AlignedField(h, n, c, from + k)]]
           Once(g) == [b \in from - 1 .. HeaderSize - 1 |->
                         IF b = from - 1 THEN base ELSE AlignedField(h, n, g[b - 1], b)]
           Scan[b \in from - 1 .. HeaderSize - 1] ==
             IF b = from - 1 THEN base ELSE AlignedField(h, n, Scan[b - 1], b)
<1>0. from \in Nat /\ N \in Nat /\ HeaderSize \in Nat /\ HeaderSize = from + N
  BY HeaderSizeAssumption
<1>1. base \in Counters /\ step \in [0 .. N - 1 -> [Counters -> Counters]]
  <2>1. base \in Counters
    BY <1>0 DEF Counters, BitsPerField
  <2>2. ASSUME NEW k \in 0 .. N - 1, NEW c \in Counters
        PROVE  AlignedField(h, n, c, from + k) \in Counters
    <3>1. from + k \in Nat
      BY <1>0
    <3> HIDE DEF N
    <3> QED
      BY <3>1, FieldType
  <2> HIDE DEF Counters, N
  <2> QED
    BY <2>1, <2>2
<1> HIDE DEF N
<1>2. PICK scan : Unrolls(scan, N, Counters, base, step)
  <2> HIDE DEF base, step
  <2> QED
    BY <1>0, <1>1, UnrollingExists
<1>3. scan \in [0 .. N -> Counters] /\ scan[0] = base
  BY <1>2 DEF Unrolls
<1>4. ASSUME NEW k \in 0 .. N - 1 PROVE scan[k + 1] = AlignedField(h, n, scan[k], from + k)
  <2>1. scan[k + 1] = step[k][scan[k]] /\ scan[k] \in Counters
    BY <1>0, <1>2, <1>3 DEF Unrolls
  <2> HIDE DEF Counters
  <2> QED
    BY <2>1
<1> DEFINE g == [b \in from - 1 .. HeaderSize - 1 |-> scan[b - from + 1]]
<1>5. g = Once(g)
  <2>1. ASSUME NEW b \in from - 1 .. HeaderSize - 1
        PROVE  g[b] = IF b = from - 1 THEN base ELSE AlignedField(h, n, g[b - 1], b)
    <3>1. CASE b = from - 1
      <4>1. b - from + 1 = 0
        BY <1>0, <3>1
      <4> QED
        BY <1>3, <3>1, <4>1
    <3>2. CASE b # from - 1
      <4>1. /\ b - 1 \in from - 1 .. HeaderSize - 1 /\ b - from \in 0 .. N - 1
            /\ (b - 1) - from + 1 = b - from /\ from + (b - from) = b
        BY <1>0, <3>2
      <4>2. g[b - 1] = scan[b - from] /\ g[b] = scan[(b - from) + 1]
        BY <4>1
      <4> QED
        BY <1>4, <3>2, <4>1, <4>2
    <3> QED
      BY <3>1, <3>2
  <2> HIDE DEF base
  <2> QED
    BY <2>1
<1>6. Scan = Once(Scan)
  <2>1. Scan = CHOOSE s : s = Once(s)
    OBVIOUS
  <2> HIDE DEF g
  <2> QED
    BY <1>5, <2>1
<1>7. AlignedLoop(h, n, from) = Scan[HeaderSize - 1]
  BY DEF AlignedLoop
<1> HIDE DEF Scan
<1>8. 0 .. N \subseteq {k \in 0 .. N : Scan[from - 1 + k] = scan[k]}
  <2> DEFINE S == {k \in 0 .. N : Scan[from - 1 + k] = scan[k]}
  <2>0. \A b \in from - 1 .. HeaderSize - 1 :
          Scan[b] = IF b = from - 1 THEN base ELSE AlignedField(h, n, Scan[b - 1], b)
    BY <1>6
  <2>1. 0 \in S
    <3>1. from - 1 + 0 = from - 1 /\ from - 1 \in from - 1 .. HeaderSize - 1
      BY <1>0
    <3>2. Scan[from - 1] = base
      BY <2>0, <3>1
    <3>3. Scan[from - 1 + 0] = scan[0] /\ 0 \in 0 .. N
      <4> HIDE DEF base
      <4> QED
        BY <1>0, <1>3, <3>1, <3>2
    <3> QED
      BY <3>3
  <2>2. ASSUME NEW k \in 0 .. N - 1, k \in S PROVE k + 1 \in S
    <3>1. /\ k + 1 \in 0 .. N /\ from - 1 + (k + 1) = from + k
          /\ from + k \in from - 1 .. HeaderSize - 1 /\ from + k # from - 1
          /\ (from + k) - 1 = from - 1 + k
      BY <1>0
    <3>2. Scan[from - 1 + k] = scan[k]
      BY <2>2
    <3> QED
      BY <1>4, <2>0, <3>1, <3>2
  <2> HIDE DEF S
  <2>3. 0 .. N \subseteq S
    BY <1>0, <2>1, <2>2, BoundedInduction
  <2> QED
    BY <2>3 DEF S
<1>9. scan[N] = AlignedLoop(h, n, from)
  <2>1. N \in 0 .. N /\ from - 1 + N = HeaderSize - 1
    BY <1>0
  <2> QED
    BY <1>7, <1>8, <2>1
<1> QED
  BY <1>3, <1>4, <1>9 DEF N

\* The counters of kheap_get_free_aligned before it looks at bitfield f: no run
\* begins before bitfield g, and the bytes from there to f are free.
FieldsFree(h, n, from, c, f, g) ==
  /\ c.count < n /\ c.count = BitsPerField * (f - g) /\ c.place = BitsPerField * g
  /\ Span(BitsPerField * g, c.count) \cap h.header = {}
  /\ \A q \in AlignedStarts(h, from, n) : g <= q
AlignedFound(h, n, from, c) ==
  \E g \in AlignedStarts(h, from, n) :
    /\ \A q \in AlignedStarts(h, from, n) : g <= q
    /\ c.place = BitsPerField * g
AlignedInv(h, n, from, c, f) ==
  IF c.done THEN AlignedFound(h, n, from, c)
            ELSE \E g \in from .. f : FieldsFree(h, n, from, c, f, g)

LEMMA AlignedStep ==
  ASSUME NEW h \in Heap, NEW n \in Nat \ {0}, NEW from \in 0 .. HeaderSize,
         NEW c \in Counters, NEW f \in Fields, from <= f, AlignedInv(h, n, from, c, f)
  PROVE  AlignedInv(h, n, from, AlignedField(h, n, c, f), f + 1)
<1> DEFINE used == Span(BitsPerField * f, BitsPerField) \cap h.header
           before == Least(used) - BitsPerField * f
           d == AlignedField(h, n, c, f)
<1>0. f \in Nat /\ f < HeaderSize /\ HeaderSize \in Nat /\ from \in Nat /\ c.count \in Nat
  BY HeaderSizeAssumption DEF Fields, Counters
<1>1. CASE c.done
  BY <1>1 DEF AlignedField, AlignedInv
<1>2. CASE ~c.done
  <2>1. PICK g \in from .. f : FieldsFree(h, n, from, c, f, g)
    BY <1>2 DEF AlignedInv
  <2>2. g \in Nat /\ g <= f /\ from <= g /\ g \in Fields /\ BitsPerField * g \in Nat
        /\ BitsPerField * g + c.count = BitsPerField * f
    BY <1>0, <2>1 DEF FieldsFree, BitsPerField, Fields
  \* Once the run from g on is complete, it is the first of all.
  <2>3. ASSUME NEW e \in Counters, e.done, e.place = c.place,
               Span(BitsPerField * g, n) \cap h.header = {},
               BitsPerField * g + n <= BitsPerField * (f + 1)
        PROVE  AlignedInv(h, n, from, e, f + 1)
    <3>1. Span(BitsPerField * g, n) \subseteq Bytes
      BY <1>0, <2>2, <2>3 DEF Span, Bytes, Total, BitsPerField
    <3>2. g \in AlignedStarts(h, from, n)
      BY <2>2, <2>3, <3>1 DEF AlignedStarts, IsFree
    <3> QED
      BY <2>1, <2>3, <3>2 DEF AlignedInv, AlignedFound, FieldsFree
  <2>4. CASE used = {}
    <3>1. d = [c EXCEPT !.count = c.count + 8, !.done = (c.count + 8 >= n)]
      BY <1>2, <2>4 DEF AlignedField
    <3> HIDE DEF d
    <3>2. d \in Counters /\ d.count = c.count + 8 /\ d.place = c.place
          /\ (d.done <=> c.count + 8 >= n)
      <4> DEFINE enough == c.count + 8 >= n
      <4>1. enough \in BOOLEAN /\ c.count + 8 \in Nat
        BY <1>0
      <4> HIDE DEF enough
      <4>2. d = [c EXCEPT !.count = c.count + 8, !.done = enough]
        BY <3>1 DEF enough
      <4>3. d \in Counters /\ d.count = c.count + 8 /\ d.place = c.place /\ d.done = enough
        BY <4>1, <4>2 DEF Counters
      <4> QED
        BY <4>1, <4>3 DEF enough
    <3>3. Span(BitsPerField * g, c.count + 8) \cap h.header = {}
      <4>1. \A x \in Span(BitsPerField * g, c.count + 8) :
              x \in Span(BitsPerField * f, BitsPerField) \/ x \in Span(BitsPerField * g, c.count)
        BY <1>0, <2>2 DEF Span, BitsPerField
      <4> QED
        BY <2>1, <2>4, <4>1 DEF FieldsFree
    <3>4. CASE c.count + 8 >= n
      <4>1. \A x \in Span(BitsPerField * g, n) : x \in Span(BitsPerField * g, c.count + 8)
        BY <1>0, <2>2, <3>4 DEF Span
      <4>2. BitsPerField * g + n <= BitsPerField * (f + 1)
        BY <1>0, <2>2, <3>4 DEF BitsPerField
      <4>3. Span(BitsPerField * g, n) \cap h.header = {}
        BY <3>3, <4>1
      <4>4. d.done
        BY <3>2, <3>4
      <4> QED
        BY <2>3, <3>2, <4>2, <4>3, <4>4 DEF d
    <3>5. CASE ~(c.count + 8 >= n)
      <4>1. d.count < n /\ ~d.done
        <5>1. c.count + 8 < n
          BY <1>0, <3>5
        <5> QED
          BY <3>2, <3>5, <5>1
      <4>2. d.count = BitsPerField * ((f + 1) - g)
        <5>1. c.count + 8 = BitsPerField * ((f + 1) - g)
          <6>1. c.count = 8 * (f - g) /\ f \in Nat /\ g \in Nat
            BY <1>0, <2>1, <2>2 DEF FieldsFree, BitsPerField
          <6>2. 8 * (f - g) + 8 = 8 * ((f + 1) - g)
            BY <6>1
          <6> QED
            BY <6>1, <6>2 DEF BitsPerField
        <5> QED
          BY <3>2, <5>1
      <4>3. FieldsFree(h, n, from, d, f + 1, g) /\ g \in from .. f + 1
        BY <1>0, <2>1, <2>2, <3>2, <3>3, <4>1, <4>2 DEF FieldsFree
      <4> QED
        BY <4>1, <4>3 DEF AlignedInv, d
    <3> QED
      BY <3>4, <3>5
  <2>5. CASE used # {}
    <3> DEFINE u == Least(used)
    <3>1. u \in used /\ (\A y \in used : u <= y) /\ u \in Nat
          /\ BitsPerField * f <= u /\ u < BitsPerField * (f + 1)
      <4>1. \A y \in used : y \in Nat /\ BitsPerField * f <= y /\ y < BitsPerField * (f + 1)
        BY <1>0 DEF Span, BitsPerField
      <4>2. used \subseteq Nat
        BY <4>1
      <4>3. u \in used /\ \A y \in used : u <= y
        <5> HIDE DEF used
        <5> QED
          BY <2>5, <4>2, LeastIsLeast
      <4> HIDE DEF used, u
      <4> QED
        BY <4>1, <4>3
    <3>2. u \in h.header
      BY <3>1
    <3>3. ASSUME NEW x \in Int, BitsPerField * f <= x, x < u PROVE x \notin h.header
      <4>1. x \in Span(BitsPerField * f, BitsPerField)
        <5> HIDE DEF u
        <5> QED
          BY <1>0, <3>1, <3>3 DEF Span, BitsPerField
      <4>2. x \notin used
        <5> HIDE DEF u, used
        <5> QED
          BY <3>1, <3>3
      <4> QED
        BY <4>1, <4>2
    <3>4. before = u - BitsPerField * f
      OBVIOUS
    <3>5. CASE c.count + before >= n
      <4>1. d = [c EXCEPT !.count = n, !.done = TRUE]
        BY <1>2, <2>5, <3>5 DEF AlignedField
      <4> HIDE DEF d
      <4>2. d \in Counters /\ d.place = c.place /\ d.done
        BY <4>1 DEF Counters
      <4> HIDE DEF u, before, used
      <4>3. Span(BitsPerField * g, n) \cap h.header = {}
            /\ BitsPerField * g + n <= BitsPerField * (f + 1)
        <5>1. \A x \in Span(BitsPerField * g, n) :
                x \in Span(BitsPerField * g, c.count)
                \/ (x \in Int /\ BitsPerField * f <= x /\ x < u)
          BY <1>0, <2>2, <3>1, <3>4, <3>5 DEF Span, BitsPerField
        <5>2. BitsPerField * g + n <= BitsPerField * (f + 1)
          BY <1>0, <2>2, <3>1, <3>4, <3>5 DEF BitsPerField
        <5> QED
          BY <2>1, <3>3, <5>1, <5>2 DEF FieldsFree
      <4> QED
        BY <2>3, <4>2, <4>3 DEF d
    <3>6. CASE ~(c.count + before >= n)
      <4>1. d = [count |-> 0, place |-> BitsPerField * (f + 1), done |-> FALSE]
        BY <1>2, <2>5, <3>6 DEF AlignedField
      <4> HIDE DEF d
      <4>2. d.count = 0 /\ d.place = BitsPerField * (f + 1) /\ ~d.done
        BY <4>1
      <4> HIDE DEF u, before, used
      <4>3. ASSUME NEW q \in AlignedStarts(h, from, n) PROVE f + 1 <= q
        <5>1. q \in Nat /\ g <= q /\ Span(BitsPerField * q, n) \cap h.header = {}
          BY <2>1 DEF AlignedStarts, Fields, IsFree, FieldsFree
        <5>2. q <= f => u \in Span(BitsPerField * q, n)
          BY <1>0, <2>2, <3>1, <3>4, <3>6, <5>1 DEF Span, BitsPerField
        <5> QED
          BY <1>0, <3>2, <5>1, <5>2
      <4>4. Span(BitsPerField * (f + 1), 0) = {}
        BY <1>0 DEF Span, BitsPerField
      <4>5. FieldsFree(h, n, from, d, f + 1, f + 1) /\ f + 1 \in from .. f + 1
        BY <1>0, <4>2, <4>3, <4>4 DEF FieldsFree, BitsPerField
      <4> QED
        BY <4>2, <4>5 DEF AlignedInv, d
    <3> QED
      BY <3>5, <3>6
  <2> QED
    BY <2>4, <2>5
<1> QED
  BY <1>1, <1>2

\* kheap_get_free_aligned's loop and its closed form.
LEMMA AlignedAgrees ==
  ASSUME NEW h \in Heap, NEW n \in Nat \ {0}, NEW from \in 0 .. HeaderSize
  PROVE  /\ AlignedLoop(h, n, from).done <=> AlignedStarts(h, from, n) # {}
         /\ AlignedStarts(h, from, n) # {} =>
              AlignedLoop(h, n, from).place = SearchAligned(h, from, n, 1).block.ptr
<1> DEFINE N == HeaderSize - from
           end == AlignedLoop(h, n, from)
<1>0. from \in Nat /\ N \in Nat /\ HeaderSize \in Nat /\ HeaderSize = from + N
  BY HeaderSizeAssumption
<1>1. PICK scan \in [0 .. N -> Counters] :
        /\ scan[0] = [count |-> 0, place |-> BitsPerField * from, done |-> FALSE]
        /\ \A k \in 0 .. N - 1 : scan[k + 1] = AlignedField(h, n, scan[k], from + k)
        /\ scan[N] = end
  BY AlignedScan
<1> HIDE DEF end
<1>2. 0 .. N \subseteq {k \in 0 .. N : AlignedInv(h, n, from, scan[k], from + k)}
  <2> DEFINE S == {k \in 0 .. N : AlignedInv(h, n, from, scan[k], from + k)}
  <2>1. 0 \in S
    <3>1. /\ scan[0].count = 0 /\ scan[0].place = BitsPerField * from
          /\ scan[0].done = FALSE /\ 0 \in 0 .. N /\ from + 0 = from
      BY <1>0, <1>1
    <3>2. Span(BitsPerField * from, 0) = {} /\ BitsPerField * (from - from) = 0
          /\ from \in from .. from
      BY <1>0 DEF Span, BitsPerField
    <3>3. FieldsFree(h, n, from, scan[0], from, from)
      BY <1>0, <3>1, <3>2 DEF FieldsFree, AlignedStarts
    <3> QED
      BY <3>1, <3>2, <3>3 DEF AlignedInv
  <2>2. ASSUME NEW k \in 0 .. N - 1, k \in S PROVE k + 1 \in S
    <3>1. /\ k \in 0 .. N /\ k + 1 \in 0 .. N /\ from + k \in Fields
          /\ (from + k) + 1 = from + (k + 1) /\ from <= from + k
      BY <1>0 DEF Fields
    <3>2. scan[k] \in Counters /\ scan[k + 1] = AlignedField(h, n, scan[k], from + k)
      BY <1>1, <3>1
    <3>3. AlignedInv(h, n, from, scan[k], from + k)
      BY <2>2
    <3>4. AlignedInv(h, n, from, scan[k + 1], from + (k + 1))
      BY <3>1, <3>2, <3>3, AlignedStep
    <3> QED
      BY <3>1, <3>4
  <2> HIDE DEF S
  <2>3. 0 .. N \subseteq S
    BY <1>0, <2>1, <2>2, BoundedInduction
  <2> QED
    BY <2>3 DEF S
<1>3. AlignedInv(h, n, from, end, HeaderSize) /\ end \in Counters
  BY <1>0, <1>1, <1>2
<1>4. CASE ~end.done
  <2>1. PICK g \in from .. HeaderSize : FieldsFree(h, n, from, end, HeaderSize, g)
    BY <1>3, <1>4 DEF AlignedInv
  <2>2. ASSUME NEW q \in AlignedStarts(h, from, n) PROVE FALSE
    <3>1. q \in Nat /\ q < HeaderSize /\ Span(BitsPerField * q, n) \subseteq Bytes
      BY <1>0 DEF AlignedStarts, Fields, IsFree
    <3>2. g \in Nat /\ g <= q /\ BitsPerField * (HeaderSize - g) < n
      BY <1>0, <2>1 DEF FieldsFree
    <3>3. BitsPerField * q + n - 1 \in Span(BitsPerField * q, n)
      BY <3>1 DEF Span, BitsPerField
    <3>4. BitsPerField * q + n - 1 < BitsPerField * HeaderSize
      BY <1>0, <3>1, <3>3 DEF Bytes, Total, BitsPerField
    <3> QED
      BY <1>0, <3>1, <3>2, <3>4 DEF BitsPerField
  <2> QED
    BY <1>4, <2>2 DEF end
<1>5. CASE end.done
  <2>1. PICK g \in AlignedStarts(h, from, n) :
          /\ \A q \in AlignedStarts(h, from, n) : g <= q
          /\ end.place = BitsPerField * g
    BY <1>3, <1>5 DEF AlignedInv, AlignedFound
  <2>2. Least(AlignedStarts(h, from, n)) = g
    <3> DEFINE x == Least(AlignedStarts(h, from, n))
    <3>1. AlignedStarts(h, from, n) \subseteq Nat
      BY HeaderSizeAssumption DEF AlignedStarts, Fields
    <3>2. x \in AlignedStarts(h, from, n) /\ x <= g
      BY <2>1, <3>1, LeastIsLeast
    <3> HIDE DEF x
    <3>3. x \in Nat /\ g \in Nat /\ g <= x
      BY <2>1, <3>1, <3>2
    <3>4. x = g
      BY <3>2, <3>3
    <3> QED
      BY <3>4 DEF x
  <2>3. Skew(1) = 0
    BY MemBaseAssumption DEF Skew
  <2>4. SearchAligned(h, from, n, 1).block.ptr = BitsPerField * g
    <3>1. SearchAligned(h, from, n, 1).block.ptr = BitsPerField * g + Skew(1)
      BY <2>2 DEF SearchAligned, Grant
    <3>2. g \in Nat
      BY HeaderSizeAssumption DEF AlignedStarts, Fields
    <3> QED
      BY <2>3, <3>1, <3>2 DEF BitsPerField
  <2> QED
    BY <1>5, <2>1, <2>4 DEF end
<1> QED
  BY <1>4, <1>5

\* The two searches are the loops of newmem.c, for every header, every hint and
\* every size: the closed forms the other modules use lose nothing of them.
THEOREM LoopsAgree == Spec => []SearchesMatchLoops
<1>1. ASSUME NEW h \in Heap PROVE Agree(h)
  <2> SUFFICES ASSUME NEW n \in Sizes, NEW from \in {0, h.last}
               PROVE  /\ Mem2Loop(h, n, from).done <=> RunStarts(h, from, n) # {}
                      /\ RunStarts(h, from, n) # {} =>
                           Mem2Loop(h, n, from).place = SearchMem2(h, from, n).block.ptr
                      /\ AlignedLoop(h, n, from).done <=> AlignedStarts(h, from, n) # {}
                      /\ AlignedStarts(h, from, n) # {} =>
                           AlignedLoop(h, n, from).place
                             = SearchAligned(h, from, n, 1).block.ptr
    BY DEF Agree
  <2>1. n \in Nat \ {0} /\ from \in 0 .. HeaderSize
    BY SizesAssumption, HeaderSizeAssumption DEF Heap
  <2> QED
    BY <2>1, Mem2Agrees, AlignedAgrees
<1>2. TypeOK => SearchesMatchLoops
  <2> SUFFICES ASSUME TypeOK PROVE SearchesMatchLoops
    OBVIOUS
  <2>1. heap \in Heap
    BY DEF TypeOK
  <2>2. ASSUME NEW pattern \in [Fields -> Patterns], NEW last \in Fields
        PROVE  [heap EXCEPT !.header = HeaderOf(pattern), !.last = last] \in Heap
    <3>1. HeaderOf(pattern) \in SUBSET Bytes /\ last \in 0 .. HeaderSize
      BY HeaderSizeAssumption DEF HeaderOf, Fields
    <3> QED
      BY <2>1, <3>1 DEF Heap
  <2> QED
    BY <1>1, <2>1, <2>2 DEF SearchesMatchLoops
<1> QED
  BY <1>2, TypeCorrect, PTL
=============================================================================
