---------------------------- MODULE KAllocProofs ----------------------------
(***************************************************************************)
(* What holds of the allocation table for every size of the heap and of    *)
(* the first table, and every set of requests: who owns blocks, who frees  *)
(* them, when the table moves, which blocks are tasks, and which bytes are *)
(* used.                                                                   *)
(***************************************************************************)
EXTENDS KAlloc, NewMemProofs

\* The memory is a record, and the slots of the table are 0, 1, 2, ...
Shape(m) ==
  /\ m = [heap |-> m.heap, list |-> m.list, last |-> m.last, table |-> m.table]
  /\ \E N \in Nat : DOMAIN m.list = 0 .. N - 1
Owned(m, S) == \A i \in Slots(m) : m.list[i].task \in S

LEMMA FillOwners ==
  ASSUME NEW m, Shape(m), NEW S, Owned(m, S), NEW owner \in S,
         NEW i, NEW last, NEW a, NEW n, NEW align
  PROVE  LET r == Fill(m, i, last, a, n, align, owner)
         IN  Shape(r.mem) /\ Owned(r.mem, S) /\ r.mem.table = m.table
<1> DEFINE q == Allocate(a, m.heap, n, align)
           r == Fill(m, i, last, a, n, align, owner)
           slot == [ptr |-> q.block.ptr, size |-> n, task |-> owner]
<1>1. CASE q.block = NoBlock
  <2>1. r.mem = [m EXCEPT !.heap = q.heap]
    BY <1>1 DEF Fill, Result
  <2>2. r.mem = [heap |-> q.heap, list |-> m.list, last |-> m.last, table |-> m.table]
    BY <2>1 DEF Shape
  <2> QED
    BY <2>2 DEF Shape, Owned, Slots
<1>2. CASE q.block # NoBlock
  <2>1. r.mem = [m EXCEPT !.heap = q.heap, !.last = last, !.list[i] = slot]
    BY <1>2 DEF Fill, Result
  <2>2. r.mem = [heap |-> q.heap, list |-> [m.list EXCEPT ![i] = slot], last |-> last,
                 table |-> m.table]
    BY <2>1 DEF Shape
  <2>3. DOMAIN [m.list EXCEPT ![i] = slot] = DOMAIN m.list
    OBVIOUS
  <2>4. \A j \in DOMAIN m.list :
          [m.list EXCEPT ![i] = slot][j] = IF j = i THEN slot ELSE m.list[j]
    OBVIOUS
  <2>5. Shape(r.mem)
    BY <2>2, <2>3 DEF Shape
  <2>6. Owned(r.mem, S)
    BY <2>2, <2>3, <2>4 DEF Owned, Slots
  <2> QED
    BY <2>2, <2>5, <2>6
<1> QED
  BY <1>1, <1>2

LEMMA AllocIsLength ==
  ASSUME NEW m, NEW N \in Nat, Slots(m) = 0 .. N - 1
  PROVE  Alloc(m) = N
<1>1. 0 \in Int /\ N - 1 \in Int
  OBVIOUS
<1>2. Cardinality(0 .. N - 1) = IF 0 > N - 1 THEN 0 ELSE (N - 1) - 0 + 1
  BY <1>1, FS_Interval
<1> QED
  BY <1>2 DEF Alloc

\* The table that moves keeps its slots and has as many more, which are free.
LEMMA MoveTableSlots ==
  ASSUME NEW m, Shape(m), NEW r
  PROVE  LET moved == MoveTable(m, r)
         IN  /\ Shape(moved) /\ Slots(m) \subseteq Slots(moved)
             /\ \A i \in Slots(moved) :
                  moved.list[i] = IF i \in Slots(m) THEN m.list[i] ELSE FreeSlot
<1> DEFINE moved == MoveTable(m, r)
           list == [i \in 0 .. 2 * Alloc(m) - 1 |->
                      IF i \in Slots(m) THEN m.list[i] ELSE FreeSlot]
<1>1. PICK N \in Nat : DOMAIN m.list = 0 .. N - 1
  BY DEF Shape
<1>2. Alloc(m) = N
  BY <1>1, AllocIsLength DEF Slots
<1>3. moved = [heap |-> kheap_free_mem2(r.heap, m.table), list |-> list, last |-> m.last,
               table |-> r.block]
  <2>1. moved = [m EXCEPT !.heap = kheap_free_mem2(r.heap, m.table), !.table = r.block,
                          !.list = list]
    BY DEF MoveTable
  <2> HIDE DEF list, moved
  <2> QED
    BY <2>1 DEF Shape
<1>4. DOMAIN list = 0 .. 2 * N - 1
  BY <1>2
<1>5. 2 * N \in Nat /\ 0 .. N - 1 \subseteq 0 .. 2 * N - 1
  OBVIOUS
<1> HIDE DEF list
<1>6. Shape(moved)
  BY <1>3, <1>4, <1>5 DEF Shape
<1>7. \A i \in DOMAIN list : list[i] = IF i \in Slots(m) THEN m.list[i] ELSE FreeSlot
  BY DEF list
<1> QED
  BY <1>1, <1>3, <1>4, <1>5, <1>6, <1>7 DEF Slots

LEMMA KmallocOwners ==
  ASSUME NEW m, Shape(m), NEW S, Owned(m, S), NEW owner \in S, NoTask \in S,
         NEW a, NEW n, NEW align
  PROVE  LET r == _kmalloc(m, a, n, align, owner)
         IN  /\ Shape(r.mem) /\ Owned(r.mem, S)
             /\ FreeSlots(m) # {} => r.mem.table = m.table
<1>1. CASE FreeSlots(m) # {}
  BY <1>1, FillOwners DEF _kmalloc
<1>2. CASE FreeSlots(m) = {}
  <2> DEFINE q == Allocate(a, m.heap, 2 * Alloc(m) * SlotSize, align)
  <2>1. CASE q.block = NoBlock
    <3>1. _kmalloc(m, a, n, align, owner).mem
            = [heap |-> q.heap, list |-> m.list, last |-> m.last, table |-> m.table]
      BY <1>2, <2>1 DEF _kmalloc, Result, Shape
    <3> QED
      BY <1>2, <3>1 DEF Shape, Owned, Slots
  <2>2. CASE q.block # NoBlock
    <3>1. _kmalloc(m, a, n, align, owner)
            = Fill(MoveTable(m, q), Alloc(m), m.last, a, n, align, owner)
      BY <1>2, <2>2 DEF _kmalloc
    <3>2. Shape(MoveTable(m, q)) /\ Owned(MoveTable(m, q), S)
      BY MoveTableSlots DEF Owned, FreeSlot
    <3> QED
      BY <1>2, <3>1, <3>2, FillOwners
  <2> QED
    BY <2>1, <2>2
<1> QED
  BY <1>1, <1>2

\* A slot is cleared or stays as it was.
LEMMA ClearSlots ==
  ASSUME NEW m, Shape(m), NEW I
  PROVE  LET c == Clear(m, I)
         IN  /\ Shape(c) /\ c.table = m.table /\ Slots(c) = Slots(m)
             /\ \A i \in Slots(m) : c.list[i] = IF i \in I THEN FreeSlot ELSE m.list[i]
<1> DEFINE c == Clear(m, I)
           list == [i \in Slots(m) |-> IF i \in I THEN FreeSlot ELSE m.list[i]]
<1>1. c = [heap |-> FreeBlocks(m, I), list |-> list, last |-> m.last, table |-> m.table]
  <2>1. c = [m EXCEPT !.heap = FreeBlocks(m, I), !.list = list]
    BY DEF Clear
  <2> HIDE DEF list, c
  <2> QED
    BY <2>1 DEF Shape
<1>2. DOMAIN list = DOMAIN m.list
  BY DEF Slots
<1>3. \A i \in Slots(m) : list[i] = IF i \in I THEN FreeSlot ELSE m.list[i]
  OBVIOUS
<1> HIDE DEF list, c
<1>4. Shape(c)
  BY <1>1, <1>2 DEF Shape
<1> QED
  BY <1>1, <1>2, <1>3, <1>4 DEF Slots, c

-----------------------------------------------------------------------------
\* A slot that is filled held no block, and no other slot changes.
Kept(m, c) ==
  \A i \in Slots(m) : m.list[i].ptr \in Bytes => i \in Slots(c) /\ c.list[i] = m.list[i]

LEMMA FillKeeps ==
  ASSUME NEW m, Shape(m), NEW owner,
         NEW i, i \in Slots(m) => m.list[i].ptr \notin Bytes,
         NEW last, NEW a, NEW n, NEW align
  PROVE  Kept(m, Fill(m, i, last, a, n, align, owner).mem)
<1> DEFINE q == Allocate(a, m.heap, n, align)
           r == Fill(m, i, last, a, n, align, owner)
           slot == [ptr |-> q.block.ptr, size |-> n, task |-> owner]
<1>1. CASE q.block = NoBlock
  <2>1. r.mem = [m EXCEPT !.heap = q.heap]
    BY <1>1 DEF Fill, Result
  <2>2. r.mem.list = m.list
    BY <2>1 DEF Shape
  <2> QED
    BY <2>2 DEF Kept, Slots
<1>2. CASE q.block # NoBlock
  <2>1. r.mem = [m EXCEPT !.heap = q.heap, !.last = last, !.list[i] = slot]
    BY <1>2 DEF Fill, Result
  <2>2. r.mem.list = [m.list EXCEPT ![i] = slot]
    BY <2>1 DEF Shape
  <2>3. Kept(m, r.mem)
    <3> HIDE DEF slot, r
    <3> QED
      BY <2>2 DEF Kept, Slots
  <2> QED
    BY <2>3
<1> QED
  BY <1>1, <1>2

LEMMA KmallocKeeps ==
  ASSUME NEW m, Shape(m), NEW owner, NEW a, NEW n, NEW align
  PROVE  Kept(m, _kmalloc(m, a, n, align, owner).mem)
<1>1. PICK N \in Nat : Slots(m) = 0 .. N - 1
  BY DEF Shape, Slots
<1>2. CASE FreeSlots(m) # {}
  <2> DEFINE i == FirstFound(m, FreeSlots(m))
  <2>1. i \in FreeSlots(m)
    <3> DEFINE behind == {j \in FreeSlots(m) : m.last <= j}
    <3>1. FreeSlots(m) \subseteq Nat /\ behind \subseteq FreeSlots(m)
      BY <1>1 DEF FreeSlots
    <3>2. behind # {} => Least(behind) \in behind
      BY <3>1, LeastIsLeast
    <3>3. Least(FreeSlots(m)) \in FreeSlots(m)
      BY <1>2, <3>1, LeastIsLeast
    <3> QED
      BY <3>1, <3>2, <3>3 DEF FirstFound
  <2>2. m.list[i].ptr \notin Bytes
    BY <2>1, HeaderSizeAssumption DEF FreeSlots, NoBlock, Bytes, Total
  <2>3. _kmalloc(m, a, n, align, owner) = Fill(m, i, HintAfter(i), a, n, align, owner)
    BY <1>2 DEF _kmalloc
  <2> HIDE DEF i
  <2> QED
    BY <2>2, <2>3, FillKeeps
<1>3. CASE FreeSlots(m) = {}
  <2> DEFINE q == Allocate(a, m.heap, 2 * Alloc(m) * SlotSize, align)
             moved == MoveTable(m, q)
  <2>1. CASE q.block = NoBlock
    <3>1. _kmalloc(m, a, n, align, owner).mem
            = [heap |-> q.heap, list |-> m.list, last |-> m.last, table |-> m.table]
      BY <1>3, <2>1 DEF _kmalloc, Result, Shape
    <3> QED
      BY <3>1 DEF Kept, Slots
  <2>2. CASE q.block # NoBlock
    <3>1. _kmalloc(m, a, n, align, owner)
            = Fill(moved, Alloc(m), m.last, a, n, align, owner)
      BY <1>3, <2>2 DEF _kmalloc
    <3>2. Shape(moved) /\ Kept(m, moved)
      BY MoveTableSlots DEF Kept
    <3>3. Alloc(m) \notin Slots(m)
      BY <1>1, AllocIsLength
    <3>4. Alloc(m) \in Slots(moved) => moved.list[Alloc(m)].ptr \notin Bytes
      BY <3>3, MoveTableSlots, HeaderSizeAssumption DEF FreeSlot, NoBlock, Bytes, Total
    <3>5. Kept(moved, Fill(moved, Alloc(m), m.last, a, n, align, owner).mem)
      BY <3>2, <3>4, FillKeeps
    <3> QED
      BY <3>1, <3>2, <3>5 DEF Kept
  <2> QED
    BY <2>1, <2>2
<1> QED
  BY <1>2, <1>3

-----------------------------------------------------------------------------
\* A task is freed with every block it owns, so that owners are tasks of the
\* scheduler's list; what the table holds is needed for it to move.
Owners == live \cup {NoTask}
OwnersInv ==
  /\ Shape(mem)
  /\ Owned(mem, Owners)
  /\ current \in Owners

LEMMA InitOwners == Init => OwnersInv
<1> SUFFICES ASSUME Init PROVE OwnersInv
  OBVIOUS
<1> DEFINE r == kheap_get_free_mem2(NewHeap, SlotsAtStart * SlotSize)
<1>1. PICK list \in [0 .. SlotsAtStart - 1 -> {FreeSlot, StaleSlot}] :
        mem = [heap |-> r.heap, list |-> list, last |-> 0, table |-> r.block]
  BY DEF Init
<1>2. DOMAIN list = 0 .. SlotsAtStart - 1 /\ SlotsAtStart \in Nat
  BY TableAssumption
<1>3. \A i \in DOMAIN list : list[i].task = NoTask
  BY DEF FreeSlot, StaleSlot
<1> HIDE DEF r
<1>4. Shape(mem)
  BY <1>1, <1>2 DEF Shape
<1> QED
  BY <1>1, <1>3, <1>4 DEF Init, OwnersInv, Owned, Owners, Slots

LEMMA NextOwners == OwnersInv /\ [Next]_vars => OwnersInv'
<1> SUFFICES ASSUME OwnersInv, [Next]_vars PROVE OwnersInv'
  OBVIOUS
<1> USE DEF OwnersInv
<1>m. ASSUME NEW a, NEW n, NEW align, Kmalloc(a, n, align) PROVE OwnersInv'
  <2>1. LET r == _kmalloc(mem, a, n, align, current)
        IN  Shape(r.mem) /\ Owned(r.mem, Owners)
    BY KmallocOwners DEF Owners
  <2> QED
    BY <1>m, <2>1 DEF Kmalloc, Owners
<1>1. ASSUME NEW a, NEW n, NEW align, Kmalloc(a, n, align) PROVE OwnersInv'
  BY <1>1, <1>m
<1>2. ASSUME NEW p, NEW a, NEW n, NEW align, Krealloc(p, a, n, align) PROVE OwnersInv'
  BY <1>2, <1>m DEF Krealloc
<1>3. ASSUME NEW p, Kfree(p) PROVE OwnersInv'
  <2>1. Shape(kfree(mem, p, current)) /\ Owned(kfree(mem, p, current), Owners)
    <3> DEFINE i == FirstFound(mem, Holding(mem, p))
    <3>1. Shape(Clear(mem, {i})) /\ Owned(Clear(mem, {i}), Owners)
      BY ClearSlots DEF Owned, Owners, FreeSlot
    <3> QED
      BY <3>1 DEF kfree
  <2> QED
    BY <1>3, <2>1 DEF Kfree, Owners
<1>4. ASSUME NEW a, NEW align, TaskNew(a, align) PROVE OwnersInv'
  <2> DEFINE r == _kmalloc(mem, a, TaskSize, align, NoTask)
  <2>1. Shape(r.mem) /\ Owned(r.mem, Owners)
    BY KmallocOwners DEF Owners
  <2>2. mem' = r.mem /\ Owners \subseteq Owners' /\ current' = current
    BY <1>4 DEF TaskNew, Owners
  <2> QED
    BY <2>1, <2>2 DEF Owned
<1>5. ASSUME NEW t \in live, TaskEnd(t) PROVE OwnersInv'
  BY <1>5 DEF TaskEnd, Owners
<1>6. ASSUME NEW t \in live, Dispatch(t) PROVE OwnersInv'
  BY <1>6 DEF Dispatch, Owners
<1>7. ASSUME NEW t \in live, NEW next \in live, Reap(t, next) PROVE OwnersInv'
  <2>1. mem' = Clear(mem, ReapedSlots(mem, t)) /\ live' = live \ {t}
        /\ current' = next /\ next # t
    BY <1>7 DEF Reap
  <2>2. Shape(mem') /\ Slots(mem') = Slots(mem)
    BY <2>1, ClearSlots
  <2>3. ASSUME NEW i \in Slots(mem) PROVE mem'.list[i].task \in Owners'
    <3>1. CASE i \in ReapedSlots(mem, t)
      BY <2>1, <3>1, ClearSlots DEF Owners, FreeSlot
    <3>2. CASE i \notin ReapedSlots(mem, t)
      <4>1. mem'.list[i] = mem.list[i] /\ mem.list[i].task # t
        BY <2>1, <3>2, ClearSlots DEF ReapedSlots
      <4> QED
        BY <2>1, <4>1 DEF Owned, Owners
    <3> QED
      BY <3>1, <3>2
  <2> QED
    BY <2>1, <2>2, <2>3 DEF Owned, Owners
<1>8. CASE UNCHANGED vars
  BY <1>8 DEF vars, Owners
<1> QED
  BY <1>1, <1>2, <1>3, <1>4, <1>5, <1>6, <1>7, <1>8 DEF Next

\* OwnersAlive for every heap, table and set of requests: whoever owns a block
\* of the table is a task of the scheduler's list, since task_free gives a
\* task's blocks back before its structure can be used again.
THEOREM OwnersLive == Spec => []OwnersAlive
<1>1. OwnersInv => OwnersAlive
  BY DEF OwnersInv, Owned, Owners, OwnersAlive, Granted
<1> QED
  BY InitOwners, NextOwners, <1>1, PTL DEF Spec

\* OnlyOwnersFree for every heap, table and set of requests: a block leaves the
\* table by a kfree of its owner or of the boot code, or with its task, and never
\* because another request took its slot or the table moved.
THEOREM OwnersFree == Spec => OnlyOwnersFree
<1> DEFINE Freed(b) == \/ current \in {NoTask, b.task}
                       \/ {b.task, b.ptr} \cap (live \ live') # {}
           Step == \A b \in Blocks \ Blocks' : Freed(b)
<1>1. OwnersInv /\ [Next]_vars => [Step]_vars
  <2> SUFFICES ASSUME OwnersInv, Next PROVE Step
    OBVIOUS
  <2> HIDE DEF Freed
  <2>k. ASSUME Kept(mem, mem') PROVE Step
    BY <2>k DEF Kept, Blocks, Granted
  <2>m. ASSUME NEW a, NEW n, NEW align, Kmalloc(a, n, align) PROVE Step
    BY <2>m, <2>k, KmallocKeeps DEF Kmalloc, OwnersInv
  <2>c. ASSUME NEW I, mem' = Clear(mem, I),
               \A i \in Slots(mem) \cap I : Freed(mem.list[i])
        PROVE  Step
    BY <2>c, ClearSlots DEF Blocks, Granted, OwnersInv
  <2>1. ASSUME NEW a, NEW n, NEW align, Kmalloc(a, n, align) PROVE Step
    BY <2>1, <2>m
  <2>2. ASSUME NEW p, NEW a, NEW n, NEW align, Krealloc(p, a, n, align) PROVE Step
    BY <2>2, <2>m DEF Krealloc
  <2>3. ASSUME NEW p, Kfree(p) PROVE Step
    <3> DEFINE i == FirstFound(mem, Holding(mem, p))
    <3>1. CASE Holding(mem, p) # {} /\ MayFree(mem, i, current)
      <4>1. mem' = Clear(mem, {i})
        BY <2>3, <3>1 DEF Kfree, kfree
      <4>2. Freed(mem.list[i])
        BY <3>1 DEF MayFree, Freed
      <4> QED
        BY <4>1, <4>2, <2>c
    <3>2. CASE ~ (Holding(mem, p) # {} /\ MayFree(mem, i, current))
      BY <2>3, <3>2, <2>k DEF Kfree, kfree, Kept
    <3> QED
      BY <3>1, <3>2
  <2>4. ASSUME NEW a, NEW align, TaskNew(a, align) PROVE Step
    BY <2>4, <2>k, KmallocKeeps DEF TaskNew, OwnersInv
  <2>5. ASSUME NEW t \in live, TaskEnd(t) PROVE Step
    BY <2>5, <2>k DEF TaskEnd, Kept
  <2>6. ASSUME NEW t \in live, Dispatch(t) PROVE Step
    BY <2>6, <2>k DEF Dispatch, Kept
  <2>7. ASSUME NEW t \in live, NEW next \in live, Reap(t, next) PROVE Step
    <3>1. mem' = Clear(mem, ReapedSlots(mem, t)) /\ t \in live \ live'
      BY <2>7 DEF Reap
    <3>2. \A i \in ReapedSlots(mem, t) : Freed(mem.list[i])
      BY <3>1 DEF ReapedSlots, Holding, Freed
    <3> QED
      BY <3>1, <3>2, <2>c
  <2> QED
    BY <2>1, <2>2, <2>3, <2>4, <2>5, <2>6, <2>7 DEF Next
<1> QED
  BY InitOwners, NextOwners, <1>1, PTL DEF Spec, OnlyOwnersFree

\* TableMovesWhenFull for every heap, table and set of requests: as long as a
\* slot is free, also one before kalloc_list_last, the table stays where it is.
THEOREM FullTableMoves == Spec => TableMovesWhenFull
<1> DEFINE Full == \A i \in Slots(mem) : mem.list[i].ptr # NoBlock.ptr
           Step == mem'.table # mem.table => Full
<1>1. OwnersInv /\ [Next]_vars => [Step]_vars
  <2> SUFFICES ASSUME OwnersInv, Next PROVE Step
    OBVIOUS
  <2>f. FreeSlots(mem) = {} => Full
    BY DEF FreeSlots
  <2> HIDE DEF Full
  <2>m. ASSUME NEW a, NEW n, NEW align, NEW owner \in Owners,
               mem' = _kmalloc(mem, a, n, align, owner).mem
        PROVE  Step
    BY <2>m, <2>f, KmallocOwners DEF OwnersInv, Owners
  <2>c. \A I : Clear(mem, I).table = mem.table
    BY ClearSlots DEF OwnersInv
  <2>1. ASSUME NEW a, NEW n, NEW align, Kmalloc(a, n, align) PROVE Step
    BY <2>1, <2>m DEF Kmalloc, OwnersInv
  <2>2. ASSUME NEW p, NEW a, NEW n, NEW align, Krealloc(p, a, n, align) PROVE Step
    BY <2>2, <2>1 DEF Krealloc
  <2>3. ASSUME NEW p, Kfree(p) PROVE Step
    BY <2>3, <2>c DEF Kfree, kfree
  <2>4. ASSUME NEW a, NEW align, TaskNew(a, align) PROVE Step
    BY <2>4, <2>m DEF TaskNew, Owners
  <2>5. ASSUME NEW t \in live, TaskEnd(t) PROVE Step
    BY <2>5 DEF TaskEnd
  <2>6. ASSUME NEW t \in live, Dispatch(t) PROVE Step
    BY <2>6 DEF Dispatch
  <2>7. ASSUME NEW t \in live, NEW next \in live, Reap(t, next) PROVE Step
    BY <2>7, <2>c DEF Reap
  <2> QED
    BY <2>1, <2>2, <2>3, <2>4, <2>5, <2>6, <2>7 DEF Next
<1> QED
  BY InitOwners, NextOwners, <1>1, PTL DEF Spec, TableMovesWhenFull
-----------------------------------------------------------------------------
(***************************************************************************)
(* Types.  A slot holds a block, or it is free, or it has what was in the  *)
(* memory of the first table.                                              *)
(***************************************************************************)
GrantedSlot == [ptr : Bytes, size : 1 .. Total, task : Bytes \cup {NoTask}]
SlotValues == GrantedSlot \cup {FreeSlot, StaleSlot}
MemOK(m) ==
  /\ Shape(m)
  /\ m.heap \in Heap /\ m.table \in Block
  /\ m.last \in Slots(m)
  /\ m.list \in [Slots(m) -> SlotValues]

LEMMA MemOKIsMem ==
  ASSUME NEW m, MemOK(m)
  PROVE  IsMem(m)
<1>1. PICK N \in Nat : Slots(m) = 0 .. N - 1
  BY DEF MemOK, Shape, Slots
<1>2. Cardinality(Slots(m)) = N
  BY <1>1, AllocIsLength DEF Alloc
<1>3. SlotValues \subseteq Slot \cup {StaleSlot}
  <2>1. Total \in Nat \ {0}
    BY HeaderSizeAssumption DEF Total, BitsPerField
  <2> QED
    BY <2>1 DEF SlotValues, GrantedSlot, Slot, FreeSlot, NoTask
<1>4. m.list \in [0 .. Cardinality(DOMAIN m.list) - 1 -> Slot \cup {StaleSlot}]
  BY <1>1, <1>2, <1>3 DEF MemOK, Slots
<1> QED
  BY <1>4 DEF IsMem, MemOK, Shape, Slots

\* What is in slot j before and, if nothing is granted, after a request.
Before(m, j) == IF j \in Slots(m) THEN m.list[j] ELSE FreeSlot

\* A request fills one free slot or none.
Filled(m, r, n, owner) ==
  /\ Slots(m) \subseteq Slots(r.mem)
  /\ \/ /\ r.ptr = NoBlock.ptr
        /\ \A j \in Slots(r.mem) : r.mem.list[j] = Before(m, j)
     \/ /\ r.ptr \in Bytes
        /\ \E i \in Slots(r.mem) :
             /\ Before(m, i).ptr = NoBlock.ptr
             /\ r.mem.list[i] = [ptr |-> r.ptr, size |-> n, task |-> owner]
             /\ \A j \in Slots(r.mem) \ {i} : r.mem.list[j] = Before(m, j)

LEMMA FillType ==
  ASSUME NEW m, MemOK(m), NEW owner \in Bytes \cup {NoTask},
         NEW i \in Slots(m), m.list[i].ptr = NoBlock.ptr, NEW last \in Slots(m),
         NEW a \in Allocators, NEW n \in Nat \ {0}, NEW align \in Alignments
  PROVE  LET r == Fill(m, i, last, a, n, align, owner)
         IN  MemOK(r.mem) /\ Slots(r.mem) = Slots(m) /\ Filled(m, r, n, owner)
<1> DEFINE q == Allocate(a, m.heap, n, align)
           r == Fill(m, i, last, a, n, align, owner)
           slot == [ptr |-> q.block.ptr, size |-> n, task |-> owner]
<1>0. /\ q.heap \in Heap /\ q.block \in Block \cup {NoBlock}
      /\ q.block = NoBlock \/ q.block.size = n
      /\ Shape(m) /\ m.table \in Block /\ m.last \in Slots(m)
      /\ m.list \in [Slots(m) -> SlotValues]
  BY AllocateType DEF MemOK
<1>m. m = [heap |-> m.heap, list |-> m.list, last |-> m.last, table |-> m.table]
  BY <1>0 DEF Shape
<1>1. CASE q.block = NoBlock
  <2>1. r = Result([m EXCEPT !.heap = q.heap], NoBlock.ptr, TRUE)
    BY <1>1 DEF Fill
  <2> HIDE DEF q
  <2>2. r.mem = [heap |-> q.heap, list |-> m.list, last |-> m.last, table |-> m.table]
        /\ r.ptr = NoBlock.ptr
    BY <1>m, <2>1 DEF Result
  <2> HIDE DEF r
  <2>3. Slots(r.mem) = Slots(m)
    BY <2>2 DEF Slots
  <2>4. MemOK(r.mem) /\ Filled(m, r, n, owner)
    BY <1>0, <2>2, <2>3 DEF MemOK, Shape, Slots, Filled, Before
  <2> QED
    BY <2>3, <2>4 DEF r
<1>2. CASE q.block # NoBlock
  <2>1. r = Result([m EXCEPT !.heap = q.heap, !.last = last, !.list[i] = slot],
                   q.block.ptr, FALSE)
    BY <1>2 DEF Fill
  <2>2. slot \in GrantedSlot /\ q.block.ptr \in Bytes
    <3>1. q.block \in Block /\ q.block.size = n
      BY <1>0, <1>2
    <3> QED
      BY <3>1 DEF GrantedSlot, Block
  <2> DEFINE list == [m.list EXCEPT ![i] = slot]
  <2>3. r.mem = [heap |-> q.heap, list |-> list, last |-> last, table |-> m.table]
        /\ r.ptr = q.block.ptr
    <3>1. r.mem = [m EXCEPT !.heap = q.heap, !.last = last, !.list[i] = slot]
          /\ r.ptr = q.block.ptr
      BY <2>1 DEF Result
    <3> HIDE DEF q, slot, r
    <3> QED
      BY <1>m, <3>1
  <2>4. /\ DOMAIN list = Slots(m) /\ list \in [Slots(m) -> SlotValues]
        /\ list[i] = slot /\ \A j \in Slots(m) \ {i} : list[j] = m.list[j]
    BY <1>0, <2>2 DEF SlotValues
  <2> HIDE DEF q, slot, r, list
  <2>5. Slots(r.mem) = Slots(m)
    BY <2>3, <2>4 DEF Slots
  <2>6. MemOK(r.mem)
    BY <1>0, <2>3, <2>4, <2>5 DEF MemOK, Shape, Slots
  <2>7. Filled(m, r, n, owner)
    <3>1. r.mem.list[i] = [ptr |-> r.ptr, size |-> n, task |-> owner]
      BY <2>3, <2>4 DEF slot
    <3> QED
      BY <2>2, <2>3, <2>4, <2>5, <3>1 DEF Filled, Before
  <2> QED
    BY <2>5, <2>6, <2>7 DEF r
<1> QED
  BY <1>1, <1>2

\* There is room for a longer table, as far as numbers go.
LEMMA TableLength ==
  ASSUME NEW m, MemOK(m)
  PROVE  \E N \in Nat \ {0} : /\ Slots(m) = 0 .. N - 1 /\ Alloc(m) = N
                              /\ 2 * N * SlotSize \in Nat \ {0}
<1>1. PICK N \in Nat : Slots(m) = 0 .. N - 1
  BY DEF MemOK, Shape, Slots
<1>2. Alloc(m) = N /\ N # 0
  BY <1>1, AllocIsLength DEF MemOK
<1>3. 2 * N \in Nat \ {0} /\ SlotSize \in Nat \ {0}
  BY <1>2, TableAssumption
<1>4. \A x, y \in Nat \ {0} : x * y \in Nat \ {0}
  OBVIOUS
<1> QED
  BY <1>1, <1>2, <1>3, <1>4

LEMMA MoveTableType ==
  ASSUME NEW m, MemOK(m), NEW r, r.heap \in Heap, r.block \in Block
  PROVE  LET moved == MoveTable(m, r)
         IN  /\ MemOK(moved) /\ moved.heap = kheap_free_mem2(r.heap, m.table)
             /\ moved.table = r.block /\ moved.last = m.last
             /\ Slots(m) \subseteq Slots(moved) /\ Alloc(m) \in Slots(moved)
             /\ \A j \in Slots(moved) : moved.list[j] = Before(m, j)
<1> DEFINE moved == MoveTable(m, r)
           list == [i \in 0 .. 2 * Alloc(m) - 1 |->
                      IF i \in Slots(m) THEN m.list[i] ELSE FreeSlot]
           freed == kheap_free_mem2(r.heap, m.table)
<1>1. PICK N \in Nat \ {0} : Slots(m) = 0 .. N - 1 /\ Alloc(m) = N
  BY TableLength
<1>2. moved = [heap |-> freed, list |-> list, last |-> m.last, table |-> r.block]
  <2>1. moved = [m EXCEPT !.heap = freed, !.table = r.block, !.list = list]
    BY DEF MoveTable
  <2> HIDE DEF list, moved, freed
  <2> QED
    BY <2>1 DEF MemOK, Shape
<1>3. freed \in Heap
  <2>1. m.table.size \in Int
    BY HeaderSizeAssumption DEF MemOK, Block, Total, BitsPerField
  <2> QED
    BY <2>1, FreeType
<1>4. /\ DOMAIN list = 0 .. 2 * N - 1 /\ 2 * N \in Nat
      /\ 0 .. N - 1 \subseteq 0 .. 2 * N - 1 /\ N \in 0 .. 2 * N - 1
  BY <1>1
<1>5. list \in [0 .. 2 * N - 1 -> SlotValues]
  BY <1>1 DEF MemOK, SlotValues
<1>6. \A j \in 0 .. 2 * N - 1 : list[j] = Before(m, j)
  BY <1>1 DEF Before
<1> HIDE DEF list, freed, moved
<1>7. Slots(moved) = 0 .. 2 * N - 1
  BY <1>2, <1>4 DEF Slots
<1>8. MemOK(moved)
  BY <1>1, <1>2, <1>3, <1>4, <1>5, <1>7 DEF MemOK, Shape, Slots
<1> QED
  BY <1>1, <1>2, <1>4, <1>6, <1>7, <1>8 DEF moved, freed

\* _kmalloc: the memory keeps its types, and at most one slot is filled, which was
\* free or did not exist.
LEMMA FoundSlot ==
  ASSUME NEW m, MemOK(m), NEW I, I \subseteq Slots(m), I # {}
  PROVE  FirstFound(m, I) \in I
<1>1. PICK N \in Nat : Slots(m) = 0 .. N - 1
  BY DEF MemOK, Shape, Slots
<1> DEFINE behind == {j \in I : m.last <= j}
<1>2. I \subseteq Nat /\ behind \subseteq I /\ behind \subseteq Nat
  BY <1>1
<1>3. behind # {} => Least(behind) \in behind
  BY <1>2, LeastIsLeast
<1>4. Least(I) \in I
  BY <1>2, LeastIsLeast
<1> QED
  BY <1>2, <1>3, <1>4 DEF FirstFound

LEMMA KmallocType ==
  ASSUME NEW m, MemOK(m), NEW owner \in Bytes \cup {NoTask},
         NEW a \in Allocators, NEW n \in Nat \ {0}, NEW align \in Alignments
  PROVE  LET r == _kmalloc(m, a, n, align, owner)
         IN  MemOK(r.mem) /\ Filled(m, r, n, owner)
<1>1. CASE FreeSlots(m) # {}
  <2> DEFINE i == FirstFound(m, FreeSlots(m))
  <2>1. i \in Slots(m) /\ m.list[i].ptr = NoBlock.ptr
    BY <1>1, FoundSlot DEF FreeSlots
  <2>2. _kmalloc(m, a, n, align, owner) = Fill(m, i, i, a, n, align, owner)
    BY <1>1 DEF _kmalloc, HintAfter
  <2> HIDE DEF i
  <2> QED
    BY <2>1, <2>2, FillType
<1>2. CASE FreeSlots(m) = {}
  <2> DEFINE q == Allocate(a, m.heap, 2 * Alloc(m) * SlotSize, align)
             moved == MoveTable(m, q)
  <2>1. /\ q.heap \in Heap /\ q.block \in Block \cup {NoBlock}
    BY TableLength, AllocateType DEF MemOK
  <2>2. CASE q.block = NoBlock
    <3>1. _kmalloc(m, a, n, align, owner)
            = Result([m EXCEPT !.heap = q.heap], NoBlock.ptr, FALSE)
      BY <1>2, <2>2 DEF _kmalloc
    <3> DEFINE r == _kmalloc(m, a, n, align, owner)
    <3> HIDE DEF q, r
    <3>2. r.mem = [heap |-> q.heap, list |-> m.list, last |-> m.last, table |-> m.table]
          /\ r.ptr = NoBlock.ptr
      <4>1. r = Result([m EXCEPT !.heap = q.heap], NoBlock.ptr, FALSE)
        BY <3>1 DEF r
      <4> QED
        BY <4>1 DEF Result, MemOK, Shape
    <3>3. Slots(r.mem) = Slots(m)
      BY <3>2 DEF Slots
    <3>4. MemOK(r.mem) /\ Filled(m, r, n, owner)
      BY <2>1, <3>2, <3>3 DEF MemOK, Shape, Slots, Filled, Before
    <3> QED
      BY <3>4 DEF r
  <2>3. CASE q.block # NoBlock
    <3> DEFINE r == Fill(moved, Alloc(m), m.last, a, n, align, owner)
    <3>1. _kmalloc(m, a, n, align, owner) = r
      BY <1>2, <2>3 DEF _kmalloc
    <3>2. /\ MemOK(moved) /\ moved.last = m.last
          /\ Slots(m) \subseteq Slots(moved) /\ Alloc(m) \in Slots(moved)
          /\ \A j \in Slots(moved) : moved.list[j] = Before(m, j)
      <4>1. q.block \in Block
        BY <2>1, <2>3
      <4> QED
        BY <2>1, <4>1, MoveTableType
    <3>3. Alloc(m) \notin Slots(m)
      BY TableLength
    <3>4. moved.list[Alloc(m)].ptr = NoBlock.ptr
      BY <3>2, <3>3 DEF Before, FreeSlot
    <3> HIDE DEF moved, q
    <3>5. MemOK(r.mem) /\ Slots(r.mem) = Slots(moved) /\ Filled(moved, r, n, owner)
      <4>1. m.last \in Slots(moved)
        BY <3>2 DEF MemOK
      <4> QED
        BY <3>2, <3>4, <4>1, FillType
    <3>6. \A j \in Slots(moved) : Before(moved, j) = Before(m, j)
      BY <3>2 DEF Before
    <3> HIDE DEF r
    <3>7. Filled(m, r, n, owner)
      BY <3>2, <3>5, <3>6 DEF Filled
    <3> QED
      BY <3>1, <3>5, <3>7
  <2> QED
    BY <2>2, <2>3
<1> QED
  BY <1>1, <1>2

\* The heaps that FreeBlocks goes through, slot by slot.
FreeStep(m, I, f, i) ==
  f[i + 1] = IF i \in I THEN kheap_free_mem2(f[i], m.list[i]) ELSE f[i]

LEMMA SizesAreNumbers ==
  ASSUME NEW m, MemOK(m), NEW i \in Slots(m)
  PROVE  m.list[i].size \in Nat /\ m.list[i].ptr \in Int
<1>1. m.list[i] \in SlotValues
  BY DEF MemOK
<1> QED
  BY <1>1, HeaderSizeAssumption
  DEF SlotValues, GrantedSlot, FreeSlot, StaleSlot, NoBlock, Bytes, Total, BitsPerField

LEMMA FreeLoop ==
  ASSUME NEW m, MemOK(m), NEW I, NEW N \in Nat, Slots(m) = 0 .. N - 1, Alloc(m) = N
  PROVE  \E f \in [0 .. N -> Heap] :
           /\ f[0] = m.heap /\ f[N] = FreeBlocks(m, I)
           /\ \A i \in 0 .. N - 1 : FreeStep(m, I, f, i)
<1> DEFINE step == [i \in 0 .. N - 1 |->
                      [h \in Heap |-> IF i \in I THEN kheap_free_mem2(h, m.list[i]) ELSE h]]
           Once(g) == [i \in 0 .. N |->
                         IF i = 0 THEN m.heap
                         ELSE IF i - 1 \in I THEN kheap_free_mem2(g[i - 1], m.list[i - 1])
                         ELSE g[i - 1]]
           freed[i \in 0 .. N] ==
             IF i = 0 THEN m.heap
             ELSE IF i - 1 \in I THEN kheap_free_mem2(freed[i - 1], m.list[i - 1])
             ELSE freed[i - 1]
<1>1. step \in [0 .. N - 1 -> [Heap -> Heap]]
  <2>1. ASSUME NEW i \in 0 .. N - 1, NEW h \in Heap
        PROVE  kheap_free_mem2(h, m.list[i]) \in Heap
    <3>1. m.list[i].size \in Int
      BY SizesAreNumbers
    <3> QED
      BY <3>1, FreeType
  <2> HIDE DEF Heap
  <2> QED
    BY <2>1
<1>2. PICK f : Unrolls(f, N, Heap, m.heap, step)
  <2> HIDE DEF step
  <2> QED
    BY <1>1, UnrollingExists DEF MemOK
<1>3. f \in [0 .. N -> Heap] /\ f[0] = m.heap
  BY <1>2 DEF Unrolls
<1>4. ASSUME NEW i \in 0 .. N - 1 PROVE FreeStep(m, I, f, i)
  <2>1. f[i + 1] = step[i][f[i]] /\ f[i] \in Heap
    BY <1>2, <1>3 DEF Unrolls
  <2> HIDE DEF Heap
  <2> QED
    BY <2>1 DEF FreeStep
<1>5. f = Once(f)
  <2>0. f = [i \in 0 .. N |-> f[i]]
    BY <1>3
  <2>1. ASSUME NEW i \in 0 .. N
        PROVE  f[i] = IF i = 0 THEN m.heap
                      ELSE IF i - 1 \in I THEN kheap_free_mem2(f[i - 1], m.list[i - 1])
                      ELSE f[i - 1]
    <3>1. CASE i = 0
      BY <1>3, <3>1
    <3>2. CASE i # 0
      <4>1. i - 1 \in 0 .. N - 1 /\ (i - 1) + 1 = i
        BY <3>2
      <4> QED
        BY <1>4, <3>2, <4>1 DEF FreeStep
    <3> QED
      BY <3>1, <3>2
  <2> QED
    BY <2>0, <2>1
<1>6. freed = Once(freed)
  <2>1. freed = CHOOSE h : h = Once(h)
    OBVIOUS
  <2> QED
    BY <1>5, <2>1
<1>7. freed[N] = FreeBlocks(m, I)
  BY DEF FreeBlocks
<1> HIDE DEF freed
<1>8. 0 .. N \subseteq {i \in 0 .. N : freed[i] = f[i]}
  <2> DEFINE S == {i \in 0 .. N : freed[i] = f[i]}
  <2>0. \A i \in 0 .. N : freed[i] = IF i = 0 THEN m.heap
                    ELSE IF i - 1 \in I THEN kheap_free_mem2(freed[i - 1], m.list[i - 1])
                    ELSE freed[i - 1]
    BY <1>6
  <2>1. 0 \in S
    BY <1>3, <2>0
  <2>2. ASSUME NEW i \in 0 .. N - 1, i \in S PROVE i + 1 \in S
    <3>1. i + 1 \in 0 .. N /\ i + 1 # 0 /\ (i + 1) - 1 = i /\ freed[i] = f[i]
      BY <2>2
    <3> QED
      BY <1>4, <2>0, <3>1 DEF FreeStep
  <2> HIDE DEF S
  <2>3. 0 .. N \subseteq S
    BY <2>1, <2>2, BoundedInduction
  <2> QED
    BY <2>3 DEF S
<1>9. f[N] = FreeBlocks(m, I)
  BY <1>7, <1>8
<1> QED
  BY <1>3, <1>4, <1>9

LEMMA ClearType ==
  ASSUME NEW m, MemOK(m), NEW I
  PROVE  LET c == Clear(m, I)
         IN  /\ MemOK(c) /\ c.heap = FreeBlocks(m, I)
             /\ c.table = m.table /\ Slots(c) = Slots(m)
             /\ \A i \in Slots(m) : c.list[i] = IF i \in I THEN FreeSlot ELSE m.list[i]
<1> DEFINE c == Clear(m, I)
           list == [i \in Slots(m) |-> IF i \in I THEN FreeSlot ELSE m.list[i]]
<1>1. c = [heap |-> FreeBlocks(m, I), list |-> list, last |-> m.last, table |-> m.table]
  <2>1. c = [m EXCEPT !.heap = FreeBlocks(m, I), !.list = list]
    BY DEF Clear
  <2> HIDE DEF list, c
  <2> QED
    BY <2>1 DEF MemOK, Shape
<1>2. FreeBlocks(m, I) \in Heap
  <2>1. PICK N \in Nat : Slots(m) = 0 .. N - 1 /\ Alloc(m) = N
    BY TableLength
  <2>2. PICK f \in [0 .. N -> Heap] : f[N] = FreeBlocks(m, I)
    BY <2>1, FreeLoop
  <2> QED
    BY <2>2
<1>3. list \in [Slots(m) -> SlotValues] /\ DOMAIN list = Slots(m)
  BY DEF MemOK, SlotValues
<1>4. \A i \in Slots(m) : list[i] = IF i \in I THEN FreeSlot ELSE m.list[i]
  OBVIOUS
<1> HIDE DEF list, c
<1>5. Slots(c) = Slots(m)
  BY <1>1, <1>3 DEF Slots
<1>6. MemOK(c)
  BY <1>1, <1>2, <1>3, <1>5 DEF MemOK, Shape, Slots
<1> QED
  BY <1>1, <1>4, <1>5, <1>6 DEF c

\* crt0 gets the first table at the beginning of the heap.
LEMMA FirstTable ==
  LET n == SlotsAtStart * SlotSize
      r == kheap_get_free_mem2(NewHeap, n)
  IN  /\ r.heap \in Heap /\ r.block \in Block /\ Accounted(r.heap)
      /\ r.heap.header = Span(r.block.ptr, r.block.size)
<1> DEFINE n == SlotsAtStart * SlotSize
           r == kheap_get_free_mem2(NewHeap, n)
<1>1. n \in 1 .. Total /\ n \in Nat \ {0} /\ Total \in Nat
  <2>1. \A x, y \in Nat \ {0} : x * y \in Nat \ {0}
    OBVIOUS
  <2> QED
    BY <2>1, TableAssumption, HeaderSizeAssumption DEF Total, BitsPerField
<1> HIDE DEF n
<1>2. NewHeap \in Heap /\ Accounted(NewHeap)
  BY HeaderSizeAssumption, FS_EmptySet DEF NewHeap, Heap, Accounted, Total, BitsPerField
<1>3. Span(0, n) \subseteq Bytes /\ 0 \in Bytes
  BY <1>1 DEF Span, Bytes
<1>4. 0 \in RunStarts(NewHeap, 0, n) /\ RunStarts(NewHeap, 0, n) \subseteq Nat
  BY <1>1, <1>3 DEF RunStarts, IsFree, NewHeap, BitsPerField, Bytes
<1>5. Least(RunStarts(NewHeap, 0, n)) = 0
  <2> DEFINE x == Least(RunStarts(NewHeap, 0, n))
  <2>1. x \in RunStarts(NewHeap, 0, n) /\ x <= 0
    BY <1>4, LeastIsLeast
  <2>2. x \in Nat
    BY <1>4, <2>1
  <2> HIDE DEF x
  <2> QED
    BY <2>1, <2>2 DEF x
<1>6. RecordedStart(NewHeap, 0, 0) = 0
  BY DEF RecordedStart, BitsPerField
<1>7. r = Grant(NewHeap, 0, 0, 0, n)
  <2>1. ~Rejected(NewHeap, n)
    BY <1>1 DEF Rejected, NewHeap
  <2>2. NewHeap.last = 0 /\ 0 \div BitsPerField = 0
    BY DEF NewHeap, BitsPerField
  <2>3. RunStarts(NewHeap, 0, n) # {}
    BY <1>4
  <2> QED
    BY <1>5, <1>6, <2>1, <2>2, <2>3 DEF kheap_get_free_mem2, SearchMem2
<1>8. r.heap \in Heap /\ r.block \in Block
  <2>1. 0 \in Fields
    BY HeaderSizeAssumption DEF Fields
  <2> QED
    BY <1>1, <1>2, <1>3, <1>7, <2>1, GrantType
<1>9. /\ r.heap.header = Span(0, n) /\ r.heap.free_memory = NewHeap.free_memory - n
      /\ r.block.ptr = 0 /\ r.block.size = n
  BY <1>3, <1>7 DEF Grant, SetUsed, NewHeap
<1>10. Accounted(r.heap)
  <2>1. NewHeap.header = {}
    BY DEF NewHeap
  <2> HIDE DEF r
  <2> QED
    BY <1>1, <1>2, <1>8, <1>9, <2>1, MarkAccounted
<1> QED
  BY <1>8, <1>9, <1>10 DEF n

TypeInv ==
  /\ MemOK(mem)
  /\ live \subseteq Bytes /\ ended \subseteq live
  /\ current \in live \cup {NoTask}

LEMMA InitType == Init => TypeInv
<1> SUFFICES ASSUME Init PROVE TypeInv
  OBVIOUS
<1> DEFINE r == kheap_get_free_mem2(NewHeap, SlotsAtStart * SlotSize)
<1>1. PICK list \in [0 .. SlotsAtStart - 1 -> {FreeSlot, StaleSlot}] :
        mem = [heap |-> r.heap, list |-> list, last |-> 0, table |-> r.block]
  BY DEF Init
<1>2. r.heap \in Heap /\ r.block \in Block
  BY FirstTable
<1>3. /\ DOMAIN list = 0 .. SlotsAtStart - 1 /\ SlotsAtStart \in Nat
      /\ 0 \in 0 .. SlotsAtStart - 1
      /\ list \in [0 .. SlotsAtStart - 1 -> SlotValues]
  BY TableAssumption DEF SlotValues
<1> HIDE DEF r
<1>4. Slots(mem) = 0 .. SlotsAtStart - 1
  BY <1>1, <1>3 DEF Slots
<1>5. MemOK(mem)
  BY <1>1, <1>2, <1>3, <1>4 DEF MemOK, Shape, Slots
<1> QED
  BY <1>5 DEF Init, TypeInv

\* The arguments of a request are what _kmalloc counts on.
LEMMA RequestTypes ==
  ASSUME TypeInv, NEW a \in Requests, NEW align \in Aligns
  PROVE  /\ a \in Allocators /\ align \in Alignments /\ TaskSize \in Nat \ {0}
         /\ \A n \in Sizes : n \in Nat \ {0}
         /\ current \in Bytes \cup {NoTask}
BY TableAssumption DEF TypeInv

LEMMA NextType == TypeInv /\ [Next]_vars => TypeInv'
<1> SUFFICES ASSUME TypeInv, [Next]_vars PROVE TypeInv'
  OBVIOUS
<1> USE DEF TypeInv
<1>m. ASSUME NEW a \in Requests, NEW n \in Sizes, NEW align \in Aligns, Kmalloc(a, n, align)
      PROVE  TypeInv'
  <2>1. MemOK(mem')
    BY <1>m, RequestTypes, KmallocType DEF Kmalloc
  <2> QED
    BY <1>m, <2>1 DEF Kmalloc, EndCurrent
<1>1. ASSUME NEW a \in Requests, NEW n \in Sizes, NEW align \in Aligns, NEW p,
             Krealloc(p, a, n, align)
      PROVE  TypeInv'
  BY <1>1, <1>m DEF Krealloc
<1>2. ASSUME NEW p \in Pointers, Kfree(p) PROVE TypeInv'
  <2>1. MemOK(kfree(mem, p, current))
    BY ClearType DEF kfree
  <2> QED
    BY <1>2, <2>1 DEF Kfree
<1>3. ASSUME NEW a \in Requests, NEW align \in Aligns, TaskNew(a, align) PROVE TypeInv'
  <2> DEFINE r == _kmalloc(mem, a, TaskSize, align, NoTask)
  <2>1. MemOK(r.mem) /\ Filled(mem, r, TaskSize, NoTask)
    BY RequestTypes, KmallocType
  <2>2. r.ptr \in Bytes \cup {NoTask}
    BY <2>1 DEF Filled, NoTask
  <2>3. /\ mem' = r.mem /\ EndCurrent(r.ends) /\ live' = live \cup ({r.ptr} \ {NoTask})
        /\ current' = current
    BY <1>3 DEF TaskNew
  <2> HIDE DEF r
  <2> QED
    BY <2>1, <2>2, <2>3 DEF EndCurrent
<1>4. ASSUME NEW t \in live, TaskEnd(t) PROVE TypeInv'
  BY <1>4 DEF TaskEnd
<1>5. ASSUME NEW t \in live, Dispatch(t) PROVE TypeInv'
  BY <1>5 DEF Dispatch
<1>6. ASSUME NEW t \in live, NEW next \in live, Reap(t, next) PROVE TypeInv'
  <2>1. MemOK(mem')
    BY <1>6, ClearType DEF Reap
  <2> QED
    BY <1>6, <2>1 DEF Reap
<1>7. CASE UNCHANGED vars
  BY <1>7 DEF vars
<1> QED
  BY <1>m, <1>1, <1>2, <1>3, <1>4, <1>5, <1>6, <1>7 DEF Next

\* TypeOK for every heap, table and set of requests: kalloc_list_last stays inside
\* the table through its moves, and no slot holds more than the heap has.
THEOREM TypeCorrect == Spec => []TypeOK
<1>1. TypeInv => TypeOK
  BY MemOKIsMem DEF TypeInv, TypeOK
<1> QED
  BY InitType, NextType, <1>1, PTL DEF Spec

-----------------------------------------------------------------------------
(***************************************************************************)
(* Which blocks are task structures.                                       *)
(***************************************************************************)
SizesApart == TaskSize \notin Sizes

LEMMA RequestKeepsTasks ==
  ASSUME TypeInv, TasksAreBlocks, NEW r, NEW n, NEW owner, Filled(mem, r, n, owner),
         mem' = r.mem,
         \/ n # TaskSize /\ live' = live
         \/ n = TaskSize /\ owner = NoTask /\ live' = live \cup ({r.ptr} \ {NoTask})
  PROVE  TasksAreBlocks'
<1> DEFINE Holds(i) == mem.list[i].ptr \in Bytes /\ mem.list[i].size = TaskSize
<1>0. /\ NoBlock.ptr \notin Bytes /\ NoTask = NoBlock.ptr
      /\ FreeSlot.ptr = NoBlock.ptr
  BY HeaderSizeAssumption DEF NoTask, NoBlock, FreeSlot, Bytes, Total, BitsPerField
<1>1. TaskBlocks = {i \in Slots(mem) : Holds(i)}
      /\ TaskBlocks' = {i \in Slots(r.mem) : r.mem.list[i].ptr \in Bytes
                                            /\ r.mem.list[i].size = TaskSize}
  BY DEF TaskBlocks, Granted, Slots
<1>2. Slots(mem) \subseteq Slots(r.mem)
  BY DEF Filled
<1>3. \A j \in Slots(r.mem) :
        /\ j \in TaskBlocks => Before(mem, j) = mem.list[j]
        /\ Before(mem, j).ptr \in Bytes /\ Before(mem, j).size = TaskSize => j \in TaskBlocks
  BY <1>0, <1>1 DEF Before
<1>4. CASE \A j \in Slots(r.mem) : r.mem.list[j] = Before(mem, j)
  <2>1. TaskBlocks' = TaskBlocks /\ \A j \in TaskBlocks : r.mem.list[j] = mem.list[j]
    BY <1>0, <1>1, <1>2, <1>3, <1>4 DEF Before
  <2>2. CASE r.ptr = NoBlock.ptr
    <3>1. live' = live
      BY <1>0, <2>2
    <3> QED
      BY <2>1, <3>1 DEF TasksAreBlocks
  <2>3. CASE r.ptr # NoBlock.ptr
    <3>1. \E i \in Slots(r.mem) : Before(mem, i).ptr = NoBlock.ptr
                 /\ r.mem.list[i].ptr = r.ptr
      BY <2>3 DEF Filled
    <3> QED
      BY <1>4, <2>3, <3>1
  <2> QED
    BY <2>2, <2>3
<1>5. CASE ~ \A j \in Slots(r.mem) : r.mem.list[j] = Before(mem, j)
  <2>1. PICK i \in Slots(r.mem) :
          /\ r.ptr \in Bytes /\ Before(mem, i).ptr = NoBlock.ptr
          /\ r.mem.list[i] = [ptr |-> r.ptr, size |-> n, task |-> owner]
          /\ \A j \in Slots(r.mem) \ {i} : r.mem.list[j] = Before(mem, j)
    BY <1>5 DEF Filled
  <2>2. i \notin TaskBlocks
    BY <1>0, <1>3, <2>1, <1>1
  <2>3. \A j \in TaskBlocks : j # i /\ j \in TaskBlocks' /\ r.mem.list[j] = mem.list[j]
    BY <1>1, <1>2, <1>3, <2>1, <2>2
  <2>4. \A j \in TaskBlocks' : j = i \/ j \in TaskBlocks
    BY <1>1, <1>3, <2>1
  <2>5. r.mem.list[i].ptr = r.ptr /\ r.mem.list[i].size = n /\ r.mem.list[i].task = owner
    BY <2>1
  <2>6. CASE n = TaskSize
    <3>1. live' = live \cup {r.ptr} /\ owner = NoTask
      BY <1>0, <2>1, <2>6
    <3>2. TaskBlocks' = TaskBlocks \cup {i}
      BY <1>1, <2>1, <2>3, <2>4, <2>5, <2>6
    <3> QED
      BY <2>3, <2>5, <3>1, <3>2 DEF TasksAreBlocks
  <2>7. CASE n # TaskSize
    <3>1. TaskBlocks' = TaskBlocks
      BY <1>1, <2>3, <2>4, <2>5, <2>7
    <3> QED
      BY <2>3, <2>7, <3>1 DEF TasksAreBlocks
  <2> QED
    BY <2>6, <2>7
<1> QED
  BY <1>4, <1>5

\* Blocks leave the table: so do the structures among them, and nothing else.
LEMMA ClearKeepsTasks ==
  ASSUME TypeInv, TasksAreBlocks, NEW I, mem' = Clear(mem, I),
         live' = live \ {mem.list[i].ptr : i \in I \cap TaskBlocks},
         \A i, j \in TaskBlocks : i \in I /\ mem.list[i].ptr = mem.list[j].ptr => j \in I
  PROVE  TasksAreBlocks'
<1>0. FreeSlot.ptr \notin Bytes
  BY HeaderSizeAssumption DEF NoBlock, FreeSlot, Bytes, Total, BitsPerField
<1>1. /\ Slots(mem') = Slots(mem)
      /\ \A i \in Slots(mem) : mem'.list[i] = IF i \in I THEN FreeSlot ELSE mem.list[i]
  BY ClearType DEF TypeInv
<1>2. TaskBlocks' = TaskBlocks \ I /\ \A i \in TaskBlocks \ I : mem'.list[i] = mem.list[i]
  BY <1>0, <1>1 DEF TaskBlocks, Granted
<1>3. {mem.list[i].ptr : i \in TaskBlocks \ I} = live'
  BY DEF TasksAreBlocks
<1> QED
  BY <1>2, <1>3 DEF TasksAreBlocks

\* TasksAreBlocks for every heap, table and set of requests of other sizes, with
\* either allocator: the structure of a task is in the table, owned by nobody,
\* exactly as long as the task is in the scheduler's list.
THEOREM TasksStayBlocks ==
  ASSUME SizesApart
  PROVE  Spec => []TasksAreBlocks
<1>1. Init => TasksAreBlocks
  <2> SUFFICES ASSUME Init PROVE TasksAreBlocks
    OBVIOUS
  <2>1. PICK list \in [0 .. SlotsAtStart - 1 -> {FreeSlot, StaleSlot}] : mem.list = list
    BY DEF Init
  <2>2. \A i \in Slots(mem) : mem.list[i].ptr \notin Bytes
    <3>1. FreeSlot.ptr \notin Bytes /\ StaleSlot.ptr \notin Bytes
      BY HeaderSizeAssumption
      DEF NoBlock, FreeSlot, StaleSlot, Bytes, Total, BitsPerField
    <3> QED
      BY <2>1, <3>1 DEF Slots
  <2>3. TaskBlocks = {}
    BY <2>2 DEF TaskBlocks, Granted
  <2> QED
    BY <2>3 DEF Init, TasksAreBlocks
<1>2. TypeInv /\ TasksAreBlocks /\ [Next]_vars => TasksAreBlocks'
  <2> SUFFICES ASSUME TypeInv, TasksAreBlocks, [Next]_vars PROVE TasksAreBlocks'
    OBVIOUS
  <2>u. ASSUME UNCHANGED <<mem, live>> PROVE TasksAreBlocks'
    BY <2>u DEF TasksAreBlocks, TaskBlocks, Granted, Slots
  <2>m. ASSUME NEW a \in Requests, NEW n \in Sizes, NEW align \in Aligns,
               Kmalloc(a, n, align)
        PROVE  TasksAreBlocks'
    <3> DEFINE r == _kmalloc(mem, a, n, align, current)
    <3>1. Filled(mem, r, n, current)
      BY RequestTypes, KmallocType DEF TypeInv
    <3>2. mem' = r.mem /\ live' = live /\ n # TaskSize
      BY <2>m DEF Kmalloc, SizesApart
    <3> HIDE DEF r
    <3> QED
      BY <3>1, <3>2, RequestKeepsTasks
  <2>1. ASSUME NEW a \in Requests, NEW n \in Sizes, NEW align \in Aligns, NEW p,
               Krealloc(p, a, n, align)
        PROVE  TasksAreBlocks'
    BY <2>1, <2>m DEF Krealloc
  <2>2. ASSUME NEW p \in Pointers, Kfree(p) PROVE TasksAreBlocks'
    <3> DEFINE i == FirstFound(mem, Holding(mem, p))
    <3>1. CASE Holding(mem, p) # {} /\ MayFree(mem, i, current)
      <4>1. mem' = Clear(mem, {i}) /\ live' = live /\ (current = NoTask => p \notin live)
        BY <2>2, <3>1 DEF Kfree, kfree
      <4>2. i \in Slots(mem) /\ mem.list[i].ptr = p
        BY <3>1, FoundSlot DEF TypeInv, Holding
      <4>3. i \notin TaskBlocks
        <5>1. CASE current = NoTask
          BY <4>1, <4>2, <5>1 DEF TasksAreBlocks
        <5>2. CASE current # NoTask
          BY <3>1, <5>2 DEF TasksAreBlocks, MayFree
        <5> QED
          BY <5>1, <5>2
      <4> HIDE DEF i
      <4> QED
        BY <4>1, <4>3, ClearKeepsTasks
    <3>2. CASE ~(Holding(mem, p) # {} /\ MayFree(mem, i, current))
      BY <2>2, <2>u, <3>2 DEF Kfree, kfree
    <3> QED
      BY <3>1, <3>2
  <2>3. ASSUME NEW a \in Requests, NEW align \in Aligns, TaskNew(a, align)
        PROVE  TasksAreBlocks'
    <3> DEFINE r == _kmalloc(mem, a, TaskSize, align, NoTask)
    <3>1. Filled(mem, r, TaskSize, NoTask)
      BY RequestTypes, KmallocType DEF TypeInv
    <3>2. mem' = r.mem /\ live' = live \cup ({r.ptr} \ {NoTask})
      BY <2>3 DEF TaskNew
    <3> HIDE DEF r
    <3> QED
      BY <3>1, <3>2, RequestKeepsTasks
  <2>4. ASSUME NEW t \in live, TaskEnd(t) PROVE TasksAreBlocks'
    BY <2>4, <2>u DEF TaskEnd
  <2>5. ASSUME NEW t \in live, Dispatch(t) PROVE TasksAreBlocks'
    BY <2>5, <2>u DEF Dispatch
  <2>6. ASSUME NEW t \in live, NEW next \in live, Reap(t, next) PROVE TasksAreBlocks'
    <3> DEFINE I == ReapedSlots(mem, t)
    <3>1. mem' = Clear(mem, I) /\ live' = live \ {t}
      BY <2>6 DEF Reap
    <3>2. \A i \in TaskBlocks : i \in I <=> mem.list[i].ptr = t
      <4>1. NoTask \notin Bytes /\ t \in Bytes
        BY HeaderSizeAssumption DEF TypeInv, NoTask, NoBlock, Bytes, Total, BitsPerField
      <4>2. \A i \in TaskBlocks : i \in Slots(mem) /\ mem.list[i].task = NoTask
        BY DEF TasksAreBlocks, TaskBlocks, Granted
      <4> QED
        BY <4>1, <4>2 DEF ReapedSlots, Holding
    <3>3. {mem.list[i].ptr : i \in I \cap TaskBlocks} = {t}
      BY <3>2 DEF TasksAreBlocks
    <3> HIDE DEF I
    <3> QED
      BY <3>1, <3>2, <3>3, ClearKeepsTasks
  <2>7. CASE UNCHANGED vars
    BY <2>7, <2>u DEF vars
  <2> QED
    BY <2>m, <2>1, <2>2, <2>3, <2>4, <2>5, <2>6, <2>7 DEF Next
<1> QED
  BY <1>1, <1>2, InitType, NextType, PTL DEF Spec

-----------------------------------------------------------------------------
(***************************************************************************)
(* Which bytes are used, with kmalloc on the aligned allocator and an      *)
(* aligned heap.                                                           *)
(***************************************************************************)
AlignedOnly == MemBase = 0 /\ Requests = {"aligned"}

\* TableIsExact of a memory m, which in the midst of _kmalloc is not mem.
Taken(m) == {i \in Slots(m) : m.list[i].ptr \in Bytes}
BytesIn(m, i) == Span(m.list[i].ptr, m.list[i].size)
TableBytes(m) == Span(m.table.ptr, m.table.size)
Exact(m) ==
  /\ \A i \in Taken(m) : BytesIn(m, i) \cap TableBytes(m) = {}
  /\ \A i, j \in Taken(m) : i # j => BytesIn(m, i) \cap BytesIn(m, j) = {}
  /\ m.heap.header = TableBytes(m) \cup UNION {BytesIn(m, i) : i \in Taken(m)}
  /\ Accounted(m.heap)

\* Two memories with the same blocks.
SameBlocks(m, c) ==
  /\ Taken(c) = Taken(m) /\ \A i \in Taken(m) : BytesIn(c, i) = BytesIn(m, i)

LEMMA SameExact ==
  ASSUME NEW m, NEW c, Exact(m), SameBlocks(m, c), c.table = m.table,
         c.heap.header = m.heap.header, Accounted(c.heap)
  PROVE  Exact(c)
<1>1. TableBytes(c) = TableBytes(m)
  BY DEF TableBytes
<1>2. UNION {BytesIn(c, i) : i \in Taken(c)} = UNION {BytesIn(m, i) : i \in Taken(m)}
  BY DEF SameBlocks
<1> QED
  BY <1>1, <1>2 DEF Exact, SameBlocks

\* A slot is filled with a block whose bytes were free.
LEMMA FillExact ==
  ASSUME MemBase = 0, NEW m, MemOK(m), Exact(m), NEW owner \in Bytes \cup {NoTask},
         NEW i \in Slots(m), m.list[i].ptr = NoBlock.ptr, NEW last \in Slots(m),
         NEW n \in Nat \ {0}, NEW align \in Alignments
  PROVE  Exact(Fill(m, i, last, "aligned", n, align, owner).mem)
<1> DEFINE q == Allocate("aligned", m.heap, n, align)
           c == Fill(m, i, last, "aligned", n, align, owner).mem
           slot == [ptr |-> q.block.ptr, size |-> n, task |-> owner]
<1>0. /\ Accounted(q.heap)
      /\ \/ q.block = NoBlock /\ q.heap.header = m.heap.header
         \/ /\ q.block \in Block /\ q.block.size = n
            /\ Span(q.block.ptr, n) \cap m.heap.header = {}
            /\ q.heap.header = m.heap.header \cup Span(q.block.ptr, n)
  BY AlignedGrant DEF MemOK, Exact
<1>m. m = [heap |-> m.heap, list |-> m.list, last |-> m.last, table |-> m.table]
  BY DEF MemOK, Shape
<1>1. CASE q.block = NoBlock
  <2>1. c = [m EXCEPT !.heap = q.heap]
    BY <1>1 DEF Fill, Result
  <2>2. q.heap.header = m.heap.header
    <3>1. NoBlock \notin Block
      BY HeaderSizeAssumption DEF NoBlock, Block, Bytes, Total, BitsPerField
    <3> HIDE DEF q
    <3> QED
      BY <1>0, <1>1, <3>1
  <2> HIDE DEF q, c
  <2>3. c.heap = q.heap /\ c.list = m.list /\ c.table = m.table
    BY <1>m, <2>1
  <2>4. SameBlocks(m, c)
    BY <2>3 DEF SameBlocks, Taken, BytesIn, Slots
  <2> QED
    BY <1>0, <2>2, <2>3, <2>4, SameExact DEF c
<1>2. CASE q.block # NoBlock
  <2> DEFINE S == Span(q.block.ptr, n)
  <2>1. c = [m EXCEPT !.heap = q.heap, !.last = last, !.list[i] = slot]
    BY <1>2 DEF Fill, Result
  <2>2. /\ q.block.ptr \in Bytes /\ S \cap m.heap.header = {}
        /\ q.heap.header = m.heap.header \cup S
    BY <1>0, <1>2 DEF Block
  <2>3. c.heap = q.heap /\ c.list = [m.list EXCEPT ![i] = slot] /\ c.table = m.table
    <3> HIDE DEF q, c, slot
    <3> QED
      BY <1>m, <2>1
  <2>4. /\ Slots(c) = Slots(m) /\ c.list[i] = slot
        /\ \A j \in Slots(m) \ {i} : c.list[j] = m.list[j]
    <3> HIDE DEF slot, c
    <3> QED
      BY <2>3 DEF MemOK, Slots
  <2>5. slot.ptr = q.block.ptr /\ slot.size = n
    OBVIOUS
  <2> HIDE DEF q, c, slot
  <2>6. i \notin Taken(m)
    BY HeaderSizeAssumption DEF Taken, NoBlock, Bytes, Total, BitsPerField
  <2>7. /\ Taken(c) = Taken(m) \cup {i} /\ BytesIn(c, i) = S
        /\ \A j \in Taken(m) : BytesIn(c, j) = BytesIn(m, j)
    BY <2>2, <2>4, <2>5, <2>6 DEF Taken, BytesIn
  <2>8. TableBytes(c) = TableBytes(m)
    BY <2>3 DEF TableBytes
  <2>9. S \cap TableBytes(m) = {} /\ \A j \in Taken(m) : S \cap BytesIn(m, j) = {}
    BY <2>2 DEF Exact
  <2> HIDE DEF S
  <2>10. UNION {BytesIn(c, j) : j \in Taken(c)}
           = (UNION {BytesIn(m, j) : j \in Taken(m)}) \cup S
    BY <2>7
  <2>11. c.heap.header = TableBytes(c) \cup UNION {BytesIn(c, j) : j \in Taken(c)}
    BY <2>2, <2>3, <2>8, <2>10 DEF Exact
  <2>12. \A j \in Taken(c) : BytesIn(c, j) \cap TableBytes(c) = {}
    BY <2>7, <2>8, <2>9 DEF Exact
  <2>13. \A j, k \in Taken(c) : j # k => BytesIn(c, j) \cap BytesIn(c, k) = {}
    BY <2>7, <2>9 DEF Exact
  <2>14. Accounted(c.heap)
    BY <1>0, <2>3
  <2> QED
    BY <2>11, <2>12, <2>13, <2>14 DEF Exact, c
<1> QED
  BY <1>1, <1>2

\* The table moves to bytes that were free, and its old bytes become free.
LEMMA MoveExact ==
  ASSUME NEW m, MemOK(m), Exact(m), NEW r, r.heap \in Heap, Accounted(r.heap), r.block \in Block,
         Span(r.block.ptr, r.block.size) \cap m.heap.header = {},
         r.heap.header = m.heap.header \cup Span(r.block.ptr, r.block.size)
  PROVE  Exact(MoveTable(m, r))
<1> DEFINE c == MoveTable(m, r)
           S == Span(r.block.ptr, r.block.size)
<1>1. /\ c.heap = kheap_free_mem2(r.heap, m.table) /\ c.table = r.block
      /\ Slots(m) \subseteq Slots(c)
      /\ \A j \in Slots(c) : c.list[j] = Before(m, j)
  BY MoveTableType
<1>2. FreeSlot.ptr \notin Bytes
  BY HeaderSizeAssumption DEF NoBlock, FreeSlot, Bytes, Total, BitsPerField
<1>3. m.table.ptr \in Int /\ m.table.size \in Nat
  BY HeaderSizeAssumption DEF MemOK, Block, Bytes, Total, BitsPerField
<1>4. TableBytes(m) \subseteq r.heap.header
  BY DEF Exact
<1>5. Accounted(c.heap) /\ c.heap.header = r.heap.header \ TableBytes(m)
  BY <1>1, <1>3, <1>4, FreeAccounted, FreeType DEF TableBytes
<1> HIDE DEF c
<1>6. Taken(c) = Taken(m) /\ \A j \in Taken(m) : BytesIn(c, j) = BytesIn(m, j)
  BY <1>1, <1>2 DEF Taken, BytesIn, Before
<1>7. TableBytes(c) = S
  BY <1>1 DEF TableBytes
<1> HIDE DEF S
<1>8. S \cap TableBytes(m) = {} /\ \A j \in Taken(m) : S \cap BytesIn(m, j) = {}
  BY DEF Exact, S
<1>9. UNION {BytesIn(c, j) : j \in Taken(c)} = UNION {BytesIn(m, j) : j \in Taken(m)}
  BY <1>6
<1>10. (UNION {BytesIn(m, j) : j \in Taken(m)}) \cap TableBytes(m) = {}
  BY DEF Exact
<1>11. c.heap.header = S \cup UNION {BytesIn(c, j) : j \in Taken(c)}
  BY <1>5, <1>8, <1>9, <1>10 DEF Exact, S
<1> QED
  BY <1>5, <1>6, <1>7, <1>8, <1>11 DEF Exact, c

LEMMA KmallocExact ==
  ASSUME MemBase = 0, NEW m, MemOK(m), Exact(m), NEW owner \in Bytes \cup {NoTask},
         NEW n \in Nat \ {0}, NEW align \in Alignments
  PROVE  Exact(_kmalloc(m, "aligned", n, align, owner).mem)
<1>0. "aligned" \in Allocators
  BY DEF Allocators
<1>1. CASE FreeSlots(m) # {}
  <2> DEFINE i == FirstFound(m, FreeSlots(m))
  <2>1. i \in Slots(m) /\ m.list[i].ptr = NoBlock.ptr
    BY <1>1, FoundSlot DEF FreeSlots
  <2>2. _kmalloc(m, "aligned", n, align, owner) = Fill(m, i, i, "aligned", n, align, owner)
    BY <1>1 DEF _kmalloc, HintAfter
  <2> HIDE DEF i
  <2> QED
    BY <2>1, <2>2, FillExact
<1>2. CASE FreeSlots(m) = {}
  <2> DEFINE q == Allocate("aligned", m.heap, 2 * Alloc(m) * SlotSize, align)
             moved == MoveTable(m, q)
  <2>1. /\ q.heap \in Heap /\ Accounted(q.heap)
        /\ \/ q.block = NoBlock /\ q.heap.header = m.heap.header
           \/ /\ q.block \in Block
              /\ Span(q.block.ptr, q.block.size) \cap m.heap.header = {}
              /\ q.heap.header = m.heap.header \cup Span(q.block.ptr, q.block.size)
    BY TableLength, AlignedGrant DEF MemOK, Exact
  <2>2. CASE q.block = NoBlock
    <3> DEFINE c == _kmalloc(m, "aligned", n, align, owner).mem
    <3>1. c = [m EXCEPT !.heap = q.heap]
      BY <1>2, <2>2 DEF _kmalloc, Result
    <3>2. NoBlock \notin Block
      BY HeaderSizeAssumption DEF NoBlock, Block, Bytes, Total, BitsPerField
    <3> HIDE DEF q, c
    <3>3. c.heap = q.heap /\ c.list = m.list /\ c.table = m.table
      BY <3>1 DEF MemOK, Shape
    <3>4. SameBlocks(m, c) /\ q.heap.header = m.heap.header
      BY <2>1, <2>2, <3>2, <3>3 DEF SameBlocks, Taken, BytesIn, Slots
    <3>5. Exact(c)
      BY <2>1, <3>3, <3>4, SameExact
    <3> QED
      BY <3>5 DEF c
  <2>3. CASE q.block # NoBlock
    <3>0. q.block \in Block
      BY <2>1, <2>3
    <3>1. _kmalloc(m, "aligned", n, align, owner)
            = Fill(moved, Alloc(m), m.last, "aligned", n, align, owner)
      BY <1>2, <2>3 DEF _kmalloc
    <3>2. /\ MemOK(moved) /\ moved.last = m.last
          /\ Slots(m) \subseteq Slots(moved) /\ Alloc(m) \in Slots(moved)
          /\ \A j \in Slots(moved) : moved.list[j] = Before(m, j)
      BY <2>1, <3>0, MoveTableType
    <3>3. Exact(moved)
      BY <2>1, <2>3, <3>0, MoveExact
    <3>4. Alloc(m) \notin Slots(m)
      BY TableLength
    <3>5. moved.list[Alloc(m)].ptr = NoBlock.ptr
      BY <3>2, <3>4 DEF Before, FreeSlot
    <3>6. m.last \in Slots(moved)
      BY <3>2 DEF MemOK
    <3> HIDE DEF moved, q
    <3> QED
      BY <3>1, <3>2, <3>3, <3>5, <3>6, FillExact
  <2> QED
    BY <2>2, <2>3
<1> QED
  BY <1>1, <1>2

\* What the slots of I held becomes free, and it was in use.
LEMMA FreeBlocksExact ==
  ASSUME NEW m, MemOK(m), Exact(m), NEW I, I \subseteq Taken(m)
  PROVE  /\ FreeBlocks(m, I).header = m.heap.header \ UNION {BytesIn(m, i) : i \in I}
         /\ Accounted(FreeBlocks(m, I))
<1>1. PICK N \in Nat : Slots(m) = 0 .. N - 1 /\ Alloc(m) = N
  BY TableLength
<1>2. PICK f \in [0 .. N -> Heap] :
        /\ f[0] = m.heap /\ f[N] = FreeBlocks(m, I)
        /\ \A i \in 0 .. N - 1 : FreeStep(m, I, f, i)
  BY <1>1, FreeLoop
<1> DEFINE Earlier(k) == {i \in I : i < k}
           S == {k \in 0 .. N :
                   /\ f[k].header = m.heap.header \ UNION {BytesIn(m, i) : i \in Earlier(k)}
                   /\ Accounted(f[k])}
<1>3. I \subseteq 0 .. N - 1
  BY <1>1 DEF Taken
<1>4. 0 \in S
  <2>1. Earlier(0) = {}
    <3>1. \A i \in 0 .. N - 1 : ~(i < 0)
      OBVIOUS
    <3> QED
      BY <1>3, <3>1
  <2>2. UNION {BytesIn(m, i) : i \in Earlier(0)} = {}
    BY <2>1
  <2> QED
    BY <1>2, <2>2 DEF Exact
<1>5. ASSUME NEW k \in 0 .. N - 1, k \in S PROVE k + 1 \in S
  <2>1. k + 1 \in 0 .. N /\ k \in 0 .. N /\ f[k] \in Heap
    BY <1>2
  <2>e. \A i \in I : (i < k + 1 <=> i < k \/ i = k) /\ ~(k < k)
    <3>1. \A i \in 0 .. N - 1 : (i < k + 1 <=> i < k \/ i = k) /\ ~(k < k)
      OBVIOUS
    <3> QED
      BY <1>3, <3>1
  <2>2. f[k + 1] = IF k \in I THEN kheap_free_mem2(f[k], m.list[k]) ELSE f[k]
    BY <1>2 DEF FreeStep
  <2>3. CASE k \notin I
    <3>1. Earlier(k + 1) = Earlier(k)
      BY <2>e, <2>3
    <3> QED
      BY <1>5, <2>1, <2>2, <2>3, <3>1
  <2>4. CASE k \in I
    <3>1. Earlier(k + 1) = Earlier(k) \cup {k} /\ k \notin Earlier(k)
      BY <2>e, <2>4
    <3>2. m.list[k].size \in Nat /\ m.list[k].ptr \in Int
      BY <1>1, SizesAreNumbers
    <3>3. BytesIn(m, k) = Span(m.list[k].ptr, m.list[k].size)
      BY DEF BytesIn
    <3>4. \A i \in Earlier(k) : BytesIn(m, i) \cap BytesIn(m, k) = {}
      BY <2>4, <3>1 DEF Exact
    <3>5. BytesIn(m, k) \subseteq m.heap.header
      BY <2>4 DEF Exact
    <3> HIDE DEF Earlier
    <3>6. BytesIn(m, k) \subseteq f[k].header
      BY <1>5, <3>4, <3>5
    <3>7. Accounted(f[k + 1]) /\ f[k + 1].header = f[k].header \ BytesIn(m, k)
      BY <1>5, <2>1, <2>2, <2>4, <3>2, <3>3, <3>6, FreeAccounted, FreeType
    <3>8. UNION {BytesIn(m, i) : i \in Earlier(k + 1)}
            = (UNION {BytesIn(m, i) : i \in Earlier(k)}) \cup BytesIn(m, k)
      BY <3>1
    <3>9. f[k + 1].header = m.heap.header \ UNION {BytesIn(m, i) : i \in Earlier(k + 1)}
      BY <1>5, <3>7, <3>8
    <3> QED
      BY <2>1, <3>7, <3>9
  <2> QED
    BY <2>3, <2>4
<1> HIDE DEF S
<1>6. N \in S
  <2>1. 0 .. N \subseteq S
    BY <1>4, <1>5, BoundedInduction
  <2> QED
    BY <2>1
<1>7. Earlier(N) = I
  <2>1. \A i \in 0 .. N - 1 : i < N
    OBVIOUS
  <2> QED
    BY <1>3, <2>1
<1> QED
  BY <1>2, <1>6, <1>7 DEF S

LEMMA ClearExact ==
  ASSUME NEW m, MemOK(m), Exact(m), NEW I, I \subseteq Taken(m)
  PROVE  Exact(Clear(m, I))
<1> DEFINE c == Clear(m, I)
           freed == UNION {BytesIn(m, i) : i \in I}
<1>1. /\ c.heap = FreeBlocks(m, I) /\ c.table = m.table /\ Slots(c) = Slots(m)
      /\ \A i \in Slots(m) : c.list[i] = IF i \in I THEN FreeSlot ELSE m.list[i]
  BY ClearType
<1> HIDE DEF c
<1>2. FreeSlot.ptr \notin Bytes
  BY HeaderSizeAssumption DEF NoBlock, FreeSlot, Bytes, Total, BitsPerField
<1>3. Taken(c) = Taken(m) \ I /\ \A i \in Taken(c) : BytesIn(c, i) = BytesIn(m, i)
  BY <1>1, <1>2 DEF Taken, BytesIn
<1>4. TableBytes(c) = TableBytes(m)
  BY <1>1 DEF TableBytes
<1>5. c.heap.header = m.heap.header \ freed /\ Accounted(c.heap)
  BY <1>1, FreeBlocksExact
<1>6. (UNION {BytesIn(m, i) : i \in Taken(m)}) \ freed
        = UNION {BytesIn(c, i) : i \in Taken(c)}
  <2>1. \A i \in Taken(m) \ I : BytesIn(m, i) \cap freed = {}
    BY DEF Exact
  <2>2. \A x : x \in freed <=> \E i \in I : x \in BytesIn(m, i)
    OBVIOUS
  <2> HIDE DEF freed
  <2>3. \A x : (\E i \in Taken(m) : x \in BytesIn(m, i)) /\ x \notin freed
               <=> \E i \in Taken(c) : x \in BytesIn(c, i)
    BY <1>3, <2>1, <2>2
  <2> QED
    BY <2>3
<1>7. TableBytes(m) \cap freed = {}
  BY DEF Exact
<1>8. c.heap.header = TableBytes(c) \cup UNION {BytesIn(c, i) : i \in Taken(c)}
  <2>1. m.heap.header = TableBytes(m) \cup UNION {BytesIn(m, i) : i \in Taken(m)}
    BY DEF Exact
  <2> HIDE DEF freed
  <2> QED
    BY <1>4, <1>5, <1>6, <1>7, <2>1
<1>9. \A i \in Taken(c) : BytesIn(c, i) \cap TableBytes(c) = {}
  BY <1>3, <1>4 DEF Exact
<1>10. \A i, j \in Taken(c) : i # j => BytesIn(c, i) \cap BytesIn(c, j) = {}
  BY <1>3 DEF Exact
<1> QED
  BY <1>5, <1>8, <1>9, <1>10 DEF Exact, c

\* TableIsExact for every heap, first table and set of requests: blocks and table
\* share no byte and the header has marked exactly their bytes, through moves of
\* the table that succeed or fail, kfree and task_free.
THEOREM ExactTable ==
  ASSUME AlignedOnly
  PROVE  Spec => []TableIsExact
<1>0. MemBase = 0 /\ \A a \in Requests : a = "aligned"
  BY DEF AlignedOnly
<1>1. Init => Exact(mem)
  <2> SUFFICES ASSUME Init PROVE Exact(mem)
    OBVIOUS
  <2> DEFINE r == kheap_get_free_mem2(NewHeap, SlotsAtStart * SlotSize)
  <2>1. PICK list \in [0 .. SlotsAtStart - 1 -> {FreeSlot, StaleSlot}] :
          mem = [heap |-> r.heap, list |-> list, last |-> 0, table |-> r.block]
    BY DEF Init
  <2>2. Accounted(r.heap) /\ r.heap.header = Span(r.block.ptr, r.block.size)
    BY FirstTable
  <2>3. Taken(mem) = {}
    <3>1. FreeSlot.ptr \notin Bytes /\ StaleSlot.ptr \notin Bytes
      BY HeaderSizeAssumption
      DEF NoBlock, FreeSlot, StaleSlot, Bytes, Total, BitsPerField
    <3> QED
      BY <2>1, <3>1 DEF Slots, Taken
  <2> HIDE DEF r
  <2>4. mem.heap = r.heap /\ mem.table = r.block
    BY <2>1
  <2>5. UNION {BytesIn(mem, i) : i \in Taken(mem)} = {}
    BY <2>3
  <2> QED
    BY <2>2, <2>3, <2>4, <2>5 DEF Exact, TableBytes
<1>2. TypeInv /\ Exact(mem) /\ [Next]_vars => Exact(mem)'
  <2> SUFFICES ASSUME TypeInv, Exact(mem), [Next]_vars PROVE Exact(mem')
    BY DEF Exact, Accounted, Taken, BytesIn, TableBytes, Slots
  <2>0. MemOK(mem)
    BY DEF TypeInv
  <2>m. ASSUME NEW a \in Requests, NEW n \in Sizes, NEW align \in Aligns,
               Kmalloc(a, n, align)
        PROVE  Exact(mem')
    BY <1>0, <2>0, <2>m, RequestTypes, KmallocExact DEF Kmalloc
  <2>1. ASSUME NEW a \in Requests, NEW n \in Sizes, NEW align \in Aligns, NEW p,
               Krealloc(p, a, n, align)
        PROVE  Exact(mem')
    BY <2>1, <2>m DEF Krealloc
  <2>2. ASSUME NEW p \in Pointers, Kfree(p) PROVE Exact(mem')
    <3> DEFINE i == FirstFound(mem, Holding(mem, p))
    <3>1. CASE Holding(mem, p) # {} /\ MayFree(mem, i, current)
      <4>1. mem' = Clear(mem, {i})
        BY <2>2, <3>1 DEF Kfree, kfree
      <4>2. i \in Taken(mem)
        BY <2>0, <3>1, FoundSlot DEF Holding, Taken, Pointers
      <4> HIDE DEF i
      <4> QED
        BY <2>0, <4>1, <4>2, ClearExact
    <3>2. CASE ~(Holding(mem, p) # {} /\ MayFree(mem, i, current))
      BY <2>2, <3>2 DEF Kfree, kfree
    <3> QED
      BY <3>1, <3>2
  <2>3. ASSUME NEW a \in Requests, NEW align \in Aligns, TaskNew(a, align)
        PROVE  Exact(mem')
    <3>1. NoTask \in Bytes \cup {NoTask}
      OBVIOUS
    <3> QED
      BY <1>0, <2>0, <2>3, <3>1, RequestTypes, KmallocExact DEF TaskNew
  <2>4. ASSUME NEW t \in live, TaskEnd(t) PROVE Exact(mem')
    BY <2>4 DEF TaskEnd
  <2>5. ASSUME NEW t \in live, Dispatch(t) PROVE Exact(mem')
    BY <2>5 DEF Dispatch
  <2>6. ASSUME NEW t \in live, NEW next \in live, Reap(t, next) PROVE Exact(mem')
    <3>1. ReapedSlots(mem, t) \subseteq Taken(mem)
      <4>1. t \in Bytes /\ FreeSlot.task \notin Bytes /\ StaleSlot.task \notin Bytes
        BY HeaderSizeAssumption
        DEF TypeInv, FreeSlot, StaleSlot, NoTask, NoBlock, Bytes, Total, BitsPerField
      <4>2. ASSUME NEW i \in Slots(mem), mem.list[i].task = t PROVE i \in Taken(mem)
        <5>1. mem.list[i] \in GrantedSlot
          BY <2>0, <4>1, <4>2 DEF MemOK, SlotValues
        <5> QED
          BY <5>1 DEF GrantedSlot, Taken
      <4> QED
        BY <4>1, <4>2 DEF ReapedSlots, Holding, Taken
    <3> QED
      BY <2>0, <2>6, <3>1, ClearExact DEF Reap
  <2>7. CASE UNCHANGED vars
    BY <2>7 DEF vars
  <2> QED
    BY <2>m, <2>1, <2>2, <2>3, <2>4, <2>5, <2>6, <2>7 DEF Next
<1>3. Exact(mem) => TableIsExact
  BY DEF Exact, TableIsExact, Taken, BytesIn, TableBytes, Granted, BytesOfSlot,
         BytesOfTable, Accounted
<1> QED
  BY <1>1, <1>2, <1>3, InitType, NextType, PTL DEF Spec
=============================================================================
