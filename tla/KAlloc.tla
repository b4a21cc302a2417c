-------------------------------- MODULE KAlloc --------------------------------
(***************************************************************************)
(* kmalloc, krealloc and kfree of kernel/src/kstd/kstd.c: the table        *)
(* kalloc_list of granted blocks on top of the allocators of NewMem, and   *)
(* the ownership of blocks by tasks, with what the scheduler's task_free   *)
(* does to the table when a task is over.                                  *)
(*                                                                         *)
(* A pointer is an offset in the heap.  A task is named by the pointer to  *)
(* its task structure, which is itself a block of the table: when it is    *)
(* freed the same name may come back as other memory or as another task.   *)
(* One block stands for the four of a task (structure, context, stack and  *)
(* name), which task_new and task_free always treat alike.                 *)
(* Every operation runs between task_lock and task_unlock, so it is one    *)
(* step; kcalloc is kmalloc plus a write to the block.                     *)
(***************************************************************************)
EXTENDS NewMem

CONSTANTS SlotsAtStart,   \* KALLOC_LIST_START_ALLOC
          SlotSize,       \* sizeof(kheap_allocated_block)
          TaskSize,       \* bytes of a task's block
          Sizes,          \* sizes asked for
          Requests,       \* allocators used: kmalloc has mem2, Rust has aligned
          Aligns          \* alignments asked for

ASSUME TableAssumption ==
  /\ SlotsAtStart \in Nat \ {0} /\ SlotSize \in Nat \ {0} /\ TaskSize \in Nat \ {0}
  /\ Sizes \subseteq Nat \ {0}
  /\ Requests \subseteq Allocators
  /\ Aligns \subseteq Alignments
  /\ SlotsAtStart * SlotSize <= Total

VARIABLES mem,        \* [heap, list, last, table], see IsMem
          live,       \* the tasks in the scheduler's list
          ended,      \* the tasks whose status is task_status_ended
          current     \* task_current

vars == <<mem, live, ended, current>>

-----------------------------------------------------------------------------
NoTask == NoBlock.ptr
Slot == [ptr : Bytes \cup {NoBlock.ptr}, size : 0 .. Total,
         task : Bytes \cup {NoTask}]
FreeSlot == [ptr |-> NoBlock.ptr, size |-> 0, task |-> NoTask]

\* crt0 takes the first table from the heap and does not clear it: a slot may
\* hold what the firmware left there, an address outside the heap.
StaleSlot == [ptr |-> -2, size |-> 0, task |-> NoTask]

\* heap: the heap value; list: kalloc_list, from index 0; last:
\* kalloc_list_last; table: kalloc_list_block, where the list itself lies.
IsMem(m) ==
  /\ m = [heap |-> m.heap, list |-> m.list, last |-> m.last, table |-> m.table]
  /\ m.heap \in Heap /\ m.table \in Block
  /\ m.last \in DOMAIN m.list
  /\ m.list \in [0 .. Cardinality(DOMAIN m.list) - 1 -> Slot \cup {StaleSlot}]

Slots(m) == DOMAIN m.list
Alloc(m) == Cardinality(Slots(m))       \* kalloc_list_alloc

\* The slot of I that a search finds which starts at kalloc_list_last and goes
\* on from index 0.
FirstFound(m, I) ==
  LET behind == {i \in I : m.last <= i}
  IN  Least(IF behind # {} THEN behind ELSE I)

\* Mutant: the slots before kalloc_list_last are not searched.
FreeSlotsBehind(m) == {i \in Slots(m) : m.last <= i /\ m.list[i].ptr = NoBlock.ptr}
FreeSlots(m) == {i \in Slots(m) : m.list[i].ptr = NoBlock.ptr}

\* Results of _kmalloc: the memory, the pointer (or NoBlock.ptr), and whether
\* task_end_current was called.
Result(m, ptr, ends) == [mem |-> m, ptr |-> ptr, ends |-> ends]

\* Ask the allocator for the block of slot i.
Fill(m, i, last, allocator, n, align, owner) ==
  LET r == Allocate(allocator, m.heap, n, align)
  IN  IF r.block = NoBlock
      THEN Result([m EXCEPT !.heap = r.heap], NoBlock.ptr, TRUE)
      ELSE Result([m EXCEPT !.heap = r.heap, !.last = last,
                            !.list[i] = [ptr  |-> r.block.ptr, size |-> n,
                                         task |-> owner]],
                  r.block.ptr, FALSE)

\* Mutant: the block of the old table is not freed.
MoveTableLeaky(m, r) ==
  [m EXCEPT !.heap  = r.heap,
            !.table = r.block,
            !.list  = [i \in 0 .. 2 * Alloc(m) - 1 |->
                         IF i \in Slots(m) THEN m.list[i] ELSE FreeSlot]]
\* The table moves to the block of r, twice as long.
MoveTable(m, r) ==
  [m EXCEPT !.heap  = kheap_free_mem2(r.heap, m.table),
            !.table = r.block,
            !.list  = [i \in 0 .. 2 * Alloc(m) - 1 |->
                         IF i \in Slots(m) THEN m.list[i] ELSE FreeSlot]]

\* Mutant: the search is to start behind the slot just used.
HintAfterSlot(i) == i + 1
\* kalloc_list_last once slot i was used.
HintAfter(i) == i

\* _kmalloc.  The last slot used is remembered, except after the table moved;
\* a table that cannot move does not end the task.
_kmalloc(m, allocator, n, align, owner) ==
  IF FreeSlots(m) # {}
  THEN LET i == FirstFound(m, FreeSlots(m))
       IN  Fill(m, i, HintAfter(i), allocator, n, align, owner)
  ELSE LET r == Allocate(allocator, m.heap, 2 * Alloc(m) * SlotSize, align)
       IN  IF r.block = NoBlock
           THEN Result([m EXCEPT !.heap = r.heap], NoBlock.ptr, FALSE)
           ELSE Fill(MoveTable(m, r), Alloc(m), m.last, allocator, n, align, owner)

\* Mutant: any task may free any block.
MayFreeAnything(m, i, cur) == TRUE
MayFree(m, i, cur) == cur = NoTask \/ m.list[i].task = cur

\* Give back the blocks of the slots I, from the first slot on, and clear the slots.
FreeBlocks(m, I) ==
  LET freed[i \in 0 .. Alloc(m)] ==        \* once the slots before i were looked at
        IF i = 0 THEN m.heap
        ELSE IF i - 1 \in I THEN kheap_free_mem2(freed[i - 1], m.list[i - 1])
        ELSE freed[i - 1]
  IN  freed[Alloc(m)]
Clear(m, I) ==
  [m EXCEPT !.heap = FreeBlocks(m, I),
            !.list = [i \in Slots(m) |-> IF i \in I THEN FreeSlot ELSE @[i]]]

\* kfree(p), called while cur is task_current.
Holding(m, p) == {i \in Slots(m) : m.list[i].ptr = p}
kfree(m, p, cur) ==
  LET i == FirstFound(m, Holding(m, p))
  IN  IF Holding(m, p) # {} /\ MayFree(m, i, cur) THEN Clear(m, {i}) ELSE m

\* Mutant: task_current is not cleared first, so that kfree refuses the blocks
\* of the task structure, which have no owner.
ReapedSlotsOfOwner(m, t) == {i \in Slots(m) : m.list[i].task = t}
\* Mutant: task_allocation_remove is not called.
ReapedSlotsOfTask(m, t) == Holding(m, t)
\* What task_free(t) and its task_allocation_remove(t) free.
ReapedSlots(m, t) == Holding(m, t) \cup {i \in Slots(m) : m.list[i].task = t}

-----------------------------------------------------------------------------
\* crt0: the table comes from kheap_get_free_mem2 on the new heap.
Init ==
  /\ LET r == kheap_get_free_mem2(NewHeap, SlotsAtStart * SlotSize)
     IN  \E list \in [0 .. SlotsAtStart - 1 -> {FreeSlot, StaleSlot}] :
           mem = [heap |-> r.heap, list |-> list, last |-> 0, table |-> r.block]
  /\ live = {} /\ ended = {}
  /\ current = NoTask

\* task_end_current: nothing happens when there is no current task.
EndCurrent(ends) == ended' = IF ends THEN ended \cup ({current} \ {NoTask}) ELSE ended

Kmalloc(allocator, n, align) ==
  LET r == _kmalloc(mem, allocator, n, align, current)
  IN  /\ mem' = r.mem
      /\ EndCurrent(r.ends)
      /\ UNCHANGED <<live, current>>

\* The old block stays granted: the caller has to kfree it.
Krealloc(p, allocator, n, align) ==
  /\ Holding(mem, p) # {}
  /\ Kmalloc(allocator, n, align)

\* The boot code only frees what it asked for; a task may try any pointer.
Kfree(p) ==
  /\ current = NoTask => p \notin live
  /\ mem' = kfree(mem, p, current)
  /\ UNCHANGED <<live, ended, current>>

\* task_new: its blocks have no owner.  When there is no memory it goes on with
\* a task structure at address 0, which is outside this model.
TaskNew(allocator, align) ==
  LET r == _kmalloc(mem, allocator, TaskSize, align, NoTask)
  IN  /\ mem' = r.mem
      /\ EndCurrent(r.ends)
      /\ live' = live \cup ({r.ptr} \ {NoTask})
      /\ UNCHANGED current

\* A task returns from its function or is ended by another (SIGINT).  It may
\* run on until the next timer interrupt.
TaskEnd(t) ==
  /\ ended' = ended \cup {t}
  /\ UNCHANGED <<mem, live, current>>

\* The scheduler reloads another task; during boot there is none.
Dispatch(t) ==
  /\ t \notin ended
  /\ current' = t
  /\ UNCHANGED <<mem, live, ended>>

\* The scheduler frees an ended task and goes on with another one.  (If there
\* is none, task_free panics: "No more tasks need to reload shell".)
Reap(t, next) ==
  /\ current # NoTask
  /\ t \in ended /\ next # t
  /\ mem' = Clear(mem, ReapedSlots(mem, t))
  /\ live' = live \ {t}
  /\ ended' = ended \ {t}
  /\ current' = next

Pointers == {mem.list[i].ptr : i \in Slots(mem)} \cap Bytes

Next ==
  \/ \E a \in Requests, n \in Sizes, align \in Aligns :
       \/ Kmalloc(a, n, align)
       \/ \E p \in Pointers : Krealloc(p, a, n, align)
  \/ \E p \in Pointers : Kfree(p)
  \/ \E a \in Requests, align \in Aligns : TaskNew(a, align)
  \/ \E t \in live :
       \/ TaskEnd(t)
       \/ Dispatch(t)
       \/ \E next \in live : Reap(t, next)

Spec == Init /\ [][Next]_vars

-----------------------------------------------------------------------------
Granted == {i \in Slots(mem) : mem.list[i].ptr \in Bytes}
BytesOfSlot(i) == Span(mem.list[i].ptr, mem.list[i].size)
BytesOfTable == Span(mem.table.ptr, mem.table.size)

\* The table, the heap below it, and which tasks there are; in particular
\* kalloc_list_last stays inside the table, also when the table moves.
TypeOK ==
  /\ IsMem(mem)
  /\ live \subseteq Bytes /\ ended \subseteq live
  /\ current \in live \cup {NoTask}

\* The blocks of the table and the table itself share no byte, and the heap has
\* marked exactly their bytes: moving the table neither tears a block nor leaks
\* the old table.
TableIsExact ==
  /\ \A i \in Granted : BytesOfSlot(i) \cap BytesOfTable = {}
  /\ \A i, j \in Granted : i # j => BytesOfSlot(i) \cap BytesOfSlot(j) = {}
  /\ mem.heap.header = BytesOfTable \cup UNION {BytesOfSlot(i) : i \in Granted}
  /\ mem.heap.free_memory = Total - Cardinality(mem.heap.header)

\* The owner of a block is a task that still exists.  Otherwise a new task at
\* the same address would own memory it never asked for, and free it.
OwnersAlive == \A i \in Granted : mem.list[i].task \in live \cup {NoTask}

\* The task structures in the table, known by their size (no caller asks for
\* TaskSize bytes, see MCKAlloc), are exactly the tasks of the scheduler's list:
\* no task can free the structure of a live one, and a finished one is freed.
TaskBlocks == {i \in Granted : mem.list[i].size = TaskSize}
TasksAreBlocks ==
  /\ {mem.list[i].ptr : i \in TaskBlocks} = live
  /\ \A i \in TaskBlocks : mem.list[i].task = NoTask

Blocks == {mem.list[i] : i \in Granted}

\* A block only leaves the table if its owner frees it (or the boot code does),
\* or with the task it belongs to: moving the table loses none, and no task
\* frees the memory of another.
OnlyOwnersFree ==
  [][\A b \in Blocks \ Blocks' :
       \/ current \in {NoTask, b.task}
       \/ {b.task, b.ptr} \cap (live \ live') # {}]_vars

\* The table only moves when every slot is taken.
TableMovesWhenFull ==
  [][mem'.table # mem.table => \A i \in Slots(mem) : mem.list[i].ptr # NoBlock.ptr]_vars
=============================================================================
