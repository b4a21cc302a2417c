# loonix in TLA+

A verification project for the loonix kernel (`src/kernel`, x86_64 build). It
models the parts of the kernel that every other part leans on: the byte
allocator, the allocation table with its owners, the preemptive round robin
scheduler with the shell that runs each command as a task, the console (the
keyboard, the shell's line editor and the terminal it draws on), the locked list
that tasks share, and the C interpreter pythonix with the map of names it keeps.

The repository has no design document. What the code is held against are its own
comments, its `KPANIC`/`KERROR` messages and the tests among the shell's builtins.

## 1. Inventory

| component | state it keeps | operations | what is hard |
|---|---|---|---|
| byte allocator `sys/newmem.c` | one header bit per byte, `free_memory`, the search hint `kheap_last_free_mem_bitfield` | `kheap_get_free_aligned`, `kheap_get_free_mem2`, `kheap_free_mem2` | two searches that start at a stale hint, runs that cross bitfields, two allocators on one header |
| allocation table `kstd/kstd.c` | `kalloc_list`, `kalloc_list_last`, the block the table itself lies in, the owner of each block | `_kmalloc`, `krealloc`, `kfree` | the table lives in the heap it describes and moves; owners are addresses that are used again |
| tasks `sys/task.c`, `arch/x86_64_{int,cpu}.S` | the linked task structures, `task_current`, the lock counter, saved contexts | `task_new`, `task_end`, `task_end_wait`, `task_pause`, `task_free`, `task_scheduler`, `sleep_100` | preemption at every statement, a scheduler that runs partly with interrupts on, wake-ups, starvation |
| shell `shell/shell.c`, `shell/builtins.c` | `shell_current_subproc`, the line being edited | `shell_exec`, `shell_sigint`, the line editor | CTRL+C arrives as an interrupt while commands start and end |
| containers `kstd/{karray,klist,ktree,khashmap}.c` | arrays, lists and trees, each with a spin lock | push, pop, set, delete, iterate | the lock is tested and taken in two steps; locks kept on early returns; elements belong to the task that pushed them |
| keyboard and terminal `drivers/{ps2,vt100,serial,framebuffer}.c` | pressed keys, one pending character, the cursor, the escape parser | interrupt handler, `getchar_non_blocking`, `vt100_console_putchar` | interrupt against reader, wrapping and scrolling |
| interrupt table, timer events `sys/{interrupt,timer}.c` | 256 handlers, a list of events | install, replace, remove | `timer_init` has no caller |
| async table `include/kstd/async.h` | 256 state machines | call, await, yield | never emptied |
| strings, regular expressions `kstd/{kstring,regexp}.c` | none | pure functions | backtracking, bounds |
| pythonix in C `pythonix/*.c` | `vm->names`, `vm->types`, reference counts | assign, operate, show, collect, quit | a collector that removes from the array it walks over; names that are only hashes; operators that write in place |
| pythonix in Rust `rs/pythonix/*.rs` | tokens, scopes | tokenise, evaluate | order of evaluation |
| nvme queues `rs/nvme/nvme.rs` | tail and size | push | no wrap-around |
| boot and devices | memory map, PCI and ACPI tables | run once | I/O, see section 7 |

The components interact by calls and by shared memory. Every allocation of every
component goes through `_kmalloc`, which records `task_current` as its owner; the
scheduler's `task_free` gives back all blocks of a task. `task_lock` turns
interrupts off and counts its nesting; `task_unlock` turns them on when the count
is 0 again, also when it is called inside an interrupt handler. The timer
interrupt (vector 0x20) enters the scheduler; `task_pause` enters it with `int
$32`. The keyboard interrupt may end the shell's command.

What makes the components correct:

* allocator: live blocks share no byte; the header, `free_memory` and the live
  blocks agree after any history; a request is refused only if nothing fits.
* table: it holds exactly the live blocks, however often it has moved; a block is
  freed by its owner, or with it, and an owner always exists.
* tasks: the list is linked at every point where an interrupt may come; ended
  tasks do not come back; waiters are woken before what they wait for is freed;
  everything that can run does.
* shell: it goes on exactly when the command is over; CTRL+C hits the command.
* list: the lock keeps tasks apart; no push is lost, and the list never has a cycle.
* interpreter: a name leads to a live object or to none; what no name leads to is
  freed, once; a line changes the one variable it names.
* console: a key press is given to the shell at most once; the line is one string;
  the screen shows it and the cursor is where the next character goes.

`PROJECT.json` lists the hazards one by one, each at its line, with the
properties that cover it.

## 2. Plan

In the order of their importance; 1 to 10 are done.

1. `NewMem`, `KHeap`, `NewMemLoops` with the abstract allocator `ByteRegions`;
   runs `heap_*`.
2. `KAlloc` on top of `NewMem`: table, owners, task memory; run `kalloc`.
3. `Tasks`: task list, scheduler, waiting, sleeping, shell; runs `tasks_*`.
4. Proofs about 1 in `NewMemProofs` and `KHeapProofs`: types, exactness, refinement
   of `ByteRegions`, no false refusal.
5. `Vt100`, `Console`: scan codes, the pending character between interrupt and
   reader, the line editor of the shell, the escape parser and the cursor of
   `vt100.c`; runs `console_*`.
6. `KList`: tasks that share a list, the lock test and increment as separate steps,
   the owners of its elements; run `klist`, proofs in `KListProofs`.
7. `KHashMap`, `PyValues`, `Pythonix` with the abstract `PyEnv`; run `pythonix`.
8. Proofs about 2 in `KAllocProofs`: owners, who frees, when the table moves.
9. Proofs about 3, 5 and 6 in `TasksProofs`, `ConsoleProofs` and `KListProofs`, the
   rest of 2, and the loops of 1; induction over the naturals for all of them in
   `NatRecursion`.
10. Proofs about 7 in `PythonixProofs`: types, names, the collector, the trees of
   `KHashMap`, and that the interpreter implements `PyEnv`.
11. `Tasks` on top of `KAlloc`, so that a second `kfree` of a task's stack meets the
    table; lines longer than the row; an overlap run for `MemBase # 0`.
12. Pure algorithms against reference definitions: the argument parser of the
    shell, `regexp.c` once it is clear what it promises.

## 3. Modules

| module | models | uses |
|---|---|---|
| `NewMem` | the allocator as operators on a heap value | |
| `ByteRegions` | what an allocator promises, without any bookkeeping (abstract) | |
| `KHeap` | callers that hold and give back blocks | `NewMem`, `ByteRegions` |
| `NewMemLoops` | the searches as the loops of the code | `KHeap` |
| `KAlloc` | `kalloc_list`, `kmalloc`, `krealloc`, `kfree`, reaping | `NewMem` |
| `Tasks` | task list, scheduler, shell | |
| `Vt100` | the terminal as operators on a terminal value | |
| `Console` | keyboard interrupt, pending character, line editor | `Vt100` |
| `KList` | the list of `klist.c` with the tasks of `testklist` | |
| `KHashMap` | `ktree.c` and `khashmap.c` as operators on a tree | |
| `PyValues` | the interpreter's values, their operators, what can be typed | |
| `PyEnv` | what the interpreter promises: variables with values (abstract) | `PyValues` |
| `Pythonix` | objects, reference counts, every kind of line, the collector | `KHashMap`, `PyValues`, `PyEnv` |
| `NatRecursion` | lemmas: induction over naturals, functions defined by steps | |
| `NewMemProofs` | lemmas about the searches, blocks and the count of free bytes | `NewMem`, `NatRecursion` |
| `KHeapProofs` | theorems about `KHeap` and the loops | `NewMemLoops`, `NewMemProofs` |
| `KAllocProofs` | theorems about `KAlloc` | `KAlloc`, `NewMemProofs` |
| `TasksProofs` | theorems about `Tasks` | `Tasks`, `NatRecursion` |
| `KListProofs` | theorems about `KList` | `KList`, `NatRecursion` |
| `ConsoleProofs` | theorems about `Console` | `Console`, `NatRecursion` |
| `PythonixProofs` | theorems about the trees of `KHashMap` and about `Pythonix` | `Pythonix`, `NatRecursion` |
| `MCKHeap`, `MCKAlloc`, `MCTasks`, `MCConsole`, `MCKList`, `MCPythonix` | what TLC needs besides: symmetry, header patterns, hashes computed letter by letter | |

### NewMem, KHeap, NewMemLoops

A byte of the heap is its offset from `heap->memory`; byte *b* has bit *b* % 8 of
bitfield *b* / 8, so the header is the set of bytes whose bit is set. `last` is
the search hint. All operations run under `task_lock` or during boot, hence each
is one step. `MemBase` is the address of the memory modulo 8: the aligned search
moves its start until the address is aligned, which adds the same `Skew` in every
bitfield.

The searches are given in closed form: the first bitfield, from the hint on, at
which *n* free bytes start (`AlignedStarts`), and the first free run of *n* bytes
(`RunStarts`) with the start that `start_bitfield` and `start_bit` hold when the
search ends (`RecordedStart`), which is not always the start of the run. The
closed forms are what the proofs use. `NewMemLoops` has the loops with their
counters, and `SearchesMatchLoops` says that both agree on every heap reached and,
in the initial state, on every header whose bitfields are of `Patterns`, with
every hint. The patterns include what `kheap_get_free_mem2` leaves behind. `LoopsAgree`
proves it for all headers.

### KAlloc

`mem` is the heap with `kalloc_list`, `kalloc_list_last` and `kalloc_list_block`.
A task is named by the pointer to its structure, so that a freed structure's
address may come back as another task's. One block stands for the four blocks of
a task (structure, context, stack, name): `task_new` takes all four without an
owner and `task_free` frees all four with `task_current` cleared. The first table
is taken from the heap without being cleared, so its slots may start with
`StaleSlot`, an address that is neither 0 nor in the heap. `Kfree` takes any
pointer in the table, also one of another task. The boot code, which runs while
`task_current` is 0, only frees what it asked for. `FreeBlocks` is the loop of
`task_allocation_remove` over the slots, one `kheap_free_mem2` for each block it
gives back.

### Tasks

Every statement outside `task_lock` that touches shared state is a step: the three
of `task_end_wait`, the assignment to `shell_current_subproc`, the steps of
`task_free` after its first `kfree`. `pc` says which of them a task is at. `cpu`
is what the processor executes: the current task, the scheduler's loop, or a step
of `task_free`. `enabled` and `inService` say whether a timer interrupt can come
while the scheduler runs: the `kfree`s in `task_free` turn interrupts on, and no
hardware interrupt is in service if the scheduler was entered by `int $32`. A
scheduler interrupted in this way is forgotten, or saved as the context of
`task_current`; such a task is in `hijacked`, and when it is reloaded the
processor goes on inside the scheduler.

What is left of a time slice is 0 or 1, "used up" or "positive". `Keep` needs a
positive rest; `Expire` is possible always, since any number of ticks may have
passed. `Reload` gives 1, and 0 for `task_priority_sleep`: 0x100000 >> 0x20.
Programs are arbitrary within what the builtins do: a command may create tasks in
the background, create one and wait for it, sleep and return. Only the shell and
its command create tasks, as in the code.

`CommandIsOver` excepts a command that has waited itself. The proof of `CommandEnds`
needs the exception, and four structures show why. The command waits for a task of
its own and is between its pause and its `int` when CTRL+C ends it. The scheduler
starts to free it and wakes the shell, but a nested timer interrupts `task_free`;
the nested scheduler meets another ended task first, frees that one and goes on
behind the command, to the command's task. When this one ends, `task_resume`
(`task.c:79-85`) does not look at the status and makes the ended command run again,
while the shell goes on and frees the command's arguments (`shell.c:308`). With the
three structures of `tasks_safety` the property holds without the exception, so the
run alone would have promised too much.

The switches `WaitingPrograms`, `SleepingPrograms`, `CtrlC` and `NestedTimer`
select behaviour for a run; the safety run has all of them on.

### Vt100, Console

`Vt100` has the terminal as a value: position, screen, escape parser, and whether
the blinking cursor is drawn. `putchar` feeds it one character, with everything
`vt100_console_putchar` does: digits, the end of a sequence, tabs, wrapping at the
right edge, scrolling at the bottom. Positions are counted in characters, the
screen is rows of characters instead of pixels.

`Console` is one shell and the keyboard's interrupt handler. `Irq` may come
between any two of `Test`, `Load` and the clearing of `ps2_device_lastchar_pressed`;
the clearing and what the editor does with the character are one step, since
nobody else looks at the line or the screen. A released key also goes through the
handler and overwrites the pending character with 0. After ESC, which the left
CTRL key produces as well, the shell polls the controller for two characters
(`Bracket`, `Final`). While a command runs the shell does not read; its output is
one of `Outputs`, so `Enter` is one step. Output of other tasks is left out: it would
go into the middle of escape sequences. Text the editor prints besides the line,
like the overflow message, is cut to its first characters.

The ghost variable `marred` collects what is known to make the screen differ from
the line, because the code does not redraw in these cases: a BACKSPACE to column
0 of a line with a rest (`refreshline` returns early, shell.c:329-332), CTRL+L with
the cursor inside the line (shell.c:52-56), control characters echoed as numbers
(shell.c:107-108), and the drawn cursor, which covers a character inside the line and
stays behind on the screen when the next thing printed moves away from it
(vt100.c:160-174). `CursorFollowsLine` and `ScreenShowsLine` say that there is no
other case, for lines without a number of two digits.

`Decimal`, the digits of a number, goes up to 9999, which bounds `CMDLINE_MAX` (the
code has 1024). The prompt is a nonempty text without control characters that ends
in a blank; keys and outputs are texts of the terminal's characters. The named
assumptions of `Console` say so.

### KList

`testklist` is the only code that shares a list: `Main` makes it, another task pushes
at the same time, `Main` waits, prints and frees. The model has any number of pushers. The kernel is compiled without
optimisation, so `lock++` is a load and a store, and each access of `klist_push`
to the list is a step of its own. A test of the lock that fails
goes through `sleep_100`. The wait of `Main` is abstracted to "all pushers are gone"; the wake-up that
may be lost on the way is the business of `Tasks`. `owner` is the part of the
allocation table that matters here: an element belongs to the task that pushed it
and is freed with it.

Two ghost variables say when what the code promises is over. `overlapped`: two
tasks have passed the test before either set the lock. `reused`: memory of an
element that is still in the list was given out again. Behaviours stop at
`reused`, and go on after `overlapped`: `ChainEnds` holds there too, while a push
may be lost, and the lock may end up at -1 and then keep everybody out for ever.

### KHashMap, PyValues, PyEnv, Pythonix

A tree is the sequence of its nodes, with indices for pointers. The functions are
written as the code's descents, as recursive functions over indices. `InOrder`,
`Sorted` and `KeysOf` are the reference they are checked against.

`Pythonix` keeps `vm->names` (the map), `vm->types` (the array of all objects) and
the objects. A line is one action: it makes a new state of the interpreter and
hands over to the collector, whose loop `pythonix_vm_gc` takes one step per
object, from the last to the first. Lines are given by their kind, not their
text: the regular expressions are abstracted. `Operated` has every operator of
ints (of `IntBits` bits, wrapping) and strings (by length). A division that the
processor refuses leads to `panic`, where the model stops. `TypedMethods` has
no method that takes an argument: called by name without one, it reads address 0.

`Hash` is what `khashmap_hash_string` makes of a name. `MCPythonix` computes it
from the letters and checks the values given; it folds names onto two bytes
instead of eight, so that `aad` and `daa` collide as `aXXXXXXXb` and `bXXXXXXXa` do in
the kernel. In `PyEnv` a variable is therefore a hash, not a name.

The named assumptions: there are finitely many names, `help` and `quit` among them
with different hashes; `NoObject` and `None` are no objects and no values; and memory
has room for an object per variable and two more (`ObjectsAssumption`), which is all
that is ever needed, since the collector runs after each line and no line makes more
than two objects. The code does not look at what `kmalloc` returns.

## 4. Runs

| run | bounds | what it shows |
|---|---|---|
| `heap_aligned` | 3 bitfields, 3 holders, sizes 1, 5, 7, 8, 11; 1000 headers | the Rust allocator's blocks are disjoint, the bookkeeping is exact, no false refusal, `ByteRegions` is implemented; both closed forms equal the loops |
| `heap_mem2` (violation) | size 8, `kmalloc` alone | `kmalloc` grants bytes in use |
| `kalloc` | 5 bitfields, table of 2 slots, sizes 5, 12, tasks of 7 bytes | table, heap, owners and task list agree; only owners free |
| `tasks_safety` | 3 structures, all switches on | the list is linked everywhere; shell, CTRL+C and waiters |
| `tasks_liveness` | 3 structures, waiting programs | created tasks start, ready tasks run, ended tasks are freed |
| `tasks_panic` (violation) | 3 structures, nested timer | the scheduler frees the last task twice and panics |
| `tasks_wakeup` (violation) | 3 structures, nothing special | the shell misses its wake-up |
| `klist` | 2 tasks, 4 elements, 2 pushes each | lock, list, owners; no push is lost unless tasks overlap; calls end |
| `pythonix` | 7 objects, ints of 2 bits, strings up to 2, names `help`, `quit`, `aad`, `daa`, of which the last two collide | names, objects, counts and array agree; variables keep their values |
| `console_edit` | lines of 3, keys `[`, `C`, `D`, CTRL, ENTER, BACKSPACE, one row | the line is a string, cursor and screen follow it |
| `console_keys` | lines of 1, two rows, CTRL+L, blinking cursor | the same; a press is read once |
| `console_ten` (violation) | lines of 11 in a row of 40 | numbers with a 0 break the redrawing |

Why the bounds are enough. Heap: three bitfields give blocks inside one bitfield,
over one boundary and over two, and three holders give a hole between two blocks
with the hint before, in and behind it. The proofs cover all sizes. Table: two
slots and a heap of 40 bytes let it move once and then run out of memory, and
leave room for two tasks; both a move that works and one that fails occur, with
stale slots and with slots before and behind `kalloc_list_last`. Tasks: the list
has a first, a middle and a last element, the shell may be paused behind a
command that waits for a third task, and addresses are used again. The number of
structures bounds the tasks that exist at one time, not those that ever do.
Console: three characters give a BACKSPACE in front of, inside and behind a rest,
arrows to both ends of the line, an overflow of the buffer, and ESC sequences
that are cut off; `[`, `C` and `D` are at once letters and parts of the
sequences, `C` and `l` also make CTRL+C and CTRL+L. One row scrolls at each line
end; the second run has a row above, which CTRL+L goes to. The number of key
presses is not bounded. List: two pushes each give an element in front of an own
one and of another task's, and the second push of a task while the other is in
any step of its first, or is gone; four elements let none be missing. Pythonix:
`help`, `quit`, the one variable that two names share, the object that replaces one
of them and the temporaries of one line are at most seven objects, so memory never
runs out; two bits have the least int, -1, 0 and 1; there is no bound on the number
of lines. The TAB key is in the console's model and in neither passing run: a
control character only excludes the line from the two screen properties.

`CHECK_DEADLOCK FALSE` is set for `tasks_safety` and `pythonix`, where the kernel
stops in a panic, and for `klist`, whose program ends or waits for a lock for ever.

Symmetry: all structures but the shell's in `tasks_safety`, which checks no
liveness.

Each property of a passing run has a mutant in the module, a plausible slip in
the operator it is about, marked `Mutant:`; it violates the property.

### Fairness

`Fairness` in `Tasks`, each with its reason:

* `WF(Scheduler)`, `WF(Timer)`: the processor executes instructions and the timer
  is programmed once and ticks.
* `SF(Straight(Shell))`: the shell executes the statements of `shell_exec` if it
  gets the processor again and again. It is strong fairness because the timer
  takes the processor away in between. Nothing is assumed of the programs: a
  command may loop for ever.
* `SF(Expire(c))`: every visit of the scheduler subtracts ticks, so that a task's
  slice is used up after some visits. `SF(Keep(c))`: a reloaded slice of
  thousands of ticks is not used up by each next visit.

`tasks_liveness` leaves sleepers and the nested timer out, because with them the
properties fail: a sleeping task's slice is 0x100000 >> 0x20, that is 0, so it only
runs if the task before it in the round has just used up its slice, and never when
all others are paused (`task.c:276`); the nested timer is `tasks_panic`.

`FairSpec` of `KList` has weak fairness for what each running task does: the round
robin gives every such task its turn, and a step that is enabled stays enabled
until the task takes it, except a test of the lock. A task that found the lock
taken sleeps in `sleep_100`, and sleepers are the exception above. The list of the
scheduler is shell, `Main`, pushers: the shell is paused and never uses up a slice
when it is entered from behind, so `Main` may sleep for ever, and there is no
fairness for its `Awake`; a pusher has `Main` or another pusher in front, whose slice
is used up again and again, so its `Awake` is fair. `WaitIsOver` is not fair, because
the wake-up of `task_end_wait` may be lost (`tasks_wakeup`). What is left is
`CallsEnd`: the pushers' calls, and the printing and freeing once `Main` goes on, come
to their end. That `testklist` as a whole does is not true.

## 5. What the violations show

* `Mem2GrantsFreeBytes` (`newmem.c:199`): after a used bit 7 the search records
  the first bit of the same bitfield as the start of the run. With a block that
  ends with a bitfield, the next `kmalloc` gets bytes of that block.
* `PanicMeansNoTasks` (`task.c:191`): see the nested timer above. The interrupted
  scheduler had set `task_current` back to the freed task; the nested one frees
  it again and takes it for the only one.
* `ShellGoesOn` (`task.c:27`): a lost wake-up.
* `ScreenShowsLine` (`vt100.c:177`): `isdigit('0')` is 0, which the terminal takes
  for "no digit". From ten characters on `refreshline` sends such numbers.

## 6. What is proved

`KHeapProofs` with the lemmas of `NewMemProofs`, for every `HeaderSize`, `MemBase`, set
of holders and of sizes:

* `TypeCorrect`: `Spec => []TypeOK`. The lemmas `AlignedResult` and `Mem2Result`
  say what a search returns: the heap as it was, the heap with the hint at 0, or
  a grant at a place inside the heap; `GrantType` and `RefuseType` that these
  have the right type. `LeastIsLeast` is the fact they rest on: `Least`, which
  is how the searches pick a place, is well defined on every nonempty set of
  naturals (from the well-foundedness of strict inclusion on finite sets).
* `ExactHeap`: if only the aligned allocator is used on an aligned heap
  (`AlignedOnly`), then `Spec => []HeapIsExact`. `TypeOK /\ HeapIsExact` is
  inductive: disjointness alone is not, since a grant looks at the header and
  not at the blocks, so `HeaderExact` has to go along; `FreeMemoryExact` needs
  the cardinality of a union of disjoint spans. `GetStaysExact` and
  `GiveBackStaysExact` are the two actions.
* `ImplementsPromise`: under the same assumption `Spec => KeepsPromise`, by step
  simulation from that invariant; the refinement mapping keeps `granted`, drops
  the heap, and maps refused requests to stutters.
* `NoFalseRefusal`: `Spec => []RefusedOnlyWhenFull`, with either allocator; it
  follows from the types alone, by cases on which of the two searches succeeds.
* `LoopsAgree`: `Spec => []SearchesMatchLoops`, from `Mem2Agrees` and `AlignedAgrees`,
  which hold for every heap value, hint and size. The loop of
  `kheap_get_free_mem2` has the invariant `Mem2Inv`: the last `count` bytes are free, no
  run begins earlier, and the place is `PlaceFor` of the byte after the last used
  one. The aligned loop has `AlignedInv`, in bitfields. So what is proved
  about the closed forms holds of the searches as the code runs them.

`AlignedOnly` is needed: with `kheap_get_free_mem2` blocks do overlap, which is
what `heap_mem2` shows.

`NatRecursion` makes induction possible without the library's induction theorems,
which take an operator as a parameter: `Induction` says that a *set* with 0 and the
successor of each member has all naturals, and is proved from the well-foundedness
of strict inclusion on finite sets. `IterationExists` and `UnrollingExists` give the
functions that a number of steps define; with them the recursive functions and the
walks of the models (`Scan`, `FreeBlocks`, `Chain`, `Walk`, `kprint`) are shown to be what
their equations say, which TLA+ does not give for free.

`KAllocProofs`, for every heap, first table and set of requests:

* `TypeCorrect`: `Spec => []TypeOK`. `MemOK` strengthens it: each slot is free, or has a
  block of the heap, or is one of the first table's stale slots; otherwise freeing
  a slot could make `free_memory` anything.
* `OwnersLive`: `Spec => []OwnersAlive`. The inductive invariant `OwnersInv` says that
  the table's slots are 0, 1, 2, ... (without it a table that moves could lose
  slots or gain some below its new end), that owners, of free slots too, are tasks
  of the list or nobody, and that so is `task_current`, the owner of the next
  block. `KmallocOwners` is `_kmalloc` with and without a move of the table,
  `ClearSlots` is `kfree` and `task_free`.
* `OwnersFree`: `Spec => OnlyOwnersFree`. `KmallocKeeps` is the core: a slot that is
  filled was free or is new, for every place of `kalloc_list_last`.
* `FullTableMoves`: `Spec => TableMovesWhenFull`.
* `TasksStayBlocks`: `Spec => []TasksAreBlocks`, if no request has the size of a task
  structure (`SizesApart`). That is how the model knows a structure in the table,
  not something the code relies on.
* `ExactTable`: `Spec => []TableIsExact`, with the aligned allocator on an aligned
  heap (`AlignedOnly`, as above). `Exact` is the property of a memory value, since
  `_kmalloc` may first move the table, with the old and the new one in the heap for
  a moment, and then fill a slot of it. `FreeBlocksExact` is the loop of
  `task_free`, by induction over the slots: after each the header is that of the
  blocks left, and `free_memory` counts what it should.

All but `ExactTable` hold with either allocator: they are about the table, not about
where blocks lie.

`TasksProofs`, for every number of structures and all values of the switches, from the
invariant `TasksInv` (with `TypeOK` as its first conjunct):

* `Linked` is what the list is without the walk: each `next` has its `prev`, the two ends
  are the only ones without, and there is a numbering that rises along `next`. The
  numbering is what makes it inductive: links that match allow a circle beside the
  list. `WalkIsLive` gets `ListIsLinked` from it, by `PigeonHole`. `AppendLinked` and
  `UnlinkLinked` are `task_add` and `task_remove`; unlinking a second time changes
  nothing because a freed structure still says between which tasks it was (`Stale`).
* `SchedulerInv` says what `task_current` and the structure being freed may be at each
  place of the processor, also where the nested timer has left the scheduler's
  work undone; `ProgramsInv` that programs wait for what they created; `ShellInv` that
  a woken shell has a command that is over.
* Theorems: `TypeCorrect`, `LinkedList` (`ListIsLinked`), `CommandEnds` (`CommandIsOver`),
  `SigintIsSafe` (`SigintHitsCommand`), `EndedForever` (`EndedStaysEnded`) and `WaitersWoken`
  (`WokenBeforeFreed`). Nothing is claimed of a kernel that has panicked.

`KListProofs`, for every number of tasks, elements and pushes:

* `TypeCorrect`: `Spec => []TypeOK`, by the invariant `TypeInv`.
* `LockWorks`: `Spec => []LockKeepsOut`. `LockInv` adds what the property leaves out:
  the value a task has loaded and not stored yet is the lock's value, as long as
  nobody overlapped. Without it a store could set any number.
* `NoCycle`: `Spec => []ChainEnds`, also after tasks overlapped. `FallInv`: some rank of the
  elements falls along `next`, because an element that is linked points to elements
  that were there before it. `FallingChainEnds` makes a chain of it.
* `NothingLost`: `Spec => []ListIsWhole`, and `StaysInList`: `Spec => OnlyPrepends`. A push that
  is under way has a stage, and each stage a `Shape` of `first`, `last` and the two links
  of its element; `LinksInv` says that at most one is under way, with that shape, and
  that the pushes that are over are linked throughout.
* `ElementsFollowTasks`: `Spec => []ElementsGoWithTheirTask`, by `OwnersInv`, the owner of every
  element in the list or in a push.
* `FreeIsComplete`: `Spec => []AllFreed`, by `FreeInv`: `klist_free` has come to some place
  of the list and all before it is free.

`ConsoleProofs`, for every screen, prompt, line length and set of keys:

* `TypeCorrect` and `LineStaysText`: `EditInv` says that the line *ends* somewhere, with only
  zeros from there on (`Ends`). `strlen` alone is not inductive: `rmchar` moves what is
  behind the first zero, too. `PrintType` is that no text takes the cursor off the screen.
* `ReadOnce`: `Spec => TypedOnce`, by `ReadInv`: what waits in
  `ps2_device_lastchar_pressed` is unread unless the reader is about to clear it.
* `CursorIsRight` and `ScreenIsRight`: `[]CursorFollowsLine` and `[]ScreenShowsLine`, as long as
  the line has less than ten characters and fits behind the prompt (`ShortLine`), and
  if commands end their output with a line feed and print no escapes (`PlainOutputs`). `ScreenInv`
  is the row, character by character (`LineRow`), between keys the terminal is in no
  escape sequence and below the cursor all is blank (`Settled`). For each thing the
  editor prints (an escape with a number, a text, a redrawn line, a cleared
  screen) there is a lemma about the row it leaves. `ShortLine` cannot be left out:
  from ten characters on `refreshline` sends numbers with the digit 0, which is
  what `console_ten` shows. `PlainOutputs` cannot either: a prompt after half a row
  does not begin at the left edge.

`PythonixProofs`, for all names and hashes, every width of integers and length of
strings, and every set of lines:

* `GetAfterSet`: the map is a function from hashes to values. A tree is `Ranked`: the
  child of a node has a greater index than the node, because `ktree_add` appends. This
  is what induction over a tree (`TreeInduction`) and functions along its links
  (`TreeRecursion`) rest on: `ktree_search`, the descent of `ktree_add`, `InOrder` and
  `ktree_min_key` are shown to exist and to be the only ones that satisfy their
  equations. A `SearchTree` gives each node a *span*, the keys that may be below
  it. `DescentIsPlaced` says that the descent for a key that is not there ends at a
  free place whose span has it; `GraftSearch` that a search for another key goes the same
  way as before.
* `DeleteTakesOneKey`: `ktree_del` in the three cases of the code. A node with one child
  is taken out by turning the pointer to it (`OneChildGoes`); one with two children
  gets the key of its successor, the least below its right child (`LeastKey`), which
  goes instead (`SuccessorGoes`). The new spans are those of the old tree, cut at the
  successor's key.
* `TypeCorrect`, `NamesLive` and `CollectorIsComplete`: `[]TypeOK`, `[]NamesLeadToObjects` and
  `[]OnlyVariablesLive`, from `IInv`. Its core is `Linked`, in both directions: what a name
  leads to is alive with one reference and the name's hash, *and* each object with a
  reference is what its own name leads to. The second half is not a property of the run,
  but without it the collector could meet an object without references that a name
  still leads to. `IInv` adds that the entries of the array behind `left`, which the collector
  has passed by, all have a reference. It is not claimed of a panic, where the collector
  has not run.
* Room for two objects at each prompt (`AtPrompt`) follows from the invariant: every live
  object is a variable's, so there are no more of them than hashes.
* `TreeSorted`: `[]NamesAreSorted`, from `DeleteTakesOneKey` and `SearchTree(names)`.
* `ImplementsPromise`: `Spec => KeepsVariables`. A temporary changes no variable
  (`EnvKept`), an assignment one (`EnvNamed`), an operator in place the one whose object
  it writes to (`InPlace`): no two hashes lead to one object, because an object has one
  name. A line is therefore a step of `PyEnv` or a stutter, quitting and starting
  again is its `Restart`, and the collector is a stutter.

The named assumptions of the modules are the only other ones.

Only model-checked: all liveness (`tasks_liveness` and `CallsEnd` of `KList`), which is out
of the prover's reach; and the violations, whose counterexamples are runs.

## 7. Not modelled

* Boot, bootloader, PCI, ACPI, AHCI, NVMe, RTC, serial ports: run once or pure I/O.
* The aarch64 port: it has no preemption yet.
* File system and network: stubs.
* `efi/` (third-party headers) and `tux.png.h` (an image): more than nine tenths of
  the repository's lines. What is left is about 5,900 lines of C and 2,400 of Rust.
* Contents of memory, of registers and of names; wording of messages.
* Failure of `kmalloc` in `task_new`, which writes to address 0.
* Pixels and fonts; the set-up of the keyboard controller; CTRL+T; the serial line.
* `karray.c` but for the removal of an entry: its lock is the code of `klist_lock`, and
  its block belongs to the task that grew it as an element of a list does.
* `ktree_free`, and the value of a node that `ktree_del` leaves with another's key:
  nothing in the kernel deletes from a tree that has values.
* Of pythonix in C: the regular expressions, the input line, method calls with
  arguments, `parse.c` (not called). Pythonix in Rust: an evaluator without state.
* `regexp.c`: what it promises is written down nowhere, so there is no reference to
  check it against. The argument parser and the builtins of the shell.
* `async.h`: cooperative calls in one test program. `timer.c`: `timer_init` has no caller.
* Components planned in section 2 and not built yet; `PROJECT.json` marks them.
