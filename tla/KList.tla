--------------------------------- MODULE KList ---------------------------------
(***************************************************************************)
(* The list of kernel/src/kstd/klist.c, used as the shell's builtin        *)
(* testklist uses it: Main makes the list and pushes, other tasks push at  *)
(* the same time, Main waits until they have ended, prints the list and    *)
(* frees it.                                                               *)
(*                                                                         *)
(* The kernel is built without optimisation, and the timer may interrupt a *)
(* task anywhere: a step is one access to what the tasks share.  The       *)
(* strings that are pushed are left out.                                   *)
(***************************************************************************)
EXTENDS Integers, Sequences, SequencesExt, FiniteSets

CONSTANTS Main,
          Pushers,        \* the other tasks; testklist has one
          Nodes,          \* addresses of list elements
          MaxPushes,      \* pushes of each task
          NULL

ASSUME TasksAssumption == Main \notin Pushers /\ IsFiniteSet(Pushers)
ASSUME NodesAssumption == NULL \notin Nodes /\ IsFiniteSet(Nodes) /\ MaxPushes \in Nat

VARIABLES
  first, last,    \* k->first, k->last
  next, prev,     \* of each element; they stay when the element is freed
  lock,           \* k->lock
  owner,          \* the task an element is allocated to, or NULL
  pc,             \* what each task does next, see Places
  call,           \* the function it is in: push, print or free
  loaded,         \* the value of the lock it is to add 1 to, or subtract 1 from
  node,           \* to_push, or curr of klist_free
  todo,           \* pushes it may still make
  pushed,         \* the elements whose push is over and who pushed them, last first
  overlapped,     \* two tasks have tested the lock before either set it
  reused          \* memory of an element that is in the list was given out again

shared == <<first, last, next, prev>>
vars == <<shared, lock, owner, pc, call, loaded, node, todo, pushed, overlapped, reused>>

Tasks == Pushers \cup {Main}
Opt == Nodes \cup {NULL}
Calls == {"push", "print", "free"}
AtLock == {"load", "store"}           \* behind the test, the lock not set yet
Working == {"read", "initFirst", "linkFirst", "setLast", "init", "back", "link",
            "print", "check", "walk"}
AtUnlock == {"loadAgain", "storeAgain"}
Places == {"idle", "test", "asleep", "over", "gone", "wait", "done", "left"}
            \cup AtLock \cup Working \cup AtUnlock

\* klist_free has returned early, and kept the lock.
Kept == {"left"}
Inside(t) == pc[t] \in AtLock \cup Working \cup AtUnlock \cup Kept
Holds(t) == pc[t] \in Working \cup AtUnlock \cup Kept

-----------------------------------------------------------------------------
\* The elements that are reached from f: at most as many steps as there are
\* elements, and one more if they go round in a circle.
ChainOf(f, nx) ==
  LET nth[n \in 0 .. Cardinality(Nodes)] ==
        IF n = 0 THEN f ELSE IF nth[n - 1] = NULL THEN NULL ELSE nx[nth[n - 1]]
      length == Cardinality({n \in 0 .. Cardinality(Nodes) : nth[n] # NULL})
  IN  [i \in 1 .. length |-> nth[i - 1]]
Chain == ChainOf(first, next)

Init ==
  /\ first = NULL /\ last = NULL
  /\ next = [n \in Nodes |-> NULL] /\ prev = [n \in Nodes |-> NULL]
  /\ lock = 0
  /\ owner = [n \in Nodes |-> NULL]
  /\ pc = [t \in Tasks |-> "idle"]
  /\ call = [t \in Tasks |-> "push"]
  /\ loaded = [t \in Tasks |-> 0]
  /\ node = [t \in Tasks |-> NULL]
  /\ todo = [t \in Tasks |-> MaxPushes]
  /\ pushed = <<>>
  /\ overlapped = FALSE /\ reused = FALSE

\* What happens once the memory of an element was given out again is not modelled.
At(t, place) == ~reused /\ pc[t] = place
Goes(t, place) == pc' = [pc EXCEPT ![t] = place]
Begins(t, f) == Goes(t, "test") /\ call' = [call EXCEPT ![t] = f]

-----------------------------------------------------------------------------
(* klist_lock and klist_unlock. *)

\* Mutant: the test is forgotten.
Anyway == TRUE
Unlocked == lock = 0

Test(t) ==
  /\ At(t, "test") /\ Unlocked
  /\ Goes(t, "load")
  /\ overlapped' = (overlapped \/ \E s \in Tasks : pc[s] \in AtLock)
  /\ UNCHANGED <<shared, lock, owner, call, loaded, node, todo, pushed, reused>>

\* sleep_100, and the next test.
Sleep(t) ==
  /\ At(t, "test") /\ ~Unlocked
  /\ Goes(t, "asleep")
  /\ UNCHANGED <<shared, lock, owner, call, loaded, node, todo, pushed, overlapped, reused>>

Awake(t) ==
  /\ At(t, "asleep")
  /\ Goes(t, "test")
  /\ UNCHANGED <<shared, lock, owner, call, loaded, node, todo, pushed, overlapped, reused>>

Load(t, from, to) ==
  /\ At(t, from)
  /\ loaded' = [loaded EXCEPT ![t] = lock]
  /\ Goes(t, to)
  /\ UNCHANGED <<shared, lock, owner, call, node, todo, pushed, overlapped, reused>>

StoreLock(t) ==
  /\ At(t, "store")
  /\ lock' = loaded[t] + 1
  /\ Goes(t, CASE call[t] = "push"  -> "read"
               [] call[t] = "print" -> "print"
               [] call[t] = "free"  -> "check")
  /\ UNCHANGED <<shared, owner, call, loaded, node, todo, pushed, overlapped, reused>>

\* The end of each function.  Main frees the list after it has printed it.
StoreUnlock(t) ==
  /\ At(t, "storeAgain")
  /\ lock' = loaded[t] - 1
  /\ \/ /\ call[t] = "push"
        /\ Goes(t, "idle") /\ UNCHANGED call
        /\ pushed' = <<[node |-> node[t], by |-> t]>> \o pushed
     \/ call[t] = "print" /\ Begins(t, "free") /\ UNCHANGED pushed
     \/ call[t] = "free" /\ Goes(t, "done") /\ UNCHANGED <<call, pushed>>
  /\ UNCHANGED <<shared, owner, loaded, node, todo, overlapped, reused>>

-----------------------------------------------------------------------------
(* klist_push. *)

Unallocated == {n \in Nodes : owner[n] = NULL}
InChain(n) == n \in ToSet(Chain)

\* Mutant: the loop around klist_push runs once more.
ContinuesAtZero(t) == todo[t] >= 0
Continues(t) == todo[t] > 0

\* The string that is to be pushed is made first, and may take the memory of an
\* element that has been freed.
Push(t) ==
  /\ At(t, "idle") /\ Continues(t)
  /\ Begins(t, "push")
  /\ todo' = [todo EXCEPT ![t] = @ - 1]
  /\ reused' \in {FALSE, \E n \in Unallocated : InChain(n)}
  /\ UNCHANGED <<shared, lock, owner, loaded, node, pushed, overlapped>>

ReadFirst(t) ==
  /\ At(t, "read")
  /\ Goes(t, IF first = NULL THEN "initFirst" ELSE "init")
  /\ UNCHANGED <<shared, lock, owner, call, loaded, node, todo, pushed, overlapped, reused>>

\* kmalloc and the compound literal.  Nobody else knows the element yet, so that
\* the order of the two among the steps of other tasks makes no difference.
Initialise(t, from, to) ==
  /\ At(t, from)
  /\ Goes(t, to)
  /\ \E n \in Unallocated :
       /\ reused' = InChain(n)
       /\ next' = [next EXCEPT ![n] = IF from = "initFirst" THEN NULL ELSE first]
       /\ prev' = [prev EXCEPT ![n] = NULL]
       /\ owner' = [owner EXCEPT ![n] = t]
       /\ node' = [node EXCEPT ![t] = n]
  /\ UNCHANGED <<first, last, lock, call, loaded, todo, pushed, overlapped>>

\* k->first->prev = to_push
Back(t) ==
  /\ At(t, "back")
  /\ prev' = [prev EXCEPT ![first] = node[t]]
  /\ Goes(t, "link")
  /\ UNCHANGED <<first, last, next, lock, owner, call, loaded, node, todo, pushed,
                 overlapped, reused>>

\* k->first = to_push
\* Mutant: to_push->next is set from k->first after that.
LinkBeforeNext(t, from, to) ==
  /\ At(t, from)
  /\ first' = node[t]
  /\ next' = [next EXCEPT ![node[t]] = IF from = "link" THEN node[t] ELSE @]
  /\ Goes(t, to)
  /\ UNCHANGED <<last, prev, lock, owner, call, loaded, node, todo, pushed,
                 overlapped, reused>>
Link(t, from, to) ==
  /\ At(t, from)
  /\ first' = node[t]
  /\ Goes(t, to)
  /\ UNCHANGED <<last, next, prev, lock, owner, call, loaded, node, todo, pushed,
                 overlapped, reused>>

\* k->last = to_push
\* Mutant: the first push returns without giving the lock back.
SetLastAndReturn(t) ==
  /\ At(t, "setLast")
  /\ last' = node[t]
  /\ Goes(t, "idle")
  /\ UNCHANGED <<first, next, prev, lock, owner, call, loaded, node, todo, pushed,
                 overlapped, reused>>
SetLast(t) ==
  /\ At(t, "setLast")
  /\ last' = node[t]
  /\ Goes(t, "loadAgain")
  /\ UNCHANGED <<first, next, prev, lock, owner, call, loaded, node, todo, pushed,
                 overlapped, reused>>

-----------------------------------------------------------------------------
(* The tasks around it. *)

\* A task stops pushing: its function returns, or Main goes on to wait.
Stop(t) ==
  /\ At(t, "idle")
  /\ Goes(t, IF t = Main THEN "wait" ELSE "over")
  /\ UNCHANGED <<shared, lock, owner, call, loaded, node, todo, pushed, overlapped, reused>>

\* The scheduler frees a task that is over, and all that is allocated to it.
\* Mutant: its memory stays.
KeepsAll(t) == UNCHANGED owner
FreesAll(t) == owner' = [n \in Nodes |-> IF owner[n] = t THEN NULL ELSE owner[n]]

Reap(t) ==
  /\ At(t, "over")
  /\ FreesAll(t)
  /\ Goes(t, "gone")
  /\ UNCHANGED <<shared, lock, call, loaded, node, todo, pushed, overlapped, reused>>

\* Main goes on.  An empty list is not printed.
WaitIsOver ==
  /\ At(Main, "wait") /\ \A t \in Pushers : pc[t] = "gone"
  /\ Begins(Main, IF NULL \in {first, last} THEN "free" ELSE "print")
  /\ UNCHANGED <<shared, lock, owner, loaded, node, todo, pushed, overlapped, reused>>

-----------------------------------------------------------------------------
(* klist_debug_print and klist_free. *)

Ends == Len(Chain) <= Cardinality(Nodes)

\* A list with a cycle is printed for ever.
DebugPrint ==
  /\ At(Main, "print") /\ Ends
  /\ Goes(Main, "loadAgain")
  /\ UNCHANGED <<shared, lock, owner, call, loaded, node, todo, pushed, overlapped, reused>>

Check ==
  /\ At(Main, "check")
  /\ Goes(Main, IF NULL \in {first, last} THEN "left" ELSE "walk")
  /\ node' = [node EXCEPT ![Main] = first]
  /\ UNCHANGED <<shared, lock, owner, call, loaded, todo, pushed, overlapped, reused>>

\* The next element is known before this one is freed; kfree does nothing about
\* what is not allocated to the task.
\* Mutant: the loop stops at k->last instead of behind it.
StopsAtLast(n) == n = last
IsEnd(n) == n = NULL

Walk ==
  /\ At(Main, "walk")
  /\ LET n == node[Main]
     IN  IF IsEnd(n) THEN Goes(Main, "loadAgain") /\ UNCHANGED <<owner, node>>
         ELSE /\ owner' = [owner EXCEPT ![n] = IF @ = Main THEN NULL ELSE @]
              /\ node' = [node EXCEPT ![Main] = next[n]]
              /\ UNCHANGED pc
  /\ UNCHANGED <<shared, lock, call, loaded, todo, pushed, overlapped, reused>>

Runs(t) ==
  \/ Test(t) \/ Sleep(t) \/ Load(t, "load", "store") \/ StoreLock(t)
  \/ Load(t, "loadAgain", "storeAgain") \/ StoreUnlock(t)
  \/ Push(t) \/ ReadFirst(t)
  \/ Initialise(t, "initFirst", "linkFirst") \/ Link(t, "linkFirst", "setLast") \/ SetLast(t)
  \/ Initialise(t, "init", "back") \/ Back(t) \/ Link(t, "link", "loadAgain")
  \/ Stop(t) \/ (t \in Pushers /\ Reap(t))

Step(t) == Runs(t) \/ Awake(t)
MainRuns == Runs(Main) \/ DebugPrint \/ Check \/ Walk
MainStep == Step(Main) \/ WaitIsOver \/ DebugPrint \/ Check \/ Walk

Next == MainStep \/ \E t \in Pushers : Step(t)

Spec == Init /\ [][Next]_vars

\* The scheduler gives every task its turn that runs.  One that sleeps has a time
\* slice of 0 and only gets a turn if the task before it in the scheduler's list
\* has used up its own: behind the shell, which is paused, Main may sleep for
\* ever; a pusher has Main or another pusher before it.  WaitIsOver is not fair
\* either, because the wake-up may be lost (see Tasks).
FairSpec == Spec /\ WF_vars(MainRuns) /\ \A t \in Pushers : WF_vars(Step(t))

-----------------------------------------------------------------------------
TypeOK ==
  /\ {first, last} \subseteq Opt /\ {next, prev} \subseteq [Nodes -> Opt]
  /\ lock \in Int /\ loaded \in [Tasks -> Int]
  /\ owner \in [Nodes -> Tasks \cup {NULL}] /\ node \in [Tasks -> Opt]
  /\ pc \in [Tasks -> Places] /\ call \in [Tasks -> Calls]
  /\ todo \in [Tasks -> 0 .. MaxPushes] /\ pushed \in Seq([node : Nodes, by : Tasks])
  /\ overlapped \in BOOLEAN /\ reused \in BOOLEAN

\* The one way into a locked list is the window of klist_lock: until two tasks
\* have tested the lock before either set it, at most one is inside, and the lock
\* is 1 exactly while it is behind its store.
LockKeepsOut ==
  ~overlapped => /\ \A s, t \in Tasks : Inside(s) /\ Inside(t) => s = t
                 /\ lock = IF \E t \in Tasks : Holds(t) THEN 1 ELSE 0

\* Where no element is being linked, the list has exactly the elements whose push
\* is over, the last one first, and prev and last mirror it: no push is lost and
\* none is there twice.
Quiet == \A t \in Tasks : ~Inside(t)
ListIsWhole ==
  ~overlapped /\ ~reused /\ Quiet =>
    LET nodes == [i \in DOMAIN pushed |-> pushed[i].node]
    IN  /\ Chain = nodes
        /\ \A i \in DOMAIN nodes : prev[nodes[i]] = IF i = 1 THEN NULL ELSE nodes[i - 1]
        /\ last = IF nodes = <<>> THEN NULL ELSE Last(nodes)

\* The list never has a cycle, even if tasks overlapped and elements were lost:
\* printing and freeing come to an end.
ChainEnds == ~reused => Ends

\* Until klist_free, an element is allocated exactly as long as the task that
\* pushed it: what the other tasks have pushed is freed under the list when they
\* are over, and klist_debug_print and klist_free then read freed memory.
ElementsGoWithTheirTask ==
  ~overlapped /\ ~reused /\ call[Main] # "free" =>
    \A i \in DOMAIN pushed :
      owner[pushed[i].node] = IF pc[pushed[i].by] = "gone" THEN NULL ELSE pushed[i].by

\* When testklist is through, no element is left, and the lock is free unless the
\* list was empty.
AllFreed ==
  pc[Main] \in {"done", "left"} /\ ~overlapped /\ ~reused =>
    /\ Unallocated = Nodes
    /\ lock = IF pushed = <<>> THEN 1 ELSE 0

\* An element that is in the list stays in it, behind those pushed later.
OnlyPrepends ==
  [][~overlapped' /\ ~reused' => IsSuffix(Chain, Chain')]_vars

\* Every call of klist_push by the tasks beside Main comes to its end, and once
\* they are gone and Main knows, printing and freeing do: the lock is never kept,
\* whoever sleeps for it.  Not so if tasks overlapped (the lock may then stay taken
\* for ever) or an element's memory was given out again.
Out(t) == pc[t] \in {"idle", "over", "gone", "done", "left"}
CallsEnd ==
  <>[](\/ (\A t \in Pushers : Out(t)) /\ (call[Main] # "push" => Out(Main))
       \/ overlapped \/ reused)
=============================================================================
