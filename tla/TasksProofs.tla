----------------------------- MODULE TasksProofs -----------------------------
(***************************************************************************)
(* What holds of the scheduler and the shell for every number of task      *)
(* structures, with waiting and sleeping programs, CTRL+C and the nested   *)
(* timer or without them.                                                  *)
(***************************************************************************)
EXTENDS Tasks, NatRecursion, FiniteSetTheorems, TLAPS

(***************************************************************************)
(* The inductive invariant.  Linked is ListIsLinked without the walk: each *)
(* link has its counterpart, the ends are the only tasks without one, and  *)
(* some numbering of the structures increases along next, so that the list *)
(* has no cycle and the walk meets every task.                             *)
(***************************************************************************)
Matched ==
  /\ \A a \in live : IF task[a].next = Null THEN a = last
                     ELSE task[a].next \in live /\ task[task[a].next].prev = a
  /\ \A a \in live : IF task[a].prev = Null THEN a = first
                     ELSE task[a].prev \in live /\ task[task[a].prev].next = a

Rises(r) == \A a \in live : task[a].next # Null => r[a] < r[task[a].next]

Linked ==
  /\ first \in live /\ task[first].prev = Null
  /\ last \in live /\ task[last].next = Null
  /\ Matched
  /\ \E r \in [Addr -> Nat] : Rises(r)

\* A freed structure still says between which tasks it was, so that unlinking it
\* again, or reading its next, leads back to the list.
Stale(t) ==
  /\ t \in Addr \ live /\ task[t].status = "ended"
  /\ IF task[t].next = Null THEN task[t].prev = last
     ELSE task[t].next \in live /\ task[task[t].next].prev = task[t].prev
  /\ IF task[t].prev = Null THEN task[t].next = first
     ELSE task[t].prev \in live /\ task[task[t].prev].next = task[t].next

\* The task about to be freed: nobody is left who waits for it.
Deserted(t) == \A a \in live : task[a].waiting_on = t => task[a].status # "paused"

SchedulerInv ==
  /\ cpu = "task" =>
       /\ current \in live
       /\ task[current].status = "paused" => pc[current] = "int"
  /\ cpu = "loop" => current \in live \cup {Null} \/ Stale(current)
  /\ cpu = "free" =>
       /\ freeing \in live \/ Stale(freeing)
       /\ task[freeing].status = "ended"
       /\ Deserted(freeing)
  /\ cpu \in {"unlinked", "restored"} => Stale(freeing)
  /\ cpu \in {"free", "unlinked"} => current = Null
  /\ cpu = "restored" => current = freeing

Waits == {"pause", "int", "woken"}

\* Programs wait for the task they created, and never for themselves.
ProgramsInv ==
  \A t \in Addr : /\ pc[t] \in Waits \cup {"assign", "wait"} => child[t] \in Addr
                  /\ pc[t] \in Waits => task[t].waiting_on = child[t]
                  /\ child[t] # t /\ task[t].waiting_on # t

\* The command has ended, unless it may have been revived.
Over(c) == c \notin live \/ task[c].status = "ended" \/ task[c].waiting_on # Null

ShellInv ==
  /\ Shell \in live /\ task[Shell].status # "ended"
  /\ subproc # Null => subproc = child[Shell] /\ pc[Shell] \in Waits \cup {"wait"}
  /\ pc[Shell] \in {"int", "woken"} /\ task[Shell].status # "paused"
       => Over(child[Shell])

TasksInv ==
  /\ TypeOK
  /\ cpu # "panic" => Linked /\ SchedulerInv
  /\ ProgramsInv
  /\ ShellInv
-----------------------------------------------------------------------------
(***************************************************************************)
(* The walk from task_first meets exactly the tasks of a linked list.      *)
(***************************************************************************)
LEMMA CountType == Cardinality(Addr) \in Nat
BY AddressAssumption, FS_CardinalityType

\* The walk steps from Null to Null and from a task to its next.
LEMMA WalkSteps ==
  ASSUME TypeOK
  PROVE  \E nth \in [0 .. Cardinality(Addr) -> Opt] :
           /\ nth[0] = first
           /\ \A n \in 0 .. Cardinality(Addr) - 1 :
                nth[n + 1] = IF nth[n] = Null THEN Null ELSE task[nth[n]].next
           /\ Walk = {nth[n] : n \in 0 .. Cardinality(Addr)} \ {Null}
<1> DEFINE N == Cardinality(Addr)
           step == [x \in Opt |-> IF x = Null THEN Null ELSE task[x].next]
           nth[n \in 0 .. N] ==
             IF n = 0 THEN first
             ELSE IF nth[n - 1] = Null THEN Null ELSE task[nth[n - 1]].next
           Step(f) == [n \in 0 .. N |-> IF n = 0 THEN first
                          ELSE IF f[n - 1] = Null THEN Null ELSE task[f[n - 1]].next]
<1>1. N \in Nat
  BY CountType
<1>2. step \in [Opt -> Opt] /\ first \in Opt
  BY DEF TypeOK, Opt, Task
<1>3. PICK f : Iterates(f, N, Opt, first, step)
  <2> HIDE DEF step, N
  <2> QED
    BY <1>1, <1>2, IterationExists
<1>4. f = Step(f)
  <2>0. f = [n \in 0 .. N |-> f[n]]
    BY <1>3 DEF Iterates
  <2> SUFFICES ASSUME NEW n \in 0 .. N
               PROVE  f[n] = IF n = 0 THEN first
                             ELSE IF f[n - 1] = Null THEN Null ELSE task[f[n - 1]].next
    BY <2>0
  <2>1. CASE n = 0
    BY <1>3, <2>1 DEF Iterates
  <2>2. CASE n # 0
    <3>1. n - 1 \in 0 .. N - 1 /\ (n - 1) + 1 = n /\ n - 1 \in 0 .. N
      BY <1>1, <2>2
    <3>2. f[n] = step[f[n - 1]] /\ f[n - 1] \in Opt
      BY <1>3, <3>1 DEF Iterates
    <3> QED
      BY <2>2, <3>2
  <2> QED
    BY <2>1, <2>2
<1>5. nth = Step(nth)
  <2>1. nth = CHOOSE g : g = Step(g)
    OBVIOUS
  <2> QED
    BY <1>4, <2>1
<1>6. Walk = {nth[n] : n \in 0 .. N} \ {Null}
  BY <1>5 DEF Walk
<1> HIDE DEF nth
<1>7. /\ nth[0] = first
      /\ \A n \in 0 .. N - 1 : nth[n + 1] = IF nth[n] = Null THEN Null ELSE task[nth[n]].next
  BY <1>1, <1>5
<1>8. \A n \in 0 .. N : nth[n] \in Opt
  <2> DEFINE S == {n \in 0 .. N : nth[n] \in Opt}
  <2>1. 0 \in S
    BY <1>1, <1>2, <1>7
  <2>2. ASSUME NEW n \in 0 .. N - 1, n \in S PROVE n + 1 \in S
    <3>1. n + 1 \in 0 .. N
      BY <1>1
    <3> QED
      BY <1>7, <2>2, <3>1 DEF TypeOK, Opt, Task
  <2> HIDE DEF S
  <2>3. 0 .. N \subseteq S
    BY <1>1, <2>1, <2>2, BoundedInduction
  <2> QED
    BY <2>3 DEF S
<1>9. nth \in [0 .. N -> Opt]
  <2>1. nth = [n \in 0 .. N |-> nth[n]]
    BY <1>5
  <2> QED
    BY <1>8, <2>1
<1> QED
  BY <1>6, <1>7, <1>9

\* A walk that has not ended has met a different task at each step, and there are
\* not so many.
LEMMA WalkEnds ==
  ASSUME TypeOK, Linked,
         NEW nth \in [0 .. Cardinality(Addr) -> live \cup {Null}],
         \A n \in 0 .. Cardinality(Addr) - 1 :
           nth[n + 1] = IF nth[n] = Null THEN Null ELSE task[nth[n]].next
  PROVE  nth[Cardinality(Addr)] = Null
<1> DEFINE N == Cardinality(Addr)
<1>0. N \in Nat /\ Null \notin Addr /\ live \subseteq Addr
  BY CountType, AddressAssumption DEF TypeOK
<1> HIDE DEF N
<1>s. /\ nth \in [0 .. N -> live \cup {Null}]
      /\ \A n \in 0 .. N - 1 : nth[n + 1] = IF nth[n] = Null THEN Null ELSE task[nth[n]].next
  BY DEF N
<1> SUFFICES ASSUME nth[N] # Null PROVE FALSE
  BY DEF N
<1>1. PICK r \in [Addr -> Nat] : Rises(r)
  BY DEF Linked
<1>2. \A n \in 0 .. N : nth[n] # Null
  <2> DEFINE S == {m \in 0 .. N : nth[N - m] # Null}
  <2>1. 0 \in S
    BY <1>0
  <2>2. ASSUME NEW m \in 0 .. N - 1, m \in S PROVE m + 1 \in S
    <3>1. N - (m + 1) \in 0 .. N - 1 /\ (N - (m + 1)) + 1 = N - m /\ m + 1 \in 0 .. N
      BY <1>0
    <3> QED
      BY <1>s, <2>2, <3>1
  <2> HIDE DEF S
  <2>3. 0 .. N \subseteq S
    BY <1>0, <2>1, <2>2, BoundedInduction
  <2> SUFFICES ASSUME NEW n \in 0 .. N PROVE nth[n] # Null
    OBVIOUS
  <2>4. N - n \in 0 .. N /\ N - (N - n) = n
    BY <1>0
  <2>5. N - n \in S
    BY <2>3, <2>4
  <2> QED
    BY <2>4, <2>5 DEF S
<1>3. \A n \in 0 .. N : nth[n] \in Addr /\ nth[n] \in live /\ r[nth[n]] \in Nat
  BY <1>0, <1>s, <1>2
<1>4. \A n \in 0 .. N - 1 : r[nth[n]] < r[nth[n + 1]]
  <2> SUFFICES ASSUME NEW n \in 0 .. N - 1 PROVE r[nth[n]] < r[nth[n + 1]]
    OBVIOUS
  <2>1. n \in 0 .. N /\ n + 1 \in 0 .. N
    BY <1>0
  <2>2. nth[n + 1] = task[nth[n]].next /\ nth[n + 1] # Null
    BY <1>s, <1>2, <2>1
  <2> QED
    BY <1>1, <1>3, <2>1, <2>2 DEF Rises
<1>5. \A m, n \in 0 .. N : m < n => r[nth[m]] < r[nth[n]]
  <2> DEFINE S == {n \in 0 .. N : \A m \in 0 .. N : m < n => r[nth[m]] < r[nth[n]]}
  <2>1. 0 \in S
    BY <1>0
  <2>2. ASSUME NEW n \in 0 .. N - 1, n \in S PROVE n + 1 \in S
    <3>1. n \in 0 .. N /\ n + 1 \in 0 .. N
      BY <1>0
    <3>2. ASSUME NEW m \in 0 .. N, m < n + 1 PROVE r[nth[m]] < r[nth[n + 1]]
      <4>1. m = n \/ m < n
        BY <3>2
      <4>2. m < n => r[nth[m]] < r[nth[n]]
        BY <2>2
      <4>3. r[nth[m]] \in Nat /\ r[nth[n]] \in Nat /\ r[nth[n + 1]] \in Nat
        BY <1>3, <3>1
      <4> HIDE DEF S
      <4> QED
        BY <1>4, <4>1, <4>2, <4>3
    <3> QED
      BY <3>1, <3>2
  <2> HIDE DEF S
  <2>3. 0 .. N \subseteq S
    BY <1>0, <2>1, <2>2, BoundedInduction
  <2> QED
    BY <2>3 DEF S
<1>6. \A m, n \in 0 .. N : m # n => nth[m] # nth[n]
  <2> SUFFICES ASSUME NEW m \in 0 .. N, NEW n \in 0 .. N, m < n PROVE nth[m] # nth[n]
    OBVIOUS
  <2> QED
    BY <1>3, <1>5
<1>7. nth \in [0 .. N -> Addr]
  BY <1>3, <1>s
<1> QED
  <2>1. IsFiniteSet(Addr) /\ Cardinality(Addr) = N
    BY AddressAssumption DEF N
  <2> QED
    BY <1>0, <1>6, <1>7, <2>1, PigeonHole

LEMMA WalkIsLive ==
  ASSUME TypeOK, Linked
  PROVE  Walk = live
<1> DEFINE N == Cardinality(Addr)
<1>0. N \in Nat /\ Null \notin Addr /\ live \subseteq Addr
  BY CountType, AddressAssumption DEF TypeOK
<1>1. PICK nth \in [0 .. N -> Opt] :
           /\ nth[0] = first
           /\ \A n \in 0 .. N - 1 :
                nth[n + 1] = IF nth[n] = Null THEN Null ELSE task[nth[n]].next
           /\ Walk = {nth[n] : n \in 0 .. N} \ {Null}
  BY WalkSteps
<1>2. \A n \in 0 .. N : nth[n] \in live \cup {Null}
  <2> DEFINE S == {n \in 0 .. N : nth[n] \in live \cup {Null}}
  <2> HIDE DEF N
  <2>1. 0 \in S
    BY <1>0, <1>1 DEF Linked
  <2>2. ASSUME NEW n \in 0 .. N - 1, n \in S PROVE n + 1 \in S
    <3>1. n \in 0 .. N /\ n + 1 \in 0 .. N
      BY <1>0
    <3>2. nth[n] \in live => task[nth[n]].next \in live \cup {Null}
      BY DEF Linked, Matched
    <3> QED
      BY <1>1, <2>2, <3>1, <3>2
  <2> HIDE DEF S
  <2>3. 0 .. N \subseteq S
    BY <1>0, <2>1, <2>2, BoundedInduction
  <2> QED
    BY <2>3 DEF S
<1>3. nth[N] = Null
  <2>1. nth \in [0 .. N -> live \cup {Null}]
    BY <1>2
  <2> QED
    BY <1>1, <2>1, WalkEnds
<1> HIDE DEF N
<1>4. Walk \subseteq live
  BY <1>1, <1>2
<1>5. ASSUME NEW a \in live, a \notin Walk PROVE FALSE
  <2>1. PICK r \in [Addr -> Nat] : Rises(r)
    BY DEF Linked
  <2> DEFINE R == {r[b] : b \in live \ Walk}
  <2>2. R \subseteq Nat /\ R # {}
    BY <1>0, <1>5
  <2>3. PICK m \in R : \A y \in R : m <= y
    BY <2>2, LeastExists
  <2>4. PICK b \in live \ Walk : m = r[b]
    OBVIOUS
  <2>5. first \in Walk
    <3>1. nth[0] \in Walk
      BY <1>0, <1>1 DEF Linked
    <3> QED
      BY <1>1, <3>1
  <2>6. task[b].prev \in live /\ task[task[b].prev].next = b
    BY <2>4, <2>5 DEF Linked, Matched
  <2> DEFINE p == task[b].prev
  <2>7. r[p] < r[b] /\ r[p] \in Nat /\ r[b] \in Nat
    BY <1>0, <2>1, <2>6 DEF Rises
  <2>8. p \in Walk
    <3> SUFFICES ASSUME p \notin Walk PROVE FALSE
      OBVIOUS
    <3>1. r[p] \in R
      BY <2>6
    <3>2. r[b] <= r[p]
      BY <2>3, <2>4, <3>1
    <3> HIDE DEF p
    <3> QED
      BY <2>7, <3>2
  <2>9. PICK k \in 0 .. N : p = nth[k] /\ p # Null
    BY <1>1, <2>8
  <2>10. k \in 0 .. N - 1 /\ k + 1 \in 0 .. N
    BY <1>0, <1>3, <2>9
  <2>11. nth[k + 1] = b /\ b # Null
    BY <1>0, <1>1, <2>6, <2>9, <2>10
  <2>12. b \in {nth[n] : n \in 0 .. N} \ {Null}
    BY <2>10, <2>11
  <2>13. b \in Walk
    BY <1>1, <2>12
  <2> QED
    BY <2>4, <2>13
<1> QED
  BY <1>4, <1>5

LEMMA LinkedImpliesList == TypeOK /\ (cpu # "panic" => Linked) => ListIsLinked
BY WalkIsLive DEF Linked, Matched, ListIsLinked

-----------------------------------------------------------------------------
LEMMA InitInv == Init => TasksInv
<1> SUFFICES ASSUME Init PROVE TasksInv
  OBVIOUS
<1> USE AddressAssumption DEF Init
<1>1. TypeOK
  BY DEF TypeOK, Opt, Task, Unused, Stages, FreeStages, Places
<1>2. Linked
  <2>1. [a \in Addr |-> 0] \in [Addr -> Nat] /\ Rises([a \in Addr |-> 0])
    BY DEF Rises, Unused
  <2> QED
    BY <2>1 DEF Linked, Matched, Unused
<1>3. SchedulerInv
  BY DEF SchedulerInv, FreeStages
<1>4. ProgramsInv /\ ShellInv
  BY DEF ProgramsInv, ShellInv, Waits, Unused
<1> QED
  BY <1>1, <1>2, <1>3, <1>4 DEF TasksInv

(***************************************************************************)
(* Steps that leave the links alone.                                       *)
(***************************************************************************)
LinksKept ==
  /\ UNCHANGED <<live, first, last>>
  /\ \A a \in Addr : task'[a].next = task[a].next /\ task'[a].prev = task[a].prev

LEMMA LinkedKept ==
  ASSUME TypeOK, Linked, LinksKept
  PROVE  Linked'
<1> USE DEF LinksKept
<1>0. live \subseteq Addr /\ first \in live /\ last \in live
  BY DEF TypeOK, Linked
<1>1. PICK r \in [Addr -> Nat] : Rises(r)
  BY DEF Linked
<1>2. Rises(r)'
  BY <1>0, <1>1 DEF Rises
<1>3. Matched'
  BY <1>0 DEF Linked, Matched
<1>4. \E q \in [Addr -> Nat] : Rises(q)'
  BY <1>2
<1>5. task[first].prev = Null /\ task[last].next = Null
  BY DEF Linked
<1> QED
  BY <1>0, <1>3, <1>4, <1>5 DEF Linked

LEMMA StaleKept ==
  ASSUME TypeOK, LinksKept
  PROVE  \A t \in Addr : Stale(t) /\ task'[t].status = "ended" => Stale(t)'
BY DEF Stale, LinksKept, TypeOK

-----------------------------------------------------------------------------
(***************************************************************************)
(* The statements of the current task.                                     *)
(***************************************************************************)
\* A task that runs is in the list, which is linked.
LEMMA RunningFacts ==
  ASSUME TasksInv, NEW t, Running(t)
  PROVE  /\ TypeOK /\ Linked /\ SchedulerInv /\ ProgramsInv /\ ShellInv
         /\ cpu = "task" /\ current = t /\ t \in live /\ t \in Addr /\ t # Null
         /\ task[t] \in Task
         /\ task[t].status = "paused" => pc[t] = "int"
BY AddressAssumption DEF TasksInv, Running, SchedulerInv, TypeOK

LEMMA EndWaitInv == ASSUME TasksInv, NEW t, EndWait(t) PROVE TasksInv'
<1> USE DEF EndWait, At, GoTo
<1>1. Running(t) /\ pc[t] = "wait"
  OBVIOUS
<1>2. child[t] \in Addr /\ child[t] # t
  BY <1>1, RunningFacts DEF ProgramsInv, Waits
<1>3. TypeOK'
  BY <1>1, <1>2, RunningFacts DEF TypeOK, Task, Opt, Places, sched
<1>4. LinksKept
  BY <1>1, RunningFacts DEF LinksKept, TypeOK
<1>5. Linked'
  BY <1>1, <1>4, RunningFacts, LinkedKept
<1>6. SchedulerInv'
  BY <1>1, RunningFacts DEF SchedulerInv, sched, TypeOK
<1>7. ProgramsInv'
  BY <1>1, <1>2, RunningFacts DEF ProgramsInv, Waits, TypeOK
<1>8. ShellInv'
  BY <1>1, <1>2, RunningFacts, AddressAssumption DEF ShellInv, Waits, Over, TypeOK, ProgramsInv
<1> QED
  BY <1>3, <1>5, <1>6, <1>7, <1>8 DEF TasksInv

LEMMA PauseInv == ASSUME TasksInv, NEW t, Pause(t) PROVE TasksInv'
<1> USE DEF Pause, At, GoTo
<1>1. Running(t) /\ pc[t] = "pause"
  OBVIOUS
<1>2. child[t] \in Addr /\ child[t] # t /\ task[t].waiting_on = child[t]
  BY <1>1, RunningFacts DEF ProgramsInv, Waits
<1>3. TypeOK'
  BY <1>1, <1>2, RunningFacts DEF TypeOK, Task, Opt, Places, sched
<1>4. LinksKept
  BY <1>1, RunningFacts DEF LinksKept, TypeOK
<1>5. Linked'
  BY <1>1, <1>4, RunningFacts, LinkedKept
<1>6. SchedulerInv'
  BY <1>1, RunningFacts DEF SchedulerInv, sched, TypeOK
<1>7. ProgramsInv'
  BY <1>1, <1>2, RunningFacts DEF ProgramsInv, Waits, TypeOK
<1>8. ShellInv'
  BY <1>1, <1>2, RunningFacts, AddressAssumption DEF ShellInv, Waits, Over, TypeOK, ProgramsInv
<1> QED
  BY <1>3, <1>5, <1>6, <1>7, <1>8 DEF TasksInv

LEMMA InterruptInv == ASSUME TasksInv, NEW t, Interrupt(t) PROVE TasksInv'
<1> USE DEF Interrupt, At, GoTo
<1>1. Running(t) /\ pc[t] = "int"
  OBVIOUS
<1>2. TypeOK'
  BY <1>1, RunningFacts DEF TypeOK, Places, Stages, list
<1>3. LinksKept
  BY <1>1, RunningFacts DEF LinksKept, list
<1>4. Linked'
  BY <1>1, <1>3, RunningFacts, LinkedKept
<1>5. SchedulerInv'
  BY <1>1, RunningFacts DEF SchedulerInv, list
<1>6. ProgramsInv' /\ ShellInv'
  BY <1>1, RunningFacts DEF ProgramsInv, ShellInv, Waits, Over, TypeOK, list
<1> QED
  BY <1>2, <1>4, <1>5, <1>6 DEF TasksInv

LEMMA ResumeInv == ASSUME TasksInv, NEW t, Resume(t) PROVE TasksInv'
<1> USE DEF Resume, At, GoTo, list, sched
<1>1. Running(t) /\ pc[t] = "woken"
  OBVIOUS
<1>2. TypeOK'
  BY <1>1, RunningFacts DEF TypeOK, Places, Opt, ClearedSubproc
<1>3. LinksKept
  BY <1>1, RunningFacts DEF LinksKept
<1>4. Linked'
  BY <1>1, <1>3, RunningFacts, LinkedKept
<1>5. SchedulerInv'
  BY <1>1, RunningFacts DEF SchedulerInv, TypeOK
<1>6. ProgramsInv'
  BY <1>1, RunningFacts DEF ProgramsInv, Waits, TypeOK
<1>7. ShellInv'
  BY <1>1, RunningFacts DEF ShellInv, Waits, Over, TypeOK, ClearedSubproc
<1> QED
  BY <1>2, <1>4, <1>5, <1>6, <1>7 DEF TasksInv

LEMMA AssignInv == ASSUME TasksInv, Assign PROVE TasksInv'
<1> USE DEF Assign, At, GoTo, list, sched
<1>1. Running(Shell) /\ pc[Shell] = "assign"
  OBVIOUS
<1>2. child[Shell] \in Addr
  BY <1>1, RunningFacts DEF ProgramsInv
<1>3. TypeOK'
  BY <1>1, <1>2, RunningFacts DEF TypeOK, Places, Opt
<1>4. LinksKept
  BY <1>1, RunningFacts DEF LinksKept
<1>5. Linked'
  BY <1>1, <1>4, RunningFacts, LinkedKept
<1>6. SchedulerInv'
  BY <1>1, RunningFacts DEF SchedulerInv, TypeOK
<1>7. ProgramsInv' /\ ShellInv'
  BY <1>1, <1>2, RunningFacts DEF ProgramsInv, ShellInv, Waits, TypeOK
<1> QED
  BY <1>3, <1>5, <1>6, <1>7 DEF TasksInv

LEMMA SleepInv == ASSUME TasksInv, NEW t, Sleep(t) \/ Awake(t) PROVE TasksInv'
<1>1. Running(t) /\ pc[t] \in {"run", "sleep"}
  BY DEF Sleep, Awake, At
<1>2. PICK s \in {"normal", "sleep"}, p \in {"run", "sleep"} :
        /\ task' = [task EXCEPT ![t].slice = s]
        /\ pc' = [pc EXCEPT ![t] = p]
        /\ UNCHANGED <<live, first, last, sched, child, subproc>>
  BY DEF Sleep, Awake, GoTo
<1> USE DEF sched
<1>3. TypeOK'
  BY <1>1, <1>2, RunningFacts DEF TypeOK, Task, Places
<1>4. LinksKept
  BY <1>1, <1>2, RunningFacts DEF LinksKept, TypeOK
<1>5. Linked'
  BY <1>1, <1>4, RunningFacts, LinkedKept
<1>6. SchedulerInv'
  BY <1>1, <1>2, RunningFacts DEF SchedulerInv, TypeOK
<1>7. ProgramsInv'
  BY <1>1, <1>2, RunningFacts DEF ProgramsInv, Waits, TypeOK
<1>8. ShellInv'
  BY <1>1, <1>2, RunningFacts DEF ShellInv, Waits, Over, TypeOK
<1> QED
  BY <1>3, <1>5, <1>6, <1>7, <1>8 DEF TasksInv

LEMMA ReturnInv == ASSUME TasksInv, NEW t, Return(t) PROVE TasksInv'
<1> USE DEF Return, At, GoTo, sched
<1>1. Running(t) /\ pc[t] = "run" /\ t # Shell
  OBVIOUS
<1>2. TypeOK'
  BY <1>1, RunningFacts DEF TypeOK, Task, Places
<1>3. LinksKept
  BY <1>1, RunningFacts DEF LinksKept, TypeOK
<1>4. Linked'
  BY <1>1, <1>3, RunningFacts, LinkedKept
<1>5. SchedulerInv'
  BY <1>1, RunningFacts DEF SchedulerInv, TypeOK
<1>6. ProgramsInv'
  BY <1>1, RunningFacts DEF ProgramsInv, Waits, TypeOK
<1>7. ShellInv'
  BY <1>1, RunningFacts, AddressAssumption DEF ShellInv, Waits, Over, TypeOK
<1> QED
  BY <1>2, <1>4, <1>5, <1>6, <1>7 DEF TasksInv

-----------------------------------------------------------------------------
(***************************************************************************)
(* task_new.  The new structure may be one that was freed; nothing in the  *)
(* list or in the scheduler points to it, since a task runs.               *)
(***************************************************************************)
LEMMA AppendLinked ==
  ASSUME TypeOK, Linked, NEW t, NEW a \in Addr, NEW next, TaskNew(t, a, next)
  PROVE  Linked'
<1> USE AddressAssumption DEF TaskNew
<1>0. /\ live \subseteq Addr /\ first \in live /\ last \in live /\ a \notin live
      /\ task[first].prev = Null /\ task[last].next = Null
      /\ first # Null /\ last # Null
  BY DEF TypeOK, Linked
<1>1. /\ live' = live \cup {a} /\ first' = first /\ last' = a
      /\ task'[a].next = Null /\ task'[a].prev = last
      /\ task'[last].next = a /\ task'[last].prev = task[last].prev
      /\ \A b \in live : b # last => task'[b] = task[b]
  <2>1. live' = live \cup {a} /\ first' = first /\ last' = a
    BY <1>0
  <2>2. task'[a] = NewTask /\ NewTask.next = Null /\ NewTask.prev = last
    BY DEF NewTask, Unused
  <2>3. task'[last] = [task[last] EXCEPT !.next = a] /\ task[last] \in Task
    BY <1>0 DEF TypeOK
  <2>4. task'[last].next = a /\ task'[last].prev = task[last].prev
    BY <2>3 DEF Task
  <2>5. \A b \in live : b # last => task'[b] = task[b]
    BY <1>0
  <2> QED
    BY <2>1, <2>2, <2>4, <2>5
<1>2. /\ \A b \in live : IF task[b].next = Null THEN b = last
                         ELSE task[b].next \in live /\ task[task[b].next].prev = b
      /\ \A b \in live : IF task[b].prev = Null THEN b = first
                         ELSE task[b].prev \in live /\ task[task[b].prev].next = b
  BY DEF Linked, Matched
<1> HIDE DEF TaskNew
<1>3. \A b \in live' : IF task'[b].next = Null THEN b = last'
                       ELSE task'[b].next \in live' /\ task'[task'[b].next].prev = b
  <2> SUFFICES ASSUME NEW b \in live'
               PROVE  IF task'[b].next = Null THEN b = last'
                      ELSE task'[b].next \in live' /\ task'[task'[b].next].prev = b
    OBVIOUS
  <2>1. CASE b = a \/ b = last
    BY <1>0, <1>1, <2>1
  <2>2. CASE b # a /\ b # last
    <3>1. b \in live /\ task'[b] = task[b] /\ task[b].next \in live /\ task[task[b].next].prev = b
      BY <1>0, <1>1, <1>2, <2>2
    <3>2. task'[task[b].next].prev = task[task[b].next].prev
      BY <1>1, <3>1
    <3>3. task[b].next # Null
      BY <1>0, <3>1
    <3> QED
      BY <1>1, <3>1, <3>2, <3>3
  <2> QED
    BY <2>1, <2>2
<1>4. \A b \in live' : IF task'[b].prev = Null THEN b = first'
                       ELSE task'[b].prev \in live' /\ task'[task'[b].prev].next = b
  <2> SUFFICES ASSUME NEW b \in live'
               PROVE  IF task'[b].prev = Null THEN b = first'
                      ELSE task'[b].prev \in live' /\ task'[task'[b].prev].next = b
    OBVIOUS
  <2>1. CASE b = a
    BY <1>0, <1>1, <2>1
  <2>2. CASE b # a
    <3>1. b \in live /\ task'[b].prev = task[b].prev
      BY <1>1, <2>2
    <3>2. CASE task[b].prev = Null
      BY <1>1, <1>2, <3>1, <3>2
    <3>3. CASE task[b].prev # Null
      <4>1. task[b].prev \in live /\ task[task[b].prev].next = b
        BY <1>2, <3>1, <3>3
      <4>2. task[b].prev # last
        BY <1>0, <3>1, <4>1
      <4>3. task'[task[b].prev].next = b
        BY <1>1, <4>1, <4>2
      <4> QED
        BY <1>1, <3>1, <3>3, <4>1, <4>3
    <3> QED
      BY <3>2, <3>3
  <2> QED
    BY <2>1, <2>2
<1>5. \E q \in [Addr -> Nat] : Rises(q)'
  <2>1. PICK r \in [Addr -> Nat] : Rises(r)
    BY DEF Linked
  <2>2. PICK q \in [Addr -> Nat] : q = [r EXCEPT ![a] = r[last] + 1]
    <3>1. [r EXCEPT ![a] = r[last] + 1] \in [Addr -> Nat]
      BY <1>0
    <3> QED
      BY <3>1, Zenon
  <2>3. q[a] = r[last] + 1 /\ \A b \in live : q[b] = r[b] /\ r[b] \in Nat
    BY <1>0, <2>2
  <2>4. Rises(q)'
    <3> SUFFICES ASSUME NEW b \in live', task'[b].next # Null
                 PROVE  q[b] < q[task'[b].next]
      BY DEF Rises
    <3>1. b # a /\ b \in live
      BY <1>1
    <3>2. CASE b = last
      BY <1>0, <1>1, <2>3, <3>2
    <3>3. CASE b # last
      <4>1. task'[b].next = task[b].next /\ task[b].next \in live
        BY <1>1, <1>2, <3>1, <3>3
      <4> QED
        BY <2>1, <2>3, <3>1, <4>1 DEF Rises
    <3> QED
      BY <3>2, <3>3
  <2> QED
    BY <2>4
<1> QED
  BY <1>0, <1>1, <1>3, <1>4, <1>5 DEF Linked, Matched

\* The shell creates its command; a command creates tasks for itself.
LEMMA TaskNewInv ==
  ASSUME TasksInv, NEW t, NEW a \in Addr, NEW next \in {"run", "assign", "wait"},
         At(t, "run"), TaskNew(t, a, next),
         \/ t = Shell /\ next = "assign"
         \/ t # Shell /\ t = child[Shell] /\ next # "assign"
  PROVE  TasksInv'
<1>1. Running(t) /\ pc[t] = "run"
  BY DEF At
<1>2. a \notin live /\ a # t /\ a # Shell /\ a # last
  BY <1>1, RunningFacts DEF TaskNew, ShellInv, Linked
<1> USE DEF TaskNew
<1>3. NewTask \in Task
  BY <1>1, RunningFacts DEF NewTask, Unused, Task, Opt, Linked, TypeOK
<1>4. task' \in [Addr -> Task]
  BY <1>1, <1>3, RunningFacts DEF TypeOK, Task, Opt
<1>5. TypeOK'
  BY <1>1, <1>4, RunningFacts DEF TypeOK, Places, Opt, sched
<1>6. Linked'
  BY <1>1, RunningFacts, AppendLinked
<1>7. \A b \in live : /\ task'[b].status = task[b].status
                      /\ task'[b].waiting_on = task[b].waiting_on
  BY <1>1, <1>2, RunningFacts DEF TypeOK, Task
<1>8. SchedulerInv'
  BY <1>1, <1>2, <1>7, RunningFacts DEF SchedulerInv, TypeOK, sched
<1>9. ProgramsInv'
  <2> SUFFICES ASSUME NEW b \in Addr
      PROVE  /\ pc'[b] \in Waits \cup {"assign", "wait"} => child'[b] \in Addr
             /\ pc'[b] \in Waits => task'[b].waiting_on = child'[b]
             /\ child'[b] # b /\ task'[b].waiting_on # b
    BY DEF ProgramsInv
  <2>1. CASE b = a
    <3>1. pc'[b] = "run" /\ child'[b] = Null /\ task'[b].waiting_on = Null
      BY <1>1, <1>2, <2>1, RunningFacts DEF TypeOK, NewTask, Unused
    <3> QED
      BY <2>1, <3>1, AddressAssumption DEF Waits
  <2>2. CASE b = t
    BY <1>1, <1>2, <1>7, <2>2, RunningFacts DEF Waits, TypeOK, ProgramsInv
  <2>3. CASE b # a /\ b # t
    <3>1. task'[b].waiting_on = task[b].waiting_on
      BY <1>1, <2>3, RunningFacts DEF TypeOK, Task
    <3> QED
      BY <1>1, <2>3, <3>1, RunningFacts DEF TypeOK, ProgramsInv
  <2> QED
    BY <2>1, <2>2, <2>3
<1>10. ShellInv'
  <2>1. Shell \in live /\ subproc' = subproc
    BY <1>1, RunningFacts DEF ShellInv
  <2>2. CASE t = Shell
    BY <1>1, <1>2, <1>7, <2>1, <2>2, RunningFacts DEF ShellInv, Waits, TypeOK
  <2>3. CASE t # Shell /\ t = child[Shell]
    <3>1. pc'[Shell] = pc[Shell] /\ child'[Shell] = child[Shell]
      BY <1>1, <1>2, <2>1, <2>3, RunningFacts DEF TypeOK
    <3>2. Over(t) => Over(t)'
      BY <1>1, <1>7, RunningFacts DEF Over
    <3> QED
      BY <1>1, <1>2, <1>7, <2>1, <2>3, <3>1, <3>2, RunningFacts DEF ShellInv
  <2> QED
    BY <2>2, <2>3
<1> QED
  BY <1>5, <1>6, <1>8, <1>9, <1>10 DEF TasksInv

-----------------------------------------------------------------------------
(***************************************************************************)
(* Interrupts.                                                             *)
(***************************************************************************)
LEMMA SigintInv == ASSUME TasksInv, Sigint PROVE TasksInv'
<1> USE DEF Sigint, sched, programs
<1>0. TypeOK /\ ProgramsInv /\ ShellInv /\ cpu # "panic" /\ Linked /\ SchedulerInv
  BY DEF TasksInv, Interruptible
<1>1. subproc = child[Shell] /\ subproc \in Addr /\ subproc # Shell /\ Shell \in Addr
  BY <1>0, AddressAssumption DEF ShellInv, ProgramsInv, TypeOK, Opt
<1>2. /\ \A b \in Addr : /\ task'[b].waiting_on = task[b].waiting_on
                         /\ b # subproc => task'[b] = task[b]
      /\ task'[subproc].status = "ended"
  BY <1>0, <1>1 DEF TypeOK, Task
<1>3. TypeOK'
  BY <1>0, <1>1 DEF TypeOK, Task
<1>4. LinksKept
  BY <1>0, <1>1 DEF LinksKept, TypeOK
<1>5. Linked'
  BY <1>0, <1>4, LinkedKept
<1>6. SchedulerInv'
  <2>1. cpu = "task" => current \in live /\ current \in Addr
    BY <1>0 DEF SchedulerInv, TypeOK
  <2>2. cpu = "task" => (task'[current].status = "paused" => pc[current] = "int")
    BY <1>0, <1>2, <2>1 DEF SchedulerInv
  <2>3. \A t \in Addr : Stale(t) => Stale(t)'
    <3>1. \A t \in Addr : Stale(t) => task'[t].status = "ended"
      BY <1>2 DEF Stale
    <3> QED
      BY <1>0, <1>4, <3>1, StaleKept
  <2>4. cpu = "loop" => current \in live \cup {Null} \/ Stale(current)'
    BY <1>0, <2>3 DEF SchedulerInv, Stale
  <2>5. cpu \in {"unlinked", "restored"} => Stale(freeing)'
    BY <1>0, <2>3 DEF SchedulerInv, Stale
  <2>7. /\ cpu \in {"free", "unlinked"} => current = Null
        /\ cpu = "restored" => current = freeing
    BY <1>0 DEF SchedulerInv
  <2>6. ASSUME cpu = "free" PROVE /\ freeing \in live \/ Stale(freeing)'
                                  /\ task'[freeing].status = "ended"
                                  /\ Deserted(freeing)'
    <3>1. freeing \in Addr
      BY <1>0, <2>6 DEF SchedulerInv, Stale, TypeOK
    <3>2. freeing \in live \/ Stale(freeing)'
      BY <1>0, <2>3, <2>6 DEF SchedulerInv, Stale
    <3>3. task'[freeing].status = "ended"
      BY <1>0, <1>2, <2>6, <3>1 DEF SchedulerInv
    <3>4. Deserted(freeing)'
      BY <1>0, <1>2, <2>6 DEF SchedulerInv, Deserted, TypeOK
    <3> QED
      BY <3>2, <3>3, <3>4
  <2> QED
    BY <1>0, <2>1, <2>2, <2>4, <2>5, <2>6, <2>7 DEF SchedulerInv
<1>7. ProgramsInv'
  BY <1>0, <1>2 DEF ProgramsInv
<1>8. ShellInv'
  BY <1>0, <1>1, <1>2 DEF ShellInv, Over
<1> QED
  BY <1>3, <1>5, <1>6, <1>7, <1>8 DEF TasksInv

\* The scheduler starts anew, with a task it knows, with none, or with one just freed.
LEMMA TimerInv == ASSUME TasksInv, Timer \/ TimerInScheduler PROVE TasksInv'
<1> USE DEF list, programs
<1>0. TypeOK /\ ProgramsInv /\ ShellInv /\ cpu # "panic" /\ Linked /\ SchedulerInv
  BY DEF TasksInv, Timer, TimerInScheduler, FreeStages
<1>1. /\ UNCHANGED <<list, programs, current, freeing>>
      /\ cpu' = "loop" /\ hijacked' \subseteq Addr
      /\ enabled' \in BOOLEAN /\ inService' \in BOOLEAN
  BY <1>0 DEF Timer, TimerInScheduler, TypeOK
<1>2. TypeOK'
  BY <1>0, <1>1 DEF TypeOK, Stages
<1>3. Linked'
  BY <1>0, <1>1, LinkedKept DEF LinksKept
<1>4. ProgramsInv' /\ ShellInv'
  BY <1>0, <1>1 DEF ProgramsInv, ShellInv, Over
<1>5. SchedulerInv'
  <2>1. current \in live \cup {Null} \/ Stale(current)
    <3>1. CASE cpu \in {"task", "loop", "restored"}
      BY <1>0, <3>1 DEF SchedulerInv
    <3>2. CASE cpu \in {"free", "unlinked"}
      BY <1>0, <3>2 DEF SchedulerInv
    <3> QED
      BY <1>0, <3>1, <3>2 DEF TypeOK, Stages, FreeStages
  <2> QED
    BY <1>0, <1>1, <2>1 DEF SchedulerInv, Stale
<1> QED
  BY <1>2, <1>3, <1>4, <1>5 DEF TasksInv

-----------------------------------------------------------------------------
(***************************************************************************)
(* The scheduler's turn: the task t, in the list or just freed, is served. *)
(* By then only what is left of a time slice differs from what it was.     *)
(***************************************************************************)
Aged(tasks) ==
  /\ tasks \in [Addr -> Task]
  /\ \A a \in Addr : /\ tasks[a].next = task[a].next /\ tasks[a].prev = task[a].prev
                     /\ tasks[a].waiting_on = task[a].waiting_on
                     /\ tasks[a].status = task[a].status

\* What serving a task does to the structures.
LEMMA ServeFrame ==
  ASSUME TypeOK, Linked, NEW t \in Addr, NEW tasks, Aged(tasks), Serve(t, tasks)
  PROVE  /\ task' \in [Addr -> Task]
         /\ UNCHANGED <<live, first, last>>
         /\ \A a \in Addr : /\ task'[a].next = task[a].next /\ task'[a].prev = task[a].prev
                            /\ task'[a].waiting_on = task[a].waiting_on
         /\ \A a \in Addr :
              \/ task'[a].status = task[a].status
              \/ task'[a].status = "running" /\ a = t /\ task[t].status = "created"
              \/ /\ task'[a].status = "running" /\ a \in live
                 /\ task[a].waiting_on = t /\ task[t].status = "ended"
<1>0. Walk = live /\ live \subseteq Addr
  BY WalkIsLive DEF TypeOK
<1> USE DEF Aged
<1>1. tasks[t].status = task[t].status /\ tasks[t] \in Task
  OBVIOUS
<1>2. CASE tasks[t].status = "created"
  <2>1. task' = [tasks EXCEPT ![t].status = "running", ![t].rem = Reload(tasks[t].slice)]
        /\ UNCHANGED <<live, first, last>>
    BY <1>2 DEF Serve
  <2>2. Reload(tasks[t].slice) \in {0, 1}
    BY DEF Reload
  <2>3. task' = [tasks EXCEPT ![t] = [tasks[t] EXCEPT !.status = "running",
                                                      !.rem = Reload(tasks[t].slice)]]
    BY <2>1
  <2>4. [tasks[t] EXCEPT !.status = "running", !.rem = Reload(tasks[t].slice)] \in Task
    BY <1>1, <2>2 DEF Task
  <2>5. task' \in [Addr -> Task] /\ \A a \in Addr : a # t => task'[a] = tasks[a]
    BY <2>3, <2>4
  <2>6. task'[t] = [tasks[t] EXCEPT !.status = "running", !.rem = Reload(tasks[t].slice)]
    BY <2>3
  <2>7. /\ task'[t].next = tasks[t].next /\ task'[t].prev = tasks[t].prev
        /\ task'[t].waiting_on = tasks[t].waiting_on /\ task'[t].status = "running"
    BY <1>1, <2>6 DEF Task
  <2> QED
    BY <1>1, <1>2, <2>1, <2>5, <2>7
<1>3. CASE tasks[t].status \in {"running", "paused"}
  BY <1>3 DEF Serve
<1>4. CASE tasks[t].status = "ended"
  <2>1. /\ task' = [a \in Addr |-> IF a \in Waiters(tasks, t)
                                   THEN [tasks[a] EXCEPT !.status = "running"]
                                   ELSE tasks[a]]
        /\ UNCHANGED <<live, first, last>>
    BY <1>4 DEF Serve
  <2>2. Waiters(tasks, t) = {a \in live : task[a].waiting_on = t}
    BY <1>0 DEF Waiters
  <2>3. task' \in [Addr -> Task]
    <3>1. \A a \in Addr : tasks[a] \in Task /\ [tasks[a] EXCEPT !.status = "running"] \in Task
      BY DEF Task
    <3> QED
      BY <2>1, <3>1
  <2>4. ASSUME NEW a \in Addr
        PROVE  /\ task'[a].next = task[a].next /\ task'[a].prev = task[a].prev
               /\ task'[a].waiting_on = task[a].waiting_on
               /\ \/ task'[a].status = task[a].status
                  \/ /\ task'[a].status = "running" /\ a \in live
                     /\ task[a].waiting_on = t
    <3>1. CASE a \in Waiters(tasks, t)
      <4>1. task'[a] = [tasks[a] EXCEPT !.status = "running"] /\ tasks[a] \in Task
        BY <2>1, <3>1
      <4> QED
        BY <2>2, <3>1, <4>1 DEF Task
    <3>2. CASE a \notin Waiters(tasks, t)
      BY <2>1, <3>2
    <3> QED
      BY <3>1, <3>2
  <2> QED
    BY <1>1, <1>4, <2>1, <2>3, <2>4
<1> QED
  BY <1>1, <1>2, <1>3, <1>4 DEF Task

\* Behind a task, in the list or just freed, comes a task of the list.
LEMMA NextIsLive ==
  ASSUME TypeOK, Linked, NEW c \in Addr, c \in live \/ Stale(c)
  PROVE  NextOf(c) \in live
BY DEF NextOf, Linked, Matched, Stale

LEMMA ServeInv ==
  ASSUME TasksInv, cpu = "loop", NEW t \in Addr, t \in live \/ Stale(t),
         NEW tasks, Aged(tasks), Serve(t, tasks), UNCHANGED programs
  PROVE  TasksInv'
<1>0. TypeOK /\ ProgramsInv /\ ShellInv /\ Linked /\ SchedulerInv
  BY DEF TasksInv
<1>1. /\ task' \in [Addr -> Task]
      /\ UNCHANGED <<live, first, last>>
      /\ \A a \in Addr : /\ task'[a].next = task[a].next /\ task'[a].prev = task[a].prev
                         /\ task'[a].waiting_on = task[a].waiting_on
      /\ \A a \in Addr :
           \/ task'[a].status = task[a].status
           \/ task'[a].status = "running" /\ a = t /\ task[t].status = "created"
           \/ /\ task'[a].status = "running" /\ a \in live
              /\ task[a].waiting_on = t /\ task[t].status = "ended"
  BY <1>0, ServeFrame
<1>2. LinksKept
  BY <1>1 DEF LinksKept
<1>3. Linked'
  BY <1>0, <1>2, LinkedKept
<1>4. NextOf(t) \in live /\ live \subseteq Addr
  BY <1>0, NextIsLive DEF TypeOK
<1>5. tasks[t].status = task[t].status
  BY DEF Aged
<1>6. tasks[t].status \in {"created", "running", "paused", "ended"}
  BY DEF Aged, Task
<1>7. t \in live \/ task[t].status = "ended"
  BY DEF Stale
\* A freed structure keeps its status: only tasks of the list are woken.
<1>8. \A a \in Addr : Stale(a) => Stale(a)'
  <2> SUFFICES ASSUME NEW a \in Addr, Stale(a) PROVE task'[a].status = "ended"
    BY <1>0, <1>2, StaleKept
  <2> QED
    BY <1>1, <1>7 DEF Stale
<1>9. TypeOK' /\ SchedulerInv'
  <2>1. CASE tasks[t].status = "created"
    <3>1. /\ current' = t /\ cpu' = "task" /\ UNCHANGED <<freeing, enabled, inService, hijacked>>
          /\ task' = [tasks EXCEPT ![t].status = "running", ![t].rem = Reload(tasks[t].slice)]
      BY <2>1 DEF Serve
    <3>2. task'[t].status = "running"
      BY <3>1 DEF Aged, Task
    <3>3. t \in live
      BY <1>5, <1>7, <2>1
    <3> QED
      BY <1>0, <1>1, <3>1, <3>2, <3>3 DEF TypeOK, Stages, SchedulerInv, Opt, programs
  <2>2. CASE tasks[t].status = "running"
    <3>1. /\ current' = t /\ cpu' \in {"task", "loop"} /\ task' = tasks
          /\ enabled' \in BOOLEAN /\ inService' \in BOOLEAN
          /\ UNCHANGED <<freeing, hijacked>>
      BY <1>0, <2>2 DEF Serve, TypeOK
    <3>3. t \in live /\ task'[t].status = "running"
      BY <1>5, <1>7, <2>2, <3>1
    <3> QED
      BY <1>0, <1>1, <3>1, <3>3 DEF TypeOK, Stages, SchedulerInv, Opt, programs
  <2>3. CASE tasks[t].status = "ended"
    <3>1. /\ current' = Null /\ freeing' = t /\ cpu' = "free" /\ enabled' = TRUE
          /\ task' = [a \in Addr |-> IF a \in Waiters(tasks, t)
                                     THEN [tasks[a] EXCEPT !.status = "running"]
                                     ELSE tasks[a]]
          /\ UNCHANGED <<inService, hijacked>>
      BY <2>3 DEF Serve
    <3>2. ASSUME NEW a \in live, task[a].waiting_on = t PROVE task'[a].status = "running"
      <4>1. a \in Waiters(tasks, t)
        BY <1>0, <1>4, <3>2, WalkIsLive DEF Waiters, Aged
      <4>2. task'[a] = [tasks[a] EXCEPT !.status = "running"] /\ tasks[a] \in Task
        BY <1>4, <3>1, <4>1 DEF Aged
      <4> QED
        BY <4>2 DEF Task
    <3>3. task'[t].status = "ended"
      BY <1>0, <1>1, <1>5, <2>3 DEF ProgramsInv
    <3>4. Deserted(freeing)'
      BY <1>1, <1>4, <3>1, <3>2 DEF Deserted
    <3>5. t \in live \/ Stale(freeing)'
      BY <1>8, <3>1 DEF Stale
    <3>6. TypeOK'
      BY <1>0, <1>1, <3>1 DEF TypeOK, Stages, FreeStages, Opt, programs
    <3> QED
      BY <1>1, <3>1, <3>3, <3>4, <3>5, <3>6 DEF SchedulerInv
  <2>4. CASE tasks[t].status = "paused"
    <3>1. /\ current' = NextOf(t) /\ task' = tasks
          /\ UNCHANGED <<cpu, freeing, enabled, inService, hijacked>>
      BY <2>4 DEF Serve
    <3>2. TypeOK'
      BY <1>0, <1>1, <1>4, <3>1 DEF TypeOK, Opt, programs
    <3> QED
      BY <1>1, <1>4, <3>1, <3>2 DEF SchedulerInv
  <2> QED
    BY <1>6, <2>1, <2>2, <2>3, <2>4
<1>10. ProgramsInv'
  BY <1>0, <1>1 DEF ProgramsInv, programs
\* The shell is woken by the end of the task it waits for.
<1>11. ShellInv'
  <2>1. Shell \in live /\ Shell \in Addr /\ task[Shell].status # "ended" /\ task'[Shell].status # "ended"
    BY <1>0, <1>1, <1>4 DEF ShellInv
  <2>2. ASSUME pc[Shell] \in {"int", "woken"}, task'[Shell].status # "paused"
        PROVE  Over(child[Shell])'
    <3>1. child[Shell] \in Addr /\ task[Shell].waiting_on = child[Shell]
      BY <1>0, <2>1, <2>2 DEF ProgramsInv, Waits
    <3>2. \/ Over(child[Shell])
          \/ child[Shell] = t /\ task[t].status = "ended"
      BY <1>0, <1>1, <2>1, <2>2, <3>1 DEF ShellInv
    <3>3. task[child[Shell]].status = "ended" =>
            \/ task'[child[Shell]].status = "ended"
            \/ task[child[Shell]].waiting_on = t
      BY <1>1, <3>1
    <3>4. task'[child[Shell]].waiting_on = task[child[Shell]].waiting_on /\ t # Null
      BY <1>1, <3>1, AddressAssumption
    <3>5. child'[Shell] = child[Shell]
      BY DEF programs
    <3> QED
      BY <1>0, <1>1, <3>2, <3>3, <3>4, <3>5 DEF Over, ProgramsInv
  <2> QED
    BY <1>0, <1>1, <2>1, <2>2 DEF ShellInv, programs
<1> QED
  BY <1>3, <1>9, <1>10, <1>11 DEF TasksInv

LEMMA ExaminedFacts ==
  ASSUME TasksInv, NEW c \in Addr, Examined(c)
  PROVE  /\ TypeOK /\ Linked /\ cpu = "loop"
         /\ c \in live \/ Stale(c)
BY DEF TasksInv, SchedulerInv, Examined, Linked, Stale, TypeOK

LEMMA KeepInv == ASSUME TasksInv, NEW c \in Addr, Keep(c) PROVE TasksInv'
<1>1. Aged(task)
  BY DEF Aged, TasksInv, TypeOK
<1> QED
  BY <1>1, ExaminedFacts, ServeInv DEF Keep

\* The task whose time is over, and the structures with its slice reloaded.
LEMMA ExpireAges ==
  ASSUME TypeOK, NEW c \in Addr
  PROVE  Aged([task EXCEPT ![c].rem = Reload(task[c].slice)])
<1>1. Reload(task[c].slice) \in {0, 1} /\ task[c] \in Task
  BY DEF Reload, TypeOK
<1>2. [task[c] EXCEPT !.rem = Reload(task[c].slice)] \in Task
  BY <1>1 DEF Task
<1>3. /\ [task[c] EXCEPT !.rem = Reload(task[c].slice)].next = task[c].next
      /\ [task[c] EXCEPT !.rem = Reload(task[c].slice)].prev = task[c].prev
      /\ [task[c] EXCEPT !.rem = Reload(task[c].slice)].waiting_on = task[c].waiting_on
      /\ [task[c] EXCEPT !.rem = Reload(task[c].slice)].status = task[c].status
  BY <1>1 DEF Task
<1> QED
  BY <1>2, <1>3 DEF Aged, TypeOK

LEMMA ExpireInv == ASSUME TasksInv, NEW c \in Addr, Expire(c) PROVE TasksInv'
<1>1. TypeOK /\ Linked /\ cpu = "loop" /\ (c \in live \/ Stale(c))
  BY ExaminedFacts DEF Expire
<1>2. NextOf(c) \in live /\ NextOf(c) \in Addr
  BY <1>1, NextIsLive DEF TypeOK
<1> QED
  BY <1>1, <1>2, ExpireAges, ServeInv DEF Expire

-----------------------------------------------------------------------------
(***************************************************************************)
(* task_free.                                                              *)
(***************************************************************************)
\* What the scheduler's steps after the first kfree start from.
LEMMA FreeFacts ==
  ASSUME TasksInv, cpu \in FreeStages
  PROVE  /\ TypeOK /\ Linked /\ SchedulerInv /\ ProgramsInv /\ ShellInv
         /\ freeing \in Addr /\ freeing # Null /\ freeing # Shell
         /\ freeing \in live \/ Stale(freeing)
         /\ task[freeing].status = "ended"
BY AddressAssumption DEF TasksInv, SchedulerInv, FreeStages, Stale, TypeOK, ShellInv

LEMMA RestoreInv == ASSUME TasksInv, Restore PROVE TasksInv'
<1> USE DEF Restore, list, programs
<1>0. /\ TypeOK /\ Linked /\ SchedulerInv /\ ProgramsInv /\ ShellInv /\ freeing \in Addr
      /\ cpu = "unlinked"
  BY FreeFacts DEF FreeStages
<1>1. TypeOK'
  BY <1>0 DEF TypeOK, Stages, FreeStages, Opt
<1>2. Linked'
  BY <1>0, LinkedKept DEF LinksKept
<1>3. SchedulerInv'
  BY <1>0 DEF SchedulerInv, Stale
<1>4. ProgramsInv' /\ ShellInv'
  BY <1>0 DEF ProgramsInv, ShellInv, Over
<1> QED
  BY <1>1, <1>2, <1>3, <1>4 DEF TasksInv

LEMMA GetNextInv == ASSUME TasksInv, GetNext PROVE TasksInv'
<1> USE DEF GetNext, list, programs
<1>0. /\ TypeOK /\ Linked /\ SchedulerInv /\ ProgramsInv /\ ShellInv /\ freeing \in Addr
      /\ cpu = "restored"
  BY FreeFacts DEF FreeStages
<1>1. current = freeing /\ Stale(current)
  BY <1>0 DEF SchedulerInv
<1>2. current' \in live /\ live \subseteq Addr
  BY <1>0, <1>1, NextIsLive DEF TypeOK
<1>3. TypeOK'
  BY <1>0, <1>2 DEF TypeOK, Stages, FreeStages, Opt
<1>4. Linked'
  BY <1>0, LinkedKept DEF LinksKept
<1>5. SchedulerInv'
  BY <1>0, <1>2 DEF SchedulerInv
<1>6. ProgramsInv' /\ ShellInv'
  BY <1>0 DEF ProgramsInv, ShellInv, Over
<1> QED
  BY <1>3, <1>4, <1>5, <1>6 DEF TasksInv

LEMMA PanicInv == ASSUME TasksInv, Panic PROVE TasksInv'
<1> USE DEF Panic, programs
<1>0. /\ TypeOK /\ ProgramsInv /\ ShellInv /\ freeing # Shell
  BY FreeFacts DEF FreeStages
<1>1. TypeOK'
  BY <1>0 DEF TypeOK, Stages, FreeStages, Opt
<1>2. ProgramsInv' /\ ShellInv'
  BY <1>0 DEF ProgramsInv, ShellInv, Over
<1> QED
  BY <1>1, <1>2 DEF TasksInv

\* Taking t out joins its neighbours.  If t was taken out before, they are joined
\* already, and the step changes nothing.
LEMMA UnlinkLinked ==
  ASSUME TypeOK, Linked, Unlink, freeing \in Addr, freeing \in live \/ Stale(freeing),
         task[freeing].status = "ended"
  PROVE  Linked' /\ Stale(freeing)' /\ task' \in [Addr -> Task]
         /\ first' \in Addr /\ last' \in Addr
<1> DEFINE t == freeing
           n == task[t].next
           p == task[t].prev
<1>0. /\ live \subseteq Addr /\ Null \notin live /\ task \in [Addr -> Task]
      /\ first \in live /\ last \in live
      /\ task[first].prev = Null /\ task[last].next = Null
  BY AddressAssumption DEF TypeOK, Linked
<1>1. /\ \A b \in live : task[b].next = Null => b = last
      /\ \A b \in live : task[b].next # Null => task[b].next \in live /\ task[task[b].next].prev = b
      /\ \A b \in live : task[b].prev = Null => b = first
      /\ \A b \in live : task[b].prev # Null => task[b].prev \in live /\ task[task[b].prev].next = b
  BY DEF Linked, Matched
<1>2. PICK r \in [Addr -> Nat] : Rises(r)
  BY DEF Linked
<1>3. \A b \in live : task[b].next # Null =>
        r[b] < r[task[b].next] /\ r[b] \in Nat /\ r[task[b].next] \in Nat
  BY <1>0, <1>1, <1>2 DEF Rises
<1>4. t \in Addr /\ n \in Opt /\ p \in Opt
  BY <1>0 DEF Task
<1>5. n # Null \/ p # Null
  BY DEF Unlink, Unlinkable
\* The neighbours before the step.
<1>6. /\ n # Null => n \in live /\ n # t
      /\ p # Null => p \in live /\ p # t
      /\ n # Null /\ p # Null => n # p /\ r[p] < r[n]
  <2>1. CASE t \in live
    <3>1. n # Null => n \in live /\ r[t] < r[n] /\ r[t] \in Nat /\ r[n] \in Nat
      BY <1>1, <1>3, <2>1
    <3>2. p # Null => p \in live /\ r[p] < r[t] /\ r[p] \in Nat /\ r[t] \in Nat
      <4>1. p # Null => p \in live /\ task[p].next = t /\ task[p].next # Null
        BY <1>0, <1>1, <2>1
      <4> QED
        BY <1>3, <4>1
    <3> HIDE DEF n, p, t
    <3> QED
      BY <3>1, <3>2
  <2>2. CASE t \notin live
    BY <1>1, <1>3, <2>2 DEF Stale
  <2> QED
    BY <2>1, <2>2
<1>7. /\ n # Null => task[n].prev = t \/ task[n].prev = p
      /\ p # Null => task[p].next = t \/ task[p].next = n
      /\ n = Null => last = t \/ last = p
      /\ p = Null => first = t \/ first = n
  BY <1>1 DEF Stale
<1>8. t \in live => /\ n # Null => task[n].prev = t
                    /\ p # Null => task[p].next = t
                    /\ n = Null => last = t
                    /\ p = Null => first = t
  BY <1>1
<1>9. t \notin live => /\ n # Null => task[n].prev = p
                       /\ p # Null => task[p].next = n
                       /\ n = Null => last = p
                       /\ p = Null => first = n
  BY <1>6 DEF Stale
\* The step.
<1>10. /\ live' = live \ {t}
       /\ first' = IF p = Null THEN n ELSE first
       /\ last' = IF n = Null THEN p ELSE last
       /\ freeing' = t
  BY DEF Unlink, NewLast
<1>11. task' = [a \in Addr |-> IF a = n THEN [task[a] EXCEPT !.prev = p]
                               ELSE IF a = p THEN [task[a] EXCEPT !.next = n]
                               ELSE task[a]]
  BY DEF Unlink
<1>12. n # p
  BY <1>5, <1>6
<1> HIDE DEF n, p, t
<1>13. \A b \in Addr : /\ task'[b].next = IF b = p THEN n ELSE task[b].next
                       /\ task'[b].prev = IF b = n THEN p ELSE task[b].prev
                       /\ task'[b].status = task[b].status
                       /\ task'[b] \in Task
  <2> SUFFICES ASSUME NEW b \in Addr
      PROVE /\ task'[b].next = IF b = p THEN n ELSE task[b].next
            /\ task'[b].prev = IF b = n THEN p ELSE task[b].prev
            /\ task'[b].status = task[b].status
            /\ task'[b] \in Task
    OBVIOUS
  <2>0. task[b] \in Task
    BY <1>0
  <2>1. CASE b = n
    <3>1. task'[b] = [task[b] EXCEPT !.prev = p]
      BY <1>11, <2>1
    <3> QED
      BY <1>4, <1>12, <2>0, <2>1, <3>1 DEF Task
  <2>2. CASE b = p
    <3>1. task'[b] = [task[b] EXCEPT !.next = n]
      BY <1>11, <1>12, <2>2
    <3> QED
      BY <1>4, <1>12, <2>0, <2>2, <3>1 DEF Task
  <2>3. CASE b # n /\ b # p
    BY <1>11, <2>0, <2>3
  <2> QED
    BY <2>1, <2>2, <2>3
<1>14. task' \in [Addr -> Task]
  BY <1>11, <1>13
<1>15. first' \in live' /\ task'[first'].prev = Null
  BY <1>0, <1>1, <1>5, <1>6, <1>8, <1>9, <1>10, <1>13
<1>16. last' \in live' /\ task'[last'].next = Null
  BY <1>0, <1>1, <1>5, <1>6, <1>8, <1>9, <1>10, <1>13
<1>17. ASSUME NEW b \in live'
       PROVE  IF task'[b].next = Null THEN b = last'
              ELSE task'[b].next \in live' /\ task'[task'[b].next].prev = b
  <2>0. b \in live /\ b # t
    BY <1>10
  <2>1. CASE b = p
    BY <1>0, <1>6, <1>10, <1>12, <1>13, <2>0, <2>1
  <2>2. CASE b # p
    <3>1. task'[b].next = task[b].next
      BY <1>0, <1>13, <2>0, <2>2
    <3>2. CASE task[b].next = Null
      BY <1>1, <1>8, <1>9, <1>10, <2>0, <2>2, <3>1, <3>2
    <3>3. CASE task[b].next # Null
      <4>1. task[b].next \in live /\ task[task[b].next].prev = b
        BY <1>1, <2>0, <3>3
      <4>2. task[b].next # t
        BY <2>2, <4>1 DEF p
      <4>3. task[b].next # n
        BY <1>0, <1>8, <1>9, <2>0, <2>2, <4>1
      <4> QED
        BY <1>0, <1>10, <1>13, <3>1, <3>3, <4>1, <4>2, <4>3
    <3> QED
      BY <3>2, <3>3
  <2> QED
    BY <2>1, <2>2
<1>18. ASSUME NEW b \in live'
       PROVE  IF task'[b].prev = Null THEN b = first'
              ELSE task'[b].prev \in live' /\ task'[task'[b].prev].next = b
  <2>0. b \in live /\ b # t
    BY <1>10
  <2>1. CASE b = n
    BY <1>0, <1>6, <1>10, <1>12, <1>13, <2>0, <2>1
  <2>2. CASE b # n
    <3>1. task'[b].prev = task[b].prev
      BY <1>0, <1>13, <2>0, <2>2
    <3>2. CASE task[b].prev = Null
      BY <1>1, <1>8, <1>9, <1>10, <2>0, <2>2, <3>1, <3>2
    <3>3. CASE task[b].prev # Null
      <4>1. task[b].prev \in live /\ task[task[b].prev].next = b
        BY <1>1, <2>0, <3>3
      <4>2. task[b].prev # t
        BY <2>2, <4>1 DEF n
      <4>3. task[b].prev # p
        BY <1>0, <1>8, <1>9, <2>0, <2>2, <4>1
      <4> QED
        BY <1>0, <1>10, <1>13, <3>1, <3>3, <4>1, <4>2, <4>3
    <3> QED
      BY <3>2, <3>3
  <2> QED
    BY <2>1, <2>2
<1>19. Rises(r)'
  <2> SUFFICES ASSUME NEW b \in live', task'[b].next # Null PROVE r[b] < r[task'[b].next]
    BY DEF Rises
  <2>1. b \in live /\ task'[b].next = IF b = p THEN n ELSE task[b].next
    BY <1>0, <1>10, <1>13
  <2> QED
    BY <1>0, <1>3, <1>6, <2>1
<1>20. Linked'
  <2>1. \E q \in [Addr -> Nat] : Rises(q)'
    BY <1>19
  <2> QED
    BY <1>15, <1>16, <1>17, <1>18, <2>1 DEF Linked, Matched
<1>21. Stale(freeing)'
  <2>1. t # n /\ t # p
    BY <1>4, <1>6, AddressAssumption
  <2>2. task'[t].next = n /\ task'[t].prev = p /\ task'[t].status = "ended"
    BY <1>4, <1>13, <2>1 DEF t, n, p
  <2>3. IF n = Null THEN p = last' ELSE n \in live' /\ task'[n].prev = p
    BY <1>0, <1>6, <1>10, <1>13
  <2>4. IF p = Null THEN n = first' ELSE p \in live' /\ task'[p].next = n
    BY <1>0, <1>6, <1>10, <1>13
  <2>5. t \in Addr \ live'
    BY <1>4, <1>10
  <2> QED
    BY <1>10, <2>2, <2>3, <2>4, <2>5 DEF Stale, t
<1> QED
  BY <1>0, <1>10, <1>14, <1>15, <1>16, <1>20, <1>21

LEMMA UnlinkInv == ASSUME TasksInv, Unlink PROVE TasksInv'
<1> USE DEF programs
<1>0. /\ TypeOK /\ Linked /\ SchedulerInv /\ ProgramsInv /\ ShellInv
      /\ freeing \in Addr /\ freeing # Shell /\ (freeing \in live \/ Stale(freeing))
      /\ task[freeing].status = "ended" /\ cpu = "free"
  BY FreeFacts DEF Unlink, FreeStages
<1>1. Linked' /\ Stale(freeing)' /\ task' \in [Addr -> Task] /\ first' \in Addr /\ last' \in Addr
  BY <1>0, UnlinkLinked
<1>2. /\ live' = live \ {freeing} /\ cpu' = "unlinked"
      /\ UNCHANGED <<current, freeing, enabled, inService, hijacked, programs>>
  BY DEF Unlink
<1>3. \A a \in Addr : /\ task'[a].status = task[a].status
                      /\ task'[a].waiting_on = task[a].waiting_on
  <2> SUFFICES ASSUME NEW a \in Addr PROVE /\ task'[a].status = task[a].status
                                           /\ task'[a].waiting_on = task[a].waiting_on
    OBVIOUS
  <2>1. /\ task[a] \in Task
        /\ \/ task'[a] = [task[a] EXCEPT !.prev = task[freeing].prev]
           \/ task'[a] = [task[a] EXCEPT !.next = task[freeing].next]
           \/ task'[a] = task[a]
    BY <1>0 DEF TypeOK, Unlink
  <2> QED
    BY <2>1 DEF Task
<1>4. TypeOK'
  <2>1. first' \in live' /\ last' \in live'
    BY <1>1 DEF Linked
  <2> QED
    BY <1>0, <1>1, <1>2, <2>1 DEF TypeOK, Stages, FreeStages
<1>5. SchedulerInv'
  BY <1>0, <1>1, <1>2 DEF SchedulerInv
<1>6. ProgramsInv'
  BY <1>0, <1>2, <1>3 DEF ProgramsInv
<1>7. ShellInv'
  <2>1. Shell \in live' /\ Shell \in Addr
    BY <1>0, <1>2, AddressAssumption DEF ShellInv
  <2>2. \A c \in Addr : Over(c) => Over(c)'
    BY <1>2, <1>3 DEF Over
  <2>3. pc[Shell] \in {"int", "woken"} => child[Shell] \in Addr
    BY <1>0, <2>1 DEF ProgramsInv, Waits
  <2>4. ASSUME pc[Shell] \in {"int", "woken"}, task'[Shell].status # "paused"
        PROVE  Over(child[Shell])'
    <3>1. Over(child[Shell])
      BY <1>0, <1>3, <2>1, <2>4 DEF ShellInv
    <3>2. child'[Shell] = child[Shell]
      BY <1>2
    <3> QED
      BY <2>2, <2>3, <2>4, <3>1, <3>2 DEF Over
  <2> QED
    BY <1>0, <1>2, <1>3, <2>1, <2>4 DEF ShellInv
<1> QED
  BY <1>1, <1>4, <1>5, <1>6, <1>7 DEF TasksInv

-----------------------------------------------------------------------------
(***************************************************************************)
(* The invariant is inductive.                                             *)
(***************************************************************************)
LEMMA StutterInv == ASSUME TasksInv, UNCHANGED vars PROVE TasksInv'
<1> USE DEF vars, list, sched, programs
<1>1. TypeOK' /\ ProgramsInv' /\ ShellInv'
  BY DEF TasksInv, TypeOK, ProgramsInv, ShellInv, Over
<1>2. cpu # "panic" => Linked'
  BY LinkedKept DEF TasksInv, LinksKept
<1>3. cpu # "panic" => SchedulerInv'
  BY DEF TasksInv, SchedulerInv, Stale, Deserted
<1> QED
  BY <1>1, <1>2, <1>3 DEF TasksInv

LEMMA SpawnInv ==
  ASSUME TasksInv, NEW t \in Addr, NEW a \in Addr, Spawn(t, a) \/ SpawnToWait(t, a)
  PROVE  TasksInv'
<1>1. Running(t) /\ At(t, "run") /\ t = child[Shell]
  BY DEF Spawn, SpawnToWait, IsCommand, At
<1>2. t # Shell
  BY <1>1, RunningFacts DEF ProgramsInv
<1> QED
  BY <1>1, <1>2, TaskNewInv DEF Spawn, SpawnToWait

LEMMA NextInv == ASSUME TasksInv, [Next]_vars PROVE TasksInv'
<1>1. CASE \E a \in Addr : ShellExec(a)
  BY <1>1, TaskNewInv DEF ShellExec
<1>2. CASE \E t, a \in Addr : Spawn(t, a) \/ SpawnToWait(t, a)
  BY <1>2, SpawnInv
<1>3. CASE \E t \in Addr : Straight(t) \/ Sleep(t) \/ Awake(t) \/ Return(t)
  BY <1>3, EndWaitInv, PauseInv, InterruptInv, ResumeInv, AssignInv, SleepInv, ReturnInv
     DEF Straight
<1>4. CASE Sigint \/ Timer \/ TimerInScheduler
  BY <1>4, SigintInv, TimerInv
<1>5. CASE Scheduler
  BY <1>5, UnlinkInv, PanicInv, RestoreInv, GetNextInv, KeepInv, ExpireInv DEF Scheduler, Free
<1>6. CASE UNCHANGED vars
  BY <1>6, StutterInv
<1> QED
  BY <1>1, <1>2, <1>3, <1>4, <1>5, <1>6 DEF Next

LEMMA InvariantHolds == Spec => []TasksInv
<1>1. Init => TasksInv
  BY InitInv
<1>2. TasksInv /\ [Next]_vars => TasksInv'
  BY NextInv
<1> QED
  BY <1>1, <1>2, PTL DEF Spec

\* The fields of the structures and of the scheduler stay in their domains, and
\* task_first and task_last are never freed structures.
THEOREM TypeCorrect == Spec => []TypeOK
<1>1. TasksInv => TypeOK
  BY DEF TasksInv
<1> QED
  BY <1>1, InvariantHolds, PTL

\* For any number of tasks, the list holds exactly the live ones and is linked both
\* ways wherever an interrupt may come, until the kernel panics.
THEOREM LinkedList == Spec => []ListIsLinked
<1>1. TasksInv => ListIsLinked
  BY LinkedImpliesList DEF TasksInv
<1> QED
  BY <1>1, InvariantHolds, PTL

\* The shell only goes on behind task_end_wait when the command is over, unless the
\* command was revived after waiting itself.
THEOREM CommandEnds == Spec => []CommandIsOver
<1>1. TasksInv => CommandIsOver
  <2> SUFFICES ASSUME TasksInv, At(Shell, "woken")
               PROVE  \/ ~Has(child[Shell], {"created", "running", "paused"})
                      \/ task[child[Shell]].waiting_on # Null
    BY DEF CommandIsOver
  <2>1. Running(Shell) /\ pc[Shell] = "woken"
    BY DEF At
  <2>2. Over(child[Shell])
    BY <2>1, RunningFacts DEF ShellInv
  <2> QED
    BY <2>2 DEF Over, Has
<1> QED
  BY <1>1, InvariantHolds, PTL

\* CTRL+C ends the shell's command or nobody, also when addresses are used again.
THEOREM SigintIsSafe == Spec => []SigintHitsCommand
<1>1. TasksInv => SigintHitsCommand
  <2> SUFFICES ASSUME TasksInv, subproc \in live PROVE subproc = child[Shell]
    BY DEF SigintHitsCommand
  <2>1. subproc # Null
    BY AddressAssumption DEF TasksInv, TypeOK
  <2> QED
    BY <2>1 DEF TasksInv, ShellInv
<1> QED
  BY <1>1, InvariantHolds, PTL

-----------------------------------------------------------------------------
(***************************************************************************)
(* What a step never does.                                                 *)
(***************************************************************************)
\* The scheduler only wakes tasks that wait for the one it serves.
LEMMA ServeWakes ==
  ASSUME TasksInv, NEW c \in Addr, Keep(c) \/ Expire(c)
  PROVE  /\ UNCHANGED live
         /\ \A a \in live : task[a].status = "ended" /\ task'[a].waiting_on = Null
                              => task'[a].status = "ended"
<1>1. TypeOK /\ Linked /\ (c \in live \/ Stale(c)) /\ live \subseteq Addr
  BY ExaminedFacts DEF Keep, Expire, TypeOK
<1>2. PICK t \in Addr : \E tasks : Aged(tasks) /\ Serve(t, tasks)
  <2>1. CASE Keep(c)
    <3>1. Aged(task)
      BY <1>1 DEF Aged, TypeOK
    <3> QED
      BY <2>1, <3>1 DEF Keep
  <2>2. CASE Expire(c)
    <3>1. NextOf(c) \in Addr
      BY <1>1, NextIsLive
    <3> QED
      BY <1>1, <2>2, <3>1, ExpireAges DEF Expire
  <2> QED
    BY <2>1, <2>2
<1>3. /\ UNCHANGED live
      /\ \A a \in Addr : task'[a].waiting_on = task[a].waiting_on
      /\ \A a \in Addr :
           \/ task'[a].status = task[a].status
           \/ task'[a].status = "running" /\ a = t /\ task[t].status = "created"
           \/ task[a].waiting_on = t
  BY <1>1, <1>2, ServeFrame
<1> QED
  BY <1>1, <1>3, AddressAssumption

LEMMA EndedStep ==
  ASSUME TasksInv, Next, NEW a \in live \cap live',
         task[a].status = "ended", task'[a].waiting_on = Null
  PROVE  task'[a].status = "ended"
<1>0. TypeOK /\ ProgramsInv /\ a \in Addr /\ task[a] \in Task
  BY DEF TasksInv, TypeOK
<1>1. ASSUME NEW t \in Addr, NEW b \in Addr, NEW next, TaskNew(t, b, next)
      PROVE  task'[a].status = "ended"
  <2>1. a # b
    BY <1>1 DEF TaskNew
  <2>2. task'[a] = task[a] \/ task'[a] = [task[a] EXCEPT !.next = b]
    BY <1>0, <1>1, <2>1 DEF TaskNew
  <2> QED
    BY <1>0, <2>2 DEF Task
<1>2. CASE \E t, b \in Addr : ShellExec(b) \/ Spawn(t, b) \/ SpawnToWait(t, b)
  BY <1>1, <1>2, AddressAssumption DEF ShellExec, Spawn, SpawnToWait
<1>3. CASE \E t \in Addr : EndWait(t) \/ Sleep(t) \/ Awake(t) \/ Return(t)
  <2>1. \/ task'[a] = task[a]
        \/ task'[a] = [task[a] EXCEPT !.waiting_on = child[a]]
        \/ task'[a] = [task[a] EXCEPT !.slice = "sleep"]
        \/ task'[a] = [task[a] EXCEPT !.slice = "normal"]
        \/ task'[a] = [task[a] EXCEPT !.status = "ended"]
    <3>1. PICK t \in Addr : EndWait(t) \/ Sleep(t) \/ Awake(t) \/ Return(t)
      BY <1>3
    <3>2. CASE a = t
      BY <1>0, <3>1, <3>2 DEF EndWait, Sleep, Awake, Return, TypeOK
    <3>3. CASE a # t
      BY <1>0, <3>1, <3>3 DEF EndWait, Sleep, Awake, Return, TypeOK
    <3> QED
      BY <3>2, <3>3
  <2> QED
    BY <1>0, <2>1 DEF Task
<1>4. CASE \E t \in Addr : Pause(t)
  <2>1. PICK t \in Addr : Pause(t)
    BY <1>4
  <2>2. task'[a].waiting_on = task[a].waiting_on
    BY <1>0, <2>1 DEF Pause, TypeOK, Task
  <2>3. a # t
    BY <1>0, <2>1, <2>2, AddressAssumption DEF Pause, At, ProgramsInv, Waits
  <2> QED
    BY <1>0, <2>1, <2>3 DEF Pause, TypeOK
<1>5. CASE Sigint
  BY <1>0, <1>5 DEF Sigint, TypeOK, Task
<1>6. CASE \/ Timer \/ TimerInScheduler \/ Panic \/ Restore \/ GetNext
           \/ Assign \/ \E t \in Addr : Interrupt(t) \/ Resume(t)
  BY <1>6 DEF Timer, TimerInScheduler, Panic, Restore, GetNext, Assign, Interrupt, Resume, list
<1>7. CASE \E c \in Addr : Keep(c) \/ Expire(c)
  BY <1>7, ServeWakes
<1>8. CASE Unlink
  <2>1. \/ task'[a] = [task[a] EXCEPT !.prev = task[freeing].prev]
        \/ task'[a] = [task[a] EXCEPT !.next = task[freeing].next]
        \/ task'[a] = task[a]
    BY <1>0, <1>8 DEF Unlink
  <2> QED
    BY <1>0, <2>1 DEF Task
<1> QED
  BY <1>2, <1>3, <1>4, <1>5, <1>6, <1>7, <1>8, AddressAssumption
     DEF Next, Straight, Scheduler, Free

\* A task that ended stays ended until it is freed, unless it once waited for another.
THEOREM EndedForever == Spec => EndedStaysEnded
<1>1. TasksInv /\ [Next]_vars =>
        [\A a \in live \cap live' :
           task[a].status = "ended" /\ task'[a].waiting_on = Null
             => task'[a].status = "ended"]_vars
  BY EndedStep
<1> QED
  BY <1>1, InvariantHolds, PTL DEF Spec, EndedStaysEnded

LEMMA FreedStep ==
  ASSUME TasksInv, Next, NEW c \in live \ live', NEW a \in live', task[a].waiting_on = c
  PROVE  task[a].status # "paused"
<1>1. CASE Unlink \/ Panic
  <2>1. cpu = "free" /\ c = freeing /\ a \in live
    BY <1>1 DEF Unlink, Panic
  <2>2. Deserted(freeing)
    BY <2>1 DEF TasksInv, SchedulerInv
  <2> QED
    BY <2>1, <2>2 DEF Deserted
<1>2. CASE ~(Unlink \/ Panic)
  <2>1. live \subseteq live'
    <3>1. CASE \E d \in Addr : Keep(d) \/ Expire(d)
      BY <3>1, ServeWakes
    <3>2. CASE ~\E d \in Addr : Keep(d) \/ Expire(d)
      BY <1>2, <3>2 DEF Next, Straight, Scheduler, Free, ShellExec, Spawn, SpawnToWait, TaskNew,
           EndWait, Pause, Interrupt, Resume, Assign, Sleep, Awake, Return, Sigint, Timer,
           TimerInScheduler, Restore, GetNext, list
    <3> QED
      BY <3>1, <3>2
  <2> QED
    BY <2>1
<1> QED
  BY <1>1, <1>2

\* Waiters are woken before the structure they wait for is freed.
THEOREM WaitersWoken == Spec => WokenBeforeFreed
<1>1. TasksInv /\ [Next]_vars =>
        [\A c \in live \ live', a \in live' :
           task[a].waiting_on = c => task[a].status # "paused"]_vars
  BY FreedStep
<1> QED
  BY <1>1, InvariantHolds, PTL DEF Spec, WokenBeforeFreed
=============================================================================
