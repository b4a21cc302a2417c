-------------------------------- MODULE Tasks --------------------------------
(***************************************************************************)
(* The tasks of kernel/src/sys/task.c on one x86_64 processor: the list of *)
(* task structures, the round robin scheduler that runs inside interrupt   *)
(* 0x20, task_end_wait, sleep_100, and the shell that runs each command as *)
(* a task (shell.c, shell_exec).                                           *)
(*                                                                         *)
(* A task is named by the address of its structure; a freed structure may  *)
(* be given out again.  Time is abstracted: what is left of a time slice   *)
(* is 0 or 1, where 1 means "positive" and may or may not be used up when  *)
(* the scheduler subtracts the ticks that passed.  Code between task_lock  *)
(* and task_unlock runs with interrupts off and is one step; each other    *)
(* statement that touches shared state is a step of its own, with the      *)
(* timer (and CTRL+C) possible before and after it.                        *)
(***************************************************************************)
EXTENDS Naturals, FiniteSets

CONSTANTS Addr,              \* addresses of task structures; as many tasks at most
          Shell,             \* the one kmain creates
          Null,
          WaitingPrograms,   \* commands may create a task and wait for it (testklist)
          SleepingPrograms,  \* tasks may call sleep_100
          CtrlC,             \* the user may press CTRL+C
          NestedTimer        \* the timer may fire while the scheduler frees a task

ASSUME AddressAssumption == Shell \in Addr /\ Null \notin Addr /\ IsFiniteSet(Addr)
ASSUME SwitchAssumption ==
  {WaitingPrograms, SleepingPrograms, CtrlC, NestedTimer} \subseteq BOOLEAN

VARIABLES
  task,          \* the structures, see Task; those of addresses not live are stale
  live,          \* addresses that hold an allocated task structure
  first, last,   \* task_first, task_last
  current,       \* task_current
  cpu,           \* what the processor executes, see Stages
  freeing,       \* t of task_free(t) while cpu is in one of FreeStages
  enabled,       \* interrupts are on while the scheduler runs
  inService,     \* the scheduler runs inside a hardware interrupt not yet acked
  hijacked,      \* tasks whose saved context is one of the scheduler itself
  pc,            \* where each task's program is, see Places
  child,         \* the task a program created and is to wait for
  subproc        \* shell_current_subproc

list == <<task, live, first, last>>
sched == <<current, cpu, freeing, enabled, inService, hijacked>>
programs == <<pc, child, subproc>>
vars == <<list, sched, programs>>

Opt == Addr \cup {Null}
Task == [next : Opt, prev : Opt, waiting_on : Opt,
         status : {"created", "running", "paused", "ended"},
         slice : {"normal", "sleep"},      \* time_slice
         rem : {0, 1}]                     \* time_slice_remaining is positive
FreeStages == {"free", "unlinked", "restored"}
Stages == {"task", "loop", "panic"} \cup FreeStages
Places == {"run", "sleep", "assign", "wait", "pause", "int", "woken", "over"}

Unused == [next |-> Null, prev |-> Null, waiting_on |-> Null,
           status |-> "ended", slice |-> "normal", rem |-> 0]
\* The compound literal of task_new; time_slice_remaining is not in it.
NewTask == [Unused EXCEPT !.prev = last, !.status = "created"]

\* kmain has created the shell and turned interrupts on; the first timer
\* interrupt finds no current task.
Init ==
  /\ task = [a \in Addr |-> IF a = Shell THEN [Unused EXCEPT !.status = "created"]
                                         ELSE Unused]
  /\ live = {Shell} /\ first = Shell /\ last = Shell
  /\ current = Null
  /\ cpu = "loop" /\ freeing = Null /\ enabled = FALSE /\ inService = TRUE
  /\ hijacked = {}
  /\ pc = [a \in Addr |-> "run"]
  /\ child = [a \in Addr |-> Null]
  /\ subproc = Null

-----------------------------------------------------------------------------
(* The code of the current task. *)

Running(t) == cpu = "task" /\ current = t
At(t, place) == Running(t) /\ pc[t] = place
GoTo(t, place) == pc' = [pc EXCEPT ![t] = place]

\* task_new: append a structure to the list.  The shell creates the command's
\* task, commands create tasks in the background or to wait for.
TaskNew(t, a, next) ==
  /\ a \notin live
  /\ task' = [b \in Addr |-> IF b = a THEN NewTask
                             ELSE IF b = last THEN [task[b] EXCEPT !.next = a]
                             ELSE task[b]]
  /\ live' = live \cup {a}
  /\ first' = IF first = Null THEN a ELSE first
  /\ last' = a
  /\ pc' = [pc EXCEPT ![t] = next, ![a] = "run"]
  /\ child' = [child EXCEPT ![a] = Null, ![t] = IF next = "run" THEN @ ELSE a]
  /\ UNCHANGED <<sched, subproc>>

ShellExec(a) == At(Shell, "run") /\ TaskNew(Shell, a, "assign")

IsCommand(t) == t = child[Shell]
Spawn(t, a) == IsCommand(t) /\ At(t, "run") /\ TaskNew(t, a, "run")
SpawnToWait(t, a) ==
  WaitingPrograms /\ IsCommand(t) /\ At(t, "run") /\ TaskNew(t, a, "wait")

Assign ==
  /\ At(Shell, "assign")
  /\ subproc' = child[Shell]
  /\ GoTo(Shell, "wait")
  /\ UNCHANGED <<list, sched, child>>

\* task_end_wait: three statements, none of them under task_lock.
EndWait(t) ==
  /\ At(t, "wait")
  /\ task' = [task EXCEPT ![t].waiting_on = child[t]]
  /\ GoTo(t, "pause")
  /\ UNCHANGED <<live, first, last, sched, child, subproc>>

Pause(t) ==
  /\ At(t, "pause")
  /\ task' = [task EXCEPT ![t].status = "paused"]
  /\ GoTo(t, "int")
  /\ UNCHANGED <<live, first, last, sched, child, subproc>>

\* INTERRUPT_TASK_PAUSE: the context is saved and the scheduler entered, as by
\* the timer but with no hardware interrupt in service.
Interrupt(t) ==
  /\ At(t, "int")
  /\ cpu' = "loop" /\ enabled' = FALSE /\ inService' = FALSE
  /\ GoTo(t, "woken")
  /\ UNCHANGED <<list, current, freeing, hijacked, child, subproc>>

\* Mutant: shell_current_subproc keeps the address of the finished command.
ClearedSubprocKept(t) == subproc
ClearedSubproc(t) == IF t = Shell THEN Null ELSE subproc

\* Behind task_end_wait.
Resume(t) ==
  /\ At(t, "woken")
  /\ subproc' = ClearedSubproc(t)
  /\ child' = [child EXCEPT ![t] = Null]
  /\ GoTo(t, "run")
  /\ UNCHANGED <<list, sched>>

\* sleep_100 lowers the priority while it spins, and restores it.
Sleep(t) ==
  /\ SleepingPrograms /\ t # Shell /\ At(t, "run")
  /\ task' = [task EXCEPT ![t].slice = "sleep"]
  /\ GoTo(t, "sleep")
  /\ UNCHANGED <<live, first, last, sched, child, subproc>>

Awake(t) ==
  /\ At(t, "sleep")
  /\ task' = [task EXCEPT ![t].slice = "normal"]
  /\ GoTo(t, "run")
  /\ UNCHANGED <<live, first, last, sched, child, subproc>>

\* task_run, when the task's function returns (the shell's does not).  A task
\* may also be ended because memory is exhausted: see KAlloc, not here.
Return(t) ==
  /\ t # Shell /\ At(t, "run")
  /\ task' = [task EXCEPT ![t].status = "ended"]
  /\ GoTo(t, "over")
  /\ UNCHANGED <<live, first, last, sched, child, subproc>>

\* The keyboard interrupt runs shell_sigint.  It returns to where it came from.
Interruptible == cpu = "task" \/ (cpu # "panic" /\ NestedTimer /\ enabled /\ ~inService)
Sigint ==
  /\ CtrlC /\ Interruptible
  /\ subproc # Null
  /\ task' = [task EXCEPT ![subproc].status = "ended"]
  /\ UNCHANGED <<live, first, last, sched, programs>>

-----------------------------------------------------------------------------
(* The timer and the scheduler. *)

\* The timer interrupts a task; its context is saved.
Timer ==
  /\ cpu = "task"
  /\ cpu' = "loop" /\ enabled' = FALSE /\ inService' = TRUE
  /\ UNCHANGED <<list, current, freeing, hijacked, programs>>

\* kfree's task_unlock has turned interrupts on inside the scheduler, and no
\* hardware interrupt is in service if it was entered by INTERRUPT_TASK_PAUSE.
\* A timer interrupt then starts the scheduler anew; the interrupted one is
\* saved as the context of task_current, if there is one, or forgotten.
TimerInScheduler ==
  /\ NestedTimer /\ cpu \in {"loop"} \cup FreeStages
  /\ enabled /\ ~inService
  /\ hijacked' = hijacked \cup ({current} \cap live)
  /\ cpu' = "loop" /\ enabled' = FALSE /\ inService' = TRUE
  /\ UNCHANGED <<list, current, freeing, programs>>

\* Mutant: a slice that is shifted away for every priority.
ReloadNothing(slice) == 0
\* task_time_total_available >> time_slice: shifted by 0x20 nothing is left.
Reload(slice) == IF slice = "sleep" THEN 0 ELSE 1

\* Mutant: the scheduler starts over from task_first each time.
NextOfFirst(t) == first
NextOf(t) == IF task[t].next = Null THEN first ELSE task[t].next

\* The tasks found by following next from task_first.
Walk ==
  LET nth[n \in 0 .. Cardinality(Addr)] ==
        IF n = 0 THEN first
        ELSE IF nth[n - 1] = Null THEN Null ELSE task[nth[n - 1]].next
  IN  {nth[n] : n \in DOMAIN nth} \ {Null}

\* Mutant: every paused task is woken.
WaitersPaused(tasks, t) == {a \in Walk : tasks[a].status = "paused"}
\* Mutant: task_resume is called for every task.
WaitersAll(tasks, t) == Walk
\* Mutant: the search for waiters starts behind task_first.
WaitersBehindFirst(tasks, t) == {a \in Walk \ {first} : tasks[a].waiting_on = t}
Waiters(tasks, t) == {a \in Walk : tasks[a].waiting_on = t}

\* The switch on the status of task t, with `tasks' the structures by then.
Serve(t, tasks) ==
  \/ /\ tasks[t].status = "created"
     /\ task' = [tasks EXCEPT ![t].status = "running",
                              ![t].rem = Reload(tasks[t].slice)]
     /\ current' = t
     /\ cpu' = "task"
     /\ UNCHANGED <<live, first, last, freeing, enabled, inService, hijacked>>
  \/ /\ tasks[t].status = "running"
     /\ task' = tasks
     /\ current' = t
     /\ IF t \in hijacked
        THEN cpu' = "loop" /\ enabled' = TRUE /\ inService' = FALSE
        ELSE cpu' = "task" /\ UNCHANGED <<enabled, inService>>
     /\ UNCHANGED <<live, first, last, freeing, hijacked>>
  \/ \* task_free up to its first kfree, whose task_unlock turns interrupts on
     /\ tasks[t].status = "ended"
     /\ task' = [a \in Addr |-> IF a \in Waiters(tasks, t)
                                THEN [tasks[a] EXCEPT !.status = "running"]
                                ELSE tasks[a]]
     /\ current' = Null
     /\ freeing' = t
     /\ cpu' = "free" /\ enabled' = TRUE
     /\ UNCHANGED <<live, first, last, inService, hijacked>>
  \/ /\ tasks[t].status = "paused"
     /\ task' = tasks
     /\ current' = NextOf(t)
     /\ UNCHANGED <<live, first, last, cpu, freeing, enabled, inService, hijacked>>

\* task_scheduler_start, for the task c that is current: it goes on, or its
\* time is over and the next one has its turn.
Examined(c) == cpu = "loop" /\ first # Null /\ c = (IF current = Null THEN first ELSE current)

Keep(c) ==
  /\ Examined(c)
  /\ task[c].rem = 1
  /\ Serve(c, task)
  /\ UNCHANGED programs

Expire(c) ==
  /\ Examined(c)
  /\ Serve(NextOf(c), [task EXCEPT ![c].rem = Reload(task[c].slice)])
  /\ UNCHANGED programs

-----------------------------------------------------------------------------
(* task_free, from its first kfree on. *)

\* Mutant: task_last is left behind.
NewLastStale(t) == last
NewLast(t) == IF task[t].next = Null THEN task[t].prev ELSE last

\* A task in the middle, the first, or the last one; else the kernel panics.
Unlinkable(t) ==
  \/ task[t].next # Null
  \/ task[t].prev # Null /\ t = last

Unlink ==
  LET t == freeing
  IN  /\ cpu = "free" /\ Unlinkable(t)
      /\ task' = [a \in Addr |->
                    IF a = task[t].next THEN [task[a] EXCEPT !.prev = task[t].prev]
                    ELSE IF a = task[t].prev THEN [task[a] EXCEPT !.next = task[t].next]
                    ELSE task[a]]
      /\ first' = IF task[t].prev = Null THEN task[t].next ELSE first
      /\ last' = NewLast(t)
      /\ live' = live \ {t}
      /\ cpu' = "unlinked"
      /\ UNCHANGED <<current, freeing, enabled, inService, hijacked, programs>>

\* KPANIC("No more tasks need to reload shell").
Panic ==
  /\ cpu = "free" /\ ~Unlinkable(freeing)
  /\ first' = Null /\ last' = Null
  /\ live' = live \ {freeing}
  /\ cpu' = "panic"
  /\ UNCHANGED <<task, current, freeing, enabled, inService, hijacked, programs>>

\* task_current = save, the freed task.
Restore ==
  /\ cpu = "unlinked"
  /\ current' = freeing
  /\ cpu' = "restored"
  /\ UNCHANGED <<list, freeing, enabled, inService, hijacked, programs>>

\* task_get_next reads the freed structure.
GetNext ==
  /\ cpu = "restored"
  /\ current' = NextOf(current)
  /\ cpu' = "loop" /\ freeing' = Null
  /\ UNCHANGED <<list, enabled, inService, hijacked, programs>>

-----------------------------------------------------------------------------
Straight(t) == EndWait(t) \/ Pause(t) \/ Interrupt(t) \/ Resume(t) \/ (t = Shell /\ Assign)
Free == Unlink \/ Panic \/ Restore \/ GetNext
Scheduler == Free \/ \E c \in Addr : Keep(c) \/ Expire(c)

Next ==
  \/ \E a \in Addr : ShellExec(a)
  \/ \E t, a \in Addr : Spawn(t, a) \/ SpawnToWait(t, a)
  \/ \E t \in Addr : Straight(t) \/ Sleep(t) \/ Awake(t) \/ Return(t)
  \/ Sigint
  \/ Timer \/ TimerInScheduler
  \/ Scheduler

Spec == Init /\ [][Next]_vars

(***************************************************************************)
(* Fairness.  The processor goes on executing the scheduler, and the timer *)
(* interrupts tasks.  The shell, if it gets the processor again and again, *)
(* goes on with the statements of shell_exec; nothing is assumed about the *)
(* programs.  A slice is used up after a number of visits, since each one  *)
(* takes ticks off it; a slice just reloaded, thousands of ticks, is not   *)
(* used up by the next visit every time.                                   *)
(***************************************************************************)
Fairness ==
  /\ WF_vars(Scheduler) /\ WF_vars(Timer)
  /\ SF_vars(Straight(Shell))
  /\ \A c \in Addr : SF_vars(Keep(c)) /\ SF_vars(Expire(c))

FairSpec == Spec /\ Fairness

-----------------------------------------------------------------------------
\* Types; in particular task_first and task_last are never freed structures.
TypeOK ==
  /\ task \in [Addr -> Task] /\ live \subseteq Addr
  /\ {first, last} \subseteq live \cup {Null} /\ current \in Opt
  /\ cpu \in Stages /\ freeing \in Opt
  /\ enabled \in BOOLEAN /\ inService \in BOOLEAN
  /\ hijacked \subseteq Addr
  /\ pc \in [Addr -> Places] /\ child \in [Addr -> Opt] /\ subproc \in Opt

Has(a, statuses) == a \in live /\ task[a].status \in statuses

\* The list holds exactly the live tasks, linked both ways from task_first to
\* task_last, at every point where an interrupt may come: no task is lost by an
\* unlink, and a freed structure is never linked.
ListIsLinked ==
  cpu # "panic" =>
    /\ Walk = live
    /\ first \in live /\ task[first].prev = Null
    /\ last \in live /\ task[last].next = Null
    /\ \A a \in live \ {last} : task[a].next \in live /\ task[task[a].next].prev = a

\* When the shell continues behind task_end_wait, the command has ended and will
\* not run again: the shell may free the command's arguments.  Unless the command
\* itself once waited: then task_resume may have brought it back to life.
CommandIsOver ==
  At(Shell, "woken") =>
    \/ ~Has(child[Shell], {"created", "running", "paused"})
    \/ task[child[Shell]].waiting_on # Null

\* While a command is starting, running or being freed, shell_sigint ends that
\* task or none; a background task that got the address of an earlier command
\* is never ended by CTRL+C.
SigintHitsCommand == subproc \in live => subproc = child[Shell]

\* KPANIC("No more tasks need to reload shell", task.c:222) is only reached
\* when there are no more tasks.
PanicMeansNoTasks == cpu = "panic" => live = {}

\* A task that ended stays ended until it is freed, unless it once waited for
\* another (task_resume does not look at the status it overwrites).
EndedStaysEnded ==
  [][\A a \in live \cap live' :
       task[a].status = "ended" /\ task'[a].waiting_on = Null
         => task'[a].status = "ended"]_vars

\* A structure is only freed when no paused task waits for it any more.
WokenBeforeFreed ==
  [][\A c \in live \ live', a \in live' :
       task[a].waiting_on = c => task[a].status # "paused"]_vars

-----------------------------------------------------------------------------
\* Every task that is created gets to run, or is ended before that.
CreatedTasksStart == \A a \in Addr : Has(a, {"created"}) ~> ~Has(a, {"created"})

\* The memory of a task that ended is given back.  (A task that once waited
\* itself may be revived, see EndedStaysEnded.)
EndedForGood(a) == Has(a, {"ended"}) /\ task[a].waiting_on = Null
EndedTasksAreFreed == \A a \in Addr : EndedForGood(a) ~> ~EndedForGood(a)

\* Round robin: a task that can run and does not sleep gets the processor.
Ready(a) == Has(a, {"running"}) /\ task[a].slice = "normal"
ReadyTasksRun == \A a \in Addr : Ready(a) ~> Running(a) \/ ~Ready(a)

\* Once the command it waits for is freed, the shell goes on.
ShellGoesOn ==
  (pc[Shell] \in {"pause", "int", "woken"} /\ child[Shell] \notin live)
    ~> pc[Shell] = "run"
=============================================================================
